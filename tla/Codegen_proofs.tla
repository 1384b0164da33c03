--------------------------- MODULE Codegen_proofs ---------------------------
(***************************************************************************)
(* Theorems about the code generated for functions, for every value of     *)
(* Codegen's constants.                                                    *)
(*                                                                         *)
(* What one rule does to the list of instructions is brought into a closed *)
(* form first (Inserted): where every old and every new instruction is     *)
(* afterwards.  The invariants of the list are then shown for this form,   *)
(* and of each action only its code is needed.                             *)
(***************************************************************************)
EXTENDS Codegen, Parser_proofs, WellFoundedInduction

(***************************************************************************)
(* Induction over the natural numbers, for sets of them.                   *)
(***************************************************************************)
LEMMA LeastNumber ==
  ASSUME NEW S, S \subseteq Nat, S # {}
  PROVE  \E m \in S : \A k \in S : m <= k
  <1> DEFINE R == OpToRel(<, Nat)
  <1>1. IsWellFoundedOn(R, Nat)
    BY NatLessThanWellFounded, Zenon
  <1>2. \A x, y \in Nat : <<y, x>> \in R <=> y < x
    BY DEF OpToRel
  <1> HIDE DEF R
  <1>3. PICK m \in S : \A k \in S : ~ (<<k, m>> \in R)
    BY <1>1, WFMin
  <1>4. ASSUME NEW k \in S PROVE m <= k
    <2>1. k \in Nat /\ m \in Nat /\ ~ (k < m)
      BY <1>2, <1>3
    <2> QED
      BY <2>1
  <1> QED
    BY <1>4

LEMMA Counting ==
  ASSUME NEW n \in Nat, NEW S, 0 \in S,
         \A k \in 0..(n - 1) : k \in S => k + 1 \in S
  PROVE  \A k \in 0..n : k \in S
  <1> SUFFICES ASSUME NEW j \in 0..n, j \notin S PROVE FALSE
    OBVIOUS
  <1> DEFINE T == (0..n) \ S
  <1>1. PICK m \in T : \A k \in T : m <= k
    <2>1. T \subseteq Nat /\ T # {}
      OBVIOUS
    <2> QED
      BY <2>1, LeastNumber
  <1>2. m # 0 /\ m - 1 \in 0..(n - 1) /\ m - 1 \notin T
    BY <1>1
  <1>3. m - 1 \in S /\ (m - 1) + 1 = m
    BY <1>2
  <1> QED
    BY <1>1, <1>2, <1>3

(***************************************************************************)
(* One instruction.                                                        *)
(***************************************************************************)
IsSeq(s) == \E S : s \in Seq(S)

(* The instruction x comes behind the first p ones.                        *)
Inserted(t, s, p, x) ==
  /\ IsSeq(t) /\ Len(t) = Len(s) + 1
  /\ \A i \in 1..p : t[i] = s[i]
  /\ t[p + 1] = x
  /\ \A i \in (p + 1)..Len(s) : t[i + 1] = s[i]

(* Tail is the last item.                                                  *)
Tidy(l) == IsSeq(l.items) /\ Len(l.items) \in Nat \ {0} /\ l.tail = Len(l.items)

LEMMA InsertFacts ==
  ASSUME NEW s, IsSeq(s), NEW p \in 0..Len(s), NEW x
  PROVE  Inserted(InsertAt(s, p + 1, x), s, p, x)
  <1>1. PICK S : s \in Seq(S)
    BY DEF IsSeq
  <1> DEFINE T == S \union {x}
             u == SubSeq(s, 1, p)
             v == SubSeq(s, p + 1, Len(s))
  <1>2. s \in Seq(T) /\ Len(s) \in Nat /\ p \in Nat /\ p <= Len(s)
    BY <1>1
  <1>3. /\ u \in Seq(T) /\ Len(u) = p
        /\ \A i \in 1..p : u[i] = s[i]
    <2>1. \A i \in 1..p : s[i] \in T
      BY <1>2, ElementOfSeq
    <2>2. /\ u \in Seq(T)
          /\ Len(u) = IF 1 <= p THEN p - 1 + 1 ELSE 0
          /\ \A i \in 1 .. p - 1 + 1 : u[i] = s[1 + i - 1]
      BY <1>2, <2>1, SubSeqProperties
    <2> HIDE DEF u
    <2>3. Len(u) = p /\ p - 1 + 1 = p
      BY <1>2, <2>2
    <2>4. ASSUME NEW i \in 1..p PROVE u[i] = s[i]
      <3>1. 1 + i - 1 = i
        BY <1>2
      <3> QED
        BY <2>2, <2>3, <3>1
    <2> QED
      BY <2>2, <2>3, <2>4
  <1>4. /\ v \in Seq(T) /\ Len(v) = Len(s) - p
        /\ \A i \in 1..(Len(s) - p) : v[i] = s[p + i]
    <2>1. \A i \in (p + 1)..Len(s) : s[i] \in T
      BY <1>2, ElementOfSeq
    <2>2. /\ v \in Seq(T)
          /\ Len(v) = IF p + 1 <= Len(s) THEN Len(s) - (p + 1) + 1 ELSE 0
          /\ \A i \in 1 .. Len(s) - (p + 1) + 1 : v[i] = s[p + 1 + i - 1]
      BY <1>2, <2>1, SubSeqProperties
    <2> HIDE DEF v
    <2>3. Len(v) = Len(s) - p /\ Len(s) - (p + 1) + 1 = Len(s) - p
      BY <1>2, <2>2
    <2>4. ASSUME NEW i \in 1..(Len(s) - p) PROVE v[i] = s[p + i]
      <3>1. p + 1 + i - 1 = p + i
        BY <1>2
      <3> QED
        BY <2>2, <2>3, <3>1
    <2> QED
      BY <2>2, <2>3, <2>4
  <1>5. <<x>> \in Seq(T) /\ Len(<<x>>) = 1 /\ <<x>>[1] = x
    OBVIOUS
  <1>6. InsertAt(s, p + 1, x) = u \o <<x>> \o v
    <2>1. (p + 1) - 1 = p
      BY <1>2
    <2> QED
      BY <2>1 DEF InsertAt
  <1> HIDE DEF u, v, T
  <1> DEFINE w == u \o <<x>>
  <1>7. /\ w \in Seq(T) /\ Len(w) = p + 1
        /\ \A i \in 1..(p + 1) : w[i] = IF i <= p THEN u[i] ELSE <<x>>[i - p]
    BY <1>2, <1>3, <1>5, ConcatProperties
  <1>8. w[p + 1] = x /\ \A i \in 1..p : w[i] = s[i]
    <2>1. p + 1 \in 1..(p + 1) /\ ~ (p + 1 <= p) /\ (p + 1) - p = 1
      BY <1>2
    <2>2. \A i \in 1..p : i \in 1..(p + 1) /\ i <= p
      BY <1>2
    <2> QED
      BY <1>3, <1>5, <1>7, <2>1, <2>2
  <1> HIDE DEF w
  <1> DEFINE t == w \o v
  <1>9. /\ t \in Seq(T) /\ Len(t) = Len(s) + 1
        /\ \A i \in 1..(Len(s) + 1) : t[i] = IF i <= p + 1 THEN w[i]
                                            ELSE v[i - (p + 1)]
    <2>1. Len(w) + Len(v) = Len(s) + 1
      BY <1>2, <1>4, <1>7
    <2> QED
      BY <1>4, <1>7, <2>1, ConcatProperties
  <1>10. InsertAt(s, p + 1, x) = t
    BY <1>6 DEF w
  <1> HIDE DEF t
  <1>11. t[p + 1] = x /\ \A i \in 1..p : t[i] = s[i]
    <2>1. \A i \in 1..(p + 1) : i \in 1..(Len(s) + 1) /\ i <= p + 1
      BY <1>2
    <2>2. p + 1 \in 1..(p + 1) /\ \A i \in 1..p : i \in 1..(p + 1)
      BY <1>2
    <2> QED
      BY <1>8, <1>9, <2>1, <2>2
  <1>12. ASSUME NEW i \in (p + 1)..Len(s) PROVE t[i + 1] = s[i]
    <2>1. /\ i + 1 \in 1..(Len(s) + 1) /\ ~ (i + 1 <= p + 1)
          /\ (i + 1) - (p + 1) = i - p
          /\ i - p \in 1..(Len(s) - p) /\ p + (i - p) = i
      BY <1>2
    <2> QED
      BY <1>4, <1>9, <2>1
  <1> QED
    BY <1>9, <1>10, <1>11, <1>12 DEF Inserted, IsSeq

LEMMA AppendInserts ==
  ASSUME NEW s, IsSeq(s), NEW x
  PROVE  Inserted(Append(SubSeq(s, 1, Len(s)), x), s, Len(s), x)
  <1>1. PICK S : s \in Seq(S)
    BY DEF IsSeq
  <1> DEFINE T == S \union {x}
             u == SubSeq(s, 1, Len(s))
             t == Append(s, x)
  <1>2. s \in Seq(T) /\ Len(s) \in Nat /\ x \in T
    BY <1>1
  <1>3. u = s
    <2>1. \A i \in 1..Len(s) : s[i] \in T
      BY <1>2, ElementOfSeq
    <2>2. /\ u \in Seq(T)
          /\ Len(u) = IF 1 <= Len(s) THEN Len(s) - 1 + 1 ELSE 0
          /\ \A i \in 1 .. Len(s) - 1 + 1 : u[i] = s[1 + i - 1]
      BY <1>2, <2>1, SubSeqProperties
    <2> HIDE DEF u
    <2>3. Len(u) = Len(s) /\ Len(s) - 1 + 1 = Len(s)
      BY <1>2, <2>2
    <2>4. ASSUME NEW i \in 1..Len(s) PROVE u[i] = s[i]
      <3>1. 1 + i - 1 = i
        BY <1>2
      <3> QED
        BY <2>2, <2>3, <3>1
    <2> QED
      BY <1>2, <2>2, <2>3, <2>4, SeqEqual
  <1> HIDE DEF T
  <1>4. /\ t \in Seq(T) /\ Len(t) = Len(s) + 1 /\ t[Len(s) + 1] = x
        /\ \A i \in 1..Len(s) : t[i] = s[i]
    BY <1>2, AppendFacts
  <1>5. Append(u, x) = t /\ (Len(s) + 1)..Len(s) = {}
    BY <1>2, <1>3
  <1> HIDE DEF t, u
  <1> QED
    BY <1>4, <1>5 DEF Inserted, IsSeq

(* Behind which item an instruction is put.                                *)
PlaceOf(l, b, x) == IF x.hoist THEN b ELSE Len(l.items)

LEMMA EmitFacts ==
  ASSUME NEW l, Tidy(l), NEW b \in Nat, NEW x, b <= l.tail,
         x.hoist => b < l.tail
  PROVE  LET r == Emit(l, b, x) IN
         /\ Inserted(r.items, l.items, PlaceOf(l, b, x), x)
         /\ Tidy(r) /\ b < r.tail /\ r.tail = l.tail + 1
  <1> DEFINE r == Emit(l, b, x)
             p == PlaceOf(l, b, x)
  <1>1. /\ IsSeq(l.items) /\ Len(l.items) \in Nat /\ l.tail = Len(l.items)
        /\ p \in 0..Len(l.items)
    BY DEF Tidy, PlaceOf
  <1>2. Inserted(r.items, l.items, p, x) /\ r.tail = l.tail + 1
    <2>1. CASE x.hoist
      <3>1. r = [items |-> InsertAt(l.items, b + 1, x), tail |-> l.tail + 1]
        BY <2>1 DEF Emit, LInsert_after
      <3>2. p = b
        BY <2>1 DEF PlaceOf
      <3> HIDE DEF r, p
      <3>3. r.items = InsertAt(l.items, b + 1, x) /\ r.tail = l.tail + 1
        BY <3>1
      <3> QED
        BY <1>1, <3>2, <3>3, InsertFacts
    <2>2. CASE ~ x.hoist
      <3>1. r = [items |-> Append(SubSeq(l.items, 1, Len(l.items)), x),
                 tail |-> l.tail + 1]
        BY <1>1, <2>2 DEF Emit, LAppend
      <3>2. p = Len(l.items)
        BY <2>2 DEF PlaceOf
      <3> HIDE DEF r, p
      <3>3. /\ r.items = Append(SubSeq(l.items, 1, Len(l.items)), x)
            /\ r.tail = l.tail + 1
        BY <3>1
      <3> QED
        BY <1>1, <3>2, <3>3, AppendInserts
    <2> QED
      BY <2>1, <2>2
  <1> HIDE DEF r, p
  <1>3. IsSeq(r.items) /\ Len(r.items) = Len(l.items) + 1
    BY <1>2 DEF Inserted
  <1>4. Tidy(r) /\ b < r.tail
    BY <1>1, <1>2, <1>3 DEF Tidy
  <1> QED
    BY <1>2, <1>4 DEF r, p

(***************************************************************************)
(* The code of one rule.                                                   *)
(***************************************************************************)
LEMMA EmitAllSteps ==
  ASSUME NEW l, NEW b, NEW code, Len(code) \in Nat
  PROVE  \E a : /\ a[0] = l
                /\ \A i \in 1..Len(code) : a[i] = Emit(a[i-1], b, code[i])
                /\ EmitAll(l, b, code) = a[Len(code)]
  <1> DEFINE n == Len(code)
             E(r, i) == Emit(r, b, code[i])
             Spelt(g, k) == [i \in 0..k |-> IF i = 0 THEN l ELSE E(g[i-1], i)]
             S == {k \in Nat : \E g : g = Spelt(g, k)}
  <1> HIDE DEF E
  <1>1. 0 \in S
    <2>1. [i \in 0..0 |-> l] = Spelt([i \in 0..0 |-> l], 0)
      OBVIOUS
    <2> QED
      BY <2>1
  <1>2. ASSUME NEW k \in Nat, k \in S PROVE k + 1 \in S
    <2>1. PICK g : g = Spelt(g, k)
      BY <1>2
    <2> DEFINE h == [i \in 0..(k + 1) |-> IF i <= k THEN g[i] ELSE E(g[k], k + 1)]
    <2>2. ASSUME NEW i \in 0..(k + 1)
          PROVE  h[i] = IF i = 0 THEN l ELSE E(h[i-1], i)
      <3>1. CASE i = 0
        BY <2>1, <3>1
      <3>2. CASE i # 0 /\ i <= k
        <4>1. i \in 0..k /\ i - 1 \in 0..(k + 1) /\ i - 1 <= k
          BY <3>2
        <4>2. g[i] = E(g[i-1], i)
          BY <2>1, <3>2, <4>1
        <4> QED
          BY <3>2, <4>1, <4>2
      <3>3. CASE i = k + 1
        <4>1. i - 1 = k /\ k \in 0..(k + 1) /\ i # 0 /\ ~ (i <= k)
          BY <3>3
        <4> QED
          BY <3>3, <4>1
      <3> QED
        BY <3>1, <3>2, <3>3
    <2>3. h = [i \in 0..(k + 1) |-> h[i]]
      OBVIOUS
    <2> HIDE DEF h
    <2>4. h = Spelt(h, k + 1)
      BY <2>2, <2>3
    <2> QED
      BY <2>4
  <1>3. n \in S
    <2> HIDE DEF S
    <2>1. \A k \in 0..n : k \in S
      BY <1>1, <1>2, Counting
    <2> QED
      BY <2>1
  <1> DEFINE f == CHOOSE g : g = Spelt(g, n)
  <1>4. EmitAll(l, b, code) = f[n]
    BY Zenon DEF EmitAll, E
  <1>5. f = Spelt(f, n)
    <2>1. \E g : g = Spelt(g, n)
      BY <1>3
    <2> HIDE DEF Spelt
    <2> QED
      BY <2>1, Zenon
  <1> HIDE DEF f
  <1>6. f[0] = l /\ \A i \in 1..n : f[i] = Emit(f[i-1], b, code[i])
    BY <1>5 DEF E
  <1> QED
    BY <1>4, <1>6

(* The list, the position and the code: if the position is the tail, the   *)
(* first instruction is appended.                                          *)
Ready(l, b, code) ==
  /\ Tidy(l) /\ b \in Nat /\ b <= l.tail /\ Len(code) \in Nat
  /\ b = l.tail => Len(code) > 0 /\ ~ code[1].hoist

(* One instruction after the other is inserted.                            *)
Insertions(a, b, code) ==
  \A i \in 1..Len(code) :
    /\ IsSeq(a[i-1].items) /\ Len(a[i-1].items) \in Nat
    /\ b \in 0..Len(a[i-1].items)
    /\ Inserted(a[i].items, a[i-1].items, PlaceOf(a[i-1], b, code[i]), code[i])

LEMMA EmitAllFacts ==
  ASSUME NEW l, NEW b, NEW code, Ready(l, b, code)
  PROVE  /\ Tidy(EmitAll(l, b, code)) /\ b < EmitAll(l, b, code).tail
         /\ \E a : /\ a[0] = l /\ EmitAll(l, b, code) = a[Len(code)]
                   /\ Insertions(a, b, code)
  <1> DEFINE n == Len(code)
  <1>1. /\ Tidy(l) /\ b \in Nat /\ b <= l.tail /\ n \in Nat
        /\ b = l.tail => n > 0 /\ ~ code[1].hoist
    BY DEF Ready
  <1>2. PICK a : /\ a[0] = l /\ EmitAll(l, b, code) = a[n]
                 /\ \A i \in 1..n : a[i] = Emit(a[i-1], b, code[i])
    BY <1>1, EmitAllSteps
  <1> DEFINE Before(k) == /\ Tidy(a[k]) /\ b <= a[k].tail
                          /\ b = a[k].tail => k = 0 /\ b = l.tail
             Step(k) ==
               Inserted(a[k].items, a[k-1].items, PlaceOf(a[k-1], b, code[k]), code[k])
             S == {k \in Nat : Before(k)}
  <1> HIDE DEF n
  <1>3. ASSUME NEW k \in 0..(n - 1), Before(k)
        PROVE  Before(k + 1) /\ Step(k + 1) /\ (code[k + 1].hoist => b < a[k].tail)
    <2>1. k + 1 \in 1..n /\ (k + 1) - 1 = k /\ k \in Nat
      BY <1>1
    <2>2. a[k + 1] = Emit(a[k], b, code[k + 1])
      BY <1>2, <2>1
    <2>3. code[k + 1].hoist => b < a[k].tail
      <3>1. CASE b = a[k].tail
        <4>1. ~ code[k + 1].hoist
          BY <1>1, <1>3, <3>1
        <4> QED
          BY <4>1
      <3>2. CASE b # a[k].tail
        BY <1>1, <1>3, <3>2 DEF Tidy
      <3> QED
        BY <3>1, <3>2
    <2>4. /\ Inserted(a[k + 1].items, a[k].items, PlaceOf(a[k], b, code[k + 1]),
                      code[k + 1])
          /\ Tidy(a[k + 1]) /\ b < a[k + 1].tail
      BY <1>1, <1>3, <2>2, <2>3, EmitFacts
    <2>5. b <= a[k + 1].tail /\ b # a[k + 1].tail
      BY <1>1, <2>4 DEF Tidy
    <2> QED
      BY <2>1, <2>3, <2>4, <2>5
  <1>4. \A k \in 0..n : Before(k)
    <2>1. 0 \in S
      BY <1>1, <1>2
    <2>2. \A k \in 0..(n - 1) : k \in S => k + 1 \in S
      BY <1>1, <1>3
    <2> HIDE DEF S
    <2>3. \A k \in 0..n : k \in S
      BY <1>1, <2>1, <2>2, Counting
    <2> QED
      BY <2>3 DEF S
  <1>5. Tidy(a[n]) /\ b < a[n].tail
    <2>1. Before(n)
      BY <1>1, <1>4
    <2> QED
      BY <1>1, <2>1 DEF Tidy
  <1>6. Insertions(a, b, code)
    <2> SUFFICES ASSUME NEW i \in 1..n
                 PROVE  /\ IsSeq(a[i-1].items) /\ Len(a[i-1].items) \in Nat
                        /\ b \in 0..Len(a[i-1].items)
                        /\ Step(i)
      BY DEF Insertions, n
    <2>1. i - 1 \in 0..(n - 1) /\ i - 1 \in 0..n /\ (i - 1) + 1 = i
      BY <1>1
    <2>2. Before(i - 1)
      BY <1>4, <2>1
    <2>3. Step(i) /\ (code[i].hoist => b < a[i-1].tail)
      BY <1>3, <2>1, <2>2
    <2> QED
      BY <1>1, <2>2, <2>3 DEF Tidy
  <1> QED
    BY <1>2, <1>5, <1>6 DEF n

(***************************************************************************)
(* The code of a rule, instruction by instruction.                         *)
(***************************************************************************)
LEMMA ConcatFacts ==
  ASSUME NEW c, NEW d, IsSeq(c), IsSeq(d)
  PROVE  /\ IsSeq(c \o d) /\ Len(c \o d) = Len(c) + Len(d)
         /\ Len(c) \in Nat /\ Len(d) \in Nat
         /\ \A i \in 1..Len(c) : (c \o d)[i] = c[i]
         /\ \A i \in 1..Len(d) : (c \o d)[Len(c) + i] = d[i]
  <1>1. PICK S : c \in Seq(S)
    BY DEF IsSeq
  <1>2. PICK T : d \in Seq(T)
    BY DEF IsSeq
  <1> DEFINE U == S \union T
             e == c \o d
  <1>3. c \in Seq(U) /\ d \in Seq(U) /\ Len(c) \in Nat /\ Len(d) \in Nat
    BY <1>1, <1>2
  <1> HIDE DEF U
  <1>4. /\ e \in Seq(U) /\ Len(e) = Len(c) + Len(d)
        /\ \A i \in 1..(Len(c) + Len(d)) :
             e[i] = IF i <= Len(c) THEN c[i] ELSE d[i - Len(c)]
    BY <1>3, ConcatProperties
  <1> HIDE DEF e
  <1>5. \A i \in 1..Len(c) : e[i] = c[i]
    BY <1>3, <1>4
  <1>6. ASSUME NEW i \in 1..Len(d) PROVE e[Len(c) + i] = d[i]
    <2>1. /\ Len(c) + i \in 1..(Len(c) + Len(d)) /\ ~ (Len(c) + i <= Len(c))
          /\ (Len(c) + i) - Len(c) = i
      BY <1>3
    <2> QED
      BY <1>4, <2>1
  <1> QED
    BY <1>3, <1>4, <1>5, <1>6 DEF IsSeq, e

LEMMA TupleFacts ==
  ASSUME NEW x, NEW y, NEW z
  PROVE  /\ IsSeq(<<>>) /\ IsSeq(<<x>>) /\ IsSeq(<<x, y>>) /\ IsSeq(<<x, y, z>>)
         /\ Len(<<>>) = 0 /\ Len(<<x>>) = 1 /\ Len(<<x, y>>) = 2
         /\ Len(<<x, y, z>>) = 3
  <1>1. /\ <<>> \in Seq({}) /\ <<x>> \in Seq({x}) /\ <<x, y>> \in Seq({x, y})
        /\ <<x, y, z>> \in Seq({x, y, z})
    OBVIOUS
  <1> QED
    BY <1>1 DEF IsSeq

(* What a sequence with one or two more instructions is.                   *)
LEMMA OneMore ==
  ASSUME NEW c, IsSeq(c), NEW x
  PROVE  /\ IsSeq(c \o <<x>>) /\ Len(c \o <<x>>) = Len(c) + 1
         /\ \A i \in 1..Len(c) : (c \o <<x>>)[i] = c[i]
         /\ (c \o <<x>>)[Len(c) + 1] = x
  <1> DEFINE d == <<x>>
  <1>1. IsSeq(d) /\ Len(d) = 1
    BY TupleFacts
  <1>2. d[1] = x /\ 1 \in 1..1
    OBVIOUS
  <1> HIDE DEF d
  <1> DEFINE e == c \o d
  <1>3. /\ IsSeq(e) /\ Len(e) = Len(c) + Len(d)
        /\ \A i \in 1..Len(c) : e[i] = c[i]
        /\ \A i \in 1..Len(d) : e[Len(c) + i] = d[i]
    <2>1. IsSeq(c) /\ IsSeq(d)
      BY <1>1
    <2> QED
      BY ONLY <2>1, ConcatFacts DEF e
  <1> HIDE DEF e
  <1>4. Len(e) = Len(c) + 1 /\ e[Len(c) + 1] = x
    BY <1>1, <1>2, <1>3
  <1> QED
    BY <1>3, <1>4 DEF d, e

LEMMA TwoMore ==
  ASSUME NEW c, NEW d, IsSeq(c), IsSeq(d), Len(d) = 2
  PROVE  /\ IsSeq(c \o d) /\ Len(c \o d) = Len(c) + 2
         /\ \A i \in 1..Len(c) : (c \o d)[i] = c[i]
         /\ (c \o d)[Len(c) + 1] = d[1]
         /\ (c \o d)[Len(c) + 2] = d[2]
  <1> DEFINE e == c \o d
  <1>1. /\ IsSeq(e) /\ Len(e) = Len(c) + Len(d)
        /\ \A i \in 1..Len(c) : e[i] = c[i]
        /\ \A i \in 1..Len(d) : e[Len(c) + i] = d[i]
    <2>1. IsSeq(c) /\ IsSeq(d)
      OBVIOUS
    <2> QED
      BY ONLY <2>1, ConcatFacts DEF e
  <1> HIDE DEF e
  <1>2. 1 \in 1..Len(d) /\ 2 \in 1..Len(d)
    OBVIOUS
  <1>3. e[Len(c) + 1] = d[1] /\ e[Len(c) + 2] = d[2]
    BY <1>1, <1>2
  <1> QED
    BY <1>1, <1>3 DEF e

LEMMA ForVarFacts ==
  ASSUME NEW v
  PROVE  /\ IsSeq(ForVar(v)) /\ Len(ForVar(v)) = 2
         /\ ForVar(v)[1] = Defvar(v) /\ ForVar(v)[2] = Instr("USE", v)
  <1> DEFINE x == Defvar(v)
             y == Instr("USE", v)
  <1>1. ForVar(v) = <<x, y>>
    BY DEF ForVar
  <1> HIDE DEF x, y
  <1>2. IsSeq(<<x, y>>) /\ Len(<<x, y>>) = 2
    BY TupleFacts
  <1>3. <<x, y>>[1] = x /\ <<x, y>>[2] = y
    OBVIOUS
  <1> QED
    BY <1>1, <1>2, <1>3 DEF x, y

LEMMA ForHeaderFacts ==
  ASSUME NEW uid, NEW x
  PROVE  LET c  == ForHeader(uid, x)
             v1 == Var(uid, x)
             v2 == <<"terminating_cond", uid, NoName>>
             v3 == <<"step", uid, NoName>>
             v4 == <<"for", uid, x>>
         IN /\ IsSeq(c) /\ Len(c) = 10
            /\ c[1] = Other /\ c[4] = Other /\ c[7] = Other
            /\ c[2] = Defvar(v1) /\ c[3] = Instr("USE", v1)
            /\ c[5] = Defvar(v2) /\ c[6] = Instr("USE", v2)
            /\ c[8] = Defvar(v3) /\ c[9] = Instr("USE", v3)
            /\ c[10] = Defvar(v4)
  <1> DEFINE v1 == Var(uid, x)
             v2 == <<"terminating_cond", uid, NoName>>
             v3 == <<"step", uid, NoName>>
             v4 == <<"for", uid, x>>
             Use(v) == Instr("USE", v)
             Create(v) == Defvar(v)
             c1 == <<Other>>
             c3 == c1 \o ForVar(v1)
             c4 == c3 \o <<Other>>
             c6 == c4 \o ForVar(v2)
             c7 == c6 \o <<Other>>
             c9 == c7 \o ForVar(v3)
             c10 == c9 \o <<Create(v4)>>
  <1>1. ForHeader(uid, x) = c10
    BY DEF ForHeader
  <1>0. \A v : /\ IsSeq(ForVar(v)) /\ Len(ForVar(v)) = 2
               /\ ForVar(v)[1] = Create(v) /\ ForVar(v)[2] = Use(v)
    BY ForVarFacts
  <1> HIDE DEF v1, v2, v3, v4, Use, Create
  <1>2. c1[1] = Other
    OBVIOUS
  <1>3. IsSeq(c1) /\ Len(c1) = 1
    BY TupleFacts
  <1> HIDE DEF c1
  <1>4. /\ IsSeq(c3) /\ Len(c3) = 3 /\ \A i \in 1..1 : c3[i] = c1[i]
        /\ c3[2] = Create(v1) /\ c3[3] = Use(v1)
    <2>1. /\ IsSeq(c3) /\ Len(c3) = Len(c1) + 2
          /\ \A i \in 1..Len(c1) : c3[i] = c1[i]
          /\ c3[Len(c1) + 1] = Create(v1) /\ c3[Len(c1) + 2] = Use(v1)
      <3> DEFINE d == ForVar(v1)
      <3>1. /\ IsSeq(d) /\ Len(d) = 2
            /\ d[1] = Create(v1) /\ d[2] = Use(v1)
        BY ONLY <1>0
      <3> HIDE DEF d
      <3>2. /\ IsSeq(c1 \o d) /\ Len(c1 \o d) = Len(c1) + 2
            /\ \A i \in 1..Len(c1) : (c1 \o d)[i] = c1[i]
            /\ (c1 \o d)[Len(c1) + 1] = d[1]
            /\ (c1 \o d)[Len(c1) + 2] = d[2]
        BY ONLY <1>3, <3>1, TwoMore
      <3>3. c3 = c1 \o d
        BY DEF c3, d
      <3> QED
        BY ONLY <3>1, <3>2, <3>3
    <2> HIDE DEF c3
    <2> QED
      BY <1>3, <2>1
  <1> HIDE DEF c3
  <1>5. /\ IsSeq(c4) /\ Len(c4) = 4 /\ \A i \in 1..3 : c4[i] = c3[i]
        /\ c4[4] = Other
    <2>1. /\ IsSeq(c4) /\ Len(c4) = Len(c3) + 1
          /\ \A i \in 1..Len(c3) : c4[i] = c3[i]
          /\ c4[Len(c3) + 1] = Other
      BY ONLY <1>4, OneMore DEF c4
    <2> HIDE DEF c4
    <2> QED
      BY <1>4, <2>1
  <1> HIDE DEF c4
  <1>6. /\ IsSeq(c6) /\ Len(c6) = 6 /\ \A i \in 1..4 : c6[i] = c4[i]
        /\ c6[5] = Create(v2) /\ c6[6] = Use(v2)
    <2>1. /\ IsSeq(c6) /\ Len(c6) = Len(c4) + 2
          /\ \A i \in 1..Len(c4) : c6[i] = c4[i]
          /\ c6[Len(c4) + 1] = Create(v2) /\ c6[Len(c4) + 2] = Use(v2)
      <3> DEFINE d == ForVar(v2)
      <3>1. /\ IsSeq(d) /\ Len(d) = 2
            /\ d[1] = Create(v2) /\ d[2] = Use(v2)
        BY ONLY <1>0
      <3> HIDE DEF d
      <3>2. /\ IsSeq(c4 \o d) /\ Len(c4 \o d) = Len(c4) + 2
            /\ \A i \in 1..Len(c4) : (c4 \o d)[i] = c4[i]
            /\ (c4 \o d)[Len(c4) + 1] = d[1]
            /\ (c4 \o d)[Len(c4) + 2] = d[2]
        BY ONLY <1>5, <3>1, TwoMore
      <3>3. c6 = c4 \o d
        BY DEF c6, d
      <3> QED
        BY ONLY <3>1, <3>2, <3>3
    <2> HIDE DEF c6
    <2> QED
      BY <1>5, <2>1
  <1> HIDE DEF c6
  <1>7. /\ IsSeq(c7) /\ Len(c7) = 7 /\ \A i \in 1..6 : c7[i] = c6[i]
        /\ c7[7] = Other
    <2>1. /\ IsSeq(c7) /\ Len(c7) = Len(c6) + 1
          /\ \A i \in 1..Len(c6) : c7[i] = c6[i]
          /\ c7[Len(c6) + 1] = Other
      BY ONLY <1>6, OneMore DEF c7
    <2> HIDE DEF c7
    <2> QED
      BY <1>6, <2>1
  <1> HIDE DEF c7
  <1>8. /\ IsSeq(c9) /\ Len(c9) = 9 /\ \A i \in 1..7 : c9[i] = c7[i]
        /\ c9[8] = Create(v3) /\ c9[9] = Use(v3)
    <2>1. /\ IsSeq(c9) /\ Len(c9) = Len(c7) + 2
          /\ \A i \in 1..Len(c7) : c9[i] = c7[i]
          /\ c9[Len(c7) + 1] = Create(v3) /\ c9[Len(c7) + 2] = Use(v3)
      <3> DEFINE d == ForVar(v3)
      <3>1. /\ IsSeq(d) /\ Len(d) = 2
            /\ d[1] = Create(v3) /\ d[2] = Use(v3)
        BY ONLY <1>0
      <3> HIDE DEF d
      <3>2. /\ IsSeq(c7 \o d) /\ Len(c7 \o d) = Len(c7) + 2
            /\ \A i \in 1..Len(c7) : (c7 \o d)[i] = c7[i]
            /\ (c7 \o d)[Len(c7) + 1] = d[1]
            /\ (c7 \o d)[Len(c7) + 2] = d[2]
        BY ONLY <1>7, <3>1, TwoMore
      <3>3. c9 = c7 \o d
        BY DEF c9, d
      <3> QED
        BY ONLY <3>1, <3>2, <3>3
    <2> HIDE DEF c9
    <2> QED
      BY <1>7, <2>1
  <1> HIDE DEF c9
  <1>9. /\ IsSeq(c10) /\ Len(c10) = 10 /\ \A i \in 1..9 : c10[i] = c9[i]
        /\ c10[10] = Create(v4)
    <2>1. /\ IsSeq(c10) /\ Len(c10) = Len(c9) + 1
          /\ \A i \in 1..Len(c9) : c10[i] = c9[i]
          /\ c10[Len(c9) + 1] = Create(v4)
      BY ONLY <1>8, OneMore DEF c10
    <2> HIDE DEF c10
    <2> QED
      BY <1>8, <2>1
  <1> HIDE DEF c10
  <1>10. /\ c10[1] = Other /\ c10[4] = Other /\ c10[7] = Other
         /\ c10[2] = Create(v1) /\ c10[3] = Use(v1)
         /\ c10[5] = Create(v2) /\ c10[6] = Use(v2)
         /\ c10[8] = Create(v3) /\ c10[9] = Use(v3)
    BY <1>2, <1>4, <1>5, <1>6, <1>7, <1>8, <1>9
  <1> QED
    BY <1>1, <1>9, <1>10 DEF v1, v2, v3, v4, Use, Create

(***************************************************************************)
(* Functions in a list.                                                    *)
(***************************************************************************)
Begins(x) == x.op = "LABEL" /\ x.arg[1] = "func"

Starts(s) == {h \in 1..Len(s) : Begins(s[h])}

(* The places i and j are in the same function, i is in the last one.      *)
Together(s, i, j) == \A h \in Starts(s) : h <= i <=> h <= j
Current(s, i)     == \A h \in Starts(s) : h <= i

(* Where the i-th item is when one is put behind the p-th.                 *)
Shift(i, p) == IF i <= p THEN i ELSE i + 1

LEMMA ShiftOrder ==
  ASSUME NEW i \in Nat, NEW j \in Nat, NEW p \in Nat
  PROVE  /\ i < j <=> Shift(i, p) < Shift(j, p)
         /\ i = j <=> Shift(i, p) = Shift(j, p)
         /\ i <= p <=> Shift(i, p) <= p + 1
         /\ Shift(i, p) # p + 1
  BY DEF Shift

LEMMA ShiftFacts ==
  ASSUME NEW s, NEW t, NEW p, NEW x, Len(s) \in Nat, p \in 0..Len(s),
         Inserted(t, s, p, x)
  PROVE  /\ Len(t) = Len(s) + 1 /\ t[p + 1] = x /\ p + 1 \in 1..Len(t)
         /\ \A i \in 1..Len(s) : Shift(i, p) \in 1..Len(t) /\ t[Shift(i, p)] = s[i]
         /\ \A k \in 1..Len(t) : k # p + 1 => \E i \in 1..Len(s) : k = Shift(i, p)
  <1>1. /\ Len(t) = Len(s) + 1 /\ t[p + 1] = x /\ p \in Nat
        /\ \A i \in 1..p : t[i] = s[i]
        /\ \A i \in (p + 1)..Len(s) : t[i + 1] = s[i]
    BY DEF Inserted
  <1>2. ASSUME NEW i \in 1..Len(s)
        PROVE  Shift(i, p) \in 1..Len(t) /\ t[Shift(i, p)] = s[i]
    BY <1>1 DEF Shift
  <1>3. ASSUME NEW k \in 1..Len(t), k # p + 1
        PROVE  \E i \in 1..Len(s) : k = Shift(i, p)
    <2>1. CASE k <= p
      BY <1>1, <2>1 DEF Shift
    <2>2. CASE k > p + 1
      <3>1. k - 1 \in 1..Len(s) /\ ~ (k - 1 <= p) /\ (k - 1) + 1 = k
        BY <1>1, <2>2
      <3> QED
        BY <3>1 DEF Shift
    <2> QED
      BY <1>1, <1>3, <2>1, <2>2
  <1>4. p + 1 \in 1..Len(t)
    BY <1>1
  <1> QED
    BY <1>1, <1>2, <1>3, <1>4

(* An instruction that begins no function leaves all others in theirs.     *)
LEMMA StartsShift ==
  ASSUME NEW s, NEW t, NEW p, NEW x, Len(s) \in Nat, p \in 0..Len(s),
         Inserted(t, s, p, x), ~ Begins(x)
  PROVE  /\ \A i, j \in 1..Len(s) :
               Together(s, i, j) => Together(t, Shift(i, p), Shift(j, p))
         /\ \A i \in 1..Len(s) : Current(s, i) => Current(t, Shift(i, p))
         /\ Current(s, p) => Current(t, p + 1)
         /\ \A i \in 0..p : Current(s, i) => Current(t, i)
  <1>1. ASSUME NEW k \in Starts(t)
        PROVE  \E h \in Starts(s) : k = Shift(h, p)
    <2>1. k # p + 1 /\ k \in 1..Len(t) /\ Begins(t[k])
      BY ShiftFacts DEF Starts
    <2>2. PICK h \in 1..Len(s) : k = Shift(h, p)
      BY <2>1, ShiftFacts
    <2>3. Begins(s[h])
      BY <2>1, <2>2, ShiftFacts
    <2> QED
      BY <2>2, <2>3 DEF Starts
  <1>2. Starts(s) \subseteq 1..Len(s)
    BY DEF Starts
  <1>3. ASSUME NEW i \in 1..Len(s), NEW j \in 1..Len(s), Together(s, i, j)
        PROVE  Together(t, Shift(i, p), Shift(j, p))
    <2> SUFFICES ASSUME NEW k \in Starts(t)
                 PROVE  k <= Shift(i, p) <=> k <= Shift(j, p)
      BY DEF Together
    <2>1. PICK h \in Starts(s) : k = Shift(h, p)
      BY <1>1
    <2>2. h <= i <=> h <= j
      BY <1>3 DEF Together
    <2> QED
      BY <1>2, <2>1, <2>2 DEF Shift
  <1>4. ASSUME NEW i \in 1..Len(s), Current(s, i)
        PROVE  Current(t, Shift(i, p))
    <2> SUFFICES ASSUME NEW k \in Starts(t)
                 PROVE  k <= Shift(i, p)
      BY DEF Current
    <2>1. PICK h \in Starts(s) : k = Shift(h, p)
      BY <1>1
    <2>2. h <= i
      BY <1>4 DEF Current
    <2> QED
      BY <1>2, <2>1, <2>2 DEF Shift
  <1>5. ASSUME Current(s, p)
        PROVE  Current(t, p + 1)
    <2> SUFFICES ASSUME NEW k \in Starts(t)
                 PROVE  k <= p + 1
      BY DEF Current
    <2>1. PICK h \in Starts(s) : k = Shift(h, p)
      BY <1>1
    <2>2. h <= p
      BY <1>5 DEF Current
    <2> QED
      BY <1>2, <2>1, <2>2 DEF Shift
  <1>6. ASSUME NEW i \in 0..p, Current(s, i)
        PROVE  Current(t, i)
    <2> SUFFICES ASSUME NEW k \in Starts(t)
                 PROVE  k <= i
      BY DEF Current
    <2>1. PICK h \in Starts(s) : k = Shift(h, p)
      BY <1>1
    <2>2. h <= i
      BY <1>6 DEF Current
    <2> QED
      BY <1>2, <2>1, <2>2 DEF Shift
  <1> QED
    BY <1>3, <1>4, <1>5, <1>6

(* One that does is appended, and the others stay in theirs.               *)
LEMMA StartsAppend ==
  ASSUME NEW s, NEW t, NEW x, Len(s) \in Nat,
         Inserted(t, s, Len(s), x), Begins(x)
  PROVE  \A i, j \in 1..Len(s) : Together(s, i, j) => Together(t, i, j)
  <1> SUFFICES ASSUME NEW i \in 1..Len(s), NEW j \in 1..Len(s), Together(s, i, j),
                      NEW k \in Starts(t)
               PROVE  k <= i <=> k <= j
    BY DEF Together
  <1>1. k \in 1..Len(t) /\ Begins(t[k]) /\ Len(t) = Len(s) + 1
    BY DEF Starts, Inserted
  <1>2. CASE k = Len(s) + 1
    BY <1>2
  <1>3. CASE k \in 1..Len(s)
    <2>1. t[k] = s[k]
      BY <1>3 DEF Inserted
    <2>2. k \in Starts(s)
      BY <1>1, <1>3, <2>1 DEF Starts
    <2> QED
      BY <2>2 DEF Together
  <1> QED
    BY <1>1, <1>2, <1>3

(***************************************************************************)
(* Variables in a list.                                                    *)
(***************************************************************************)
Creates(x) == x.op = "DEFVAR"
Uses(x)    == x.op \in {"MOVE", "USE"}

(* The variable the k-th item writes to is created before it, in the same  *)
(* function.                                                               *)
CreatedFor(s, k) ==
  \E m \in 1..Len(s) : /\ m < k
                       /\ Creates(s[m]) /\ s[m].arg = s[k].arg
                       /\ Together(s, m, k)

Prepared(s) == \A k \in 1..Len(s) : Uses(s[k]) => CreatedFor(s, k)

(* The variable v is created in the last function.                         *)
HasVariable(s, v) ==
  \E m \in 1..Len(s) : Creates(s[m]) /\ s[m].arg = v /\ Current(s, m)

LEMMA LastIsCurrent ==
  ASSUME NEW s, Len(s) \in Nat
  PROVE  Current(s, Len(s))
  BY DEF Current, Starts

(* One instruction.                                                        *)
LEMMA PreparedStep ==
  ASSUME NEW s, NEW t, NEW p, NEW x, Len(s) \in Nat, p \in 0..Len(s),
         Inserted(t, s, p, x), ~ Begins(x), Prepared(s),
         Uses(x) => p = Len(s) /\ HasVariable(s, x.arg),
         Creates(x) => Current(s, p)
  PROVE  /\ Prepared(t)
         /\ \A v : HasVariable(s, v) => HasVariable(t, v)
         /\ Creates(x) => HasVariable(t, x.arg)
  <1>1. /\ Len(t) = Len(s) + 1 /\ t[p + 1] = x /\ p + 1 \in 1..Len(t)
        /\ \A i \in 1..Len(s) : Shift(i, p) \in 1..Len(t) /\ t[Shift(i, p)] = s[i]
        /\ \A k \in 1..Len(t) : k # p + 1 => \E i \in 1..Len(s) : k = Shift(i, p)
    BY ShiftFacts
  <1>2. /\ \A i, j \in 1..Len(s) :
              Together(s, i, j) => Together(t, Shift(i, p), Shift(j, p))
        /\ \A i \in 1..Len(s) : Current(s, i) => Current(t, Shift(i, p))
        /\ Current(s, p) => Current(t, p + 1)
    BY StartsShift
  <1>3. ASSUME NEW v, HasVariable(s, v) PROVE HasVariable(t, v)
    <2>1. PICK m \in 1..Len(s) : Creates(s[m]) /\ s[m].arg = v /\ Current(s, m)
      BY <1>3 DEF HasVariable
    <2>2. /\ Shift(m, p) \in 1..Len(t) /\ t[Shift(m, p)] = s[m]
          /\ Current(t, Shift(m, p))
      BY <1>1, <1>2, <2>1
    <2> QED
      BY <2>1, <2>2 DEF HasVariable
  <1>4. ASSUME NEW k \in 1..Len(t), Uses(t[k]) PROVE CreatedFor(t, k)
    <2>1. CASE k = p + 1
      <3>1. p = Len(s) /\ HasVariable(s, x.arg)
        BY <1>1, <1>4, <2>1
      <3>2. PICK m \in 1..Len(s) :
              Creates(s[m]) /\ s[m].arg = x.arg /\ Current(s, m)
        BY <3>1 DEF HasVariable
      <3>3. Shift(m, p) = m /\ m < k /\ m \in 1..Len(t)
        BY <1>1, <2>1, <3>1 DEF Shift
      <3>4. t[m] = s[m] /\ Current(t, m) /\ Current(t, k)
        BY <1>1, <1>2, <2>1, <3>1, <3>2, <3>3, LastIsCurrent
      <3>5. Together(t, m, k)
        BY <3>4 DEF Together, Current
      <3> QED
        BY <1>1, <2>1, <3>2, <3>3, <3>4, <3>5 DEF CreatedFor
    <2>2. CASE k # p + 1
      <3>1. PICK i \in 1..Len(s) : k = Shift(i, p)
        BY <1>1, <2>2
      <3>2. Uses(s[i])
        BY <1>1, <1>4, <3>1
      <3>3. PICK m \in 1..Len(s) : /\ m < i /\ Creates(s[m]) /\ s[m].arg = s[i].arg
                                   /\ Together(s, m, i)
        BY <3>2 DEF Prepared, CreatedFor
      <3>4. /\ Shift(m, p) \in 1..Len(t) /\ t[Shift(m, p)] = s[m] /\ t[k] = s[i]
            /\ Together(t, Shift(m, p), k)
        BY <1>1, <1>2, <3>1, <3>3
      <3>5. Shift(m, p) < k
        BY <3>1, <3>3, ShiftOrder
      <3> QED
        BY <3>3, <3>4, <3>5 DEF CreatedFor
    <2> QED
      BY <2>1, <2>2
  <1>5. Creates(x) => HasVariable(t, x.arg)
    BY <1>1, <1>2 DEF HasVariable
  <1> QED
    BY <1>3, <1>4, <1>5 DEF Prepared

(* Code whose variables are in V or are created by the code itself; inside *)
(* a loop it may create them in front of the loop.                         *)
Allowed(code, V, nested) ==
  \A i \in 1..Len(code) :
    /\ ~ Begins(code[i])
    /\ code[i].hoist => nested
    /\ Uses(code[i]) =>
         /\ ~ code[i].hoist
         /\ \/ code[i].arg \in V
            \/ \E j \in 1..(i - 1) : /\ Creates(code[j])
                                     /\ code[j].arg = code[i].arg

LEMMA PreparedCode ==
  ASSUME NEW l, NEW b, NEW code, Ready(l, b, code), NEW V, NEW nested,
         Allowed(code, V, nested), nested => Current(l.items, b),
         Prepared(l.items), \A v \in V : HasVariable(l.items, v)
  PROVE  LET s == EmitAll(l, b, code).items IN
         /\ Prepared(s)
         /\ nested => Current(s, b)
         /\ \A v \in V : HasVariable(s, v)
         /\ \A j \in 1..Len(code) : Creates(code[j]) => HasVariable(s, code[j].arg)
  <1> DEFINE n == Len(code)
  <1>1. n \in Nat
    BY DEF Ready
  <1>2. PICK a : /\ a[0] = l /\ EmitAll(l, b, code) = a[n]
                 /\ Insertions(a, b, code)
    BY EmitAllFacts
  <1> DEFINE Holds(k) ==
        /\ Prepared(a[k].items)
        /\ nested => Current(a[k].items, b)
        /\ \A v \in V : HasVariable(a[k].items, v)
        /\ \A j \in 1..k : Creates(code[j]) => HasVariable(a[k].items, code[j].arg)
             S == {k \in Nat : Holds(k)}
  <1>3. Holds(0)
    BY <1>2
  <1>4. ASSUME NEW k \in 0..(n - 1), Holds(k) PROVE Holds(k + 1)
    <2> DEFINE s == a[k].items
               t == a[k + 1].items
               x == code[k + 1]
               p == PlaceOf(a[k], b, x)
    <2>1. k + 1 \in 1..n /\ (k + 1) - 1 = k /\ k \in Nat
      BY <1>1
    <2>2. Len(s) \in Nat /\ b \in 0..Len(s) /\ Inserted(t, s, p, x)
      BY <1>2, <2>1 DEF Insertions
    <2>3. /\ p = IF x.hoist THEN b ELSE Len(s)
          /\ p \in 0..Len(s) /\ b \in 0..p
      BY <2>2 DEF PlaceOf
    <2>4. /\ ~ Begins(x) /\ (x.hoist => nested)
          /\ Uses(x) => /\ ~ x.hoist
                        /\ x.arg \in V \/ \E j \in 1..k : /\ Creates(code[j])
                                                        /\ code[j].arg = x.arg
      BY <2>1 DEF Allowed
    <2> HIDE DEF x, p
    <2>5. Uses(x) => p = Len(s) /\ HasVariable(s, x.arg)
      BY <1>4, <2>3, <2>4
    <2>6. Current(s, p)
      BY <1>4, <2>2, <2>3, <2>4, LastIsCurrent
    <2> HIDE DEF s, t
    <2>7. /\ Prepared(t) /\ \A v : HasVariable(s, v) => HasVariable(t, v)
          /\ Creates(x) => HasVariable(t, x.arg)
      BY <1>4, <2>2, <2>3, <2>4, <2>5, <2>6, PreparedStep DEF s
    <2>8. nested => Current(t, b)
      <3>1. \A i \in 0..p : Current(s, i) => Current(t, i)
        BY <2>2, <2>3, <2>4, StartsShift
      <3> QED
        BY <1>4, <2>3, <3>1 DEF s
    <2>9. \A j \in 1..(k + 1) : Creates(code[j]) => HasVariable(t, code[j].arg)
      <3> SUFFICES ASSUME NEW j \in 1..(k + 1), Creates(code[j])
                   PROVE  HasVariable(t, code[j].arg)
        OBVIOUS
      <3>1. CASE j = k + 1
        BY <2>7, <3>1 DEF x
      <3>2. CASE j # k + 1
        <4>1. j \in 1..k
          BY <2>1, <3>2
        <4>2. HasVariable(s, code[j].arg)
          BY <1>4, <4>1 DEF s
        <4> QED
          BY <2>7, <4>2
      <3> QED
        BY <3>1, <3>2
    <2> QED
      BY <1>4, <2>7, <2>8, <2>9 DEF s, t
  <1>5. Holds(n)
    <2>1. 0 \in S /\ \A k \in 0..(n - 1) : k \in S => k + 1 \in S
      BY <1>1, <1>3, <1>4
    <2> HIDE DEF S
    <2>2. \A k \in 0..n : k \in S
      BY <1>1, <2>1, Counting
    <2>3. n \in S
      BY <1>1, <2>2
    <2> QED
      BY <2>3 DEF S
  <1> QED
    BY <1>2, <1>5

(***************************************************************************)
(* Kinds of instructions.                                                  *)
(***************************************************************************)
(* Instructions that have nothing to do with variables or functions.       *)
Plain(x) == ~ Begins(x) /\ ~ Uses(x) /\ ~ Creates(x) /\ ~ x.hoist

LEMMA PlainFacts ==
  /\ Plain(Other)
  /\ \A l : Plain(Jump(l)) /\ Plain(Instr("BREAK", l)) /\ Plain(Instr("RETURN", l))
  /\ \A l : l[1] # "func" => Plain(Label(l))
  BY DEF Plain, Begins, Uses, Creates, Other, Jump, Label, Instr

LEMMA PlainLabels ==
  /\ \A uid : Plain(Label(End(uid))) /\ Plain(Label(IfEnd(uid)))
  /\ \A uid, n : Plain(Label(If(uid, n)))
  /\ \A f : Plain(Label(FuncEnd(f)))
  /\ \A uid : \A k \in {"while", "repeat", "for", "step_le", "body"} :
       Plain(Label(Loop(k, uid)))
  BY PlainFacts DEF End, IfEnd, If, FuncEnd, Loop

LEMMA DefvarFacts ==
  ASSUME NEW v
  PROVE  /\ Creates(Defvar(v)) /\ Defvar(v).arg = v /\ Defvar(v).hoist = in_loop'
         /\ ~ Begins(Defvar(v)) /\ ~ Uses(Defvar(v))
  BY DEF Defvar, Instr, Creates, Begins, Uses

LEMMA AccessFacts ==
  ASSUME NEW v
  PROVE  /\ LET x == Instr("DEFVAR", v) IN
              Creates(x) /\ x.arg = v /\ ~ x.hoist /\ ~ Begins(x) /\ ~ Uses(x)
         /\ \A op \in {"MOVE", "USE"} :
              LET x == Instr(op, v) IN
              Uses(x) /\ x.arg = v /\ ~ x.hoist /\ ~ Begins(x) /\ ~ Creates(x)
  BY DEF Instr, Creates, Begins, Uses

(***************************************************************************)
(* The text that waits.                                                    *)
(***************************************************************************)
OnlyDefvars(s) == \A i \in 1..Len(s) : s[i].hoist => Creates(s[i])

LEMMA DefvarsStep ==
  ASSUME NEW s, NEW t, NEW p, NEW x, Len(s) \in Nat, p \in 0..Len(s),
         Inserted(t, s, p, x), OnlyDefvars(t)
  PROVE  OnlyDefvars(s) /\ (x.hoist => Creates(x))
  <1>1. /\ t[p + 1] = x /\ p + 1 \in 1..Len(t)
        /\ \A i \in 1..Len(s) : Shift(i, p) \in 1..Len(t) /\ t[Shift(i, p)] = s[i]
    BY ShiftFacts
  <1>2. ASSUME NEW i \in 1..Len(s), s[i].hoist PROVE Creates(s[i])
    BY <1>1, <1>2 DEF OnlyDefvars
  <1> QED
    BY <1>1, <1>2 DEF OnlyDefvars

(* What is moved in the list that grew is a creation, so it was before.    *)
LEMMA DefvarsKept ==
  ASSUME NEW l, NEW b, NEW code, Ready(l, b, code),
         OnlyDefvars(EmitAll(l, b, code).items)
  PROVE  OnlyDefvars(l.items) /\ OnlyDefvars(code)
  <1> DEFINE n == Len(code)
  <1>1. n \in Nat
    BY DEF Ready
  <1>2. PICK a : /\ a[0] = l /\ EmitAll(l, b, code) = a[n]
                 /\ Insertions(a, b, code)
    BY EmitAllFacts
  <1> DEFINE Good(x) == x.hoist => Creates(x)
             Holds(k) == OnlyDefvars(a[k].items) =>
               /\ OnlyDefvars(l.items)
               /\ \A j \in 1..k : Good(code[j])
             S == {k \in Nat : Holds(k)}
  <1>3. Holds(0)
    BY <1>2
  <1>4. ASSUME NEW k \in 0..(n - 1), Holds(k) PROVE Holds(k + 1)
    <2> SUFFICES ASSUME OnlyDefvars(a[k + 1].items)
                 PROVE  /\ OnlyDefvars(l.items)
                        /\ \A j \in 1..(k + 1) : Good(code[j])
      OBVIOUS
    <2> DEFINE s == a[k].items
               t == a[k + 1].items
               x == code[k + 1]
               p == PlaceOf(a[k], b, x)
    <2>1. k + 1 \in 1..n /\ (k + 1) - 1 = k /\ k \in Nat
      BY <1>1
    <2>2. Len(s) \in Nat /\ b \in 0..Len(s) /\ Inserted(t, s, p, x)
      BY <1>2, <2>1 DEF Insertions
    <2>3. p \in 0..Len(s)
      BY <2>2 DEF PlaceOf
    <2>4. OnlyDefvars(t)
      OBVIOUS
    <2> HIDE DEF s, t, x, p, Good
    <2>5. OnlyDefvars(s) /\ Good(x)
      BY <2>2, <2>3, <2>4, DefvarsStep DEF Good
    <2>6. OnlyDefvars(l.items) /\ \A j \in 1..k : Good(code[j])
      BY <1>4, <2>5 DEF s
    <2> QED
      BY <2>1, <2>5, <2>6 DEF x
  <1>5. Holds(n)
    <2> HIDE DEF Holds
    <2>1. 0 \in S /\ \A k \in 0..(n - 1) : k \in S => k + 1 \in S
      BY <1>1, <1>3, <1>4
    <2> HIDE DEF S
    <2>2. \A k \in 0..n : k \in S
      BY <1>1, <2>1, Counting
    <2>3. n \in S
      BY <1>1, <2>2
    <2> QED
      BY <2>3 DEF S
  <1> QED
    BY <1>2, <1>5 DEF OnlyDefvars, Good

(* A text is appended as it is, unless a definition takes it along.        *)
IsText(t) ==
  /\ IsSeq(t)
  /\ \A i \in 1..Len(t) : /\ \E op, arg : t[i] = Instr(op, arg)
                          /\ ~ Begins(t[i]) /\ ~ Creates(t[i])

LEMMA TextFacts ==
  ASSUME NEW t, IsText(t)
  PROVE  IsSeq(t) /\ \A i \in 1..Len(t) : ~ Begins(t[i]) /\ ~ t[i].hoist
  <1>1. \A op, arg : ~ Instr(op, arg).hoist
    BY DEF Instr
  <1>2. ASSUME NEW i \in 1..Len(t) PROVE ~ Begins(t[i]) /\ ~ t[i].hoist
    BY <1>1 DEF IsText
  <1> QED
    BY <1>2 DEF IsText

LEMMA SeqNotEmpty ==
  ASSUME NEW c, IsSeq(c)
  PROVE  /\ Len(c) \in Nat
         /\ c = <<>> <=> Len(c) = 0
         /\ Len(c) > 0 => Head(c) = c[1] /\ IsSeq(Tail(c))
  <1>1. PICK S : c \in Seq(S)
    BY DEF IsSeq
  <1>2. Len(c) \in Nat /\ (c = <<>> <=> Len(c) = 0)
    BY <1>1, EmptySeq
  <1>3. Len(c) > 0 => Head(c) = c[1] /\ Tail(c) \in Seq(S)
    BY <1>1, <1>2, HeadTailProperties
  <1> QED
    BY <1>2, <1>3 DEF IsSeq

LEMMA MovedFacts ==
  ASSUME NEW t, IsText(t)
  PROVE  LET c == Moved(Reverse(t)) IN
         /\ IsSeq(c) /\ Len(c) = Len(t)
         /\ \A i \in 1..Len(c) : c[i].hoist /\ ~ Creates(c[i])
  <1> DEFINE r == Reverse(t)
             M(x) == [x EXCEPT !.hoist = TRUE]
             c == [i \in 1..Len(r) |-> M(r[i])]
  <1>1. PICK S : t \in Seq(S)
    BY DEF IsText, IsSeq
  <1>2. /\ r \in Seq(S) /\ Len(r) = Len(t) /\ Len(t) \in Nat
        /\ \A i \in 1..Len(t) : r[i] = t[(Len(t) - i) + 1]
    BY <1>1 DEF Reverse
  <1>3. ASSUME NEW i \in 1..Len(t) PROVE M(r[i]).hoist /\ ~ Creates(M(r[i]))
    <2> DEFINE j == (Len(t) - i) + 1
    <2>1. j \in 1..Len(t) /\ r[i] = t[j]
      BY <1>2
    <2> HIDE DEF j
    <2>2. PICK op, arg : t[j] = Instr(op, arg)
      BY <2>1 DEF IsText
    <2>3. ~ Creates(Instr(op, arg))
      BY <2>1, <2>2 DEF IsText
    <2>4. op # "DEFVAR"
      BY ONLY <2>3 DEF Instr, Creates
    <2>5. M(Instr(op, arg)).hoist = TRUE /\ M(Instr(op, arg)).op = op
      BY DEF Instr
    <2>6. M(r[i]).hoist = TRUE /\ M(r[i]).op = op
      BY <2>1, <2>2, <2>5
    <2> HIDE DEF M
    <2> QED
      BY ONLY <2>4, <2>6 DEF Creates
  <1>4. Moved(r) = c
    BY DEF Moved
  <1> HIDE DEF r, M
  <1>5. c \in Seq({M(r[i]) : i \in 1..Len(r)}) /\ Len(c) = Len(t)
        /\ \A i \in 1..Len(t) : c[i] = M(r[i])
    BY <1>2
  <1> HIDE DEF c
  <1>6. IsSeq(c) /\ \A i \in 1..Len(c) : c[i].hoist /\ ~ Creates(c[i])
    BY <1>3, <1>5 DEF IsSeq
  <1> QED
    BY <1>4, <1>5, <1>6 DEF r

LEMMA WithTextFacts ==
  ASSUME NEW code, IsSeq(code), IsText(tmp_instr)
  PROVE  /\ IsSeq(WithText(code)) /\ Len(WithText(code)) \in Nat
         /\ tmp_instr = <<>> => WithText(code) = code
         /\ \/ WithText(code) = code
            \/ WithText(code) = tmp_instr \o code
            \/ \E i \in 1..Len(WithText(code)) :
                 WithText(code)[i].hoist /\ ~ Creates(WithText(code)[i])
         /\ Len(code) > 0 /\ ~ code[1].hoist =>
              Len(WithText(code)) > 0 /\ ~ WithText(code)[1].hoist
  <1> DEFINE t == tmp_instr
             w == WithText(code)
  <1>1. /\ Len(code) \in Nat
        /\ code = <<>> <=> Len(code) = 0
        /\ Len(code) > 0 => Head(code) = code[1] /\ IsSeq(Tail(code))
    BY SeqNotEmpty
  <1>2. IsSeq(t) /\ Len(t) \in Nat /\ (t = <<>> <=> Len(t) = 0)
    BY TextFacts, SeqNotEmpty
  <1> HIDE DEF t
  <1>3. CASE t = <<>> \/ code = <<>>
    <2>1. w = code
      BY <1>3 DEF WithText, t
    <2> QED
      BY <1>1, <2>1
  <1>4. CASE t # <<>> /\ code # <<>> /\ ~ code[1].hoist
    <2>1. w = t \o code
      BY <1>1, <1>4 DEF WithText, t
    <2>2. /\ IsSeq(t \o code) /\ Len(t \o code) = Len(t) + Len(code)
          /\ \A i \in 1..Len(t) : (t \o code)[i] = t[i]
      BY <1>2, ConcatFacts
    <2> HIDE DEF w
    <2>3. /\ IsSeq(w) /\ Len(w) = Len(t) + Len(code)
          /\ \A i \in 1..Len(t) : w[i] = t[i]
      BY <2>1, <2>2
    <2>4. 1 \in 1..Len(t)
      BY <1>2, <1>4
    <2>5. ~ t[1].hoist
      BY <2>4, TextFacts DEF t
    <2>6. w[1] = t[1] /\ Len(w) \in Nat /\ Len(w) > 0
      BY <1>1, <2>3, <2>4
    <2> QED
      BY <1>4, <2>1, <2>3, <2>5, <2>6 DEF t, w
  <1>5. CASE t # <<>> /\ code # <<>> /\ code[1].hoist
    <2> DEFINE h == <<code[1]>>
               m == Moved(Reverse(t))
               r == Tail(code)
    <2>1. w = h \o m \o r
      BY <1>1, <1>5 DEF WithText, t
    <2>2. IsSeq(h) /\ Len(h) = 1
      BY TupleFacts
    <2>3. /\ IsSeq(m) /\ Len(m) = Len(t)
          /\ \A i \in 1..Len(m) : m[i].hoist /\ ~ Creates(m[i])
      BY MovedFacts DEF t
    <2>4. IsSeq(r)
      BY <1>1, <1>5
    <2> HIDE DEF h, m, r
    <2> DEFINE hm == h \o m
    <2>5. /\ IsSeq(hm) /\ Len(hm) = Len(h) + Len(m)
          /\ \A i \in 1..Len(m) : hm[Len(h) + i] = m[i]
      <3>1. IsSeq(h) /\ IsSeq(m)
        BY <2>2, <2>3
      <3> QED
        BY ONLY <3>1, ConcatFacts DEF hm
    <2> HIDE DEF hm
    <2>6. /\ IsSeq(hm \o r) /\ Len(hm \o r) = Len(hm) + Len(r) /\ Len(r) \in Nat
          /\ \A i \in 1..Len(hm) : (hm \o r)[i] = hm[i]
      BY ONLY <2>4, <2>5, ConcatFacts
    <2>7. w = hm \o r
      BY <2>1 DEF hm
    <2> HIDE DEF w
    <2>8. 1 \in 1..Len(m) /\ 2 \in 1..Len(hm) /\ 2 \in 1..Len(w) /\ Len(w) \in Nat
      BY <1>2, <1>5, <2>2, <2>3, <2>5, <2>6, <2>7
    <2>9. w[2] = m[1]
      BY <2>2, <2>5, <2>6, <2>7, <2>8
    <2> QED
      BY <1>1, <1>5, <2>3, <2>6, <2>7, <2>8, <2>9 DEF t, w
  <1> QED
    BY <1>1, <1>3, <1>4, <1>5

(* If only creations are moved, a rule's code comes behind the text.       *)
LEMMA TextComesFirst ==
  ASSUME NEW l, NEW b, NEW code, IsSeq(code), IsText(tmp_instr),
         Ready(l, b, WithText(code)),
         OnlyDefvars(EmitAll(l, b, WithText(code)).items)
  PROVE  /\ OnlyDefvars(l.items)
         /\ WithText(code) = code \/ WithText(code) = tmp_instr \o code
  BY DefvarsKept, WithTextFacts DEF OnlyDefvars

(***************************************************************************)
(* The rules are the parser's.                                             *)
(***************************************************************************)
LEMMA StatementIsParsers ==
  ASSUME GenStatement
  PROVE  FunctionStatement
  <1>1. CASE \E x \in Names : gen_var_definition(x)
    BY <1>1 DEF gen_var_definition, FunctionStatement
  <1>2. CASE \E x \in Names : gen_function_expression(x)
    BY <1>2 DEF gen_function_expression, FunctionStatement
  <1>3. CASE \E x \in Names : gen_for_cycle(x)
    BY <1>3 DEF gen_for_cycle, FunctionStatement
  <1>4. CASE gen_return_stmt \/ gen_break
    BY <1>4 DEF gen_return_stmt, gen_break, FunctionStatement
  <1>5. CASE gen_while_cycle \/ gen_repeat_until_cycle \/ gen_repeat_until_end
    BY <1>5 DEF gen_while_cycle, gen_repeat_until_cycle, gen_repeat_until_end,
                FunctionStatement
  <1>6. CASE gen_if_statement \/ gen_elseif_stmt \/ gen_else_stmt
    BY <1>6 DEF gen_if_statement, gen_elseif_stmt, gen_else_stmt,
                FunctionStatement
  <1>7. CASE gen_cond_body_end \/ gen_fun_body_end
    BY <1>7 DEF gen_cond_body_end, gen_fun_body_end, FunctionStatement
  <1> QED
    BY <1>1, <1>2, <1>3, <1>4, <1>5, <1>6, <1>7 DEF GenStatement

LEMMA ParserStep == [CodegenNext]_cgvars => [Next]_vars
  <1>1. UNCHANGED cgvars => UNCHANGED vars
    BY DEF cgvars
  <1>2. ASSUME Silent PROVE Next
    BY <1>2 DEF Silent, Next, GlobalStatement
  <1>3. ASSUME GenHeader PROVE Next
    <2>1. CASE \E f \in Names : gen_function_definition(f)
      BY <2>1 DEF gen_function_definition, Next, GlobalStatement
    <2>2. CASE \E x \in Names, t \in Types : gen_funparam_def_list(x, t)
      BY <2>2 DEF gen_funparam_def_list, Next, FunctionHeader
    <2>3. CASE \E x \in Names, t \in Types : gen_other_funparams(x, t)
      BY <2>3 DEF gen_other_funparams, Next, FunctionHeader
    <2>4. CASE \E rs \in ShortSeqs : gen_funretopt(rs)
      BY <2>4 DEF gen_funretopt, Next, FunctionHeader
    <2> QED
      BY <1>3, <2>1, <2>2, <2>3, <2>4 DEF GenHeader
  <1> QED
    BY <1>1, <1>2, <1>3, StatementIsParsers DEF CodegenNext, Next

(* Generating code changes nothing the parser does, so what is proved of   *)
(* the parser holds beside its code generator, too.                        *)
THEOREM ParserImplemented == CodegenSpec => Spec
  <1>1. CodegenInit => Init
    BY DEF CodegenInit
  <1> QED
    BY <1>1, ParserStep, PTL DEF CodegenSpec, Spec

(***************************************************************************)
(* The position definitions are hoisted to.                                *)
(***************************************************************************)
(* The text that waits is a for cycle's, at the beginning of its body.     *)
TextIsHeader ==
  /\ IsText(tmp_instr)
  /\ tmp_instr # <<>> => phase = "running" /\ Top.proc = "for_cycle"

(* InsertionIsSafe, with what makes it inductive: in the prolog, too, the  *)
(* list has an item, so that its tail is no NULL.                          *)
ListIsSafe ==
  /\ TextIsHeader
  /\ phase \in {"prolog", "running"} =>
       /\ Tidy(instrListFunctions)
       /\ before_loop_start \in Nat
       /\ before_loop_start < instrListFunctions.tail
       /\ in_loop <=> before_loop_start # NULL

(* The list l grows by a rule's code.                                      *)
Grows(l, b, code) ==
  /\ Ready(l, b, code)
  /\ instrListFunctions' = EmitAll(l, b, code)
  /\ before_loop_start' = b

(* A rule's code is added.                                                 *)
Here(code) == /\ Grows(instrListFunctions, before_loop_start, WithText(code))
              /\ tmp_instr' = <<>>

(* A cycle begins behind the list l, or ends.                              *)
Starting(l, code, text) == /\ Tidy(l) /\ before_loop_start < l.tail
                           /\ Grows(l, LoopStart(l), code)
                           /\ tmp_instr' = text
Ending(code) == /\ Grows(instrListFunctions, LoopStartAfter, WithText(code))
                /\ tmp_instr' = <<>>

LEMMA GrowsNothing ==
  ASSUME ListIsSafe, phase \in {"prolog", "running"},
         phase' \in {"running", "accepted"}, GenerateNothing
  PROVE  /\ Grows(instrListFunctions, before_loop_start, <<>>)
         /\ UNCHANGED tmp_instr
  <1>1. Len(<<>>) \in Nat
    OBVIOUS
  <1> QED
    BY <1>1 DEF ListIsSafe, GenerateNothing, Generate, Grows, Ready, Tidy

LEMMA GrowsHere ==
  ASSUME ListIsSafe, phase \in {"prolog", "running"},
         phase' \in {"running", "accepted"},
         NEW code, IsSeq(code), GenerateHere(code)
  PROVE  Here(code)
  <1>1. Len(WithText(code)) \in Nat
    BY WithTextFacts DEF ListIsSafe, TextIsHeader
  <1> QED
    BY <1>1 DEF ListIsSafe, GenerateHere, GenerateFrom, Generate, Here, Grows,
                Ready, Tidy

(* The list a for cycle begins with is one with its comment.               *)
LEMMA GrowsFor ==
  ASSUME ListIsSafe, phase = "running"
  PROVE  LET w == WithText(<<Other>>)
             l == EmitAll(instrListFunctions, before_loop_start, w)
         IN  /\ Ready(instrListFunctions, before_loop_start, w)
             /\ Tidy(l) /\ before_loop_start < l.tail
  <1> DEFINE code == <<Other>>
  <1>1. IsSeq(code)
    BY TupleFacts
  <1> HIDE DEF code
  <1>2. Len(WithText(code)) \in Nat
    BY <1>1, WithTextFacts DEF ListIsSafe, TextIsHeader
  <1>3. Ready(instrListFunctions, before_loop_start, WithText(code))
    BY <1>2 DEF ListIsSafe, Ready, Tidy
  <1> QED
    BY <1>3, EmitAllFacts DEF code

LEMMA GrowsLoop ==
  ASSUME ListIsSafe, phase = "running", phase' = "running",
         NEW l, Tidy(l), before_loop_start < l.tail,
         NEW code, IsSeq(code), Len(code) > 0, ~ code[1].hoist,
         NEW text, Generate(l, LoopStart(l), code, text)
  PROVE  Starting(l, code, text)
  <1>1. Len(code) \in Nat
    BY SeqNotEmpty
  <1> QED
    BY <1>1 DEF ListIsSafe, Generate, Starting, Grows, Ready, Tidy, LoopStart

LEMMA GrowsEnd ==
  ASSUME ListIsSafe, phase = "running", phase' = "running",
         NEW code, IsSeq(code), GenerateFrom(LoopStartAfter, code)
  PROVE  Ending(code)
  <1>1. Len(WithText(code)) \in Nat
    BY WithTextFacts DEF ListIsSafe, TextIsHeader
  <1> QED
    BY <1>1 DEF ListIsSafe, GenerateFrom, Generate, Ending, Grows, Ready, Tidy,
                LoopStartAfter, NULL

LEMMA GrownIsSafe ==
  ASSUME NEW l, NEW b, NEW code, Grows(l, b, code), in_loop' <=> b # NULL,
         TextIsHeader'
  PROVE  ListIsSafe'
  <1>1. Tidy(EmitAll(l, b, code)) /\ b < EmitAll(l, b, code).tail /\ b \in Nat
    BY EmitAllFacts DEF Grows, Ready
  <1> QED
    BY <1>1 DEF Grows, ListIsSafe

(***************************************************************************)
(* What a step of a running parser that is not its last one does, with     *)
(* what the list grows by.                                                 *)
(***************************************************************************)
CodeStays ==
  /\ Stays
  /\ \/ AtStatement /\ Here(<<>>)
     \/ \E x \in Names : /\ IsVariable(x)
                         /\ Here(<<Other, Instr("MOVE", Variable(x))>>)
     \/ /\ InBody
        /\ Here(<<Other, Instr("RETURN", FuncEnd(ParentFuncName))>>)
     \/ Here(<<Instr("BREAK", End(SS_Head(symstack).uid))>>)

CodeDefines == \E f \in Names : Defines(f) /\ Here(<<Label(Func(f)), Other>>)

CodeDeclares == \E f \in Names, sig \in Signatures : Declares(f, sig) /\ Here(<<>>)

CodeTakesParameter ==
  \E x \in Names, t \in Types : TakesParameter(x, t) /\ Here(Param(x))

ReturnDefvars(n) == [i \in 1..n |-> Instr("DEFVAR", <<"return", i, NoName>>)]

CodeEndsHeader ==
  \E rets \in Seq(Types), n \in Nat :
    EndsHeader(rets) /\ Here(ReturnDefvars(n) \o <<Other>>)

VariableCode(v) == <<Other, Defvar(v), Instr("MOVE", v)>>

DeclareCode(v)  == <<Defvar(v), Instr("MOVE", v)>>

CodeAddsVariable ==
  \E x \in Names :
    /\ AddsVariable(x)
    /\ \/ Here(VariableCode(Var(SS_Head(symstack).uid, x)))
       \/ Here(DeclareCode(Var(SS_Head(symstack).uid, x)))

WhileCode(uid)  == <<Label(Loop("while", uid)), Other, Jump(End(uid))>>
RepeatCode(uid) == <<Other, Label(Loop("repeat", uid))>>

CodeOpensWhile ==
  /\ OpensLoop("while_cycle", NoName, {})
  /\ Starting(instrListFunctions, WithText(WhileCode(unique_id)), <<>>)

CodeOpensRepeat ==
  /\ OpensLoop("repeat_body", NoName, {})
  /\ Starting(instrListFunctions, WithText(RepeatCode(unique_id)), <<>>)

CodeOpensFor ==
  \E x \in Names :
    /\ OpensLoop("for_cycle", x, {x})
    /\ Ready(instrListFunctions, before_loop_start, WithText(<<Other>>))
    /\ Starting(EmitAll(instrListFunctions, before_loop_start, WithText(<<Other>>)),
                ForHeader(unique_id, x), ForText(unique_id, x))

CodeOpensBranch ==
  OpensBranch /\ Here(<<Other, Jump(If(unique_id, cond_cnt'))>>)

ElseifCode == <<Jump(IfEnd(outer_cond_id)), Label(If(outer_cond_id, cond_cnt)),
                Other, Jump(If(outer_cond_id, cond_cnt'))>>
ElseCode   == <<Jump(IfEnd(outer_cond_id)),
                Label(If(outer_cond_id, ElseLabel(cond_cnt')))>>

CodeNextBranch == \/ NextBranch("cond_body") /\ Here(ElseifCode)
                  \/ NextBranch("else_stmt") /\ Here(ElseCode)

RepeatEnd(uid) == <<Other, Jump(Loop("repeat", uid)), Label(End(uid))>>
ForEnd == <<Instr("USE", <<"for", Variable(Top.id)[2], Top.id>>)>>
            \o LoopEnd("for", SS_Head(symstack).uid)

CodeEnds ==
  /\ Ends
  /\ \/ Top.proc = "repeat_body" /\ Ending(RepeatEnd(SS_Head(symstack).uid))
     \/ Top.proc = "while_cycle" /\ Ending(LoopEnd("while", SS_Head(symstack).uid))
     \/ Top.proc = "for_cycle" /\ Ending(ForEnd)
     \/ Top.proc \in CondProcs /\ Here(CondEnd)
     \/ /\ Top.proc = "function_definition"
        /\ Here(<<Label(FuncEnd(SS_Head(symstack).fun)), Other>>)

CodeMoves ==
  \/ CodeStays \/ CodeDeclares \/ CodeDefines \/ CodeTakesParameter
  \/ CodeEndsHeader \/ CodeAddsVariable
  \/ CodeOpensWhile \/ CodeOpensRepeat \/ CodeOpensFor
  \/ CodeOpensBranch \/ CodeNextBranch \/ CodeEnds

LEMMA SilentCode ==
  ASSUME IInv, ListIsSafe, phase = "running", phase' = "running",
         Silent, GenerateNothing
  PROVE  CodeMoves
  <1>1. AtStatement => Here(<<>>)
    <2>1. AtStatement => tmp_instr = <<>>
      BY DEF AtStatement, ListIsSafe, TextIsHeader
    <2> QED
      BY <2>1, GrowsNothing DEF Here, WithText
  <1>2. ~ program /\ ~ unexpected_token /\ ~ Free_parser /\ ~ Terminating
        /\ ~ stmt_list_end
    BY DEF program, unexpected_token, Free_parser, Terminating, stmt_list_end,
           Reject
  <1>3. CASE global_expression
    <2>1. Stays /\ AtStatement
      BY <1>3 DEF global_expression, ProceedOrReject, Proceed, Reject, Stays,
                  scopes
    <2> QED
      BY <1>1, <2>1 DEF CodeStays, CodeMoves
  <1>4. ASSUME NEW f \in Names, NEW ps \in ShortSeqs, NEW rs \in ShortSeqs,
               function_declaration(f, [params |-> ps, returns |-> rs])
        PROVE  CodeMoves
    <2> DEFINE sig == [params |-> ps, returns |-> rs]
    <2>1. sig \in Signatures
      BY ShortSeqsFacts DEF Signatures
    <2> HIDE DEF sig
    <2>2. Declares(f, sig) /\ AtStatement
      BY <1>4, <2>1, DeclarationMoves DEF sig, function_declaration
    <2> QED
      BY <1>1, <2>1, <2>2 DEF CodeDeclares, CodeMoves
  <1> QED
    BY <1>2, <1>3, <1>4 DEF Silent

LEMMA HeaderCode ==
  ASSUME IInv, IInv', FunctionAtBottom, ListIsSafe, phase = "running",
         phase' = "running", GenHeader
  PROVE  CodeMoves
  <1>1. ASSUME NEW f \in Names, gen_function_definition(f)
        PROVE  CodeDefines
    <2> DEFINE code == <<Label(Func(f)), Other>>
    <2>1. function_definition(f) /\ GenerateHere(code) /\ IsSeq(code)
      BY <1>1, TupleFacts DEF gen_function_definition
    <2> HIDE DEF code
    <2>2. Defines(f) /\ Here(code)
      BY <2>1, DefinitionMoves, GrowsHere
    <2> QED
      BY <2>2 DEF CodeDefines, code
  <1>2. ASSUME NEW x \in Names, NEW t \in Types,
               gen_funparam_def_list(x, t) \/ gen_other_funparams(x, t)
        PROVE  CodeTakesParameter
    <2>1. /\ funparam_def_list(x, t) \/ other_funparams(x, t)
          /\ GenerateHere(Param(x)) /\ IsSeq(Param(x))
      BY <1>2, TupleFacts DEF gen_funparam_def_list, gen_other_funparams, Param
    <2>2. TakesParameter(x, t) /\ Here(Param(x))
      BY <2>1, ParameterMoves, GrowsHere
    <2> QED
      BY <2>2 DEF CodeTakesParameter
  <1>3. ASSUME NEW rs \in ShortSeqs, gen_funretopt(rs)
        PROVE  CodeEndsHeader
    <2> DEFINE n == Len(functions'[Top.id].definition.returns)
               code == ReturnDefvars(n) \o <<Other>>
    <2>1. EndsHeader(rs) /\ rs \in Seq(Types)
      BY <1>3, ReturnTypesMoves, ShortSeqsFacts DEF gen_funretopt
    <2>2. GenerateHere(code)
      BY <1>3 DEF gen_funretopt, ReturnDefvars
    <2>3. n \in Nat
      <3>1. Top.id \in Names
        BY <1>3, HeaderFacts DEF gen_funretopt, funretopt
      <3>2. functions' \in [Names -> Semantics]
        BY DEF IInv, TypeOK, FunctionsOK
      <3>3. functions'[Top.id].definition.returns \in Seq(Types)
        BY <3>1, <3>2 DEF Semantics, Signatures
      <3> QED
        BY <3>3
    <2> HIDE DEF n
    <2>4. IsSeq(code)
      <3>1. ReturnDefvars(n) \in Seq({ReturnDefvars(n)[i] : i \in 1..n})
        BY <2>3 DEF ReturnDefvars
      <3> HIDE DEF code
      <3>2. IsSeq(ReturnDefvars(n))
        BY <3>1 DEF IsSeq
      <3> QED
        BY <3>2, OneMore DEF code
    <2> HIDE DEF code
    <2>5. Here(code)
      BY <2>2, <2>4, GrowsHere
    <2> QED
      BY <2>1, <2>3, <2>5 DEF CodeEndsHeader, code
  <1> QED
    BY <1>1, <1>2, <1>3 DEF GenHeader, CodeMoves

LEMMA SimpleCode ==
  ASSUME IInv, ListIsSafe, phase = "running", phase' = "running",
         \/ \E x \in Names : gen_var_definition(x) \/ gen_function_expression(x)
         \/ gen_return_stmt \/ gen_break
  PROVE  CodeMoves
  <1>1. ASSUME NEW x \in Names, gen_var_definition(x)
        PROVE  CodeAddsVariable
    <2> DEFINE v == Var(SS_Head(symstack).uid, x)
    <2>1. /\ var_definition(x)
          /\ GenerateHere(VariableCode(v)) \/ GenerateHere(DeclareCode(v))
      BY <1>1 DEF gen_var_definition, VariableCode, DeclareCode
    <2>2. IsSeq(VariableCode(v)) /\ IsSeq(DeclareCode(v))
      BY TupleFacts DEF VariableCode, DeclareCode
    <2> HIDE DEF v
    <2>3. AddsVariable(x) /\ (Here(VariableCode(v)) \/ Here(DeclareCode(v)))
      BY <2>1, <2>2, VariableMoves, GrowsHere
    <2> QED
      BY <2>3 DEF CodeAddsVariable, v
  <1>2. ASSUME NEW x \in Names, gen_function_expression(x)
        PROVE  CodeStays
    <2> DEFINE code == <<Other, Instr("MOVE", Variable(x))>>
    <2>1. IsVariable(x) /\ function_expression /\ GenerateHere(code)
      BY <1>2 DEF gen_function_expression
    <2>2. IsSeq(code)
      BY TupleFacts
    <2> HIDE DEF code
    <2>3. Stays /\ Here(code)
      BY <2>1, <2>2, SimpleMoves, GrowsHere
    <2> QED
      BY <2>1, <2>3 DEF CodeStays, code
  <1>3. CASE gen_return_stmt
    <2> DEFINE code == <<Other, Instr("RETURN", FuncEnd(ParentFuncName))>>
    <2>1. return_stmt /\ InBody /\ GenerateHere(code)
      BY <1>3 DEF gen_return_stmt, return_stmt
    <2>2. IsSeq(code)
      BY TupleFacts
    <2> HIDE DEF code
    <2>3. Stays /\ Here(code)
      BY <2>1, <2>2, SimpleMoves, GrowsHere
    <2>4. CodeStays
      BY <2>1, <2>3 DEF CodeStays, code
    <2> QED
      BY <2>4 DEF CodeMoves
  <1>4. CASE gen_break
    <2> DEFINE code == <<Instr("BREAK", End(SS_Head(symstack).uid))>>
    <2>1. break_ /\ GenerateHere(code)
      BY <1>4 DEF gen_break
    <2>2. IsSeq(code)
      BY TupleFacts
    <2> HIDE DEF code
    <2>3. Stays /\ Here(code)
      BY <2>1, <2>2, SimpleMoves, GrowsHere
    <2>4. CodeStays
      BY <2>3 DEF CodeStays, code
    <2> QED
      BY <2>4 DEF CodeMoves
  <1> QED
    BY <1>1, <1>2, <1>3, <1>4 DEF CodeMoves

LEMMA LoopCode ==
  ASSUME IInv, ListIsSafe, phase = "running", phase' = "running",
         \/ gen_while_cycle \/ gen_repeat_until_cycle
         \/ \E x \in Names : gen_for_cycle(x)
  PROVE  CodeMoves
  <1> DEFINE l == instrListFunctions
  <1>1. Tidy(l) /\ before_loop_start < l.tail
    BY DEF ListIsSafe
  <1>2. CASE gen_while_cycle
    <2> DEFINE code == WhileCode(unique_id)
    <2>1. while_cycle /\ Generate(l, LoopStart(l), WithText(code), <<>>)
      BY <1>2 DEF gen_while_cycle, WhileCode, GenerateFrom
    <2>3. OpensLoop("while_cycle", NoName, {})
      BY <2>1, LoopMoves DEF LoopProcs
    <2>4. IsSeq(code) /\ Len(code) > 0 /\ ~ code[1].hoist
      <3>1. IsSeq(code) /\ Len(code) = 3 /\ code[1] = Label(Loop("while", unique_id))
        BY TupleFacts DEF WhileCode
      <3> QED
        BY <3>1 DEF Label, Instr
    <2> HIDE DEF l, code
    <2>5. Starting(l, WithText(code), <<>>)
      BY <1>1, <2>1, <2>4, WithTextFacts, GrowsLoop DEF ListIsSafe, TextIsHeader
    <2> QED
      BY <2>3, <2>5 DEF CodeOpensWhile, CodeMoves, l, code
  <1>3. CASE gen_repeat_until_cycle
    <2> DEFINE code == RepeatCode(unique_id)
    <2>1. repeat_until_cycle /\ Generate(l, LoopStart(l), WithText(code), <<>>)
      BY <1>3 DEF gen_repeat_until_cycle, RepeatCode, GenerateFrom
    <2>3. OpensLoop("repeat_body", NoName, {})
      BY <2>1, LoopMoves DEF LoopProcs
    <2>4. IsSeq(code) /\ Len(code) > 0 /\ ~ code[1].hoist
      <3>1. IsSeq(code) /\ Len(code) = 2 /\ code[1] = Other
        BY TupleFacts DEF RepeatCode
      <3> QED
        BY <3>1 DEF Other, Instr
    <2> HIDE DEF l, code
    <2>5. Starting(l, WithText(code), <<>>)
      BY <1>1, <2>1, <2>4, WithTextFacts, GrowsLoop DEF ListIsSafe, TextIsHeader
    <2> QED
      BY <2>3, <2>5 DEF CodeOpensRepeat, CodeMoves, l, code
  <1>4. ASSUME NEW x \in Names, gen_for_cycle(x)
        PROVE  CodeOpensFor
    <2> DEFINE w == WithText(<<Other>>)
               k == EmitAll(instrListFunctions, before_loop_start, w)
               code == ForHeader(unique_id, x)
               text == ForText(unique_id, x)
    <2>1. for_cycle(x) /\ Generate(k, LoopStart(k), code, text)
      BY <1>4 DEF gen_for_cycle
    <2>2. OpensLoop("for_cycle", x, {x})
      BY <2>1, ForMoves
    <2>3. /\ Ready(instrListFunctions, before_loop_start, w)
          /\ Tidy(k) /\ before_loop_start < k.tail
      BY GrowsFor
    <2>4. IsSeq(code) /\ Len(code) = 10 /\ code[1] = Other
      BY ForHeaderFacts
    <2>5. ~ Other.hoist
      BY DEF Other, Instr
    <2> HIDE DEF k, code, text
    <2>6. Starting(k, code, text)
      BY <2>1, <2>3, <2>4, <2>5, GrowsLoop
    <2> QED
      BY <2>2, <2>3, <2>6 DEF CodeOpensFor, k, w, code, text
  <1> QED
    BY <1>2, <1>3, <1>4 DEF CodeMoves

LEMMA BranchCode ==
  ASSUME IInv, ListIsSafe, phase = "running", phase' = "running",
         gen_if_statement \/ gen_elseif_stmt \/ gen_else_stmt
  PROVE  CodeMoves
  <1>1. CASE gen_if_statement
    <2> DEFINE code == <<Other, Jump(If(unique_id, cond_cnt'))>>
    <2>1. if_statement /\ GenerateHere(code)
      BY <1>1 DEF gen_if_statement
    <2>2. IsSeq(code)
      BY TupleFacts
    <2> HIDE DEF code
    <2>3. OpensBranch /\ Here(code)
      BY <2>1, <2>2, IfMoves, GrowsHere
    <2> QED
      BY <2>3 DEF CodeOpensBranch, CodeMoves, code
  <1>2. CASE gen_elseif_stmt
    <2>1. elseif_stmt /\ GenerateHere(ElseifCode)
      BY <1>2 DEF gen_elseif_stmt, ElseifCode
    <2>2. IsSeq(ElseifCode)
      <3>1. ElseifCode \in Seq({ElseifCode[i] : i \in 1..4})
        BY DEF ElseifCode
      <3> QED
        BY <3>1 DEF IsSeq
    <2>3. NextBranch("cond_body") /\ Here(ElseifCode)
      BY <2>1, <2>2, BranchMoves, GrowsHere DEF CondProcs
    <2> QED
      BY <2>3 DEF CodeNextBranch, CodeMoves
  <1>3. CASE gen_else_stmt
    <2>1. else_stmt /\ GenerateHere(ElseCode) /\ IsSeq(ElseCode)
      BY <1>3, TupleFacts DEF gen_else_stmt, ElseCode
    <2>2. NextBranch("else_stmt") /\ Here(ElseCode)
      BY <2>1, BranchMoves, GrowsHere DEF CondProcs
    <2> QED
      BY <2>2 DEF CodeNextBranch, CodeMoves
  <1> QED
    BY <1>1, <1>2, <1>3

LEMMA EndCode ==
  ASSUME IInv, ListIsSafe, phase = "running", phase' = "running",
         gen_repeat_until_end \/ gen_cond_body_end \/ gen_fun_body_end
  PROVE  CodeMoves
  <1> DEFINE head == SS_Head(symstack)
  <1>1. Ends
    BY EndMoves DEF gen_repeat_until_end, gen_cond_body_end, gen_fun_body_end
  <1>3. IsSeq(CondEnd)
    BY TupleFacts DEF CondEnd
  <1>4. \A k, uid : Len(LoopEnd(k, uid)) = 2 /\ IsSeq(LoopEnd(k, uid))
    BY TupleFacts DEF LoopEnd
  <1>5. CASE gen_repeat_until_end
    <2>1. /\ Top.proc = "repeat_body"
          /\ GenerateFrom(LoopStartAfter, RepeatEnd(head.uid))
      BY <1>5 DEF gen_repeat_until_end, repeat_until_end, RepeatEnd
    <2>2. IsSeq(RepeatEnd(head.uid))
      BY TupleFacts DEF RepeatEnd
    <2>3. Ending(RepeatEnd(head.uid))
      BY <2>1, <2>2, GrowsEnd
    <2> QED
      BY <1>1, <2>1, <2>3 DEF CodeEnds, CodeMoves
  <1>6. CASE gen_cond_body_end
    <2>1. Top.proc \in CondProcs /\ GenerateHere(CondEnd)
      BY <1>6 DEF gen_cond_body_end, cond_body_end, CondProcs
    <2>2. Here(CondEnd)
      BY <1>3, <2>1, GrowsHere
    <2> QED
      BY <1>1, <2>1, <2>2 DEF CodeEnds, CodeMoves
  <1>7. CASE gen_fun_body_end
    <2>1. Top.proc \in FunBodyCallers /\ head.type = ScopeOf(Top.proc)
      BY <1>7, RunningFacts DEF gen_fun_body_end, fun_body_end
    <2>2. CASE Top.proc = "while_cycle"
      <3>1. GenerateFrom(LoopStartAfter, LoopEnd("while", head.uid))
        BY <1>7, <2>1, <2>2, ScopeOfEach DEF gen_fun_body_end
      <3>2. Ending(LoopEnd("while", head.uid))
        BY <1>4, <3>1, GrowsEnd
      <3> QED
        BY <1>1, <2>2, <3>2 DEF CodeEnds, CodeMoves
    <2>3. CASE Top.proc = "for_cycle"
      <3>1. GenerateFrom(LoopStartAfter, ForEnd)
        BY <1>7, <2>1, <2>3, ScopeOfEach DEF gen_fun_body_end, ForEnd
      <3>2. IsSeq(ForEnd)
        <4> DEFINE x == Instr("USE", <<"for", Variable(Top.id)[2], Top.id>>)
                   d == LoopEnd("for", head.uid)
        <4>1. IsSeq(<<x>>) /\ IsSeq(d)
          BY <1>4, TupleFacts
        <4> HIDE DEF x, d
        <4>2. IsSeq(<<x>> \o d)
          BY <4>1, ConcatFacts
        <4> QED
          BY <4>2 DEF ForEnd, x, d
      <3>3. Ending(ForEnd)
        BY <3>1, <3>2, GrowsEnd
      <3> QED
        BY <1>1, <2>3, <3>3 DEF CodeEnds, CodeMoves
    <2>4. CASE Top.proc = "else_stmt"
      <3>1. GenerateHere(CondEnd)
        BY <1>7, <2>1, <2>4, ScopeOfEach DEF gen_fun_body_end
      <3>2. Here(CondEnd) /\ Top.proc \in CondProcs
        BY <1>3, <2>4, <3>1, GrowsHere DEF CondProcs
      <3> QED
        BY <1>1, <3>2 DEF CodeEnds, CodeMoves
    <2>5. CASE Top.proc = "function_definition"
      <3> DEFINE code == <<Label(FuncEnd(head.fun)), Other>>
      <3>1. GenerateHere(code)
        BY <1>7, <2>1, <2>5, ScopeOfEach DEF gen_fun_body_end
      <3>2. IsSeq(code)
        BY TupleFacts
      <3> HIDE DEF code
      <3>3. Here(code)
        BY <3>1, <3>2, GrowsHere
      <3> QED
        BY <1>1, <2>5, <3>3 DEF CodeEnds, CodeMoves, code
    <2> QED
      BY <2>1, <2>2, <2>3, <2>4, <2>5 DEF FunBodyCallers
  <1> QED
    BY <1>5, <1>6, <1>7

LEMMA CodeSteps ==
  ASSUME IInv, IInv', FunctionAtBottom, ListIsSafe, CodegenNext,
         phase = "running", phase' = "running"
  PROVE  CodeMoves
  <1>1. CASE GenStatement
    BY <1>1, SimpleCode, LoopCode, BranchCode, EndCode DEF GenStatement
  <1> QED
    BY <1>1, SilentCode, HeaderCode DEF CodegenNext

(* The prolog ends with the first rule, which emits nothing.               *)
LEMMA PrologCode ==
  ASSUME CodegenNext, phase = "prolog"
  PROVE  program /\ GenerateNothing
  <1>1. ~ GenHeader
    BY DEF GenHeader, gen_function_definition, gen_funparam_def_list,
           gen_other_funparams, gen_funretopt, function_definition,
           funparam_def_list, other_funparams, funretopt, AtStatement
  <1>2. ~ FunctionStatement
    BY DEF FunctionStatement, InBody, var_definition, function_expression,
           return_stmt, break_, while_cycle, for_cycle, repeat_until_cycle,
           repeat_until_end, if_statement, elseif_stmt, else_stmt,
           cond_body_end, fun_body_end
  <1>3. ~ GenStatement
    BY <1>2, StatementIsParsers
  <1>4. CASE Silent /\ GenerateNothing
    BY <1>4 DEF Silent, unexpected_token, global_expression, stmt_list_end,
                function_declaration, Free_parser, Terminating, AtStatement
  <1> QED
    BY <1>1, <1>3, <1>4 DEF CodegenNext

LEMMA LoopsOfCode ==
  ASSUME ListIsSafe, phase = "running", CodeMoves
  PROVE  \E l, b, code : Grows(l, b, code) /\ (in_loop' <=> b # NULL)
  <1>1. in_loop <=> before_loop_start # NULL
    BY DEF ListIsSafe
  <1>2. ASSUME NEW code, Here(code), UNCHANGED in_loop
        PROVE  \E l, b, c : Grows(l, b, c) /\ (in_loop' <=> b # NULL)
    BY <1>1, <1>2 DEF Here
  <1>3. ASSUME NEW l, NEW code, NEW text, Starting(l, code, text), EnterLoop
        PROVE  \E k, b, c : Grows(k, b, c) /\ (in_loop' <=> b # NULL)
    <2>1. in_loop' /\ LoopStart(l) # NULL
      BY <1>1, <1>3 DEF Starting, EnterLoop, LoopStart, ListIsSafe, NULL
    <2> QED
      BY <1>3, <2>1 DEF Starting
  <1>4. ASSUME NEW code, Ending(code), ForgetOuterLoop
        PROVE  \E l, b, c : Grows(l, b, c) /\ (in_loop' <=> b # NULL)
    <2>1. in_loop' <=> LoopStartAfter # NULL
      BY <1>1, <1>4 DEF ForgetOuterLoop, LoopStartAfter
    <2> QED
      BY <1>4, <2>1 DEF Ending
  <1>5. CASE CodeStays \/ CodeDeclares \/ CodeDefines \/ CodeTakesParameter
             \/ CodeEndsHeader \/ CodeAddsVariable
    BY <1>2, <1>5 DEF CodeStays, CodeDeclares, CodeDefines, CodeTakesParameter,
       CodeEndsHeader, CodeAddsVariable, Stays, Declares, Defines,
       TakesParameter, EndsHeader, AddsVariable, loops
  <1>6. CASE CodeOpensBranch \/ CodeNextBranch
    BY <1>2, <1>6 DEF CodeOpensBranch, CodeNextBranch, OpensBranch, NextBranch,
       loops
  <1>7. CASE CodeOpensWhile \/ CodeOpensRepeat \/ CodeOpensFor
    BY <1>3, <1>7 DEF CodeOpensWhile, CodeOpensRepeat, CodeOpensFor, OpensLoop
  <1>8. CASE CodeEnds
    <2>1. IF Top.proc \in LoopProcs THEN ForgetOuterLoop ELSE UNCHANGED in_loop
      BY <1>8 DEF CodeEnds, Ends
    <2>2. \A p \in CondProcs \union {"function_definition"} : p \notin LoopProcs
      BY DEF CondProcs, LoopProcs
    <2> QED
      BY <1>2, <1>4, <1>8, <2>1, <2>2 DEF CodeEnds, LoopProcs
  <1> QED
    BY <1>5, <1>6, <1>7, <1>8 DEF CodeMoves

(* What waits after a step.                                                *)
LEMMA ForTextFacts ==
  ASSUME NEW uid, NEW x
  PROVE  LET t == ForText(uid, x) IN
         /\ IsText(t)
         /\ \A i \in 1..Len(t) : Uses(t[i]) => t[i].arg = <<"for", uid, x>>
  <1> DEFINE t == ForText(uid, x)
  <1>1. t \in Seq({t[i] : i \in 1..8}) /\ Len(t) = 8
    BY DEF ForText
  <1>2. ASSUME NEW i \in 1..8
        PROVE  /\ \E op, arg : t[i] = Instr(op, arg)
               /\ ~ Begins(t[i]) /\ ~ Creates(t[i])
               /\ Uses(t[i]) => t[i].arg = <<"for", uid, x>>
    <2>1. \/ t[i] = Instr("USE", <<"for", uid, x>>)
          \/ \E l : t[i] = Jump(l)
          \/ \E k \in {"for", "step_le", "body"} : t[i] = Label(Loop(k, uid))
      BY DEF ForText
    <2>2. CASE t[i] = Instr("USE", <<"for", uid, x>>)
      BY <2>2, AccessFacts
    <2>3. CASE \E l : t[i] = Jump(l)
      BY <2>3, PlainFacts DEF Plain, Jump
    <2>4. CASE \E k \in {"for", "step_le", "body"} : t[i] = Label(Loop(k, uid))
      BY <2>4, PlainLabels DEF Plain, Label
    <2> QED
      BY <2>1, <2>2, <2>3, <2>4
  <1> HIDE DEF t
  <1> QED
    BY <1>1, <1>2 DEF IsText, IsSeq, t

LEMMA NoText == IsText(<<>>)
  <1>1. IsSeq(<<>>) /\ Len(<<>>) = 0
    BY TupleFacts
  <1> QED
    BY <1>1 DEF IsText

LEMMA TextOfCode ==
  ASSUME IInv, phase = "running", phase' = "running", CodeMoves
  PROVE  TextIsHeader'
  <1>1. CASE tmp_instr' = <<>>
    BY <1>1, NoText DEF TextIsHeader
  <1>2. CASE CodeOpensFor
    <2>1. PICK x \in Names : /\ OpensLoop("for_cycle", x, {x})
                             /\ tmp_instr' = ForText(unique_id, x)
      BY <1>2 DEF CodeOpensFor, Starting
    <2>2. Len(calls') = Depth + 1 /\ calls'[Depth + 1].proc = "for_cycle"
      BY <2>1 DEF OpensLoop, Opens, Activation
    <2>3. Top'.proc = "for_cycle"
      BY <2>2 DEF Top
    <2> QED
      BY <2>1, <2>3, ForTextFacts DEF TextIsHeader
  <1>3. CASE ~ CodeOpensFor
    <2>1. tmp_instr' = <<>>
      BY <1>3 DEF CodeMoves, CodeStays, CodeDeclares, CodeDefines,
         CodeTakesParameter, CodeEndsHeader, CodeAddsVariable, CodeOpensWhile,
         CodeOpensRepeat, CodeOpensBranch, CodeNextBranch, CodeEnds, Here,
         Starting, Ending
    <2> QED
      BY <1>1, <2>1
  <1> QED
    BY <1>2, <1>3

(* The last step of a program that is accepted emits nothing, and every    *)
(* other one that ends the parser's work frees the list.                   *)
LEMMA AcceptedCode ==
  ASSUME CodegenNext, phase' = "accepted"
  PROVE  AtStatement /\ GenerateNothing
  <1>1. ~ GenHeader
    BY DEF GenHeader, gen_function_definition, gen_funparam_def_list,
           gen_other_funparams, gen_funretopt, function_definition,
           funparam_def_list, other_funparams, funretopt, AtStatement,
           ProceedOrReject, Proceed, Reject
  <1>2. ~ FunctionStatement
    BY DEF FunctionStatement, InBody, var_definition, function_expression,
           return_stmt, break_, while_cycle, for_cycle, repeat_until_cycle,
           repeat_until_end, if_statement, elseif_stmt, else_stmt,
           cond_body_end, fun_body_end, ProceedOrReject, Proceed, Reject,
           SoftAssertFails
  <1>3. Silent /\ GenerateNothing
    BY <1>1, <1>2, StatementIsParsers DEF CodegenNext
  <1>4. ~ (program \/ unexpected_token \/ Free_parser)
    BY DEF program, unexpected_token, Free_parser, Reject
  <1>5. CASE Terminating
    BY <1>5 DEF Terminating, vars, control
  <1>6. CASE \/ global_expression \/ stmt_list_end
             \/ \E f \in Names, ps, rs \in ShortSeqs :
                  function_declaration(f, [params |-> ps, returns |-> rs])
    BY <1>3, <1>6 DEF global_expression, stmt_list_end, function_declaration,
                ProceedOrReject, Proceed, Reject
  <1> QED
    BY <1>3, <1>4, <1>5, <1>6 DEF Silent

LEMMA FreedCode ==
  ASSUME CodegenNext, phase' \notin {"running", "accepted"}
  PROVE  Code' = <<>> /\ tmp_instr' = <<>>
  <1> DEFINE Freed == Code' = <<>> /\ tmp_instr' = <<>>
  <1>1. ASSUME NEW l, NEW b, NEW code, NEW text, Generate(l, b, code, text)
        PROVE  Freed
    BY <1>1 DEF Generate, EmptyList, Code
  <1>2. /\ \A b, code : GenerateFrom(b, code) => Freed
        /\ \A code : GenerateHere(code) => Freed
        /\ GenerateNothing => Freed
    BY <1>1 DEF GenerateFrom, GenerateHere, GenerateNothing
  <1> SUFFICES Freed
    OBVIOUS
  <1> HIDE DEF Freed
  <1>3. CASE GenHeader
    BY <1>2, <1>3 DEF GenHeader, gen_function_definition, gen_funparam_def_list,
                      gen_other_funparams, gen_funretopt
  <1>4. CASE gen_return_stmt \/ gen_break \/ gen_if_statement
             \/ gen_elseif_stmt \/ gen_else_stmt \/ gen_cond_body_end
    BY <1>2, <1>4 DEF gen_return_stmt, gen_break, gen_if_statement,
                      gen_elseif_stmt, gen_else_stmt, gen_cond_body_end
  <1>5. CASE gen_while_cycle \/ gen_repeat_until_cycle \/ gen_repeat_until_end
    BY <1>2, <1>5 DEF gen_while_cycle, gen_repeat_until_cycle,
                      gen_repeat_until_end
  <1>6. CASE \E x \in Names : gen_var_definition(x) \/ gen_function_expression(x)
    BY <1>2, <1>6 DEF gen_var_definition, gen_function_expression
  <1>7. CASE \E x \in Names : gen_for_cycle(x)
    BY <1>1, <1>7 DEF gen_for_cycle
  <1>8. CASE gen_fun_body_end
    <2> DEFINE scope == SS_Head(symstack).type
    <2>1. \/ \E code : GenerateFrom(LoopStartAfter, code)
          \/ \E code : GenerateHere(code)
          \/ GenerateNothing
      <3>1. CASE scope = "while_cycle"
        BY <1>8, <3>1 DEF gen_fun_body_end
      <3>2. CASE scope = "for_cycle"
        BY <1>8, <3>2 DEF gen_fun_body_end
      <3>3. CASE scope = "condition"
        BY <1>8, <3>3 DEF gen_fun_body_end
      <3>4. CASE scope = "function"
        BY <1>8, <3>4 DEF gen_fun_body_end
      <3>5. CASE scope \notin {"while_cycle", "for_cycle", "condition", "function"}
        BY <1>8, <3>5 DEF gen_fun_body_end
      <3> QED
        BY <3>1, <3>2, <3>3, <3>4, <3>5
    <2> QED
      BY <1>2, <2>1
  <1> QED
    BY <1>2, <1>3, <1>4, <1>5, <1>6, <1>7, <1>8 DEF CodegenNext, GenStatement

LEMMA NothingEmitted ==
  ASSUME ListIsSafe, phase \in {"prolog", "running"},
         phase' \in {"running", "accepted"}, GenerateNothing
  PROVE  UNCHANGED <<instrListFunctions, before_loop_start, tmp_instr>>
  <1> DEFINE code == <<>>
             l == instrListFunctions
             b == before_loop_start
  <1>1. Len(code) = 0
    OBVIOUS
  <1>2. Grows(l, b, code) /\ UNCHANGED tmp_instr
    BY GrowsNothing
  <1> HIDE DEF code
  <1>3. EmitAll(l, b, code) = l
    BY <1>1, <1>2, EmitAllFacts DEF Grows
  <1> QED
    BY <1>2, <1>3 DEF Grows

LEMMA SafeStep ==
  ASSUME IInv, IInv', FunctionAtBottom, ListIsSafe, [CodegenNext]_cgvars
  PROVE  ListIsSafe'
  <1>1. CASE UNCHANGED cgvars
    <2>1. UNCHANGED <<instrListFunctions, before_loop_start, tmp_instr, phase,
                      calls, in_loop>>
      BY <1>1 DEF cgvars, gen, vars, control, loops
    <2> QED
      BY <2>1 DEF ListIsSafe, TextIsHeader, Top
  <1> SUFFICES ASSUME CodegenNext PROVE ListIsSafe'
    BY <1>1
  <1>2. CASE phase = "running" /\ phase' = "running"
    <2>1. PICK l, b, code : Grows(l, b, code) /\ (in_loop' <=> b # NULL)
      BY <1>2, CodeSteps, LoopsOfCode
    <2>2. TextIsHeader'
      BY <1>2, CodeSteps, TextOfCode
    <2> QED
      BY <2>1, <2>2, GrownIsSafe
  <1>3. CASE phase = "prolog" /\ phase' = "running"
    <2>1. program /\ GenerateNothing
      BY <1>3, PrologCode
    <2>2. UNCHANGED in_loop
      BY <1>3, <2>1 DEF program, Reject, loops
    <2>3. UNCHANGED <<instrListFunctions, before_loop_start, tmp_instr>>
      BY <1>3, <2>1, NothingEmitted
    <2>4. tmp_instr = <<>>
      BY <1>3 DEF ListIsSafe, TextIsHeader
    <2> QED
      BY <1>3, <2>2, <2>3, <2>4 DEF ListIsSafe, TextIsHeader
  <1>4. CASE phase' \notin {"prolog", "running"}
    <2>1. tmp_instr' = <<>>
      <3>1. CASE phase' = "accepted"
        <4>1. AtStatement /\ GenerateNothing
          BY <3>1, AcceptedCode
        <4>2. tmp_instr = <<>>
          BY <4>1 DEF AtStatement, ListIsSafe, TextIsHeader
        <4>3. UNCHANGED tmp_instr
          BY <3>1, <4>1, NothingEmitted DEF AtStatement
        <4> QED
          BY <4>2, <4>3
      <3>2. CASE phase' # "accepted"
        BY <1>4, <3>2, FreedCode
      <3> QED
        BY <3>1, <3>2
    <2> QED
      BY <1>4, <2>1, NoText DEF ListIsSafe, TextIsHeader
  <1>5. phase' # "prolog"
    BY PrologSteps, ParserStep, PrologCode DEF program, Reject
  <1>6. phase' = "running" => phase \in {"prolog", "running"}
    BY ParserStep, BeginsFacts
  <1> QED
    BY <1>2, <1>3, <1>4, <1>5, <1>6

(***************************************************************************)
(* Variables are created before they are written to.                       *)
(***************************************************************************)
(* A for cycle's control variable is in its own scope's table.             *)
ForVarsKnown ==
  phase = "running" =>
    \A k \in 2..Len(symstack) :
      symstack[k].type = "for_cycle" => calls[k].id \in symstack[k].table

(* The variables code can still write to.                                  *)
FrameVars(k) ==
  {Var(symstack[k].uid, x) : x \in symstack[k].table}
    \union {v \in {<<"for", symstack[k].uid, calls[k].id>>} :
              symstack[k].type = "for_cycle"}

Live == UNION {FrameVars(k) : k \in 2..Len(symstack)}

UsesLive(text) == \A i \in 1..Len(text) : Uses(text[i]) => text[i].arg \in Live

(* VariablesCreatedBeforeUse, with what makes it inductive: each live      *)
(* variable is created in the function that is being read, the position    *)
(* definitions are hoisted to is in it, and the text that waits writes to  *)
(* live variables.                                                         *)
LiveAreCreated ==
  OnlyDefvarsAreMoved =>
    /\ Prepared(Code)
    /\ phase = "running" =>
         /\ in_loop => Current(Code, before_loop_start)
         /\ \A v \in Live : HasVariable(Code, v)
         /\ UsesLive(tmp_instr)

LEMMA ForVarsStep ==
  ASSUME IInv, ForVarsKnown, [Next]_vars
  PROVE  ForVarsKnown'
  <1> SUFFICES ASSUME phase' = "running",
                      NEW k \in 2..Len(symstack'), symstack'[k].type = "for_cycle"
               PROVE  calls'[k].id \in symstack'[k].table
    BY DEF ForVarsKnown
  <1>1. phase = "running"
    BY BeginsFacts
  <1>2. /\ Depth \in Nat \ {0} /\ Len(symstack) = Depth
        /\ \A i \in 2..Depth :
             symstack[i].type = "for_cycle" => calls[i].id \in symstack[i].table
    BY <1>1, DepthFacts DEF ForVarsKnown
  <1>3. ASSUME NEW p, NEW x, NEW fun, NEW names, Opens(p, x, fun, names),
               \A i \in 2..Depth : symstack'[i] = symstack[i],
               ScopeOf(p) = "for_cycle" => x \in names
        PROVE  calls'[k].id \in symstack'[k].table
    <2>1. CASE k = Depth + 1
      BY <1>2, <1>3, <2>1 DEF Opens, Activation
    <2>2. CASE k \in 2..Depth
      BY <1>2, <1>3, <2>2 DEF Opens, KeepsCalls
    <2> QED
      BY <1>2, <1>3, <2>1, <2>2 DEF Opens
  <1>4. CASE Stays
    BY <1>2, <1>4 DEF Stays
  <1>5. ASSUME NEW f \in Names, NEW sig \in Signatures, Declares(f, sig)
        PROVE  FALSE
    BY <1>2, <1>5 DEF Declares, Puts
  <1>6. ASSUME NEW f \in Names, Defines(f)
        PROVE  calls'[k].id \in symstack'[k].table
    BY <1>2, <1>3, <1>6, ScopeOfEach DEF Defines
  <1>7. ASSUME NEW x \in Names, NEW t \in Types, TakesParameter(x, t)
        PROVE  calls'[k].id \in symstack'[k].table
    BY <1>2, <1>7 DEF TakesParameter, Puts, Becomes, KeepsFrames, KeepsCalls
  <1>8. ASSUME NEW rets \in Seq(Types), EndsHeader(rets)
        PROVE  calls'[k].id \in symstack'[k].table
    BY <1>2, <1>8 DEF EndsHeader, Becomes, KeepsCalls
  <1>9. ASSUME NEW x \in Names, AddsVariable(x)
        PROVE  calls'[k].id \in symstack'[k].table
    BY <1>2, <1>9 DEF AddsVariable, Puts, KeepsFrames
  <1>10. ASSUME NEW p \in LoopProcs, NEW x, NEW names, OpensLoop(p, x, names)
         PROVE  calls'[k].id \in symstack'[k].table
    <2>1. ScopeOf(p) = "for_cycle" => x \in names
      BY <1>10, ScopeOfEach DEF OpensLoop, LoopProcs
    <2> QED
      BY <1>2, <1>3, <1>10, <2>1 DEF OpensLoop, KeepsFrames
  <1>11. CASE OpensBranch
    BY <1>2, <1>3, <1>11, ScopeOfEach DEF OpensBranch, KeepsFrames
  <1>12. ASSUME NEW p \in CondProcs, NextBranch(p)
         PROVE  calls'[k].id \in symstack'[k].table
    BY <1>2, <1>12 DEF NextBranch, Becomes, KeepsFrames, KeepsCalls
  <1>13. CASE Ends
    BY <1>2, <1>13 DEF Ends, KeepsFrames, KeepsCalls
  <1> QED
    BY <1>1, <1>4, <1>5, <1>6, <1>7, <1>8, <1>9, <1>10, <1>11, <1>12, <1>13,
       StepCases DEF Moves

(* The frames' variables after a step.                                     *)
LEMMA SameFrameVars ==
  ASSUME NEW k, symstack'[k] = symstack[k], calls'[k].id = calls[k].id
  PROVE  FrameVars(k)' = FrameVars(k)
  BY DEF FrameVars

LEMMA LiveWithin ==
  ASSUME NEW V, \A k \in 2..Len(symstack') : FrameVars(k)' \subseteq V
  PROVE  Live' \subseteq V
  BY DEF Live

LEMMA LiveOfPuts ==
  ASSUME Depth \in Nat \ {0, 1}, Len(symstack) = Depth, NEW x, Puts(x),
         \A i \in 1..Depth : calls'[i].id = calls[i].id
  PROVE  Live' \subseteq Live \union {Var(symstack[Depth].uid, x)}
  <1> DEFINE V == Live \union {Var(symstack[Depth].uid, x)}
  <1> SUFFICES ASSUME NEW k \in 2..Len(symstack') PROVE FrameVars(k)' \subseteq V
    BY LiveWithin
  <1>1. k \in 2..Depth /\ FrameVars(k) \subseteq Live
    BY DEF Puts, Live
  <1>2. CASE k # Depth
    BY <1>1, <1>2, SameFrameVars DEF Puts, KeepsFrames
  <1>3. CASE k = Depth
    BY <1>1, <1>3 DEF Puts, FrameVars
  <1> QED
    BY <1>2, <1>3

LEMMA LiveOfOpens ==
  ASSUME Depth \in Nat \ {0}, Len(symstack) = Depth,
         NEW p, NEW x, NEW fun, NEW names, Opens(p, x, fun, names),
         \A i \in 2..Depth : symstack'[i] = symstack[i]
  PROVE  Live' \subseteq Live \union {Var(unique_id, y) : y \in names}
                     \union {v \in {<<"for", unique_id, x>>} :
                                ScopeOf(p) = "for_cycle"}
  <1> DEFINE W == {Var(unique_id, y) : y \in names}
                   \union {v \in {<<"for", unique_id, x>>} :
                                ScopeOf(p) = "for_cycle"}
             V == Live \union W
  <1> SUFFICES ASSUME NEW k \in 2..Len(symstack') PROVE FrameVars(k)' \subseteq V
    BY LiveWithin
  <1>1. CASE k = Depth + 1
    <2>1. symstack'[k] = [type |-> ScopeOf(p), uid |-> unique_id, fun |-> fun,
                          table |-> names]
      BY <1>1 DEF Opens
    <2>2. /\ symstack'[k].type = ScopeOf(p) /\ symstack'[k].uid = unique_id
          /\ symstack'[k].table = names /\ calls'[k].id = x
      BY <1>1, <2>1 DEF Opens, Activation
    <2>3. FrameVars(k)' = W
      BY <2>2 DEF FrameVars
    <2> QED
      BY <2>3
  <1>2. CASE k # Depth + 1
    <2>1. k \in 2..Depth /\ FrameVars(k) \subseteq Live
      BY <1>2 DEF Opens, Live
    <2>2. FrameVars(k)' = FrameVars(k)
      BY <2>1, SameFrameVars DEF Opens, KeepsCalls
    <2> QED
      BY <2>1, <2>2
  <1> QED
    BY <1>1, <1>2

LEMMA LiveOfNext ==
  ASSUME Depth \in Nat \ {0, 1}, Len(symstack) = Depth, NEW p, NextBranch(p)
  PROVE  Live' \subseteq Live
  <1> SUFFICES ASSUME NEW k \in 2..Len(symstack') PROVE FrameVars(k)' \subseteq Live
    BY LiveWithin
  <1>1. k \in 2..Depth /\ FrameVars(k) \subseteq Live
    BY DEF NextBranch, Live
  <1>2. CASE k # Depth
    BY <1>1, <1>2, SameFrameVars DEF NextBranch, Becomes, KeepsFrames, KeepsCalls
  <1>3. CASE k = Depth
    BY <1>1, <1>3 DEF NextBranch, FrameVars
  <1> QED
    BY <1>2, <1>3

LEMMA LiveOfEnds ==
  ASSUME Depth \in Nat \ {0, 1}, Len(symstack) = Depth, Ends
  PROVE  Live' \subseteq Live
  <1> SUFFICES ASSUME NEW k \in 2..Len(symstack') PROVE FrameVars(k)' \subseteq Live
    BY LiveWithin
  <1>1. k \in 2..Depth /\ FrameVars(k) \subseteq Live
    BY DEF Ends, Live
  <1>2. FrameVars(k)' = FrameVars(k)
    BY <1>1, SameFrameVars DEF Ends, KeepsFrames, KeepsCalls
  <1> QED
    BY <1>1, <1>2

LEMMA LiveOfCalls ==
  ASSUME symstack' = symstack, \A i \in 2..Len(symstack) : calls'[i].id = calls[i].id
  PROVE  Live' \subseteq Live
  BY SameFrameVars DEF Live

(* The variable a name found on the stack stands for.                      *)
LEMMA VariableIsLive ==
  ASSUME NEW x, IsVariable(x)
  PROVE  Variable(x) \in Live
  <1> DEFINE k == CHOOSE k \in 2..Len(symstack) : IsFoundAt(symstack, x, k)
  <1>1. k \in 2..Len(symstack) /\ IsFoundAt(symstack, x, k)
    BY DEF IsVariable
  <1>2. Variable(x) = Var(symstack[k].uid, x)
    BY DEF Variable
  <1> HIDE DEF k
  <1>3. Variable(x) \in FrameVars(k)
    BY <1>1, <1>2 DEF FrameVars, IsFoundAt
  <1> QED
    BY <1>1, <1>3 DEF Live

(* The end of a for cycle writes to the hidden copy of its own variable.   *)
LEMMA ForVarIsLive ==
  ASSUME IInv, phase = "running", ForVarsKnown, Top.proc = "for_cycle"
  PROVE  <<"for", Variable(Top.id)[2], Top.id>> \in Live
  <1>1. /\ Depth \in Nat /\ Depth >= 2 /\ Len(symstack) = Depth
        /\ Top = calls[Depth] /\ symstack[Depth].type = ScopeOf(Top.proc)
    BY DepthFacts
  <1>2. symstack[Depth].type = "for_cycle"
    BY <1>1, ScopeOfEach
  <1>3. Top.id \in symstack[Depth].table
    BY <1>1, <1>2 DEF ForVarsKnown
  <1>4. IsFoundAt(symstack, Top.id, Depth)
    BY <1>1, <1>3 DEF IsFoundAt
  <1> DEFINE k == CHOOSE k \in 2..Len(symstack) : IsFoundAt(symstack, Top.id, k)
  <1>5. k \in 2..Len(symstack) /\ IsFoundAt(symstack, Top.id, k)
    BY <1>1, <1>4
  <1>6. Variable(Top.id) = Var(symstack[k].uid, Top.id)
    BY DEF Variable
  <1> HIDE DEF k
  <1>7. k = Depth
    <2>1. ~ (Depth \in (k + 1)..Len(symstack))
      BY <1>3, <1>5 DEF IsFoundAt
    <2> QED
      BY <1>1, <1>5, <2>1
  <1>8. Variable(Top.id)[2] = symstack[Depth].uid
    BY <1>6, <1>7 DEF Var
  <1>9. <<"for", Variable(Top.id)[2], Top.id>> \in FrameVars(Depth)
    BY <1>1, <1>2, <1>8 DEF FrameVars
  <1> QED
    BY <1>1, <1>9 DEF Live

LEMMA AllowedPlain ==
  ASSUME NEW code, NEW V, NEW nested, \A i \in 1..Len(code) : Plain(code[i])
  PROVE  Allowed(code, V, nested)
  BY DEF Allowed, Plain

(* One code after the other.                                               *)
LEMMA AllowedTogether ==
  ASSUME NEW c, NEW d, IsSeq(c), IsSeq(d), NEW V, NEW nested,
         Allowed(c, V, nested), Allowed(d, V, nested)
  PROVE  Allowed(c \o d, V, nested)
  <1> DEFINE e == c \o d
             Good(f, i) ==
               /\ ~ Begins(f[i])
               /\ f[i].hoist => nested
               /\ Uses(f[i]) =>
                    /\ ~ f[i].hoist
                    /\ \/ f[i].arg \in V
                       \/ \E j \in 1..(i - 1) : /\ Creates(f[j])
                                                /\ f[j].arg = f[i].arg
  <1>1. /\ Len(e) = Len(c) + Len(d) /\ Len(c) \in Nat /\ Len(d) \in Nat
        /\ \A i \in 1..Len(c) : e[i] = c[i]
        /\ \A i \in 1..Len(d) : e[Len(c) + i] = d[i]
    <2>1. IsSeq(c) /\ IsSeq(d)
      OBVIOUS
    <2> QED
      BY ONLY <2>1, ConcatFacts DEF e
  <1>2. /\ \A i \in 1..Len(c) : Good(c, i)
        /\ \A i \in 1..Len(d) : Good(d, i)
    BY DEF Allowed
  <1> HIDE DEF e
  <1>3. ASSUME NEW i \in 1..Len(e) PROVE Good(e, i)
    <2>1. CASE i \in 1..Len(c)
      <3>1. e[i] = c[i] /\ \A j \in 1..(i - 1) : e[j] = c[j]
        BY <1>1, <2>1
      <3>2. Good(c, i)
        BY <1>2, <2>1
      <3> QED
        BY <3>1, <3>2
    <2>2. CASE i \notin 1..Len(c)
      <3> DEFINE k == i - Len(c)
      <3>1. k \in 1..Len(d) /\ Len(c) + k = i
        BY <1>1, <2>2
      <3> HIDE DEF k
      <3>2. Good(d, k) /\ e[i] = d[k]
        BY <1>1, <1>2, <3>1
      <3>3. ASSUME NEW j \in 1..(k - 1)
            PROVE  Len(c) + j \in 1..(i - 1) /\ e[Len(c) + j] = d[j]
        <4>1. j \in 1..Len(d) /\ Len(c) + j \in 1..(i - 1)
          BY <1>1, <3>1
        <4> QED
          BY <1>1, <4>1
      <3> QED
        BY <3>2, <3>3
    <2> QED
      BY <2>1, <2>2
  <1>4. Allowed(e, V, nested)
    BY <1>3 DEF Allowed
  <1> QED
    BY <1>4 DEF e

LEMMA ForHeaderAllowed ==
  ASSUME NEW uid, NEW x, NEW V, in_loop'
  PROVE  LET code == ForHeader(uid, x) IN
         /\ Allowed(code, V, in_loop')
         /\ \A v \in {Var(uid, x), <<"for", uid, x>>} :
              \E j \in 1..Len(code) : Creates(code[j]) /\ code[j].arg = v
  <1> DEFINE c == ForHeader(uid, x)
             v1 == Var(uid, x)
             v2 == <<"terminating_cond", uid, NoName>>
             v3 == <<"step", uid, NoName>>
             v4 == <<"for", uid, x>>
             Use(v) == Instr("USE", v)
  <1>1. /\ IsSeq(c) /\ Len(c) = 10
        /\ c[1] = Other /\ c[4] = Other /\ c[7] = Other
        /\ c[2] = Defvar(v1) /\ c[3] = Use(v1)
        /\ c[5] = Defvar(v2) /\ c[6] = Use(v2)
        /\ c[8] = Defvar(v3) /\ c[9] = Use(v3)
        /\ c[10] = Defvar(v4)
    BY ForHeaderFacts
  <1>2. \A v : /\ Creates(Defvar(v)) /\ Defvar(v).arg = v /\ Defvar(v).hoist = in_loop'
               /\ ~ Begins(Defvar(v)) /\ ~ Uses(Defvar(v))
               /\ Use(v).arg = v /\ ~ Use(v).hoist /\ ~ Begins(Use(v))
    BY DefvarFacts, AccessFacts
  <1> HIDE DEF c, v1, v2, v3, v4, Use
  <1>3. Allowed(c, V, in_loop')
    <2> SUFFICES ASSUME NEW i \in 1..10
                 PROVE  /\ ~ Begins(c[i])
                        /\ Uses(c[i]) =>
                             /\ ~ c[i].hoist
                             /\ \E j \in 1..(i - 1) : /\ Creates(c[j])
                                                      /\ c[j].arg = c[i].arg
      BY <1>1 DEF Allowed
    <2>1. CASE i \in {1, 4, 7}
      BY <1>1, <2>1, PlainFacts DEF Plain
    <2>2. CASE i \in {2, 5, 8, 10}
      BY <1>1, <1>2, <2>2
    <2>3. CASE i \in {3, 6, 9}
      <3>1. i - 1 \in 1..(i - 1)
        BY <2>3
      <3>2. /\ Creates(c[i - 1]) /\ c[i - 1].arg = c[i].arg
            /\ ~ Begins(c[i]) /\ ~ c[i].hoist
        BY <1>1, <1>2, <2>3
      <3> QED
        BY <3>1, <3>2
    <2> QED
      BY <2>1, <2>2, <2>3
  <1>4. /\ 2 \in 1..Len(c) /\ Creates(c[2]) /\ c[2].arg = v1
        /\ 10 \in 1..Len(c) /\ Creates(c[10]) /\ c[10].arg = v4
    BY <1>1, <1>2
  <1> QED
    BY <1>3, <1>4 DEF c, v1, v4

(* The list l grows by code that creates what the step makes live.         *)
Made(code, v) == \E j \in 1..Len(code) : Creates(code[j]) /\ code[j].arg = v

Provides(l, b, code) ==
  /\ Grows(l, b, code)
  /\ Allowed(code, Live, in_loop')
  /\ in_loop' => Current(l.items, b)
  /\ Prepared(l.items)
  /\ \A v \in Live : HasVariable(l.items, v)
  /\ \A v \in Live' : v \in Live \/ Made(code, v)
  /\ UsesLive(tmp_instr)'

LEMMA Provided ==
  ASSUME NEW l, NEW b, NEW code, Provides(l, b, code)
  PROVE  LiveAreCreated'
  <1> DEFINE s == EmitAll(l, b, code).items
  <1>1. /\ Prepared(s)
        /\ in_loop' => Current(s, b)
        /\ \A v \in Live : HasVariable(s, v)
        /\ \A j \in 1..Len(code) : Creates(code[j]) => HasVariable(s, code[j].arg)
    BY PreparedCode DEF Provides, Grows
  <1>2. Code' = s /\ before_loop_start' = b
    BY DEF Provides, Grows, Code
  <1> HIDE DEF s
  <1>3. \A v \in Live' : HasVariable(s, v)
    BY <1>1 DEF Provides, Made
  <1>4. /\ Prepared(Code') /\ (in_loop' => Current(Code', before_loop_start'))
        /\ \A v \in Live' : HasVariable(Code', v)
        /\ UsesLive(tmp_instr)'
    BY <1>1, <1>2, <1>3 DEF Provides
  <1> QED
    BY <1>4 DEF LiveAreCreated

LEMMA NoUses ==
  ASSUME tmp_instr' = <<>>
  PROVE  UsesLive(tmp_instr)'
  <1>1. Len(tmp_instr') = 0
    OBVIOUS
  <1> QED
    BY <1>1 DEF UsesLive

(* The text that waits changes nothing of what code may do.                *)
LEMMA TextAllowed ==
  ASSUME ListIsSafe, UsesLive(tmp_instr), NEW code, IsSeq(code),
         WithText(code) = code \/ WithText(code) = tmp_instr \o code,
         Allowed(code, Live, in_loop'),
         \A v \in Live' : v \in Live \/ Made(code, v)
  PROVE  /\ Allowed(WithText(code), Live, in_loop')
         /\ \A v \in Live' : v \in Live \/ Made(WithText(code), v)
  <1> DEFINE t == tmp_instr
             e == t \o code
  <1>1. IsSeq(t) /\ Allowed(t, Live, in_loop')
    BY TextFacts DEF ListIsSafe, TextIsHeader, Allowed, UsesLive
  <1> HIDE DEF t
  <1>2. Allowed(t \o code, Live, in_loop')
    BY <1>1, AllowedTogether
  <1>3. /\ Len(e) = Len(t) + Len(code) /\ Len(t) \in Nat /\ Len(code) \in Nat
        /\ \A i \in 1..Len(code) : e[Len(t) + i] = code[i]
    BY <1>1, ConcatFacts
  <1> HIDE DEF e
  <1>4. ASSUME NEW v, Made(code, v) PROVE Made(e, v)
    <2>1. PICK j \in 1..Len(code) : Creates(code[j]) /\ code[j].arg = v
      BY <1>4 DEF Made
    <2>2. Len(t) + j \in 1..Len(e) /\ e[Len(t) + j] = code[j]
      BY <1>3
    <2> QED
      BY <2>1, <2>2 DEF Made
  <1>5. WithText(code) = code \/ WithText(code) = e
    BY DEF t, e
  <1> QED
    BY <1>2, <1>4, <1>5 DEF e

LEMMA OnlyDefvarsMeans ==
  /\ OnlyDefvarsAreMoved <=> OnlyDefvars(Code)
  /\ OnlyDefvarsAreMoved' <=> OnlyDefvars(Code')
  BY DEF OnlyDefvarsAreMoved, OnlyDefvars, Places, Creates

(* A rule's code is added, and so is the text.                             *)
LEMMA ProvidedWith ==
  ASSUME ListIsSafe, LiveAreCreated, phase = "running", OnlyDefvarsAreMoved',
         NEW b, NEW code, IsSeq(code),
         Grows(instrListFunctions, b, WithText(code)), tmp_instr' = <<>>,
         Allowed(code, Live, in_loop'),
         OnlyDefvarsAreMoved /\ in_loop' => Current(Code, b),
         \A v \in Live' : v \in Live \/ Made(code, v)
  PROVE  LiveAreCreated'
  <1>1. OnlyDefvars(EmitAll(instrListFunctions, b, WithText(code)).items)
    BY OnlyDefvarsMeans DEF Grows, Code
  <1>2. /\ OnlyDefvars(Code)
        /\ WithText(code) = code \/ WithText(code) = tmp_instr \o code
    BY <1>1, TextComesFirst DEF ListIsSafe, TextIsHeader, Grows, Code
  <1>3. /\ OnlyDefvarsAreMoved
        /\ Prepared(Code) /\ \A v \in Live : HasVariable(Code, v)
        /\ UsesLive(tmp_instr)
    BY <1>2, OnlyDefvarsMeans DEF LiveAreCreated
  <1>4. /\ Allowed(WithText(code), Live, in_loop')
        /\ \A v \in Live' : v \in Live \/ Made(WithText(code), v)
    BY <1>2, <1>3, TextAllowed
  <1>5. Provides(instrListFunctions, b, WithText(code))
    BY <1>3, <1>4, NoUses DEF Provides, Code
  <1> QED
    BY <1>5, Provided

LEMMA ProvidedHere ==
  ASSUME ListIsSafe, LiveAreCreated, phase = "running",
         NEW code, IsSeq(code), Here(code),
         Allowed(code, Live, in_loop'), in_loop' => in_loop,
         \A v \in Live' : v \in Live \/ Made(code, v)
  PROVE  LiveAreCreated'
  <1> SUFFICES ASSUME OnlyDefvarsAreMoved' PROVE LiveAreCreated'
    BY DEF LiveAreCreated
  <1>1. OnlyDefvarsAreMoved /\ in_loop' => Current(Code, before_loop_start)
    BY DEF LiveAreCreated
  <1> QED
    BY <1>1, ProvidedWith DEF Here

LEMMA ProvidedByLoop ==
  ASSUME ListIsSafe, LiveAreCreated, phase = "running", NEW code, IsSeq(code),
         Starting(instrListFunctions, WithText(code), <<>>),
         Allowed(code, Live, in_loop'), Live' \subseteq Live
  PROVE  LiveAreCreated'
  <1> SUFFICES ASSUME OnlyDefvarsAreMoved' PROVE LiveAreCreated'
    BY DEF LiveAreCreated
  <1> DEFINE b == LoopStart(instrListFunctions)
  <1>1. b = IF in_loop THEN before_loop_start ELSE Len(Code)
    BY DEF Starting, LoopStart, Tidy, Code
  <1>2. Len(Code) \in Nat
    BY DEF ListIsSafe, Tidy, Code
  <1>3. OnlyDefvarsAreMoved => Current(Code, b)
    BY <1>1, <1>2, LastIsCurrent DEF LiveAreCreated
  <1> QED
    BY <1>3, ProvidedWith DEF Starting

LEMMA ProvidedAtEnd ==
  ASSUME ListIsSafe, LiveAreCreated, phase = "running",
         NEW code, IsSeq(code), Ending(code),
         ForgetOuterLoop, Allowed(code, Live, in_loop'), Live' \subseteq Live
  PROVE  LiveAreCreated'
  <1> SUFFICES ASSUME OnlyDefvarsAreMoved' PROVE LiveAreCreated'
    BY DEF LiveAreCreated
  <1>1. in_loop' => in_loop /\ LoopStartAfter = before_loop_start
    BY DEF ForgetOuterLoop, LoopStartAfter
  <1>2. OnlyDefvarsAreMoved /\ in_loop' => Current(Code, LoopStartAfter)
    BY <1>1 DEF LiveAreCreated
  <1> QED
    BY <1>2, ProvidedWith DEF Ending

(* The steps.                                                              *)
LEMMA LiveStays ==
  ASSUME IInv, ListIsSafe, LiveAreCreated, phase = "running",
         CodeStays \/ CodeDeclares
  PROVE  LiveAreCreated'
  <1>1. /\ Depth \in Nat \ {0} /\ Len(symstack) = Depth
    BY DepthFacts
  <1>2. Live' \subseteq Live /\ UNCHANGED in_loop
    <2>1. CASE CodeStays
      BY <2>1, LiveOfCalls DEF CodeStays, Stays, loops
    <2>2. CASE CodeDeclares
      <3>1. PICK f \in Names, sig \in Signatures : Declares(f, sig)
        BY <2>2 DEF CodeDeclares
      <3>2. Len(symstack') = 1 /\ UNCHANGED in_loop
        BY <3>1 DEF Declares, Puts, loops
      <3>3. \A k \in 2..Len(symstack') : FrameVars(k)' \subseteq Live
        BY <3>2
      <3> QED
        BY <3>2, <3>3, LiveWithin
    <2> QED
      BY <2>1, <2>2
  <1>3. ASSUME NEW code, IsSeq(code), Here(code), Allowed(code, Live, in_loop')
        PROVE  LiveAreCreated'
    BY <1>2, <1>3, ProvidedHere
  <1>4. Allowed(<<>>, Live, in_loop')
    BY DEF Allowed
  <1>5. ASSUME NEW x, IsVariable(x)
        PROVE  Allowed(<<Other, Instr("MOVE", Variable(x))>>, Live, in_loop')
    <2> DEFINE m == Instr("MOVE", Variable(x))
    <2>1. m.arg \in Live /\ ~ m.hoist /\ ~ Begins(m)
      BY <1>5, VariableIsLive, AccessFacts
    <2> HIDE DEF m
    <2> QED
      BY <2>1, PlainFacts DEF Allowed, Plain, m
  <1>6. \A l : Allowed(<<Other, Instr("RETURN", l)>>, Live, in_loop')
    BY PlainFacts, AllowedPlain
  <1>7. \A l : Allowed(<<Instr("BREAK", l)>>, Live, in_loop')
    BY PlainFacts, AllowedPlain
  <1>8. /\ IsSeq(<<>>)
        /\ \A x : IsSeq(<<Other, Instr("MOVE", Variable(x))>>)
        /\ \A l : IsSeq(<<Other, Instr("RETURN", l)>>) /\ IsSeq(<<Instr("BREAK", l)>>)
    BY TupleFacts
  <1> QED
    BY <1>3, <1>4, <1>5, <1>6, <1>7, <1>8 DEF CodeStays, CodeDeclares

(* A function begins, with no variables and outside every cycle.           *)
LEMMA PreparedBegin ==
  ASSUME NEW s, NEW t, NEW x, Len(s) \in Nat,
         Inserted(t, s, Len(s), x), Begins(x), Prepared(s)
  PROVE  Prepared(t)
  <1> SUFFICES ASSUME NEW k \in 1..Len(t), Uses(t[k]) PROVE CreatedFor(t, k)
    BY DEF Prepared
  <1>1. /\ Len(t) = Len(s) + 1 /\ t[Len(s) + 1] = x
        /\ \A i \in 1..Len(s) : t[i] = s[i]
    BY DEF Inserted
  <1>2. ~ Uses(x)
    BY DEF Begins, Uses
  <1>3. k \in 1..Len(s) /\ Uses(s[k])
    BY <1>1, <1>2
  <1>4. PICK m \in 1..Len(s) : /\ m < k /\ Creates(s[m]) /\ s[m].arg = s[k].arg
                               /\ Together(s, m, k)
    BY <1>3 DEF Prepared, CreatedFor
  <1>5. Together(t, m, k)
    BY <1>3, <1>4, StartsAppend
  <1>6. m \in 1..Len(t) /\ t[m] = s[m] /\ t[k] = s[k]
    BY <1>1, <1>3
  <1> QED
    BY <1>4, <1>5, <1>6 DEF CreatedFor

LEMMA LiveDefines ==
  ASSUME LoopsInv, ListIsSafe, LiveAreCreated, phase = "running", CodeDefines
  PROVE  LiveAreCreated'
  <1> SUFFICES ASSUME OnlyDefvarsAreMoved' PROVE LiveAreCreated'
    BY DEF LiveAreCreated
  <1>1. PICK f \in Names : Defines(f) /\ Here(<<Label(Func(f)), Other>>)
    BY DEF CodeDefines
  <1> DEFINE x == Label(Func(f))
             y == Other
             code == <<x, y>>
             l == instrListFunctions
             b == before_loop_start
  <1>2. Len(symstack) = 1 /\ Depth = 1 /\ symstack[1].type = "global"
    BY <1>1, DepthFacts, ScopeOfEach DEF Defines, LoopsInv
  <1>3. ~ in_loop'
    <2>1. OpenLoops(symstack) = {}
      BY <1>2 DEF OpenLoops, LoopScopes
    <2> QED
      BY <1>1, <2>1 DEF Defines, LoopsInv, OuterLoopIsRemembered, loops
  <1>4. Live' = {}
    <2>1. Opens("funparam_def_list", f, f, {})
      BY <1>1 DEF Defines
    <2>2. Live' \subseteq Live \union {Var(unique_id, z) : z \in {}}
                     \union {v \in {<<"for", unique_id, f>>} :
                                ScopeOf("funparam_def_list") = "for_cycle"}
      BY <1>2, <2>1, LiveOfOpens
    <2>3. Live = {}
      BY <1>2 DEF Live
    <2>4. ScopeOf("funparam_def_list") # "for_cycle"
      BY ScopeOfEach
    <2> QED
      BY <2>2, <2>3, <2>4
  <1>5. /\ Begins(x) /\ ~ x.hoist
        /\ Plain(y)
    BY PlainFacts DEF Begins, Label, Instr, Func
  <1>6. Len(code) = 2 /\ code[1] = x /\ code[2] = y
    OBVIOUS
  <1>7. Ready(l, b, code) /\ Code' = EmitAll(l, b, code).items /\ tmp_instr' = <<>>
    <2>1. tmp_instr = <<>>
      BY <1>1 DEF Defines, ListIsSafe, TextIsHeader
    <2> QED
      BY <1>1, <2>1 DEF Here, WithText, Grows, Code
  <1> HIDE DEF x, y, code
  <1>8. PICK a : /\ a[0] = l /\ EmitAll(l, b, code) = a[2]
                 /\ Insertions(a, b, code)
    BY <1>6, <1>7, EmitAllFacts
  <1>9. /\ Len(a[0].items) \in Nat /\ Len(a[1].items) \in Nat
        /\ Inserted(a[1].items, a[0].items, PlaceOf(a[0], b, x), x)
        /\ Inserted(a[2].items, a[1].items, PlaceOf(a[1], b, y), y)
    <2>1. 1 \in 1..2 /\ 2 \in 1..2 /\ 1 - 1 = 0 /\ 2 - 1 = 1
      OBVIOUS
    <2> QED
      BY <1>6, <1>8, <2>1 DEF Insertions
  <1>10. PlaceOf(a[0], b, x) = Len(a[0].items) /\ PlaceOf(a[1], b, y) = Len(a[1].items)
    BY <1>5 DEF PlaceOf, Plain
  <1>11. Prepared(a[1].items)
    <2>1. Prepared(l.items)
      BY <1>7, DefvarsKept, OnlyDefvarsMeans DEF LiveAreCreated, Code
    <2> QED
      BY <1>5, <1>8, <1>9, <1>10, <2>1, PreparedBegin
  <1>12. Prepared(a[2].items)
    <2>1. Len(a[1].items) \in 0..Len(a[1].items)
      BY <1>9
    <2> QED
      BY <1>5, <1>9, <1>10, <1>11, <2>1, PreparedStep DEF Plain
  <1>13. Prepared(Code')
    BY <1>7, <1>8, <1>12
  <1> QED
    BY <1>3, <1>4, <1>7, <1>13, NoUses DEF LiveAreCreated

(* Parameters, return values and variables.                                *)
LEMMA LivePuts ==
  ASSUME LoopsInv, ListIsSafe, LiveAreCreated, phase = "running",
         CodeTakesParameter \/ CodeAddsVariable
  PROVE  LiveAreCreated'
  <1>1. /\ Depth \in Nat \ {0} /\ Len(symstack) = Depth
        /\ SS_Head(symstack) = symstack[Depth]
    BY DepthFacts DEF LoopsInv
  <1> DEFINE uid == symstack[Depth].uid
  <1>2. ASSUME NEW x, Depth >= 2, Puts(x), UNCHANGED in_loop,
               \A i \in 1..Depth : calls'[i].id = calls[i].id,
               NEW code, IsSeq(code), Here(code), Allowed(code, Live, in_loop'),
               Made(code, Var(uid, x))
        PROVE  LiveAreCreated'
    <2>1. Live' \subseteq Live \union {Var(uid, x)}
      BY <1>1, <1>2, LiveOfPuts
    <2> QED
      BY <1>2, <2>1, ProvidedHere
  <1>3. ASSUME NEW x \in Names, NEW t \in Types, TakesParameter(x, t), Here(Param(x))
        PROVE  LiveAreCreated'
    <2> DEFINE d == Instr("DEFVAR", Var(uid, x))
               m == Instr("MOVE", Var(uid, x))
    <2>1. /\ Creates(d) /\ d.arg = Var(uid, x) /\ ~ d.hoist /\ ~ Begins(d) /\ ~ Uses(d)
          /\ m.arg = Var(uid, x) /\ ~ m.hoist /\ ~ Begins(m)
      BY AccessFacts
    <2>2. Param(x) = <<d, m>>
      BY <1>1 DEF Param
    <2> HIDE DEF d, m
    <2>3. 1 \in 1..(2 - 1)
      OBVIOUS
    <2>4. Allowed(<<d, m>>, Live, in_loop') /\ Made(<<d, m>>, Var(uid, x))
      BY <2>1, <2>3 DEF Allowed, Made
    <2>5. IsSeq(<<d, m>>)
      BY TupleFacts
    <2>6. Depth >= 2 /\ Puts(x) /\ UNCHANGED in_loop
          /\ \A i \in 1..Depth : calls'[i].id = calls[i].id
      BY <1>3 DEF TakesParameter, Becomes, KeepsCalls, loops
    <2> QED
      BY <1>2, <1>3, <2>2, <2>4, <2>5, <2>6
  <1>4. ASSUME NEW v
        PROVE  /\ IsSeq(VariableCode(v)) /\ IsSeq(DeclareCode(v))
               /\ Allowed(VariableCode(v), Live, in_loop') /\ Made(VariableCode(v), v)
               /\ Allowed(DeclareCode(v), Live, in_loop') /\ Made(DeclareCode(v), v)
    <2> DEFINE d == Defvar(v)
               m == Instr("MOVE", v)
               long == <<Other, d, m>>
               short == <<d, m>>
    <2>1. /\ Creates(d) /\ d.arg = v /\ d.hoist = in_loop'
          /\ ~ Begins(d) /\ ~ Uses(d)
          /\ m.arg = v /\ ~ m.hoist /\ ~ Begins(m)
      BY AccessFacts, DefvarFacts
    <2>2. VariableCode(v) = long /\ DeclareCode(v) = short
      BY DEF VariableCode, DeclareCode
    <2> HIDE DEF d, m
    <2>3. 2 \in 1..(3 - 1) /\ 2 \in 1..3 /\ 1 \in 1..(2 - 1) /\ 1 \in 1..2
      OBVIOUS
    <2>4. /\ Len(long) = 3 /\ long[1] = Other /\ long[2] = d /\ long[3] = m
          /\ Len(short) = 2 /\ short[1] = d /\ short[2] = m
          /\ IsSeq(long) /\ IsSeq(short)
      BY TupleFacts
    <2> HIDE DEF long, short
    <2>5. Allowed(long, Live, in_loop') /\ Made(long, v)
      BY <2>1, <2>3, <2>4, PlainFacts DEF Allowed, Made, Plain
    <2>6. Allowed(short, Live, in_loop') /\ Made(short, v)
      BY <2>1, <2>3, <2>4 DEF Allowed, Made
    <2> QED
      BY <2>2, <2>4, <2>5, <2>6
  <1>5. ASSUME NEW x \in Names, AddsVariable(x),
               \/ Here(VariableCode(Var(uid, x)))
               \/ Here(DeclareCode(Var(uid, x)))
        PROVE  LiveAreCreated'
    <2>1. Depth >= 2 /\ Puts(x) /\ UNCHANGED <<calls, in_loop>>
      BY <1>5 DEF AddsVariable, loops
    <2> QED
      BY <1>2, <1>4, <1>5, <2>1
  <1> QED
    BY <1>1, <1>3, <1>5 DEF CodeTakesParameter, CodeAddsVariable

LEMMA ReturnDefvarsFacts ==
  ASSUME NEW n \in Nat
  PROVE  LET c == ReturnDefvars(n) IN
         IsSeq(c) /\ \A i \in 1..Len(c) : \E v : c[i] = Instr("DEFVAR", v)
  <1> DEFINE D(i) == Instr("DEFVAR", <<"return", i, NoName>>)
             c == ReturnDefvars(n)
  <1>1. c = [i \in 1..n |-> D(i)]
    BY DEF ReturnDefvars
  <1>2. \A i : \E v : D(i) = Instr("DEFVAR", v)
    OBVIOUS
  <1> HIDE DEF c, D
  <1>3. c \in Seq({D(i) : i \in 1..n}) /\ Len(c) = n /\ \A i \in 1..n : c[i] = D(i)
    BY <1>1
  <1> QED
    BY <1>2, <1>3 DEF IsSeq, c

LEMMA LiveHeader ==
  ASSUME LoopsInv, ListIsSafe, LiveAreCreated, phase = "running", CodeEndsHeader
  PROVE  LiveAreCreated'
  <1>1. /\ Depth \in Nat \ {0} /\ Len(symstack) = Depth
    BY DepthFacts DEF LoopsInv
  <1>2. PICK rets \in Seq(Types), n \in Nat :
          EndsHeader(rets) /\ Here(ReturnDefvars(n) \o <<Other>>)
    BY DEF CodeEndsHeader
  <1> DEFINE c == ReturnDefvars(n)
             d == <<Other>>
  <1>3. /\ \A i \in 2..Len(symstack) : calls'[i].id = calls[i].id
        /\ symstack' = symstack /\ UNCHANGED in_loop
    BY <1>1, <1>2 DEF EndsHeader, Becomes, KeepsCalls, loops
  <1>4. Live' \subseteq Live
    BY <1>3, LiveOfCalls
  <1>5. IsSeq(c) /\ \A i \in 1..Len(c) : \E v : c[i] = Instr("DEFVAR", v)
    BY <1>2, ReturnDefvarsFacts
  <1>6. Allowed(c, Live, in_loop')
    <2>1. ASSUME NEW i \in 1..Len(c)
          PROVE  ~ Begins(c[i]) /\ ~ c[i].hoist /\ ~ Uses(c[i])
      <3>1. PICK v : c[i] = Instr("DEFVAR", v)
        BY <1>5
      <3> QED
        BY <3>1, AccessFacts
    <2> QED
      BY <2>1 DEF Allowed
  <1>7. IsSeq(d) /\ \A i \in 1..Len(d) : Plain(d[i])
    <2>1. IsSeq(d) /\ Len(d) = 1 /\ d[1] = Other
      BY TupleFacts
    <2> QED
      BY <2>1, PlainFacts
  <1> HIDE DEF c, d
  <1>8. Allowed(c \o d, Live, in_loop') /\ IsSeq(c \o d)
    <2>1. Allowed(d, Live, in_loop')
      BY <1>7, AllowedPlain
    <2> QED
      BY ONLY <1>5, <1>6, <1>7, <2>1, AllowedTogether, ConcatFacts
  <1> QED
    BY <1>2, <1>3, <1>4, <1>8, ProvidedHere DEF c, d

(* A cycle or a branch begins, or goes on with the next branch.            *)
LEMMA OpensNothing ==
  ASSUME Depth \in Nat \ {0}, Len(symstack) = Depth,
         NEW p, NEW x, NEW fun, Opens(p, x, fun, {}), KeepsFrames(Depth),
         ScopeOf(p) # "for_cycle"
  PROVE  Live' \subseteq Live
  <1>1. Live' \subseteq Live \union {Var(unique_id, y) : y \in {}}
                   \union {v \in {<<"for", unique_id, x>>} :
                              ScopeOf(p) = "for_cycle"}
    BY LiveOfOpens DEF KeepsFrames
  <1> QED
    BY <1>1

LEMMA LiveLoops ==
  ASSUME IInv, ListIsSafe, LiveAreCreated, phase = "running",
         CodeOpensWhile \/ CodeOpensRepeat
  PROVE  LiveAreCreated'
  <1>1. /\ Depth \in Nat \ {0} /\ Len(symstack) = Depth
    BY DepthFacts
  <1>2. IsSeq(WhileCode(unique_id)) /\ IsSeq(RepeatCode(unique_id))
    BY TupleFacts DEF WhileCode, RepeatCode
  <1>3. ASSUME NEW p, NEW code, OpensLoop(p, NoName, {}), p # "for_cycle",
               p \in LoopProcs, IsSeq(code),
               Starting(instrListFunctions, WithText(code), <<>>),
               \A i \in 1..Len(code) : Plain(code[i])
        PROVE  LiveAreCreated'
    <2>1. ScopeOf(p) # "for_cycle"
      BY <1>3, ScopeOfEach DEF LoopProcs
    <2>2. Live' \subseteq Live
      BY <1>1, <1>3, <2>1, OpensNothing DEF OpensLoop
    <2>3. Allowed(code, Live, in_loop')
      BY <1>3, AllowedPlain
    <2> QED
      BY <1>3, <2>2, <2>3, ProvidedByLoop
  <1>4. ASSUME NEW i \in 1..Len(WhileCode(unique_id))
        PROVE  Plain(WhileCode(unique_id)[i])
    BY PlainFacts, PlainLabels DEF WhileCode
  <1>5. ASSUME NEW i \in 1..Len(RepeatCode(unique_id))
        PROVE  Plain(RepeatCode(unique_id)[i])
    BY PlainFacts, PlainLabels DEF RepeatCode
  <1>6. /\ "while_cycle" \in LoopProcs /\ "while_cycle" # "for_cycle"
        /\ "repeat_body" \in LoopProcs /\ "repeat_body" # "for_cycle"
    BY DEF LoopProcs
  <1> QED
    BY <1>2, <1>3, <1>4, <1>5, <1>6 DEF CodeOpensWhile, CodeOpensRepeat

LEMMA LiveFor ==
  ASSUME IInv, ListIsSafe, LiveAreCreated, phase = "running", CodeOpensFor
  PROVE  LiveAreCreated'
  <1> SUFFICES ASSUME OnlyDefvarsAreMoved' PROVE LiveAreCreated'
    BY DEF LiveAreCreated
  <1>1. /\ Depth \in Nat \ {0} /\ Len(symstack) = Depth
    BY DepthFacts
  <1> DEFINE comment == <<Other>>
             l   == EmitAll(instrListFunctions, before_loop_start, WithText(comment))
             b   == before_loop_start
             uid == unique_id
  <1>2. PICK x \in Names :
          /\ OpensLoop("for_cycle", x, {x})
          /\ Ready(instrListFunctions, b, WithText(comment))
          /\ Starting(l, ForHeader(uid, x), ForText(uid, x))
    BY DEF CodeOpensFor
  <1>3. IsSeq(comment) /\ \A i \in 1..Len(comment) : Plain(comment[i])
    <2>1. IsSeq(comment) /\ Len(comment) = 1 /\ comment[1] = Other
      BY TupleFacts
    <2> QED
      BY <2>1, PlainFacts
  <1> DEFINE code == ForHeader(uid, x)
             text == ForText(uid, x)
  <1> HIDE DEF l, code, text, comment
  <1>4. OnlyDefvars(l.items)
    <2>1. Grows(l, LoopStart(l), code)
      BY <1>2 DEF Starting, code
    <2> QED
      BY <2>1, OnlyDefvarsMeans, DefvarsKept DEF Grows, Code
  <1>5. /\ OnlyDefvarsAreMoved
        /\ WithText(comment) = comment \/ WithText(comment) = tmp_instr \o comment
    BY <1>2, <1>3, <1>4, TextComesFirst, OnlyDefvarsMeans
       DEF ListIsSafe, TextIsHeader, l, Code
  <1>6. /\ in_loop => Current(l.items, b)
        /\ Prepared(l.items) /\ \A v \in Live : HasVariable(l.items, v)
    <2> DEFINE w == WithText(comment)
               t == tmp_instr
    <2>1. IsSeq(t) /\ Allowed(t, Live, in_loop)
      BY <1>5, TextFacts DEF ListIsSafe, TextIsHeader, Allowed, UsesLive,
                             LiveAreCreated
    <2>2. Allowed(comment, Live, in_loop)
      BY <1>3, AllowedPlain
    <2> HIDE DEF t
    <2>3. Allowed(t \o comment, Live, in_loop)
      BY <1>3, <2>1, <2>2, AllowedTogether
    <2>4. Allowed(w, Live, in_loop)
      BY <1>5, <2>2, <2>3 DEF t
    <2>5. /\ in_loop => Current(Code, b)
          /\ Prepared(Code) /\ \A v \in Live : HasVariable(Code, v)
      BY <1>5 DEF LiveAreCreated
    <2>6. Ready(instrListFunctions, b, w) /\ l = EmitAll(instrListFunctions, b, w)
      BY <1>2 DEF l
    <2> HIDE DEF w
    <2> QED
      BY <2>4, <2>5, <2>6, PreparedCode DEF Code
  <1>7. Live' \subseteq Live \union {Var(uid, x), <<"for", uid, x>>}
    <2>1. /\ Opens("for_cycle", x, NoName, {x})
          /\ \A i \in 2..Depth : symstack'[i] = symstack[i]
      BY <1>2 DEF OpensLoop, KeepsFrames
    <2>2. Live' \subseteq Live \union {Var(uid, y) : y \in {x}}
                   \union {v \in {<<"for", uid, x>>} :
                              ScopeOf("for_cycle") = "for_cycle"}
      BY <1>1, <2>1, LiveOfOpens
    <2> QED
      BY <2>2
  <1>8. /\ Allowed(code, Live, in_loop')
        /\ \A v \in {Var(uid, x), <<"for", uid, x>>} : Made(code, v)
    <2>1. in_loop'
      BY <1>2 DEF OpensLoop, EnterLoop
    <2> QED
      BY <2>1, ForHeaderAllowed DEF code, Made
  <1>9. UsesLive(tmp_instr)'
    <2>1. /\ Len(symstack') = Depth + 1 /\ symstack'[Depth + 1].type = "for_cycle"
          /\ symstack'[Depth + 1].uid = uid /\ calls'[Depth + 1].id = x
      BY <1>2, ScopeOfEach DEF OpensLoop, Opens, Activation
    <2>2. PICK k \in 2..Len(symstack') : k = Depth + 1
      BY <1>1, <2>1
    <2>3. <<"for", uid, x>> \in FrameVars(k)'
      BY <2>1, <2>2 DEF FrameVars
    <2>4. <<"for", uid, x>> \in Live'
      BY <2>2, <2>3 DEF Live
    <2>5. tmp_instr' = text
      BY <1>2 DEF Starting, text
    <2> QED
      BY <2>4, <2>5, ForTextFacts DEF UsesLive, text
  <1>10. /\ Grows(l, LoopStart(l), code)
         /\ LoopStart(l) = IF in_loop THEN b ELSE Len(l.items)
         /\ Len(l.items) \in Nat
    BY <1>2 DEF Starting, LoopStart, Tidy, code
  <1>11. Current(l.items, LoopStart(l))
    BY <1>6, <1>10, LastIsCurrent
  <1>12. Provides(l, LoopStart(l), code)
    BY <1>6, <1>7, <1>8, <1>9, <1>10, <1>11 DEF Provides
  <1> QED
    BY <1>12, Provided

LEMMA LiveBranches ==
  ASSUME IInv, ListIsSafe, LiveAreCreated, phase = "running",
         CodeOpensBranch \/ CodeNextBranch
  PROVE  LiveAreCreated'
  <1>1. /\ Depth \in Nat \ {0} /\ Len(symstack) = Depth
    BY DepthFacts
  <1>2. ASSUME NEW code, IsSeq(code), Here(code), \A i \in 1..Len(code) : Plain(code[i]),
               UNCHANGED in_loop, Live' \subseteq Live
        PROVE  LiveAreCreated'
    <2>1. Allowed(code, Live, in_loop')
      BY <1>2, AllowedPlain
    <2> QED
      BY <1>2, <2>1, ProvidedHere
  <1>3. CASE CodeOpensBranch
    <2> DEFINE code == <<Other, Jump(If(unique_id, cond_cnt'))>>
    <2>1. Live' \subseteq Live /\ UNCHANGED in_loop
      BY <1>1, <1>3, OpensNothing, ScopeOfEach
         DEF CodeOpensBranch, OpensBranch, loops
    <2>2. \A i \in 1..Len(code) : Plain(code[i])
      BY PlainFacts
    <2>3. Here(code) /\ IsSeq(code)
      BY <1>3, TupleFacts DEF CodeOpensBranch
    <2> HIDE DEF code
    <2> QED
      BY <1>2, <2>1, <2>2, <2>3
  <1>4. ASSUME NEW p, NextBranch(p)
        PROVE  Live' \subseteq Live /\ UNCHANGED in_loop
    BY <1>1, <1>4, LiveOfNext DEF NextBranch, loops
  <1>5. \A i \in 1..Len(ElseifCode) : Plain(ElseifCode[i])
    BY PlainFacts, PlainLabels DEF ElseifCode
  <1>6. \A i \in 1..Len(ElseCode) : Plain(ElseCode[i])
    BY PlainFacts, PlainLabels DEF ElseCode
  <1>7. IsSeq(ElseifCode) /\ IsSeq(ElseCode)
    <2>1. ElseifCode \in Seq({ElseifCode[i] : i \in 1..4})
      BY DEF ElseifCode
    <2> QED
      BY <2>1, TupleFacts DEF IsSeq, ElseCode
  <1> QED
    BY <1>2, <1>3, <1>4, <1>5, <1>6, <1>7 DEF CodeNextBranch

(* A body ends: a for cycle's writes to its own variable's copy.           *)
LEMMA ForEndAllowed ==
  ASSUME IInv, phase = "running", ForVarsKnown, Top.proc = "for_cycle"
  PROVE  Allowed(ForEnd, Live, in_loop') /\ IsSeq(ForEnd)
  <1> DEFINE u == Instr("USE", <<"for", Variable(Top.id)[2], Top.id>>)
             c == <<u>>
             d == LoopEnd("for", SS_Head(symstack).uid)
  <1>1. u.arg \in Live /\ ~ u.hoist /\ ~ Begins(u)
    BY ForVarIsLive, AccessFacts
  <1>2. \A i \in 1..Len(d) : Plain(d[i])
    BY PlainFacts, PlainLabels DEF LoopEnd
  <1>3. IsSeq(d)
    BY TupleFacts DEF LoopEnd
  <1>4. ForEnd = c \o d
    BY DEF ForEnd
  <1> HIDE DEF u, d
  <1>5. IsSeq(c) /\ Len(c) = 1 /\ c[1] = u
    BY TupleFacts
  <1> HIDE DEF c
  <1>6. Allowed(c, Live, in_loop')
    BY <1>1, <1>5 DEF Allowed
  <1>7. Allowed(c \o d, Live, in_loop') /\ IsSeq(c \o d)
    <2>1. Allowed(d, Live, in_loop')
      BY <1>2, AllowedPlain
    <2> QED
      BY ONLY <1>3, <1>5, <1>6, <2>1, AllowedTogether, ConcatFacts
  <1> QED
    BY <1>4, <1>7

LEMMA LiveEnds ==
  ASSUME IInv, ListIsSafe, LiveAreCreated, ForVarsKnown, phase = "running",
         CodeEnds
  PROVE  LiveAreCreated'
  <1>1. /\ Depth \in Nat \ {0} /\ Len(symstack) = Depth
    BY DepthFacts
  <1>2. Live' \subseteq Live
    BY <1>1, LiveOfEnds DEF CodeEnds, Ends
  <1>3. IF Top.proc \in LoopProcs THEN ForgetOuterLoop ELSE UNCHANGED in_loop
    BY DEF CodeEnds, Ends
  <1>4. ASSUME NEW code, IsSeq(code), Ending(code), Top.proc \in LoopProcs,
               Allowed(code, Live, in_loop')
        PROVE  LiveAreCreated'
    BY <1>2, <1>3, <1>4, ProvidedAtEnd
  <1>5. ASSUME NEW code, IsSeq(code), Here(code), Top.proc \notin LoopProcs,
               Allowed(code, Live, in_loop')
        PROVE  LiveAreCreated'
    BY <1>2, <1>3, <1>5, ProvidedHere
  <1>6. \A uid : Allowed(RepeatEnd(uid), Live, in_loop')
    <2> SUFFICES ASSUME NEW uid
                 PROVE  \A i \in 1..Len(RepeatEnd(uid)) : Plain(RepeatEnd(uid)[i])
      BY AllowedPlain
    <2> QED
      BY PlainFacts, PlainLabels DEF RepeatEnd
  <1>7. \A uid : Allowed(LoopEnd("while", uid), Live, in_loop')
    <2> SUFFICES ASSUME NEW uid
                 PROVE  \A i \in 1..Len(LoopEnd("while", uid)) :
                          Plain(LoopEnd("while", uid)[i])
      BY AllowedPlain
    <2> QED
      BY PlainFacts, PlainLabels DEF LoopEnd
  <1>8. Allowed(CondEnd, Live, in_loop')
    <2>1. \A i \in 1..Len(CondEnd) : Plain(CondEnd[i])
      BY PlainFacts, PlainLabels DEF CondEnd
    <2> QED
      BY <2>1, AllowedPlain
  <1>9. \A f : Allowed(<<Label(FuncEnd(f)), Other>>, Live, in_loop')
    <2> SUFFICES ASSUME NEW f
                 PROVE  \A i \in 1..Len(<<Label(FuncEnd(f)), Other>>) :
                          Plain(<<Label(FuncEnd(f)), Other>>[i])
      BY AllowedPlain
    <2> QED
      BY PlainFacts, PlainLabels
  <1>10. /\ {"repeat_body", "while_cycle", "for_cycle"} \subseteq LoopProcs
         /\ \A p \in CondProcs \union {"function_definition"} : p \notin LoopProcs
    BY DEF LoopProcs, CondProcs
  <1>11. /\ \A uid : IsSeq(RepeatEnd(uid)) /\ IsSeq(LoopEnd("while", uid))
         /\ IsSeq(CondEnd) /\ \A f : IsSeq(<<Label(FuncEnd(f)), Other>>)
    BY TupleFacts DEF RepeatEnd, LoopEnd, CondEnd
  <1>12. CASE Top.proc = "for_cycle" /\ Ending(ForEnd)
    BY <1>4, <1>10, <1>12, ForEndAllowed
  <1>13. CASE Top.proc = "repeat_body" /\ Ending(RepeatEnd(SS_Head(symstack).uid))
    BY <1>4, <1>6, <1>10, <1>13, <1>11
  <1>14. CASE Top.proc = "while_cycle"
              /\ Ending(LoopEnd("while", SS_Head(symstack).uid))
    BY <1>4, <1>7, <1>10, <1>14, <1>11
  <1>15. CASE Top.proc \in CondProcs /\ Here(CondEnd)
    BY <1>5, <1>8, <1>10, <1>15, <1>11
  <1>16. CASE /\ Top.proc = "function_definition"
              /\ Here(<<Label(FuncEnd(SS_Head(symstack).fun)), Other>>)
    BY <1>5, <1>9, <1>10, <1>16, <1>11
  <1> QED
    BY <1>12, <1>13, <1>14, <1>15, <1>16 DEF CodeEnds

LEMMA LiveStep ==
  ASSUME SignaturesInv, LoopsInv, IInv', ListIsSafe, ForVarsKnown,
         LiveAreCreated, [CodegenNext]_cgvars
  PROVE  LiveAreCreated'
  <1>1. CASE UNCHANGED cgvars
    <2>1. UNCHANGED <<phase, calls, symstack, in_loop, Code, before_loop_start,
                      tmp_instr>>
      BY <1>1 DEF cgvars, gen, vars, control, scopes, loops, Code
    <2>2. Live' = Live
      BY <2>1 DEF Live, FrameVars
    <2>3. OnlyDefvarsAreMoved' <=> OnlyDefvarsAreMoved
      BY <2>1, OnlyDefvarsMeans
    <2> QED
      BY <2>1, <2>2, <2>3 DEF LiveAreCreated, UsesLive
  <1> SUFFICES ASSUME CodegenNext PROVE LiveAreCreated'
    BY <1>1
  <1>2. CASE phase' \notin {"running", "accepted"}
    <2>1. Code' = <<>> /\ Len(<<>>) = 0
      BY <1>2, FreedCode
    <2>2. Prepared(Code')
      BY <2>1 DEF Prepared
    <2> QED
      BY <1>2, <2>2 DEF LiveAreCreated
  <1>3. CASE phase' = "accepted"
    <2>1. UNCHANGED instrListFunctions
      BY <1>3, AcceptedCode, NothingEmitted DEF AtStatement
    <2>2. OnlyDefvarsAreMoved' <=> OnlyDefvarsAreMoved
      BY <2>1, OnlyDefvarsMeans DEF Code
    <2> QED
      BY <1>3, <2>1, <2>2 DEF LiveAreCreated, Code
  <1>4. CASE phase = "running" /\ phase' = "running"
    <2>1. CodeMoves
      BY <1>4, CodeSteps DEF SignaturesInv, NamesInv
    <2>2. IInv
      BY DEF LoopsInv
    <2> QED
      BY <1>4, <2>1, <2>2, LiveStays, LiveDefines, LivePuts, LiveHeader,
         LiveLoops, LiveFor, LiveBranches, LiveEnds DEF CodeMoves
  <1>5. CASE phase # "running" /\ phase' = "running"
    <2>1. phase = "prolog" /\ Len(symstack) = 1 /\ UNCHANGED <<symstack, in_loop>>
      BY <1>5, ParserStep, BeginsFacts DEF LoopsInv, loops
    <2>2. UNCHANGED <<instrListFunctions, tmp_instr>> /\ tmp_instr = <<>>
      BY <1>5, <2>1, PrologCode, NothingEmitted DEF ListIsSafe, TextIsHeader
    <2>3. Live' = {} /\ ~ in_loop'
      BY <2>1 DEF Live, LoopsInv, PrologOutsideLoops
    <2>4. OnlyDefvarsAreMoved' <=> OnlyDefvarsAreMoved
      BY <2>2, OnlyDefvarsMeans DEF Code
    <2> QED
      BY <2>2, <2>3, <2>4, NoUses DEF LiveAreCreated, Code
  <1> QED
    BY <1>2, <1>3, <1>4, <1>5

(* The invariant in the terms of the property.                             *)
LEMMA PreparedMeans ==
  ASSUME OnlyDefvarsAreMoved => Prepared(Code)
  PROVE  VariablesCreatedBeforeUse
  <1> SUFFICES ASSUME Prepared(Code), NEW k \in PlacesOf({"MOVE", "USE"})
               PROVE  \E m \in PlacesOf({"DEFVAR"}) :
                        m < k /\ Code[m].arg = Code[k].arg /\ SameFunction(m, k)
    BY DEF VariablesCreatedBeforeUse
  <1>1. k \in 1..Len(Code) /\ Uses(Code[k])
    BY DEF PlacesOf, Places, Uses
  <1>2. PICK m \in 1..Len(Code) :
          /\ m < k /\ Creates(Code[m]) /\ Code[m].arg = Code[k].arg
          /\ Together(Code, m, k)
    BY <1>1 DEF Prepared, CreatedFor
  <1>3. m \in PlacesOf({"DEFVAR"})
    BY <1>2 DEF PlacesOf, Places, Creates
  <1>4. FunctionStarts = Starts(Code)
    BY DEF FunctionStarts, PlacesOf, Places, Starts, Begins
  <1>5. SameFunction(m, k)
    BY <1>2, <1>4 DEF SameFunction, Together
  <1> QED
    BY <1>2, <1>3, <1>5

(***************************************************************************)
(* Labels and jumps in a list.                                             *)
(***************************************************************************)
IsLabel(x) == x.op = "LABEL"
Jumps(x)   == x.op \in {"JUMP", "RETURN"}

Labels(s)  == {s[i].arg : i \in {j \in 1..Len(s) : IsLabel(s[j])}}
Targets(s) == {s[i].arg : i \in {j \in 1..Len(s) : Jumps(s[j])}}

(* No label is there twice.                                                *)
LabelledOnce(s) ==
  \A i, j \in 1..Len(s) :
    IsLabel(s[i]) /\ IsLabel(s[j]) /\ s[i].arg = s[j].arg => i = j

(* The label a is in the last function.                                    *)
HasLabel(s, a) ==
  \E j \in 1..Len(s) : IsLabel(s[j]) /\ s[j].arg = a /\ Current(s, j)

(* The i-th item, a jump, leads to a label of its function.                *)
Leads(s, i) ==
  \E j \in 1..Len(s) : /\ IsLabel(s[j]) /\ s[j].arg = s[i].arg
                       /\ Together(s, i, j)

(* Every jump leads to its label, or is in the last function and leads to  *)
(* one of D, the labels that are still to come.                            *)
Linked(s, D) ==
  /\ LabelledOnce(s)
  /\ D \intersect Labels(s) = {}
  /\ \A i \in 1..Len(s) :
       Jumps(s[i]) => Leads(s, i) \/ (s[i].arg \in D /\ Current(s, i))

LEMMA InLabels ==
  ASSUME NEW s, NEW i \in 1..Len(s)
  PROVE  /\ IsLabel(s[i]) => s[i].arg \in Labels(s)
         /\ Jumps(s[i]) => s[i].arg \in Targets(s)
  BY DEF Labels, Targets

LEMMA OfLabels ==
  ASSUME NEW s, NEW a
  PROVE  /\ a \in Labels(s) <=> \E i \in 1..Len(s) : IsLabel(s[i]) /\ s[i].arg = a
         /\ a \in Targets(s) <=> \E i \in 1..Len(s) : Jumps(s[i]) /\ s[i].arg = a
  BY DEF Labels, Targets

(* The labels of a list that got one more instruction.                     *)
LEMMA LabelsStep ==
  ASSUME NEW s, NEW t, NEW p, NEW x, Len(s) \in Nat, p \in 0..Len(s),
         Inserted(t, s, p, x)
  PROVE  /\ Labels(t) = IF IsLabel(x) THEN Labels(s) \union {x.arg} ELSE Labels(s)
         /\ ~ Begins(x) =>
              /\ \A a : HasLabel(s, a) => HasLabel(t, a)
              /\ IsLabel(x) /\ Current(s, p) => HasLabel(t, x.arg)
  <1>1. /\ t[p + 1] = x /\ p + 1 \in 1..Len(t)
        /\ \A i \in 1..Len(s) : Shift(i, p) \in 1..Len(t) /\ t[Shift(i, p)] = s[i]
        /\ \A k \in 1..Len(t) : k # p + 1 => \E i \in 1..Len(s) : k = Shift(i, p)
    BY ShiftFacts
  <1>2. ASSUME NEW a
        PROVE  a \in Labels(t) <=> a \in Labels(s) \/ (IsLabel(x) /\ a = x.arg)
    <2>1. ASSUME a \in Labels(t)
          PROVE  a \in Labels(s) \/ (IsLabel(x) /\ a = x.arg)
      <3>1. PICK k \in 1..Len(t) : IsLabel(t[k]) /\ t[k].arg = a
        BY <2>1, OfLabels
      <3>2. CASE k = p + 1
        BY <1>1, <3>1, <3>2
      <3>3. CASE k # p + 1
        <4>1. PICK i \in 1..Len(s) : k = Shift(i, p)
          BY <1>1, <3>3
        <4>2. t[k] = s[i]
          BY <1>1, <4>1
        <4> QED
          BY <3>1, <4>2, OfLabels
      <3> QED
        BY <3>2, <3>3
    <2>2. ASSUME a \in Labels(s) PROVE a \in Labels(t)
      <3>1. PICK i \in 1..Len(s) : IsLabel(s[i]) /\ s[i].arg = a
        BY <2>2, OfLabels
      <3> QED
        BY <1>1, <3>1, OfLabels
    <2>3. ASSUME IsLabel(x) PROVE x.arg \in Labels(t)
      BY <1>1, <2>3, OfLabels
    <2> QED
      BY <2>1, <2>2, <2>3
  <1>3. ASSUME ~ Begins(x), NEW a, HasLabel(s, a) PROVE HasLabel(t, a)
    <2>1. PICK j \in 1..Len(s) : IsLabel(s[j]) /\ s[j].arg = a /\ Current(s, j)
      BY <1>3 DEF HasLabel
    <2>2. Current(t, Shift(j, p))
      BY <1>3, <2>1, StartsShift
    <2> QED
      BY <1>1, <2>1, <2>2 DEF HasLabel
  <1>4. ASSUME ~ Begins(x), IsLabel(x), Current(s, p) PROVE HasLabel(t, x.arg)
    <2>1. Current(t, p + 1)
      BY <1>4, StartsShift
    <2> QED
      BY <1>1, <1>4, <2>1 DEF HasLabel
  <1> QED
    BY <1>2, <1>3, <1>4

(* One instruction: a label is one of those to come, and a jump leads to   *)
(* one of them or back.                                                    *)
LEMMA LinkedStep ==
  ASSUME NEW s, NEW t, NEW p, NEW x, Len(s) \in Nat, p \in 0..Len(s),
         Inserted(t, s, p, x), ~ Begins(x), Current(s, p),
         NEW D, Linked(s, D),
         IsLabel(x) => x.arg \in D,
         Jumps(x) => x.arg \in D \/ HasLabel(s, x.arg)
  PROVE  Linked(t, IF IsLabel(x) THEN D \ {x.arg} ELSE D)
  <1> DEFINE E == IF IsLabel(x) THEN D \ {x.arg} ELSE D
  <1>1. /\ t[p + 1] = x /\ p + 1 \in 1..Len(t)
        /\ \A i \in 1..Len(s) : Shift(i, p) \in 1..Len(t) /\ t[Shift(i, p)] = s[i]
        /\ \A k \in 1..Len(t) : k # p + 1 => \E i \in 1..Len(s) : k = Shift(i, p)
    BY ShiftFacts
  <1>2. /\ \A i, j \in 1..Len(s) :
              Together(s, i, j) => Together(t, Shift(i, p), Shift(j, p))
        /\ \A i \in 1..Len(s) : Current(s, i) => Current(t, Shift(i, p))
        /\ Current(t, p + 1)
    BY StartsShift
  <1>3. ~ (IsLabel(x) /\ Jumps(x))
    BY DEF IsLabel, Jumps
  <1>4. E \intersect Labels(t) = {}
    BY LabelsStep DEF Linked
  <1>5. LabelledOnce(t)
    <2> SUFFICES ASSUME NEW i \in 1..Len(t), NEW j \in 1..Len(t),
                        IsLabel(t[i]), IsLabel(t[j]), t[i].arg = t[j].arg
                 PROVE  i = j
      BY DEF LabelledOnce
    <2>1. ASSUME IsLabel(x), NEW k \in 1..Len(t), k # p + 1, IsLabel(t[k])
          PROVE  t[k].arg # x.arg
      <3>1. PICK m \in 1..Len(s) : k = Shift(m, p)
        BY <1>1, <2>1
      <3>2. s[m].arg \in Labels(s) /\ t[k] = s[m]
        BY <1>1, <2>1, <3>1, InLabels
      <3> QED
        BY <2>1, <3>2 DEF Linked
    <2>2. CASE i = p + 1 \/ j = p + 1
      BY <1>1, <2>1, <2>2
    <2>3. CASE i # p + 1 /\ j # p + 1
      <3>1. PICK m \in 1..Len(s), n \in 1..Len(s) : i = Shift(m, p) /\ j = Shift(n, p)
        BY <1>1, <2>3
      <3>2. m = n
        BY <1>1, <3>1 DEF Linked, LabelledOnce
      <3> QED
        BY <3>1, <3>2
    <2> QED
      BY <2>2, <2>3
  <1>6. ASSUME NEW k \in 1..Len(t), Jumps(t[k])
        PROVE  Leads(t, k) \/ (t[k].arg \in E /\ Current(t, k))
    <2>1. CASE k = p + 1
      <3>1. t[k] = x /\ Current(t, k) /\ ~ IsLabel(x)
        BY <1>1, <1>2, <1>3, <1>6, <2>1
      <3>2. CASE x.arg \in D
        BY <3>1, <3>2
      <3>3. CASE HasLabel(s, x.arg)
        <4>1. HasLabel(t, x.arg)
          BY <3>3, LabelsStep
        <4>2. PICK j \in 1..Len(t) : IsLabel(t[j]) /\ t[j].arg = x.arg /\ Current(t, j)
          BY <4>1 DEF HasLabel
        <4>3. Together(t, k, j)
          BY <3>1, <4>2 DEF Together, Current
        <4> QED
          BY <3>1, <4>2, <4>3 DEF Leads
      <3> QED
        BY <1>6, <3>1, <3>2, <3>3
    <2>2. CASE k # p + 1
      <3>1. PICK i \in 1..Len(s) : k = Shift(i, p)
        BY <1>1, <2>2
      <3>2. t[k] = s[i] /\ Jumps(s[i])
        BY <1>1, <1>6, <3>1
      <3>3. CASE Leads(s, i)
        <4>1. PICK j \in 1..Len(s) : /\ IsLabel(s[j]) /\ s[j].arg = s[i].arg
                                     /\ Together(s, i, j)
          BY <3>3 DEF Leads
        <4>2. /\ Shift(j, p) \in 1..Len(t) /\ t[Shift(j, p)] = s[j]
              /\ Together(t, k, Shift(j, p))
          BY <1>1, <1>2, <3>1, <4>1
        <4> QED
          BY <3>2, <4>1, <4>2 DEF Leads
      <3>4. CASE s[i].arg \in D /\ Current(s, i)
        <4>1. Current(t, k)
          BY <1>2, <3>1, <3>4
        <4>2. CASE IsLabel(x) /\ s[i].arg = x.arg
          <5>1. Together(t, k, p + 1)
            BY <1>2, <4>1 DEF Together, Current
          <5> QED
            BY <1>1, <3>2, <4>2, <5>1 DEF Leads
        <4>3. CASE ~ (IsLabel(x) /\ s[i].arg = x.arg)
          BY <3>2, <3>4, <4>1, <4>3
        <4> QED
          BY <4>2, <4>3
      <3> QED
        BY <3>2, <3>3, <3>4 DEF Linked
    <2> QED
      BY <2>1, <2>2
  <1> QED
    BY <1>4, <1>5, <1>6 DEF Linked

(* Code that begins no function, and moves what it does only in a loop.    *)
Steady(code, nested) ==
  \A i \in 1..Len(code) : ~ Begins(code[i]) /\ (code[i].hoist => nested)

(* The code's labels are new in s, it brings those of D that are not in E, *)
(* and its jumps lead to one of E, into the code itself or back.           *)
Fits(code, s, D, E) ==
  /\ LabelledOnce(code)
  /\ Labels(code) \intersect Labels(s) = {} /\ E \intersect Labels(s) = {}
  /\ E \intersect Labels(code) = {}
  /\ D \subseteq E \union Labels(code)
  /\ \A a \in Targets(code) : a \in E \union Labels(code) \/ HasLabel(s, a)

LEMMA LinkedCode ==
  ASSUME NEW l, NEW b, NEW code, Ready(l, b, code), NEW nested,
         Steady(code, nested), nested => Current(l.items, b),
         NEW D, NEW E, Linked(l.items, D), Fits(code, l.items, D, E)
  PROVE  LET s == EmitAll(l, b, code).items IN
         /\ Linked(s, E)
         /\ nested => Current(s, b)
         /\ Labels(s) = Labels(l.items) \union Labels(code)
         /\ \A a : HasLabel(l.items, a) \/ a \in Labels(code) => HasLabel(s, a)
  <1> DEFINE n == Len(code)
  <1>1. n \in Nat
    BY DEF Ready
  <1>2. PICK a : /\ a[0] = l /\ EmitAll(l, b, code) = a[n]
                 /\ Insertions(a, b, code)
    BY EmitAllFacts
  <1> DEFINE F(k) == {code[i].arg : i \in {j \in 1..k : IsLabel(code[j])}}
             W == D \union E \union Labels(code)
             Holds(k) ==
               /\ Linked(a[k].items, W \ F(k))
               /\ nested => Current(a[k].items, b)
               /\ Labels(a[k].items) = Labels(l.items) \union F(k)
               /\ \A z : HasLabel(l.items, z) \/ z \in F(k)
                           => HasLabel(a[k].items, z)
             S == {k \in Nat : Holds(k)}
  <1>3. Holds(0)
    <2>1. F(0) = {}
      OBVIOUS
    <2>2. W \intersect Labels(l.items) = {}
      BY DEF Fits
    <2>3. Linked(l.items, W)
      BY <2>2 DEF Linked
    <2> HIDE DEF F, W
    <2>4. W \ F(0) = W /\ Labels(l.items) = Labels(l.items) \union F(0)
      BY <2>1
    <2> QED
      BY <1>2, <2>1, <2>3, <2>4
  <1>4. ASSUME NEW k \in 0..(n - 1), Holds(k) PROVE Holds(k + 1)
    <2> DEFINE s == a[k].items
               t == a[k + 1].items
               x == code[k + 1]
               p == PlaceOf(a[k], b, x)
    <2>1. k + 1 \in 1..n /\ (k + 1) - 1 = k /\ k \in Nat
      BY <1>1
    <2>2. Len(s) \in Nat /\ b \in 0..Len(s) /\ Inserted(t, s, p, x)
      BY <1>2, <2>1 DEF Insertions
    <2>3. /\ p = IF x.hoist THEN b ELSE Len(s)
          /\ p \in 0..Len(s) /\ b \in 0..p
      BY <2>2 DEF PlaceOf
    <2>4. ~ Begins(x) /\ (x.hoist => nested)
      BY <2>1 DEF Steady
    <2>5. F(k + 1) = IF IsLabel(x) THEN F(k) \union {x.arg} ELSE F(k)
      <3>1. ASSUME NEW z
            PROVE  z \in F(k + 1) <=> z \in F(k) \/ (IsLabel(x) /\ z = x.arg)
        <4>1. \A m : z \in F(m) <=> \E i \in 1..m : IsLabel(code[i]) /\ code[i].arg = z
          OBVIOUS
        <4>2. \A i : i \in 1..(k + 1) <=> i \in 1..k \/ i = k + 1
          BY <2>1
        <4> HIDE DEF F
        <4> QED
          BY <4>1, <4>2
      <3> HIDE DEF F, x
      <3>2. CASE IsLabel(x)
        BY <3>1, <3>2
      <3>3. CASE ~ IsLabel(x)
        BY <3>1, <3>3
      <3> QED
        BY <3>2, <3>3
    <2>6. IsLabel(x) => x.arg \in Labels(code) /\ x.arg \notin F(k)
      <3>1. ASSUME IsLabel(x), NEW j \in 1..k, IsLabel(code[j]), code[j].arg = x.arg
            PROVE  FALSE
        <4>1. j \in 1..n /\ j # k + 1
          BY <2>1
        <4> QED
          BY <2>1, <3>1, <4>1 DEF Fits, LabelledOnce
      <3>2. IsLabel(x) => x.arg \in Labels(code)
        BY <2>1, InLabels
      <3> QED
        BY <3>1, <3>2
    <2>7. Jumps(x) => x.arg \in W \ F(k) \/ HasLabel(s, x.arg)
      <3>1. Jumps(x) => x.arg \in Targets(code)
        BY <2>1, InLabels
      <3>2. Jumps(x) => x.arg \in W \/ HasLabel(l.items, x.arg)
        BY <3>1 DEF Fits
      <3> HIDE DEF F, W, x
      <3> QED
        BY <1>4, <3>2
    <2> HIDE DEF x, p, F, W
    <2>8. Current(s, p)
      BY <1>4, <2>2, <2>3, <2>4, LastIsCurrent
    <2> HIDE DEF s, t
    <2>9. IsLabel(x) => x.arg \in W \ F(k)
      BY <2>6 DEF W
    <2>10. Linked(t, IF IsLabel(x) THEN (W \ F(k)) \ {x.arg} ELSE W \ F(k))
      BY <1>4, <2>2, <2>3, <2>4, <2>7, <2>8, <2>9, LinkedStep DEF s
    <2>11. (IF IsLabel(x) THEN (W \ F(k)) \ {x.arg} ELSE W \ F(k)) = W \ F(k + 1)
      BY <2>5
    <2>12. /\ Labels(t) = IF IsLabel(x) THEN Labels(s) \union {x.arg} ELSE Labels(s)
           /\ \A z : HasLabel(s, z) => HasLabel(t, z)
           /\ IsLabel(x) => HasLabel(t, x.arg)
      BY <2>2, <2>3, <2>4, <2>8, LabelsStep
    <2>13. Labels(t) = Labels(l.items) \union F(k + 1)
      <3>1. Labels(s) = Labels(l.items) \union F(k)
        BY <1>4 DEF s
      <3> QED
        BY <2>5, <2>12, <3>1
    <2>14. \A z : HasLabel(l.items, z) \/ z \in F(k + 1) => HasLabel(t, z)
      <3>1. \A z : HasLabel(l.items, z) \/ z \in F(k) => HasLabel(s, z)
        BY <1>4 DEF s
      <3> QED
        BY <2>5, <2>12, <3>1
    <2>15. nested => Current(t, b)
      <3>1. \A i \in 0..p : Current(s, i) => Current(t, i)
        BY <2>2, <2>3, <2>4, StartsShift
      <3> QED
        BY <1>4, <2>3, <3>1 DEF s
    <2> QED
      BY <2>10, <2>11, <2>13, <2>14, <2>15 DEF t
  <1>5. Holds(n)
    <2> HIDE DEF Holds
    <2>1. 0 \in S /\ \A k \in 0..(n - 1) : k \in S => k + 1 \in S
      BY <1>1, <1>3, <1>4
    <2> HIDE DEF S
    <2>2. \A k \in 0..n : k \in S
      BY <1>1, <2>1, Counting
    <2>3. n \in S
      BY <1>1, <2>2
    <2> QED
      BY <2>3 DEF S
  <1>6. F(n) = Labels(code)
    BY DEF Labels
  <1> DEFINE r == a[n].items
  <1>7. Linked(r, E)
    <2>1. /\ Linked(r, W \ F(n)) /\ Labels(r) = Labels(l.items) \union F(n)
      BY <1>5
    <2> HIDE DEF F, r
    <2>2. W \ F(n) \subseteq E /\ E \intersect Labels(r) = {}
      BY <1>6, <2>1 DEF Fits
    <2> QED
      BY <2>1, <2>2 DEF Linked
  <1> HIDE DEF F, W
  <1>8. EmitAll(l, b, code).items = r
    BY <1>2
  <1> HIDE DEF r
  <1>9. /\ nested => Current(r, b)
        /\ Labels(r) = Labels(l.items) \union Labels(code)
        /\ \A z : HasLabel(l.items, z) \/ z \in Labels(code) => HasLabel(r, z)
    BY <1>5, <1>6 DEF r
  <1> QED
    BY <1>7, <1>8, <1>9

LEMMA LabelsConcat ==
  ASSUME NEW c, NEW d, IsSeq(c), IsSeq(d)
  PROVE  /\ Labels(c \o d) = Labels(c) \union Labels(d)
         /\ Targets(c \o d) = Targets(c) \union Targets(d)
         /\ LabelledOnce(c) /\ LabelledOnce(d) /\ Labels(c) \intersect Labels(d) = {}
              => LabelledOnce(c \o d)
         /\ \A nested : Steady(c, nested) /\ Steady(d, nested)
                          => Steady(c \o d, nested)
  <1> DEFINE e == c \o d
             m == Len(c)
             n == Len(d)
  <1>1. /\ Len(e) = m + n /\ m \in Nat /\ n \in Nat
        /\ \A i \in 1..m : e[i] = c[i]
        /\ \A i \in 1..n : e[m + i] = d[i]
    BY ConcatFacts
  <1> SUFFICES /\ Labels(e) = Labels(c) \union Labels(d)
               /\ Targets(e) = Targets(c) \union Targets(d)
               /\ LabelledOnce(c) /\ LabelledOnce(d) /\ Labels(c) \intersect Labels(d) = {}
                    => LabelledOnce(e)
               /\ \A nested : Steady(c, nested) /\ Steady(d, nested) => Steady(e, nested)
    OBVIOUS
  <1> HIDE DEF e
  <1>2. \A k \in 1..(m + n) : k \in 1..m \/ (k - m \in 1..n /\ m + (k - m) = k)
    BY <1>1
  <1>3. /\ \A i \in 1..m : i \in 1..(m + n)
        /\ \A i \in 1..n : m + i \in 1..(m + n)
    BY <1>1
  <1> HIDE DEF m, n
  <1>4. \A k \in 1..(m + n) : \/ k \in 1..m /\ e[k] = c[k]
                              \/ k - m \in 1..n /\ e[k] = d[k - m]
    BY <1>1, <1>2
  <1>5. ASSUME NEW a PROVE a \in Labels(e) <=> a \in Labels(c) \/ a \in Labels(d)
    <2>1. ASSUME a \in Labels(e) PROVE a \in Labels(c) \/ a \in Labels(d)
      <3>1. PICK k \in 1..(m + n) : IsLabel(e[k]) /\ e[k].arg = a
        BY <1>1, <2>1, OfLabels
      <3> QED
        BY <1>4, <3>1, OfLabels DEF m, n
    <2>2. ASSUME a \in Labels(c) PROVE a \in Labels(e)
      BY <1>1, <1>3, <2>2, OfLabels DEF m
    <2>3. ASSUME a \in Labels(d) PROVE a \in Labels(e)
      BY <1>1, <1>3, <2>3, OfLabels DEF n
    <2> QED
      BY <2>1, <2>2, <2>3
  <1>6. ASSUME NEW a PROVE a \in Targets(e) <=> a \in Targets(c) \/ a \in Targets(d)
    <2>1. ASSUME a \in Targets(e) PROVE a \in Targets(c) \/ a \in Targets(d)
      <3>1. PICK k \in 1..(m + n) : Jumps(e[k]) /\ e[k].arg = a
        BY <1>1, <2>1, OfLabels
      <3> QED
        BY <1>4, <3>1, OfLabels DEF m, n
    <2>2. ASSUME a \in Targets(c) PROVE a \in Targets(e)
      BY <1>1, <1>3, <2>2, OfLabels DEF m
    <2>3. ASSUME a \in Targets(d) PROVE a \in Targets(e)
      BY <1>1, <1>3, <2>3, OfLabels DEF n
    <2> QED
      BY <2>1, <2>2, <2>3
  <1>7. ASSUME LabelledOnce(c), LabelledOnce(d), Labels(c) \intersect Labels(d) = {}
        PROVE  LabelledOnce(e)
    <2> SUFFICES ASSUME NEW i \in 1..(m + n), NEW j \in 1..(m + n),
                        IsLabel(e[i]), IsLabel(e[j]), e[i].arg = e[j].arg
                 PROVE  i = j
      BY <1>1 DEF LabelledOnce
    <2>1. CASE i \in 1..m /\ j \in 1..m
      BY <1>1, <1>7, <2>1 DEF LabelledOnce, m
    <2>2. CASE i - m \in 1..n /\ j - m \in 1..n
      <3>1. CASE i \in 1..m \/ j \in 1..m
        BY <1>1, <2>2, <3>1
      <3>2. CASE i \notin 1..m /\ j \notin 1..m
        <4>1. e[i] = d[i - m] /\ e[j] = d[j - m]
          BY <1>4, <3>2
        <4>2. i - m = j - m
          BY <1>7, <2>2, <4>1 DEF LabelledOnce, n
        <4> QED
          BY <1>1, <4>2
      <3> QED
        BY <3>1, <3>2
    <2>3. ASSUME NEW u \in 1..m, NEW v \in 1..n, IsLabel(c[u]), IsLabel(d[v])
          PROVE  c[u].arg # d[v].arg
      BY <1>7, <2>3, InLabels DEF m, n
    <2> QED
      BY <1>1, <1>4, <2>1, <2>2, <2>3
  <1>8. ASSUME NEW nested, Steady(c, nested), Steady(d, nested)
        PROVE  Steady(e, nested)
    BY <1>1, <1>4, <1>8 DEF Steady, m, n
  <1>9. Labels(e) = Labels(c) \union Labels(d) /\ Targets(e) = Targets(c) \union Targets(d)
    BY <1>5, <1>6
  <1> QED
    BY <1>7, <1>8, <1>9 DEF e

(* A text that is moved keeps its labels and jumps.                        *)
LEMMA LabelsMoved ==
  ASSUME NEW t, IsText(t)
  PROVE  LET c == Moved(Reverse(t)) IN
         /\ IsSeq(c) /\ Labels(c) = Labels(t) /\ Targets(c) = Targets(t)
         /\ LabelledOnce(t) => LabelledOnce(c)
         /\ Steady(c, TRUE)
  <1> DEFINE r == Reverse(t)
             n == Len(t)
             M(x) == [x EXCEPT !.hoist = TRUE]
             c == Moved(r)
             Back(i) == (n - i) + 1
  <1>1. PICK S : t \in Seq(S)
    BY DEF IsText, IsSeq
  <1>2. /\ r \in Seq(S) /\ Len(r) = n /\ n \in Nat
        /\ \A i \in 1..n : r[i] = t[Back(i)]
    BY <1>1 DEF Reverse
  <1>3. IsSeq(c) /\ Len(c) = n
    BY MovedFacts
  <1> HIDE DEF Back
  <1>4. \A i \in 1..n : c[i] = M(t[Back(i)])
    <2> HIDE DEF r
    <2>1. c = [i \in 1..n |-> M(r[i])]
      BY <1>2 DEF Moved
    <2> QED
      BY <1>2, <2>1
  <1>5. /\ \A i \in 1..n : Back(i) \in 1..n /\ Back(Back(i)) = i
        /\ \A i, j \in 1..n : Back(i) = Back(j) => i = j
    BY <1>2 DEF Back
  <1> HIDE DEF c, r
  <1>6. ASSUME NEW i \in 1..n
        PROVE  /\ c[i].op = t[Back(i)].op /\ c[i].arg = t[Back(i)].arg
    <2>1. PICK op, arg : t[Back(i)] = Instr(op, arg)
      BY <1>5 DEF IsText
    <2>2. c[i] = M(Instr(op, arg))
      BY <1>4, <2>1
    <2>3. M(Instr(op, arg)).op = op /\ M(Instr(op, arg)).arg = arg
      BY DEF Instr
    <2>4. Instr(op, arg).op = op /\ Instr(op, arg).arg = arg
      BY DEF Instr
    <2> HIDE DEF M
    <2> QED
      BY <2>1, <2>2, <2>3, <2>4
  <1>7. /\ \A i \in 1..n : IsLabel(c[i]) <=> IsLabel(t[Back(i)])
        /\ \A i \in 1..n : Jumps(c[i]) <=> Jumps(t[Back(i)])
        /\ \A i \in 1..n : Begins(c[i]) <=> Begins(t[Back(i)])
    BY <1>6 DEF IsLabel, Jumps, Begins
  <1> HIDE DEF n
  <1>8. ASSUME NEW a PROVE a \in Labels(c) <=> a \in Labels(t)
    <2>1. ASSUME a \in Labels(c) PROVE a \in Labels(t)
      <3>1. PICK i \in 1..n : IsLabel(c[i]) /\ c[i].arg = a
        BY <1>3, <2>1, OfLabels
      <3>2. IsLabel(t[Back(i)]) /\ t[Back(i)].arg = a /\ Back(i) \in 1..Len(t)
        BY <1>5, <1>6, <1>7, <3>1 DEF n
      <3> QED
        BY <3>2, OfLabels
    <2>2. ASSUME a \in Labels(t) PROVE a \in Labels(c)
      <3>1. PICK i \in 1..n : IsLabel(t[i]) /\ t[i].arg = a
        BY <2>2, OfLabels DEF n
      <3>2. IsLabel(c[Back(i)]) /\ c[Back(i)].arg = a /\ Back(i) \in 1..Len(c)
        BY <1>3, <1>5, <1>6, <1>7, <3>1
      <3> QED
        BY <3>2, OfLabels
    <2> QED
      BY <2>1, <2>2
  <1>9. ASSUME NEW a PROVE a \in Targets(c) <=> a \in Targets(t)
    <2>1. ASSUME a \in Targets(c) PROVE a \in Targets(t)
      <3>1. PICK i \in 1..n : Jumps(c[i]) /\ c[i].arg = a
        BY <1>3, <2>1, OfLabels
      <3>2. Jumps(t[Back(i)]) /\ t[Back(i)].arg = a /\ Back(i) \in 1..Len(t)
        BY <1>5, <1>6, <1>7, <3>1 DEF n
      <3> QED
        BY <3>2, OfLabels
    <2>2. ASSUME a \in Targets(t) PROVE a \in Targets(c)
      <3>1. PICK i \in 1..n : Jumps(t[i]) /\ t[i].arg = a
        BY <2>2, OfLabels DEF n
      <3>2. Jumps(c[Back(i)]) /\ c[Back(i)].arg = a /\ Back(i) \in 1..Len(c)
        BY <1>3, <1>5, <1>6, <1>7, <3>1
      <3> QED
        BY <3>2, OfLabels
    <2> QED
      BY <2>1, <2>2
  <1>10. ASSUME LabelledOnce(t) PROVE LabelledOnce(c)
    <2> SUFFICES ASSUME NEW i \in 1..n, NEW j \in 1..n,
                        IsLabel(c[i]), IsLabel(c[j]), c[i].arg = c[j].arg
                 PROVE  i = j
      BY <1>3 DEF LabelledOnce
    <2>1. Back(i) = Back(j)
      BY <1>5, <1>6, <1>7, <1>10 DEF LabelledOnce, n
    <2> QED
      BY <1>5, <2>1
  <1>11. Steady(c, TRUE)
    <2> SUFFICES ASSUME NEW i \in 1..n PROVE ~ Begins(c[i])
      BY <1>3 DEF Steady
    <2> QED
      BY <1>5, <1>7, TextFacts DEF n
  <1>12. Labels(c) = Labels(t) /\ Targets(c) = Targets(t)
    BY <1>8, <1>9
  <1> QED
    BY <1>3, <1>10, <1>11, <1>12 DEF c, r

(* The first instruction of a code and the others.                         *)
LEMMA LabelsHeadTail ==
  ASSUME NEW c, IsSeq(c), Len(c) > 0
  PROVE  LET h == <<c[1]>>
             d == Tail(c)
         IN /\ IsSeq(h) /\ IsSeq(d)
            /\ Labels(c) = Labels(h) \union Labels(d)
            /\ Targets(c) = Targets(h) \union Targets(d)
            /\ LabelledOnce(c) => /\ LabelledOnce(h) /\ LabelledOnce(d)
                                  /\ Labels(h) \intersect Labels(d) = {}
            /\ \A nested : Steady(c, nested) => Steady(h, nested) /\ Steady(d, nested)
  <1> DEFINE h == <<c[1]>>
             d == Tail(c)
             n == Len(c)
  <1>1. PICK S : c \in Seq(S)
    BY DEF IsSeq
  <1>2. /\ n \in Nat /\ c # <<>>
    BY <1>1, EmptySeq
  <1>3. /\ IsSeq(d) /\ Len(d) = n - 1
        /\ \A i \in 1..(n - 1) : d[i] = c[i + 1]
    BY <1>1, <1>2, HeadTailProperties DEF IsSeq
  <1>4. IsSeq(h) /\ Len(h) = 1 /\ h[1] = c[1]
    BY TupleFacts
  <1> HIDE DEF h, d
  <1>5. /\ 1 \in 1..n
        /\ \A i \in 1..(n - 1) : i + 1 \in 1..n /\ i + 1 # 1
        /\ \A k \in 1..n : k # 1 => k - 1 \in 1..(n - 1) /\ (k - 1) + 1 = k
        /\ \A i \in 1..1 : i = 1
    BY <1>2
  <1>6. ASSUME NEW a PROVE a \in Labels(c) <=> a \in Labels(h) \/ a \in Labels(d)
    <2>1. ASSUME a \in Labels(c) PROVE a \in Labels(h) \/ a \in Labels(d)
      <3>1. PICK k \in 1..n : IsLabel(c[k]) /\ c[k].arg = a
        BY <2>1, OfLabels
      <3>2. CASE k = 1
        BY <1>4, <3>1, <3>2, OfLabels
      <3>3. CASE k # 1
        <4>1. k - 1 \in 1..Len(d) /\ d[k - 1] = c[k]
          BY <1>3, <1>5, <3>3
        <4> QED
          BY <3>1, <4>1, OfLabels
      <3> QED
        BY <3>2, <3>3
    <2>2. ASSUME a \in Labels(h) PROVE a \in Labels(c)
      BY <1>4, <1>5, <2>2, OfLabels
    <2>3. ASSUME a \in Labels(d) PROVE a \in Labels(c)
      <3>1. PICK i \in 1..(n - 1) : IsLabel(d[i]) /\ d[i].arg = a
        BY <1>3, <2>3, OfLabels
      <3> QED
        BY <1>3, <1>5, <3>1, OfLabels
    <2> QED
      BY <2>1, <2>2, <2>3
  <1>7. ASSUME NEW a PROVE a \in Targets(c) <=> a \in Targets(h) \/ a \in Targets(d)
    <2>1. ASSUME a \in Targets(c) PROVE a \in Targets(h) \/ a \in Targets(d)
      <3>1. PICK k \in 1..n : Jumps(c[k]) /\ c[k].arg = a
        BY <2>1, OfLabels
      <3>2. CASE k = 1
        BY <1>4, <3>1, <3>2, OfLabels
      <3>3. CASE k # 1
        <4>1. k - 1 \in 1..Len(d) /\ d[k - 1] = c[k]
          BY <1>3, <1>5, <3>3
        <4> QED
          BY <3>1, <4>1, OfLabels
      <3> QED
        BY <3>2, <3>3
    <2>2. ASSUME a \in Targets(h) PROVE a \in Targets(c)
      BY <1>4, <1>5, <2>2, OfLabels
    <2>3. ASSUME a \in Targets(d) PROVE a \in Targets(c)
      <3>1. PICK i \in 1..(n - 1) : Jumps(d[i]) /\ d[i].arg = a
        BY <1>3, <2>3, OfLabels
      <3> QED
        BY <1>3, <1>5, <3>1, OfLabels
    <2> QED
      BY <2>1, <2>2, <2>3
  <1>8. ASSUME LabelledOnce(c)
        PROVE  /\ LabelledOnce(h) /\ LabelledOnce(d)
               /\ Labels(h) \intersect Labels(d) = {}
    <2>1. LabelledOnce(h)
      BY <1>4 DEF LabelledOnce
    <2>2. ASSUME NEW i \in 1..(n - 1), NEW j \in 1..(n - 1),
                 IsLabel(d[i]), IsLabel(d[j]), d[i].arg = d[j].arg
          PROVE  i = j
      <3>1. i + 1 = j + 1
        BY <1>3, <1>5, <1>8, <2>2 DEF LabelledOnce
      <3> QED
        BY <1>2, <3>1
    <2>3. ASSUME NEW a \in Labels(h), a \in Labels(d) PROVE FALSE
      <3>1. PICK i \in 1..(n - 1) : IsLabel(d[i]) /\ d[i].arg = a
        BY <1>3, <2>3, OfLabels
      <3>2. IsLabel(c[1]) /\ c[1].arg = a
        BY <1>4, <1>5, OfLabels
      <3>3. 1 = i + 1
        BY <1>3, <1>5, <1>8, <3>1, <3>2 DEF LabelledOnce
      <3> QED
        BY <1>5, <3>3
    <2> QED
      BY <1>3, <2>1, <2>2, <2>3 DEF LabelledOnce
  <1>9. ASSUME NEW nested, Steady(c, nested)
        PROVE  Steady(h, nested) /\ Steady(d, nested)
    BY <1>3, <1>4, <1>5, <1>9 DEF Steady
  <1>10. /\ Labels(c) = Labels(h) \union Labels(d)
         /\ Targets(c) = Targets(h) \union Targets(d)
    BY <1>6, <1>7
  <1> QED
    BY <1>3, <1>4, <1>8, <1>9, <1>10 DEF h, d

(* A rule's code with the text that waited, wherever the text went.        *)
LEMMA LabelsWithText ==
  ASSUME NEW code, IsSeq(code), IsText(tmp_instr), Len(code) > 0
  PROVE  LET w == WithText(code) IN
         /\ Labels(w) = Labels(tmp_instr) \union Labels(code)
         /\ Targets(w) = Targets(tmp_instr) \union Targets(code)
         /\ /\ LabelledOnce(tmp_instr) /\ LabelledOnce(code)
            /\ Labels(tmp_instr) \intersect Labels(code) = {}
            => LabelledOnce(w)
         /\ \A nested : Steady(code, nested) => Steady(w, nested)
  <1> DEFINE t == tmp_instr
             w == WithText(code)
  <1>1. /\ code # <<>> /\ Head(code) = code[1] /\ Len(code) \in Nat
    BY SeqNotEmpty
  <1>2. IsSeq(t) /\ (t = <<>> <=> Len(t) = 0)
    BY TextFacts, SeqNotEmpty
  <1>3. \A nested : Steady(t, nested)
    BY TextFacts DEF Steady
  <1> HIDE DEF t
  <1>4. CASE t = <<>>
    <2>1. w = code
      BY <1>4 DEF WithText, t
    <2>2. Labels(t) = {} /\ Targets(t) = {}
      BY <1>2, <1>4 DEF Labels, Targets
    <2> HIDE DEF w
    <2> QED
      BY <2>1, <2>2 DEF t, w
  <1>5. CASE t # <<>> /\ ~ code[1].hoist
    <2>1. w = t \o code
      BY <1>1, <1>5 DEF WithText, t
    <2> HIDE DEF w
    <2>2. /\ Labels(w) = Labels(t) \union Labels(code)
          /\ Targets(w) = Targets(t) \union Targets(code)
          /\ LabelledOnce(t) /\ LabelledOnce(code) /\ Labels(t) \intersect Labels(code) = {}
               => LabelledOnce(w)
          /\ \A nested : Steady(t, nested) /\ Steady(code, nested) => Steady(w, nested)
      BY ONLY <1>2, <2>1, IsSeq(code), LabelsConcat
    <2> QED
      BY <1>3, <2>2 DEF t, w
  <1>6. CASE t # <<>> /\ code[1].hoist
    <2> DEFINE h == <<code[1]>>
               m == Moved(Reverse(t))
               r == Tail(code)
               hm == h \o m
    <2>1. w = hm \o r
      BY <1>1, <1>6 DEF WithText, t
    <2>2. /\ IsSeq(m) /\ Labels(m) = Labels(t) /\ Targets(m) = Targets(t)
          /\ LabelledOnce(t) => LabelledOnce(m)
          /\ Steady(m, TRUE)
      BY LabelsMoved DEF t
    <2>3. /\ IsSeq(h) /\ IsSeq(r)
          /\ Labels(code) = Labels(h) \union Labels(r)
          /\ Targets(code) = Targets(h) \union Targets(r)
          /\ LabelledOnce(code) => /\ LabelledOnce(h) /\ LabelledOnce(r)
                                   /\ Labels(h) \intersect Labels(r) = {}
          /\ \A nested : Steady(code, nested) => Steady(h, nested) /\ Steady(r, nested)
      BY LabelsHeadTail
    <2> HIDE DEF h, m, r
    <2>4. /\ IsSeq(hm)
          /\ Labels(hm) = Labels(h) \union Labels(m)
          /\ Targets(hm) = Targets(h) \union Targets(m)
          /\ LabelledOnce(h) /\ LabelledOnce(m) /\ Labels(h) \intersect Labels(m) = {}
               => LabelledOnce(hm)
          /\ \A nested : Steady(h, nested) /\ Steady(m, nested) => Steady(hm, nested)
      BY ONLY <2>2, <2>3, LabelsConcat, ConcatFacts DEF hm
    <2> HIDE DEF hm, w
    <2>5. /\ Labels(w) = Labels(hm) \union Labels(r)
          /\ Targets(w) = Targets(hm) \union Targets(r)
          /\ LabelledOnce(hm) /\ LabelledOnce(r) /\ Labels(hm) \intersect Labels(r) = {}
               => LabelledOnce(w)
          /\ \A nested : Steady(hm, nested) /\ Steady(r, nested) => Steady(w, nested)
      BY ONLY <2>1, <2>3, <2>4, LabelsConcat
    <2>6. ASSUME NEW nested, Steady(code, nested) PROVE Steady(w, nested)
      <3>1. nested
        BY <1>1, <1>6, <2>6 DEF Steady
      <3>2. Steady(m, nested)
        BY <2>2, <3>1 DEF Steady
      <3> QED
        BY <2>3, <2>4, <2>5, <2>6, <3>2
    <2>7. /\ Labels(w) = Labels(t) \union Labels(code)
          /\ Targets(w) = Targets(t) \union Targets(code)
      BY <2>2, <2>3, <2>4, <2>5
    <2>8. ASSUME LabelledOnce(t), LabelledOnce(code), Labels(t) \intersect Labels(code) = {}
          PROVE  LabelledOnce(w)
      <3>1. /\ LabelledOnce(h) /\ LabelledOnce(r) /\ LabelledOnce(m)
            /\ Labels(h) \intersect Labels(m) = {}
            /\ Labels(hm) \intersect Labels(r) = {}
        BY <2>2, <2>3, <2>4, <2>8
      <3> QED
        BY <2>4, <2>5, <3>1
    <2> QED
      BY <2>6, <2>7, <2>8 DEF t, w
  <1> QED
    BY <1>4, <1>5, <1>6

(***************************************************************************)
(* The counters of the open branches.                                      *)
(***************************************************************************)
(* The branch counters at the k-th activation: those it went on with when  *)
(* it called the next one.                                                 *)
Counters(k) ==
  IF k < Depth THEN calls[k + 1].saved ELSE <<outer_cond_id, cond_cnt>>

(* Only an if statement's activation changes them.                         *)
CountersAreSaved ==
  phase = "running" =>
    \A k \in 2..Depth : ~ IsCond(calls[k]) => Counters(k) = calls[k].saved

(* The id of an if statement's labels is its first scope's.                *)
CondIdsIncrease ==
  phase = "running" =>
    \A k \in 2..Depth : IsCond(calls[k]) =>
      symstack[k - 1].uid < Counters(k)[1] /\ Counters(k)[1] <= symstack[k].uid

(* A counter is a char's value, or the one the first branch has.           *)
IsCount(n) == n <= 1 \/ n <= SCHAR_MAX

CountsFit ==
  /\ IsCount(cond_cnt)
  /\ phase = "running" => \A k \in 1..Depth : IsCount(Counters(k)[2])

KeepsCounters(m) == \A k \in 1..m : Counters(k)' = Counters(k)

LEMMA SavedPair ==
  ASSUME IInv, phase = "running", NEW k \in 1..Depth
  PROVE  calls[k].saved = <<calls[k].saved[1], calls[k].saved[2]>>
  <1>1. calls[k] \in Activations
    BY DepthFacts
  <1> QED
    BY <1>1 DEF Activations

LEMMA CountersSame ==
  ASSUME IInv, phase = "running", NEW d, d = Depth, Len(calls') = d,
         \A k \in 1..d : calls'[k].saved = calls[k].saved, UNCHANGED conds
  PROVE  KeepsCounters(d)
  <1>1. d \in Nat /\ d = Depth /\ Len(calls') = d
    BY DepthFacts
  <1>2. ASSUME NEW k \in 1..d PROVE Counters(k)' = Counters(k)
    BY <1>1, <1>2 DEF Counters, Depth, conds
  <1> QED
    BY <1>1, <1>2 DEF KeepsCounters

LEMMA CountersOpen ==
  ASSUME IInv, phase = "running", NEW d, d = Depth, NEW p, NEW x, NEW fun, NEW names,
         Opens(p, x, fun, names)
  PROVE  /\ KeepsCounters(d)
         /\ Counters(d + 1)' = <<outer_cond_id', cond_cnt'>>
         /\ calls'[d + 1].saved = Counters(d)
  <1>1. d \in Nat /\ d = Depth /\ Len(calls') = d + 1
    BY DepthFacts DEF Opens
  <1>2. calls'[d + 1].saved = <<outer_cond_id, cond_cnt>>
    BY <1>1 DEF Opens, Activation
  <1>3. ASSUME NEW k \in 1..d PROVE Counters(k)' = Counters(k)
    <2>1. CASE k = d
      BY <1>1, <1>2, <2>1 DEF Counters, Depth
    <2>2. CASE k # d
      BY <1>1, <2>2 DEF Counters, Depth, Opens, KeepsCalls
    <2> QED
      BY <2>1, <2>2
  <1>4. Counters(d + 1)' = <<outer_cond_id', cond_cnt'>> /\ Counters(d) = calls'[d + 1].saved
    BY <1>1, <1>2 DEF Counters, Depth
  <1> QED
    BY <1>1, <1>3, <1>4 DEF KeepsCounters

LEMMA CountersNext ==
  ASSUME IInv, phase = "running", NEW d, d = Depth, NEW p, NextBranch(p)
  PROVE  /\ KeepsCounters(d - 1)
         /\ Counters(d)' = <<outer_cond_id, ToChar(cond_cnt + 1)>>
         /\ Counters(d) = <<outer_cond_id, cond_cnt>>
  <1>1. d \in Nat /\ d = Depth /\ Len(calls') = d
    BY DepthFacts DEF NextBranch, Becomes
  <1>2. ASSUME NEW k \in 1..(d - 1) PROVE Counters(k)' = Counters(k)
    <2>1. k < d /\ calls'[k + 1].saved = calls[k + 1].saved
      <3>1. CASE k + 1 = d
        BY <1>1, <3>1 DEF NextBranch, Becomes
      <3>2. CASE k + 1 # d
        <4>1. k + 1 \in 1..(d - 1)
          BY <1>1, <3>2
        <4> QED
          BY <1>1, <4>1 DEF NextBranch, Becomes, KeepsCalls
      <3> QED
        BY <1>1, <3>1, <3>2
    <2> QED
      BY <1>1, <2>1 DEF Counters, Depth
  <1>3. /\ Counters(d)' = <<outer_cond_id, ToChar(cond_cnt + 1)>>
        /\ Counters(d) = <<outer_cond_id, cond_cnt>>
    BY <1>1 DEF Counters, Depth, NextBranch
  <1> QED
    BY <1>1, <1>2, <1>3 DEF KeepsCounters

(* An if statement that ends gives the counters back.                      *)
LEMMA CountersEnd ==
  ASSUME IInv, phase = "running", CondsSaved, CountersAreSaved,
         NEW d, d = Depth, Ends
  PROVE  KeepsCounters(d - 1)
  <1>1. d \in Nat /\ d >= 2 /\ d = Depth /\ Len(calls') = d - 1
    BY DepthFacts DEF Ends
  <1>2. Top = calls[d] /\ calls[d].saved = <<calls[d].saved[1], calls[d].saved[2]>>
    BY <1>1, SavedPair, DepthFacts
  <1>3. <<outer_cond_id', cond_cnt'>> = calls[d].saved
    <2>1. CASE Top.proc \in CondProcs
      <3>1. outer_cond_id' = PoppedId(cond_info) /\ cond_cnt' = PoppedCnt(cond_info)
        BY <2>1 DEF Ends, RestoreCond
      <3>2. PoppedId(cond_info) = Top.saved[1] /\ PoppedCnt(cond_info) = Top.saved[2]
        BY <2>1, TopIsSaved
      <3> QED
        BY <1>2, <3>1, <3>2
    <2>2. CASE Top.proc \notin CondProcs
      <3>1. UNCHANGED <<outer_cond_id, cond_cnt>>
        BY <2>2 DEF Ends, conds
      <3>2. Counters(d) = calls[d].saved
        BY <1>1, <1>2, <2>2 DEF CountersAreSaved, IsCond
      <3>3. Counters(d) = <<outer_cond_id, cond_cnt>>
        BY <1>1 DEF Counters, Depth
      <3> QED
        BY <3>1, <3>2, <3>3
    <2> QED
      BY <2>1, <2>2
  <1>4. ASSUME NEW k \in 1..(d - 1) PROVE Counters(k)' = Counters(k)
    <2>1. CASE k = d - 1
      BY <1>1, <1>3, <2>1 DEF Counters, Depth
    <2>2. CASE k # d - 1
      <3>1. k + 1 \in 1..(d - 1) /\ k < d - 1
        BY <1>1, <2>2
      <3> QED
        BY <1>1, <3>1 DEF Counters, Depth, Ends, KeepsCalls
    <2> QED
      BY <2>1, <2>2
  <1> QED
    BY <1>1, <1>4 DEF KeepsCounters

(* Storing a counter in a char does not change it unless it wraps.         *)
LEMMA CountStored ==
  ASSUME NEW n \in Int, n >= 1, IsCount(n), ToChar(n + 1) >= 1
  PROVE  ToChar(n + 1) = n + 1 /\ IsCount(n + 1)
  <1> DEFINE m == SCHAR_MAX
             w == 2 * m + 2
  <1>1. m \in Nat
    BY SCHAR_MAXAssumption
  <1>2. ToChar(n + 1) = ((n + 1 + m + 1) % w) - m - 1
    BY DEF ToChar
  <1>3. CASE n + 1 <= m
    <2>1. ToChar(n + 1) = n + 1
      BY <1>1, <1>3, SmallChar
    <2> QED
      BY <1>3, <2>1 DEF IsCount
  <1>4. CASE n = m
    <2>1. n + 1 + m + 1 = w /\ w > 0 /\ w \in Nat
      BY <1>1, <1>4
    <2>2. w % w = 0
      BY <2>1
    <2>3. ToChar(n + 1) = 0 - m - 1
      BY <1>2, <2>1, <2>2
    <2> QED
      BY <1>1, <2>3
  <1>5. CASE n = 1 /\ m = 0
    <2>1. n + 1 + m + 1 = 3 /\ w = 2
      BY <1>5
    <2>2. ToChar(n + 1) = 0
      BY <1>2, <1>5, <2>1
    <2> QED
      BY <2>2
  <1> QED
    BY <1>1, <1>3, <1>4, <1>5 DEF IsCount

(***************************************************************************)
(* The labels and the jumps of the rules' code.                            *)
(***************************************************************************)
LabelOf(x)  == IF IsLabel(x) THEN {x.arg} ELSE {}
TargetOf(x) == IF Jumps(x) THEN {x.arg} ELSE {}

(* Instructions that are neither labels nor jumps.                         *)
Mute(x) == ~ IsLabel(x) /\ ~ Jumps(x)

LEMMA LinkKinds ==
  /\ \A l : LET x == Label(l) IN
              LabelOf(x) = {l} /\ TargetOf(x) = {} /\ ~ x.hoist
              /\ (l[1] # "func" => ~ Begins(x))
  /\ \A l : \A op \in {"JUMP", "RETURN"} :
       LET x == Instr(op, l) IN
         LabelOf(x) = {} /\ TargetOf(x) = {l} /\ ~ x.hoist /\ ~ Begins(x)
  /\ \A l : \A op \in {"BREAK", "DEFVAR", "MOVE", "USE", "OTHER"} :
       LET x == Instr(op, l) IN Mute(x) /\ ~ x.hoist /\ ~ Begins(x)
  /\ \A v : Mute(Defvar(v))
  /\ \A x : Mute(x) => LabelOf(x) = {} /\ TargetOf(x) = {}
  BY DEF Label, Instr, Defvar, LabelOf, TargetOf, IsLabel, Jumps, Begins, Mute

LEMMA OtherKind == Mute(Other) /\ ~ Other.hoist /\ ~ Begins(Other)
  BY DEF Other, Instr, IsLabel, Jumps, Begins, Mute

LEMMA MuteCode ==
  ASSUME NEW code, \A i \in 1..Len(code) : Mute(code[i])
  PROVE  Labels(code) = {} /\ Targets(code) = {} /\ LabelledOnce(code)
  BY DEF Labels, Targets, LabelledOnce, Mute

LEMMA LinksOfOne ==
  ASSUME NEW x
  PROVE  LET c == <<x>> IN
         /\ IsSeq(c) /\ Len(c) = 1 /\ LabelledOnce(c)
         /\ Labels(c) = LabelOf(x) /\ Targets(c) = TargetOf(x)
         /\ \A n : ~ Begins(x) /\ (x.hoist => n) => Steady(c, n)
  <1> DEFINE c == <<x>>
  <1>1. IsSeq(c) /\ Len(c) = 1 /\ c[1] = x
    BY TupleFacts
  <1> HIDE DEF c
  <1>2. \A i \in 1..1 : i = 1
    OBVIOUS
  <1>3. LabelledOnce(c) /\ \A n : ~ Begins(x) /\ (x.hoist => n) => Steady(c, n)
    BY <1>1, <1>2 DEF LabelledOnce, Steady
  <1>4. Labels(c) = LabelOf(x) /\ Targets(c) = TargetOf(x)
    BY <1>1, <1>2 DEF Labels, Targets, LabelOf, TargetOf
  <1> QED
    BY <1>1, <1>3, <1>4 DEF c

(* One instruction before code.                                            *)
LEMMA LinksOfMore ==
  ASSUME NEW x, NEW d, IsSeq(d)
  PROVE  LET c == <<x>> \o d IN
         /\ IsSeq(c) /\ Len(c) = Len(d) + 1
         /\ Labels(c) = LabelOf(x) \union Labels(d)
         /\ Targets(c) = TargetOf(x) \union Targets(d)
         /\ LabelledOnce(d) /\ LabelOf(x) \intersect Labels(d) = {}
              => LabelledOnce(c)
         /\ \A n : ~ Begins(x) /\ (x.hoist => n) /\ Steady(d, n) => Steady(c, n)
  <1> DEFINE h == <<x>>
  <1>1. /\ IsSeq(h) /\ Len(h) = 1 /\ LabelledOnce(h)
        /\ Labels(h) = LabelOf(x) /\ Targets(h) = TargetOf(x)
        /\ \A n : ~ Begins(x) /\ (x.hoist => n) => Steady(h, n)
    BY LinksOfOne
  <1> HIDE DEF h
  <1>2. IsSeq(h \o d) /\ Len(h \o d) = Len(h) + Len(d) /\ Len(d) \in Nat
    BY <1>1, ConcatFacts
  <1>3. /\ Labels(h \o d) = Labels(h) \union Labels(d)
        /\ Targets(h \o d) = Targets(h) \union Targets(d)
        /\ LabelledOnce(h) /\ LabelledOnce(d) /\ Labels(h) \intersect Labels(d) = {}
             => LabelledOnce(h \o d)
        /\ \A n : Steady(h, n) /\ Steady(d, n) => Steady(h \o d, n)
    BY <1>1, LabelsConcat
  <1> QED
    BY <1>1, <1>2, <1>3 DEF h

LEMMA SameSequence ==
  ASSUME NEW c, NEW d, IsSeq(c), IsSeq(d), Len(c) = Len(d),
         \A i \in 1..Len(c) : c[i] = d[i]
  PROVE  c = d
  <1>1. PICK n \in Nat : n = Len(c) /\ n = Len(d)
    BY SeqNotEmpty
  <1>2. c = [i \in 1..n |-> c[i]] /\ d = [i \in 1..n |-> d[i]]
    <2>1. \A S : \A s \in Seq(S) : s = [i \in 1..Len(s) |-> s[i]]
      OBVIOUS
    <2> QED
      BY <1>1, <2>1 DEF IsSeq
  <1> QED
    BY <1>1, <1>2

LEMMA OneBefore ==
  ASSUME NEW x, NEW d, IsSeq(d), NEW c, IsSeq(c), Len(c) = Len(d) + 1, c[1] = x,
         \A i \in 1..Len(d) : c[i + 1] = d[i]
  PROVE  <<x>> \o d = c
  <1> DEFINE h == <<x>>
             e == h \o d
  <1>1. IsSeq(h) /\ Len(h) = 1 /\ h[1] = x
    BY TupleFacts
  <1> HIDE DEF h
  <1>2. /\ IsSeq(e) /\ Len(e) = Len(h) + Len(d) /\ Len(d) \in Nat
        /\ \A i \in 1..Len(h) : e[i] = h[i]
        /\ \A i \in 1..Len(d) : e[Len(h) + i] = d[i]
    <2>1. IsSeq(h) /\ IsSeq(d)
      BY <1>1
    <2> QED
      BY ONLY <2>1, ConcatFacts DEF e
  <1> HIDE DEF e
  <1>3. Len(e) = Len(c)
    BY <1>1, <1>2
  <1>4. ASSUME NEW i \in 1..Len(e) PROVE e[i] = c[i]
    <2>1. CASE i = 1
      BY <1>1, <1>2, <2>1
    <2>2. CASE i # 1
      <3>1. i - 1 \in 1..Len(d) /\ i = (i - 1) + 1 /\ i = 1 + (i - 1)
        BY <1>1, <1>2, <2>2
      <3> QED
        BY <1>1, <1>2, <3>1
    <2> QED
      BY <2>1, <2>2
  <1>5. e = c
    BY <1>2, <1>3, <1>4, SameSequence
  <1> QED
    BY <1>5 DEF e, h

LEMMA OneBeforeTuple ==
  /\ \A x, y : <<x>> \o <<y>> = <<x, y>>
  /\ \A x, y, z : <<x>> \o <<y, z>> = <<x, y, z>>
  <1>2. ASSUME NEW x, NEW y PROVE <<x>> \o <<y>> = <<x, y>>
    <2> DEFINE d == <<y>>
               c == <<x, y>>
    <2>1. IsSeq(d) /\ Len(d) = 1 /\ d[1] = y /\ IsSeq(c) /\ Len(c) = 2 /\ c[1] = x /\ c[2] = y
      BY TupleFacts
    <2> HIDE DEF c, d
    <2>2. /\ \A i \in 1..Len(d) : c[i + 1] = d[i]
          /\ Len(c) = Len(d) + 1
      BY <2>1
    <2>3. <<x>> \o d = c
      BY <2>1, <2>2, OneBefore
    <2> QED
      BY <2>3 DEF c, d
  <1>3. ASSUME NEW x, NEW y, NEW z PROVE <<x>> \o <<y, z>> = <<x, y, z>>
    <2> DEFINE d == <<y, z>>
               c == <<x, y, z>>
    <2>1. /\ IsSeq(d) /\ Len(d) = 2 /\ d[1] = y /\ d[2] = z
          /\ IsSeq(c) /\ Len(c) = 3 /\ c[1] = x /\ c[2] = y /\ c[3] = z
      BY TupleFacts
    <2> HIDE DEF c, d
    <2>2. /\ \A i \in 1..Len(d) : c[i + 1] = d[i]
          /\ Len(c) = Len(d) + 1
      BY <2>1
    <2>3. <<x>> \o d = c
      BY <2>1, <2>2, OneBefore
    <2> QED
      BY <2>3 DEF c, d
  <1> QED
    BY <1>2, <1>3

(* Code with these labels and targets, which moves what it does only in a  *)
(* loop.                                                                   *)
Links(code, nested, L, T) ==
  /\ IsSeq(code) /\ Len(code) > 0
  /\ LabelledOnce(code) /\ Labels(code) = L /\ Targets(code) = T
  /\ Steady(code, nested)

(* Each instruction is no function's label.                                *)
Usual(x, nested) == ~ Begins(x) /\ (x.hoist => nested)

LEMMA LinksOfOneMore ==
  ASSUME NEW x, NEW d, NEW n, NEW L, NEW T, Links(d, n, L, T), Usual(x, n),
         LabelOf(x) \intersect L = {}
  PROVE  Links(<<x>> \o d, n, LabelOf(x) \union L, TargetOf(x) \union T)
  BY LinksOfMore, SeqNotEmpty DEF Links, Usual

LEMMA LinksAlone ==
  ASSUME NEW x, NEW n, Usual(x, n)
  PROVE  Links(<<x>>, n, LabelOf(x), TargetOf(x))
  BY LinksOfOne DEF Links, Usual

LEMMA LinksOfTwo ==
  ASSUME NEW x, NEW y, NEW n, Usual(x, n), Usual(y, n),
         LabelOf(x) \intersect LabelOf(y) = {}
  PROVE  Links(<<x, y>>, n, LabelOf(x) \union LabelOf(y), TargetOf(x) \union TargetOf(y))
  <1>1. Links(<<x>> \o <<y>>, n, LabelOf(x) \union LabelOf(y), TargetOf(x) \union TargetOf(y))
    BY LinksAlone, LinksOfOneMore
  <1> QED
    BY <1>1, OneBeforeTuple

LEMMA LinksOfThree ==
  ASSUME NEW x, NEW y, NEW z, NEW n, Usual(x, n), Usual(y, n), Usual(z, n),
         LabelOf(x) \intersect LabelOf(y) = {}, LabelOf(x) \intersect LabelOf(z) = {},
         LabelOf(y) \intersect LabelOf(z) = {}
  PROVE  Links(<<x, y, z>>, n, LabelOf(x) \union (LabelOf(y) \union LabelOf(z)),
               TargetOf(x) \union (TargetOf(y) \union TargetOf(z)))
  <1>1. Links(<<y, z>>, n, LabelOf(y) \union LabelOf(z), TargetOf(y) \union TargetOf(z))
    BY LinksOfTwo
  <1>2. LabelOf(x) \intersect (LabelOf(y) \union LabelOf(z)) = {}
    OBVIOUS
  <1>3. Links(<<x>> \o <<y, z>>, n, LabelOf(x) \union (LabelOf(y) \union LabelOf(z)),
               TargetOf(x) \union (TargetOf(y) \union TargetOf(z)))
    BY <1>1, <1>2, LinksOfOneMore
  <1> QED
    BY <1>3, OneBeforeTuple

(* The instructions of the rules.                                          *)
LEMMA UsualKinds ==
  ASSUME NEW n
  PROVE  /\ \A l : l[1] # "func" => LET x == Label(l) IN
              Usual(x, n) /\ LabelOf(x) = {l} /\ TargetOf(x) = {}
         /\ \A l : LET x == Jump(l) IN
              Usual(x, n) /\ LabelOf(x) = {} /\ TargetOf(x) = {l}
         /\ \A l : LET x == Instr("RETURN", l) IN
              Usual(x, n) /\ LabelOf(x) = {} /\ TargetOf(x) = {l}
         /\ \A l : \A op \in {"BREAK", "DEFVAR", "MOVE", "USE", "OTHER"} :
              LET x == Instr(op, l) IN
              Usual(x, n) /\ LabelOf(x) = {} /\ TargetOf(x) = {}
         /\ Usual(Other, n) /\ LabelOf(Other) = {} /\ TargetOf(Other) = {}
  BY LinkKinds, OtherKind DEF Usual, Jump

LEMMA DefvarLinks ==
  ASSUME NEW v
  PROVE  Usual(Defvar(v), in_loop') /\ LabelOf(Defvar(v)) = {} /\ TargetOf(Defvar(v)) = {}
  BY LinkKinds, DefvarFacts DEF Usual

LEMMA UsualLabels ==
  ASSUME NEW n
  PROVE  /\ \A uid : /\ Usual(Label(End(uid)), n) /\ LabelOf(Label(End(uid))) = {End(uid)}
                     /\ TargetOf(Label(End(uid))) = {}
         /\ \A uid : /\ Usual(Label(IfEnd(uid)), n)
                     /\ LabelOf(Label(IfEnd(uid))) = {IfEnd(uid)}
                     /\ TargetOf(Label(IfEnd(uid))) = {}
         /\ \A uid, m : /\ Usual(Label(If(uid, m)), n)
                        /\ LabelOf(Label(If(uid, m))) = {If(uid, m)}
                        /\ TargetOf(Label(If(uid, m))) = {}
         /\ \A f : /\ Usual(Label(FuncEnd(f)), n)
                   /\ LabelOf(Label(FuncEnd(f))) = {FuncEnd(f)}
                   /\ TargetOf(Label(FuncEnd(f))) = {}
         /\ \A uid : \A k \in {"while", "repeat", "for", "step_le", "body"} :
              /\ Usual(Label(Loop(k, uid)), n)
              /\ LabelOf(Label(Loop(k, uid))) = {Loop(k, uid)}
              /\ TargetOf(Label(Loop(k, uid))) = {}
  BY UsualKinds DEF End, IfEnd, If, FuncEnd, Loop

LEMMA LoopLinks ==
  ASSUME NEW n, NEW uid
  PROVE  /\ Links(WhileCode(uid), n, {Loop("while", uid)}, {End(uid)})
         /\ Links(RepeatCode(uid), n, {Loop("repeat", uid)}, {})
         /\ \A k : Links(LoopEnd(k, uid), n, {End(uid)}, {Loop(k, uid)})
         /\ Links(RepeatEnd(uid), n, {End(uid)}, {Loop("repeat", uid)})
  <1>1. Links(WhileCode(uid), n, {Loop("while", uid)} \union ({} \union {}),
                                 {} \union ({} \union {End(uid)}))
    <2> DEFINE x == Label(Loop("while", uid))
               y == Jump(End(uid))
    <2>1. /\ Usual(x, n) /\ LabelOf(x) = {Loop("while", uid)} /\ TargetOf(x) = {}
          /\ Usual(y, n) /\ LabelOf(y) = {} /\ TargetOf(y) = {End(uid)}
          /\ Usual(Other, n) /\ LabelOf(Other) = {} /\ TargetOf(Other) = {}
      BY UsualKinds, UsualLabels
    <2> HIDE DEF x, y
    <2>2. Links(<<x, Other, y>>, n, LabelOf(x) \union (LabelOf(Other) \union LabelOf(y)),
                TargetOf(x) \union (TargetOf(Other) \union TargetOf(y)))
      BY <2>1, LinksOfThree
    <2> QED
      BY <2>1, <2>2 DEF WhileCode, x, y
  <1>2. Links(RepeatCode(uid), n, {} \union {Loop("repeat", uid)}, {} \union {})
    <2> DEFINE x == Label(Loop("repeat", uid))
    <2>1. /\ Usual(x, n) /\ LabelOf(x) = {Loop("repeat", uid)} /\ TargetOf(x) = {}
          /\ Usual(Other, n) /\ LabelOf(Other) = {} /\ TargetOf(Other) = {}
      BY UsualKinds, UsualLabels
    <2> HIDE DEF x
    <2>2. Links(<<Other, x>>, n, LabelOf(Other) \union LabelOf(x),
                TargetOf(Other) \union TargetOf(x))
      BY <2>1, LinksOfTwo
    <2> QED
      BY <2>1, <2>2 DEF RepeatCode, x
  <1>3. ASSUME NEW k
        PROVE  Links(LoopEnd(k, uid), n, {} \union {End(uid)}, {Loop(k, uid)} \union {})
    <2> DEFINE x == Jump(Loop(k, uid))
               y == Label(End(uid))
    <2>1. /\ Usual(x, n) /\ LabelOf(x) = {} /\ TargetOf(x) = {Loop(k, uid)}
          /\ Usual(y, n) /\ LabelOf(y) = {End(uid)} /\ TargetOf(y) = {}
      BY UsualKinds, UsualLabels
    <2> HIDE DEF x, y
    <2>2. Links(<<x, y>>, n, LabelOf(x) \union LabelOf(y), TargetOf(x) \union TargetOf(y))
      BY <2>1, LinksOfTwo
    <2> QED
      BY <2>1, <2>2 DEF LoopEnd, x, y
  <1>4. Links(RepeatEnd(uid), n, {} \union ({} \union {End(uid)}),
                                 {} \union ({Loop("repeat", uid)} \union {}))
    <2> DEFINE x == Jump(Loop("repeat", uid))
               y == Label(End(uid))
    <2>1. /\ Usual(x, n) /\ LabelOf(x) = {} /\ TargetOf(x) = {Loop("repeat", uid)}
          /\ Usual(y, n) /\ LabelOf(y) = {End(uid)} /\ TargetOf(y) = {}
          /\ Usual(Other, n) /\ LabelOf(Other) = {} /\ TargetOf(Other) = {}
      BY UsualKinds, UsualLabels
    <2> HIDE DEF x, y
    <2>2. Links(<<Other, x, y>>, n, LabelOf(Other) \union (LabelOf(x) \union LabelOf(y)),
                TargetOf(Other) \union (TargetOf(x) \union TargetOf(y)))
      BY <2>1, LinksOfThree
    <2> QED
      BY <2>1, <2>2 DEF RepeatEnd, x, y
  <1> QED
    BY <1>1, <1>2, <1>3, <1>4

LEMMA BranchLinks ==
  ASSUME NEW n
  PROVE  /\ \A a : Links(<<Other, Jump(a)>>, n, {}, {a})
         /\ Links(ElseifCode, n, {If(outer_cond_id, cond_cnt)},
                  {IfEnd(outer_cond_id), If(outer_cond_id, cond_cnt')})
         /\ Links(ElseCode, n, {If(outer_cond_id, ElseLabel(cond_cnt'))},
                  {IfEnd(outer_cond_id)})
         /\ Links(CondEnd, n, {IfEnd(outer_cond_id), If(outer_cond_id, cond_cnt)}, {})
  <1>1. ASSUME NEW a
        PROVE  Links(<<Other, Jump(a)>>, n, {} \union {}, {} \union {a})
    <2> DEFINE x == Jump(a)
    <2>1. /\ Usual(x, n) /\ LabelOf(x) = {} /\ TargetOf(x) = {a}
          /\ Usual(Other, n) /\ LabelOf(Other) = {} /\ TargetOf(Other) = {}
      BY UsualKinds
    <2> HIDE DEF x
    <2>2. Links(<<Other, x>>, n, LabelOf(Other) \union LabelOf(x),
                TargetOf(Other) \union TargetOf(x))
      BY <2>1, LinksOfTwo
    <2> QED
      BY <2>1, <2>2 DEF x
  <1>2. Links(ElseifCode, n,
              {} \union ({If(outer_cond_id, cond_cnt)} \union ({} \union {})),
              {IfEnd(outer_cond_id)} \union
                ({} \union ({} \union {If(outer_cond_id, cond_cnt')})))
    <2> DEFINE x == Jump(IfEnd(outer_cond_id))
               y == Label(If(outer_cond_id, cond_cnt))
               z == Jump(If(outer_cond_id, cond_cnt'))
               d == <<y, Other, z>>
    <2>1. /\ Usual(x, n) /\ LabelOf(x) = {} /\ TargetOf(x) = {IfEnd(outer_cond_id)}
          /\ Usual(y, n) /\ LabelOf(y) = {If(outer_cond_id, cond_cnt)} /\ TargetOf(y) = {}
          /\ Usual(z, n) /\ LabelOf(z) = {} /\ TargetOf(z) = {If(outer_cond_id, cond_cnt')}
          /\ Usual(Other, n) /\ LabelOf(Other) = {} /\ TargetOf(Other) = {}
      BY UsualKinds, UsualLabels
    <2>2. <<x>> \o d = ElseifCode
      <3>1. IsSeq(d) /\ Len(d) = 3 /\ d[1] = y /\ d[2] = Other /\ d[3] = z
        <4> HIDE DEF x, y, z
        <4> QED
          BY TupleFacts
      <3>2. IsSeq(ElseifCode)
        <4>1. ElseifCode \in Seq({ElseifCode[i] : i \in 1..4})
          BY DEF ElseifCode
        <4> QED
          BY <4>1 DEF IsSeq
      <3>3. /\ Len(ElseifCode) = 4
            /\ ElseifCode[1] = x /\ ElseifCode[2] = y /\ ElseifCode[3] = Other
            /\ ElseifCode[4] = z
        BY DEF ElseifCode
      <3> HIDE DEF d, x, y, z
      <3>4. \A i \in 1..Len(d) : ElseifCode[i + 1] = d[i]
        BY <3>1, <3>3
      <3>5. Len(ElseifCode) = Len(d) + 1
        BY <3>1, <3>3
      <3> QED
        BY <3>1, <3>2, <3>3, <3>4, <3>5, OneBefore
    <2> HIDE DEF x, y, z
    <2>3. Links(d, n, LabelOf(y) \union (LabelOf(Other) \union LabelOf(z)),
                TargetOf(y) \union (TargetOf(Other) \union TargetOf(z)))
      BY <2>1, LinksOfThree
    <2> HIDE DEF d
    <2>4. Links(<<x>> \o d, n,
                LabelOf(x) \union (LabelOf(y) \union (LabelOf(Other) \union LabelOf(z))),
                TargetOf(x) \union (TargetOf(y) \union (TargetOf(Other) \union TargetOf(z))))
      BY <2>1, <2>3, LinksOfOneMore
    <2> QED
      BY <2>1, <2>2, <2>4
  <1>3. Links(ElseCode, n, {} \union {If(outer_cond_id, ElseLabel(cond_cnt'))},
              {IfEnd(outer_cond_id)} \union {})
    <2> DEFINE x == Jump(IfEnd(outer_cond_id))
               y == Label(If(outer_cond_id, ElseLabel(cond_cnt')))
    <2>1. /\ Usual(x, n) /\ LabelOf(x) = {} /\ TargetOf(x) = {IfEnd(outer_cond_id)}
          /\ Usual(y, n) /\ LabelOf(y) = {If(outer_cond_id, ElseLabel(cond_cnt'))}
          /\ TargetOf(y) = {}
      BY UsualKinds, UsualLabels
    <2> HIDE DEF x, y
    <2>2. Links(<<x, y>>, n, LabelOf(x) \union LabelOf(y), TargetOf(x) \union TargetOf(y))
      BY <2>1, LinksOfTwo
    <2> QED
      BY <2>1, <2>2 DEF ElseCode, x, y
  <1>4. Links(CondEnd, n, {IfEnd(outer_cond_id)} \union {If(outer_cond_id, cond_cnt)},
              {} \union {})
    <2> DEFINE x == Label(IfEnd(outer_cond_id))
               y == Label(If(outer_cond_id, cond_cnt))
    <2>1. /\ Usual(x, n) /\ LabelOf(x) = {IfEnd(outer_cond_id)} /\ TargetOf(x) = {}
          /\ Usual(y, n) /\ LabelOf(y) = {If(outer_cond_id, cond_cnt)} /\ TargetOf(y) = {}
      BY UsualLabels
    <2>2. IfEnd(outer_cond_id) # If(outer_cond_id, cond_cnt)
      BY DEF IfEnd, If
    <2>3. LabelOf(x) \intersect LabelOf(y) = {}
      BY <2>1, <2>2
    <2> HIDE DEF x, y
    <2>4. Links(<<x, y>>, n, LabelOf(x) \union LabelOf(y), TargetOf(x) \union TargetOf(y))
      BY <2>1, <2>3, LinksOfTwo
    <2> QED
      BY <2>1, <2>4 DEF CondEnd, x, y
  <1>5. /\ \A s : s \union {} = s /\ {} \union s = s
        /\ \A x, y : {x} \union {y} = {x, y}
    OBVIOUS
  <1> QED
    BY <1>1, <1>2, <1>3, <1>4, <1>5

LEMMA EndLinks ==
  ASSUME NEW n
  PROVE  /\ \A a : Links(<<Other, Instr("RETURN", a)>>, n, {}, {a})
         /\ \A f : Links(<<Label(FuncEnd(f)), Other>>, n, {FuncEnd(f)}, {})
         /\ Links(ForEnd, n, {End(SS_Head(symstack).uid)},
                             {Loop("for", SS_Head(symstack).uid)})
  <1>1. ASSUME NEW a
        PROVE  Links(<<Other, Instr("RETURN", a)>>, n, {} \union {}, {} \union {a})
    <2> DEFINE x == Instr("RETURN", a)
    <2>1. /\ Usual(x, n) /\ LabelOf(x) = {} /\ TargetOf(x) = {a}
          /\ Usual(Other, n) /\ LabelOf(Other) = {} /\ TargetOf(Other) = {}
      BY UsualKinds
    <2> HIDE DEF x
    <2>2. Links(<<Other, x>>, n, LabelOf(Other) \union LabelOf(x),
                TargetOf(Other) \union TargetOf(x))
      BY <2>1, LinksOfTwo
    <2> QED
      BY <2>1, <2>2 DEF x
  <1>2. ASSUME NEW f
        PROVE  Links(<<Label(FuncEnd(f)), Other>>, n, {FuncEnd(f)} \union {}, {} \union {})
    <2> DEFINE x == Label(FuncEnd(f))
    <2>1. /\ Usual(x, n) /\ LabelOf(x) = {FuncEnd(f)} /\ TargetOf(x) = {}
          /\ Usual(Other, n) /\ LabelOf(Other) = {} /\ TargetOf(Other) = {}
      BY UsualKinds, UsualLabels
    <2> HIDE DEF x
    <2>2. Links(<<x, Other>>, n, LabelOf(x) \union LabelOf(Other),
                TargetOf(x) \union TargetOf(Other))
      BY <2>1, LinksOfTwo
    <2> QED
      BY <2>1, <2>2 DEF x
  <1>3. Links(ForEnd, n, {} \union {End(SS_Head(symstack).uid)},
                         {} \union {Loop("for", SS_Head(symstack).uid)})
    <2> DEFINE uid == SS_Head(symstack).uid
               x == Instr("USE", <<"for", Variable(Top.id)[2], Top.id>>)
               d == LoopEnd("for", uid)
    <2>1. Usual(x, n) /\ LabelOf(x) = {} /\ TargetOf(x) = {}
      BY UsualKinds
    <2>2. Links(d, n, {End(uid)}, {Loop("for", uid)})
      BY LoopLinks
    <2>3. ForEnd = <<x>> \o d
      BY DEF ForEnd
    <2> HIDE DEF x, d
    <2>4. Links(<<x>> \o d, n, LabelOf(x) \union {End(uid)}, TargetOf(x) \union {Loop("for", uid)})
      BY <2>1, <2>2, LinksOfOneMore
    <2> QED
      BY <2>1, <2>3, <2>4
  <1> QED
    BY <1>1, <1>2, <1>3

LEMMA SilentLinks ==
  ASSUME NEW code, NEW n, IsSeq(code), Len(code) > 0,
         \A i \in 1..Len(code) : Mute(code[i]) /\ Usual(code[i], n)
  PROVE  Links(code, n, {}, {})
  <1>1. Labels(code) = {} /\ Targets(code) = {} /\ LabelledOnce(code)
    BY MuteCode
  <1>2. Steady(code, n)
    BY DEF Steady, Usual
  <1> QED
    BY <1>1, <1>2 DEF Links

LEMMA MuteKinds ==
  /\ \A n : Mute(Other) /\ Usual(Other, n)
  /\ \A n, l : \A op \in {"BREAK", "DEFVAR", "MOVE", "USE"} :
       Mute(Instr(op, l)) /\ Usual(Instr(op, l), n)
  /\ \A v : Mute(Defvar(v)) /\ Usual(Defvar(v), in_loop')
  BY LinkKinds, OtherKind, DefvarLinks DEF Usual

LEMMA SimpleLinks ==
  ASSUME NEW n
  PROVE  /\ Links(<<Other>>, n, {}, {})
         /\ \A v : Links(<<Other, Instr("MOVE", v)>>, n, {}, {})
         /\ \A a : Links(<<Instr("BREAK", a)>>, n, {}, {})
         /\ \A x : Links(Param(x), n, {}, {})
         /\ \A v : Links(VariableCode(v), in_loop', {}, {})
         /\ \A v : Links(DeclareCode(v), in_loop', {}, {})
  <1> DEFINE Quiet(x, m) == Mute(x) /\ Usual(x, m)
  <1>1. ASSUME NEW x, NEW m, Quiet(x, m) PROVE Links(<<x>>, m, {}, {})
    <2> DEFINE c == <<x>>
    <2>1. IsSeq(c) /\ Len(c) = 1 /\ c[1] = x
      BY TupleFacts
    <2> HIDE DEF c
    <2>2. \A i \in 1..Len(c) : Quiet(c[i], m)
      BY <1>1, <2>1
    <2>3. Links(c, m, {}, {})
      BY <2>1, <2>2, SilentLinks
    <2> QED
      BY <2>3 DEF c
  <1>2. ASSUME NEW x, NEW y, NEW m, Quiet(x, m), Quiet(y, m)
        PROVE  Links(<<x, y>>, m, {}, {})
    <2> DEFINE c == <<x, y>>
    <2>1. IsSeq(c) /\ Len(c) = 2 /\ c[1] = x /\ c[2] = y
      BY TupleFacts
    <2> HIDE DEF c
    <2>2. \A i \in 1..Len(c) : Quiet(c[i], m)
      BY <1>2, <2>1
    <2>3. Links(c, m, {}, {})
      BY <2>1, <2>2, SilentLinks
    <2> QED
      BY <2>3 DEF c
  <1>3. ASSUME NEW x, NEW y, NEW z, NEW m, Quiet(x, m), Quiet(y, m), Quiet(z, m)
        PROVE  Links(<<x, y, z>>, m, {}, {})
    <2> DEFINE c == <<x, y, z>>
    <2>1. IsSeq(c) /\ Len(c) = 3 /\ c[1] = x /\ c[2] = y /\ c[3] = z
      BY TupleFacts
    <2> HIDE DEF c
    <2>2. \A i \in 1..Len(c) : Quiet(c[i], m)
      BY <1>3, <2>1
    <2>3. Links(c, m, {}, {})
      BY <2>1, <2>2, SilentLinks
    <2> QED
      BY <2>3 DEF c
  <1>4. /\ \A m : Quiet(Other, m)
        /\ \A m, l : \A op \in {"BREAK", "DEFVAR", "MOVE", "USE"} : Quiet(Instr(op, l), m)
        /\ \A v : Quiet(Defvar(v), in_loop')
    BY MuteKinds
  <1> HIDE DEF Quiet
  <1>5. Links(<<Other>>, n, {}, {})
    BY <1>1, <1>4
  <1>6. ASSUME NEW v PROVE Links(<<Other, Instr("MOVE", v)>>, n, {}, {})
    BY <1>2, <1>4
  <1>7. ASSUME NEW a PROVE Links(<<Instr("BREAK", a)>>, n, {}, {})
    BY <1>1, <1>4
  <1>8. ASSUME NEW x PROVE Links(Param(x), n, {}, {})
    BY <1>2, <1>4 DEF Param
  <1>9. ASSUME NEW v PROVE Links(VariableCode(v), in_loop', {}, {})
    BY <1>3, <1>4 DEF VariableCode
  <1>10. ASSUME NEW v PROVE Links(DeclareCode(v), in_loop', {}, {})
    BY <1>2, <1>4 DEF DeclareCode
  <1> QED
    BY <1>5, <1>6, <1>7, <1>8, <1>9, <1>10

LEMMA HeaderLinks ==
  ASSUME NEW n
  PROVE  /\ \A m \in Nat : Links(ReturnDefvars(m) \o <<Other>>, n, {}, {})
         /\ \A uid, x : Links(ForHeader(uid, x), in_loop', {}, {})
  <1>1. ASSUME NEW m \in Nat
        PROVE  Links(ReturnDefvars(m) \o <<Other>>, n, {}, {})
    <2> DEFINE c == ReturnDefvars(m)
               d == <<Other>>
               e == c \o d
    <2>1. IsSeq(c) /\ \A i \in 1..Len(c) : \E v : c[i] = Instr("DEFVAR", v)
      BY ReturnDefvarsFacts
    <2>2. IsSeq(d) /\ Len(d) = 1 /\ d[1] = Other
      BY TupleFacts
    <2> HIDE DEF c, d
    <2>3. /\ IsSeq(e) /\ Len(e) = Len(c) + Len(d) /\ Len(c) \in Nat
          /\ \A i \in 1..Len(c) : e[i] = c[i]
          /\ \A i \in 1..Len(d) : e[Len(c) + i] = d[i]
      <3>1. IsSeq(c) /\ IsSeq(d)
        BY <2>1, <2>2
      <3> QED
        BY ONLY <3>1, ConcatFacts DEF e
    <2> HIDE DEF e
    <2>4. ASSUME NEW i \in 1..Len(e) PROVE Mute(e[i]) /\ Usual(e[i], n)
      <3>1. CASE i \in 1..Len(c)
        <4>1. PICK v : e[i] = Instr("DEFVAR", v)
          BY <2>1, <2>3, <3>1
        <4> QED
          BY <4>1, MuteKinds
      <3>2. CASE i \notin 1..Len(c)
        <4>1. i = Len(c) + 1
          BY <2>2, <2>3, <3>2
        <4>2. e[i] = Other
          BY <2>2, <2>3, <4>1
        <4> QED
          BY <4>2, MuteKinds
      <3> QED
        BY <3>1, <3>2
    <2>5. Len(e) > 0
      BY <2>2, <2>3
    <2>6. Links(e, n, {}, {})
      BY <2>3, <2>4, <2>5, SilentLinks
    <2> QED
      BY <2>6 DEF c, d, e
  <1>2. ASSUME NEW uid, NEW x
        PROVE  Links(ForHeader(uid, x), in_loop', {}, {})
    <2> DEFINE c == ForHeader(uid, x)
               Quiet(z) == Mute(z) /\ Usual(z, in_loop')
    <2>1. /\ IsSeq(c) /\ Len(c) = 10
          /\ \A i \in 1..10 : c[i] = Other \/ (\E v : c[i] = Defvar(v))
                              \/ \E v : c[i] = Instr("USE", v)
      <3>1. /\ IsSeq(c) /\ Len(c) = 10
            /\ c[1] = Other /\ c[4] = Other /\ c[7] = Other
            /\ (\E v : c[2] = Defvar(v)) /\ \E v : c[3] = Instr("USE", v)
            /\ (\E v : c[5] = Defvar(v)) /\ \E v : c[6] = Instr("USE", v)
            /\ (\E v : c[8] = Defvar(v)) /\ \E v : c[9] = Instr("USE", v)
            /\ \E v : c[10] = Defvar(v)
        <4> DEFINE v1 == Var(uid, x)
                   v2 == <<"terminating_cond", uid, NoName>>
                   v3 == <<"step", uid, NoName>>
                   v4 == <<"for", uid, x>>
        <4>1. /\ IsSeq(c) /\ Len(c) = 10
              /\ c[1] = Other /\ c[4] = Other /\ c[7] = Other
              /\ c[2] = Defvar(v1) /\ c[3] = Instr("USE", v1)
              /\ c[5] = Defvar(v2) /\ c[6] = Instr("USE", v2)
              /\ c[8] = Defvar(v3) /\ c[9] = Instr("USE", v3)
              /\ c[10] = Defvar(v4)
          BY ONLY ForHeaderFacts
        <4> HIDE DEF c, v1, v2, v3, v4
        <4> QED
          BY ONLY <4>1
      <3> HIDE DEF c
      <3>2. \A i \in 1..10 : i \in {1, 2, 3, 4, 5, 6, 7, 8, 9, 10}
        OBVIOUS
      <3> QED
        BY <3>1, <3>2
    <2> HIDE DEF c
    <2>2. Quiet(Other) /\ (\A v : Quiet(Defvar(v))) /\ \A v : Quiet(Instr("USE", v))
      BY MuteKinds
    <2>3. \A i \in 1..Len(c) : Quiet(c[i])
      <3> HIDE DEF Quiet
      <3> QED
        BY <2>1, <2>2
    <2>4. Links(c, in_loop', {}, {})
      BY <2>1, <2>3, SilentLinks
    <2> QED
      BY <2>4 DEF c
  <1> QED
    BY <1>1, <1>2

TextLabels(uid) == {Loop("for", uid), Loop("step_le", uid), Loop("body", uid)}

LEMMA ForTextLinks ==
  ASSUME NEW uid, NEW x
  PROVE  LET t == ForText(uid, x) IN
         /\ LabelledOnce(t) /\ Labels(t) = TextLabels(uid)
         /\ Targets(t) \subseteq TextLabels(uid) \union {End(uid)}
  <1> DEFINE t == ForText(uid, x)
             l1 == Loop("for", uid)
             l2 == Loop("step_le", uid)
             l3 == Loop("body", uid)
             e  == End(uid)
             u  == Instr("USE", <<"for", uid, x>>)
  <1>1. /\ Len(t) = 8
        /\ t[1] = u /\ t[2] = Label(l1) /\ t[3] = Jump(l2) /\ t[4] = Jump(e)
        /\ t[5] = Jump(l3) /\ t[6] = Label(l2) /\ t[7] = Jump(e) /\ t[8] = Label(l3)
    BY DEF ForText
  <1>2. l1 # l2 /\ l1 # l3 /\ l2 # l3
    BY DEF Loop
  <1>3. /\ \A l : IsLabel(Label(l)) /\ Label(l).arg = l /\ ~ Jumps(Label(l))
        /\ \A l : Jumps(Jump(l)) /\ Jump(l).arg = l /\ ~ IsLabel(Jump(l))
        /\ ~ IsLabel(u) /\ ~ Jumps(u)
    BY DEF IsLabel, Jumps, Label, Jump, Instr
  <1> HIDE DEF t, l1, l2, l3, e, u
  <1>4. \A i \in 1..8 : i \in {1, 2, 3, 4, 5, 6, 7, 8}
    OBVIOUS
  <1>5. /\ \A i \in 1..8 : IsLabel(t[i]) => i \in {2, 6, 8}
        /\ IsLabel(t[2]) /\ t[2].arg = l1 /\ IsLabel(t[6]) /\ t[6].arg = l2
        /\ IsLabel(t[8]) /\ t[8].arg = l3
        /\ \A i \in 1..8 : Jumps(t[i]) => t[i].arg \in {l2, e, l3}
    BY <1>1, <1>3, <1>4
  <1>6. LabelledOnce(t)
    BY <1>1, <1>2, <1>5 DEF LabelledOnce
  <1>7. Labels(t) = {l1, l2, l3}
    <2>1. \A a : a \in Labels(t) <=> \E i \in 1..8 : IsLabel(t[i]) /\ t[i].arg = a
      BY <1>1, OfLabels
    <2> QED
      BY <1>5, <2>1
  <1>8. Targets(t) \subseteq {l2, e, l3}
    BY <1>1, <1>5, OfLabels
  <1> QED
    BY <1>6, <1>7, <1>8 DEF t, l1, l2, l3, e, TextLabels

(***************************************************************************)
(* What is still to come.                                                  *)
(***************************************************************************)
(* The labels an open cycle, if statement or function still has to put.    *)
OwedBy(p, f, uid, c) ==
  IF p \in LoopProcs THEN {End(uid)}
  ELSE IF p \in CondProcs THEN {IfEnd(c[1]), If(c[1], c[2])}
  ELSE {FuncEnd(f)}

Owed(k) == OwedBy(calls[k].proc, calls[k].id, symstack[k].uid, Counters(k))

OwedAbove(m) == UNION {Owed(k) : k \in m..Depth}

Due == OwedAbove(2) \union Labels(tmp_instr)

(* Where the body of the cycle at the k-th activation begins.              *)
LoopKind(p) == CASE p = "while_cycle" -> "while"
                 [] p = "for_cycle"   -> "for"
                 [] OTHER             -> "repeat"

Back(k) == Loop(LoopKind(calls[k].proc), symstack[k].uid)

(* The label a cannot be put once more: its function was defined, its      *)
(* scope was opened, its branch is over.                                   *)
OfFunction(a) == a[1] \in {"func", "funcend"}

Past(a) ==
  /\ OfFunction(a) => a[3] \in Names /\ functions[a[3]].is_defined
  /\ ~ OfFunction(a) => a[2] \in Nat /\ a[2] < unique_id
  /\ a[1] = "if" => a[3] \in Int
  /\ \A k \in 2..Depth :
       IsCond(calls[k]) /\ a[1] = "if" /\ a[2] = Counters(k)[1]
         => a[3] < Counters(k)[2]

TextIsForText ==
  tmp_instr # <<>> => \E x : tmp_instr = ForText(symstack[Depth].uid, x)

LinksInv ==
  /\ TextIsForText
  /\ phase = "prolog" => Labels(Code) = {} /\ Targets(Code) = {}
  /\ phase = "running" =>
       /\ Linked(Code, Due)
       /\ \A a \in Labels(Code) : Past(a)
       /\ \A k \in 2..Depth : calls[k].proc \in LoopProcs =>
            HasLabel(Code, Back(k)) \/ Back(k) \in Labels(tmp_instr)
       /\ in_loop => Current(Code, before_loop_start)
  /\ phase = "accepted" => Linked(Code, {})

(* The kinds of labels.                                                    *)
LEMMA OwedKinds ==
  ASSUME NEW p, NEW f, NEW uid, NEW c, NEW a \in OwedBy(p, f, uid, c)
  PROVE  /\ p \in LoopProcs /\ a = End(uid) /\ a[1] = "end" /\ a[2] = uid
         \/ /\ p \notin LoopProcs /\ p \in CondProcs
            /\ \/ a = IfEnd(c[1]) /\ a[1] = "ifend" /\ a[2] = c[1]
               \/ a = If(c[1], c[2]) /\ a[1] = "if" /\ a[2] = c[1] /\ a[3] = c[2]
         \/ /\ p \notin LoopProcs /\ p \notin CondProcs
            /\ a = FuncEnd(f) /\ a[1] = "funcend" /\ a[3] = f
  BY DEF OwedBy, End, IfEnd, If, FuncEnd

LEMMA TextLabelKinds ==
  ASSUME NEW uid, NEW a \in TextLabels(uid)
  PROVE  a[1] \in {"for", "step_le", "body"} /\ a[2] = uid
  BY DEF TextLabels, Loop

(* The text that waits.                                                    *)
LEMMA TextLinks ==
  ASSUME IInv, phase = "running", ListIsSafe, TextIsForText
  PROVE  /\ LabelledOnce(tmp_instr)
         /\ tmp_instr = <<>> => Labels(tmp_instr) = {} /\ Targets(tmp_instr) = {}
         /\ tmp_instr # <<>> => /\ Labels(tmp_instr) = TextLabels(symstack[Depth].uid)
                                /\ calls[Depth].proc = "for_cycle" /\ Depth >= 2
         /\ Targets(tmp_instr) \subseteq Due
  <1>1. CASE tmp_instr = <<>>
    <2>1. \A i \in 1..Len(tmp_instr) : FALSE
      BY <1>1, TupleFacts
    <2> QED
      BY <1>1, <2>1, MuteCode
  <1>2. CASE tmp_instr # <<>>
    <2> DEFINE uid == symstack[Depth].uid
    <2>1. PICK x : tmp_instr = ForText(uid, x)
      BY <1>2 DEF TextIsForText
    <2>2. calls[Depth].proc = "for_cycle" /\ Depth >= 2 /\ Depth \in Nat
      BY <1>2, DepthFacts DEF ListIsSafe, TextIsHeader
    <2>3. /\ LabelledOnce(tmp_instr) /\ Labels(tmp_instr) = TextLabels(uid)
          /\ Targets(tmp_instr) \subseteq TextLabels(uid) \union {End(uid)}
      BY <2>1, ForTextLinks
    <2>4. End(uid) \in OwedAbove(2)
      <3>1. Owed(Depth) = {End(uid)}
        BY <2>2 DEF Owed, OwedBy, LoopProcs
      <3>2. Depth \in 2..Depth
        BY <2>2
      <3> QED
        BY <3>1, <3>2 DEF OwedAbove
    <2> QED
      BY <1>2, <2>2, <2>3, <2>4 DEF Due
  <1> QED
    BY <1>1, <1>2

(***************************************************************************)
(* A rule's code is added.                                                 *)
(***************************************************************************)
(* The labels L and targets T of the code suit the list, and E is what is  *)
(* still to come behind it.                                                *)
Suits(L, T, E) ==
  /\ E \intersect L = {}
  /\ \A a \in E \union L : a \notin Labels(tmp_instr)
  /\ \A a \in E \union L : a \in Due \/ a \notin Labels(Code)
  /\ \A a \in Due : a \in E \/ a \in L \/ a \in Labels(tmp_instr)
  /\ \A a \in T : a \in E \/ a \in L \/ a \in Labels(tmp_instr) \/ HasLabel(Code, a)

LEMMA LinkedText ==
  ASSUME IInv, phase = "running", ListIsSafe, TextIsForText, Linked(Code, Due),
         NEW b, NEW code, NEW nested, NEW L, NEW T, Links(code, nested, L, T),
         Ready(instrListFunctions, b, WithText(code)), nested => Current(Code, b),
         NEW E, Suits(L, T, E)
  PROVE  LET s == EmitAll(instrListFunctions, b, WithText(code)).items IN
         /\ Linked(s, E)
         /\ nested => Current(s, b)
         /\ Labels(s) = Labels(Code) \union Labels(tmp_instr) \union L
         /\ \A a : HasLabel(Code, a) \/ a \in L \/ a \in Labels(tmp_instr)
                     => HasLabel(s, a)
  <1> DEFINE l == instrListFunctions
             w == WithText(code)
             X == Labels(tmp_instr)
  <1>1. /\ IsSeq(code) /\ Len(code) > 0 /\ LabelledOnce(code) /\ Labels(code) = L
        /\ Targets(code) = T /\ Steady(code, nested)
    BY DEF Links
  <1>2. IsText(tmp_instr)
    BY DEF ListIsSafe, TextIsHeader
  <1>3. LabelledOnce(tmp_instr) /\ Targets(tmp_instr) \subseteq Due
    BY TextLinks
  <1>4. /\ Labels(w) = X \union L /\ Targets(w) = Targets(tmp_instr) \union T
        /\ Steady(w, nested)
        /\ X \intersect L = {} => LabelledOnce(w)
    BY <1>1, <1>2, <1>3, LabelsWithText
  <1>5. X \intersect L = {} /\ E \intersect L = {} /\ E \intersect X = {}
    BY DEF Suits
  <1>6. Due \intersect Labels(Code) = {} /\ X \subseteq Due
    BY DEF Linked, Due
  <1> HIDE DEF X
  <1>7. L \intersect Labels(Code) = {} /\ E \intersect Labels(Code) = {}
        /\ X \intersect Labels(Code) = {}
    BY <1>6 DEF Suits
  <1>8. Due \subseteq E \union (X \union L)
    BY DEF Suits, X
  <1>9. \A a \in Targets(w) : a \in E \union (X \union L) \/ HasLabel(Code, a)
    BY <1>3, <1>4, <1>8 DEF Suits, X
  <1>10. Ready(l, b, w)
    OBVIOUS
  <1> DEFINE s == EmitAll(l, b, w).items
  <1> HIDE DEF w, l
  <1>11. Fits(w, Code, Due, E)
    <2>1. LabelledOnce(w)
      BY <1>4, <1>5
    <2>2. Labels(w) \intersect Labels(Code) = {} /\ E \intersect Labels(w) = {}
      BY <1>4, <1>5, <1>7
    <2> QED
      BY <1>4, <1>7, <1>8, <1>9, <2>1, <2>2 DEF Fits
  <1>12. Code = l.items
    BY DEF Code, l
  <1>13. /\ Linked(s, E)
         /\ nested => Current(s, b)
         /\ Labels(s) = Labels(Code) \union Labels(w)
         /\ \A a : HasLabel(Code, a) \/ a \in Labels(w) => HasLabel(s, a)
    BY <1>4, <1>10, <1>11, <1>12, LinkedCode
  <1> HIDE DEF s
  <1>14. Labels(s) = Labels(Code) \union X \union L
    BY <1>4, <1>13
  <1>15. \A a : HasLabel(Code, a) \/ a \in L \/ a \in X => HasLabel(s, a)
    BY <1>4, <1>13
  <1> QED
    BY <1>13, <1>14, <1>15 DEF X, s, w, l

(* The open cycles' bodies begin in the last function, or in the code.     *)
BacksKept(L) ==
  \A k \in 2..Len(calls') : calls'[k].proc \in LoopProcs =>
    \/ Back(k)' \in L
    \/ k <= Depth /\ calls[k].proc \in LoopProcs /\ Back(k)' = Back(k)

LEMMA LinksNext ==
  ASSUME IInv, phase = "running", phase' = "running", ListIsSafe, LinksInv,
         NEW b, NEW code, NEW L, NEW T, Links(code, in_loop', L, T),
         Grows(instrListFunctions, b, WithText(code)), tmp_instr' = <<>>,
         in_loop' => Current(Code, b),
         Suits(L, T, Due'), BacksKept(L),
         \A a : a \in L \/ a \in Labels(tmp_instr) => Past(a)',
         \A a \in Labels(Code) : Past(a)'
  PROVE  LinksInv'
  <1>1. TextIsForText /\ Linked(Code, Due)
    BY DEF LinksInv
  <1>2. /\ Linked(Code', Due')
        /\ in_loop' => Current(Code', b)
        /\ Labels(Code') = Labels(Code) \union Labels(tmp_instr) \union L
        /\ \A a : HasLabel(Code, a) \/ a \in L \/ a \in Labels(tmp_instr)
                    => HasLabel(Code', a)
    <2>1. /\ Ready(instrListFunctions, b, WithText(code))
          /\ Code' = EmitAll(instrListFunctions, b, WithText(code)).items
      BY DEF Grows, Code
    <2> QED
      BY <1>1, <2>1, LinkedText
  <1>3. TextIsForText'
    BY DEF TextIsForText
  <1>4. \A a \in Labels(Code') : Past(a)'
    BY <1>2
  <1>5. before_loop_start' = b
    BY DEF Grows
  <1>6. ASSUME NEW k \in 2..Len(calls'), calls'[k].proc \in LoopProcs
        PROVE  HasLabel(Code', Back(k)')
    <2>1. CASE Back(k)' \in L
      BY <1>2, <2>1
    <2>2. CASE k <= Depth /\ calls[k].proc \in LoopProcs /\ Back(k)' = Back(k)
      <3>1. k \in 2..Depth
        BY <2>2, DepthFacts
      <3>2. HasLabel(Code, Back(k)) \/ Back(k) \in Labels(tmp_instr)
        BY <2>2, <3>1 DEF LinksInv
      <3> QED
        BY <1>2, <2>2, <3>2
    <2> QED
      BY <1>6, <2>1, <2>2 DEF BacksKept
  <1>7. Depth' = Len(calls')
    BY DEF Depth
  <1> QED
    BY <1>2, <1>3, <1>4, <1>5, <1>6, <1>7 DEF LinksInv

(***************************************************************************)
(* The frames' labels after a step.                                        *)
(***************************************************************************)
SameFrame(k) ==
  /\ calls'[k].id = calls[k].id
  /\ calls'[k].proc \in LoopProcs <=> calls[k].proc \in LoopProcs
  /\ calls[k].proc \in LoopProcs => calls'[k].proc = calls[k].proc
  /\ calls'[k].proc \in CondProcs <=> calls[k].proc \in CondProcs
  /\ symstack'[k].uid = symstack[k].uid
  /\ Counters(k)' = Counters(k)

SameFrames(m) == \A k \in 2..m : SameFrame(k)

LEMMA SameFrameFacts ==
  ASSUME NEW k, SameFrame(k)
  PROVE  /\ Owed(k)' = Owed(k)
         /\ IsCond(calls'[k]) <=> IsCond(calls[k])
         /\ calls[k].proc \in LoopProcs => Back(k)' = Back(k)
  BY DEF SameFrame, Owed, OwedBy, IsCond, Back

(* What is still to come, frame by frame.                                  *)
LEMMA DueFrames ==
  ASSUME NEW a
  PROVE  /\ a \in Due <=> (\E k \in 2..Depth : a \in Owed(k)) \/ a \in Labels(tmp_instr)
         /\ tmp_instr' = <<>> =>
              (a \in Due' <=> \E k \in 2..Len(calls') : a \in Owed(k)')
  <1>1. Labels(<<>>) = {}
    <2>1. \A i \in 1..Len(<<>>) : FALSE
      BY TupleFacts
    <2> QED
      BY <2>1 DEF Labels
  <1> QED
    BY <1>1 DEF Due, OwedAbove, Depth

LEMMA OwedNotText ==
  ASSUME IInv, phase = "running", ListIsSafe, TextIsForText, NEW a,
         a[1] \notin {"for", "step_le", "body"}
  PROVE  a \notin Labels(tmp_instr)
  BY TextLinks, TextLabelKinds

LEMMA OwedNextNotText ==
  ASSUME NEW k, NEW a, a \in Owed(k) \/ a \in Owed(k)'
  PROVE  a[1] \notin {"for", "step_le", "body"}
  <1>1. \A p, f, uid, c : \A z \in OwedBy(p, f, uid, c) :
          z[1] \in {"end", "ifend", "if", "funcend"}
    BY OwedKinds
  <1>2. a[1] \in {"end", "ifend", "if", "funcend"}
    BY <1>1 DEF Owed
  <1> QED
    BY <1>2

(* What was put stays put.                                                 *)
Onward ==
  /\ unique_id' \in Nat /\ unique_id <= unique_id'
  /\ \A f \in Names : functions[f].is_defined => functions'[f].is_defined

LEMMA PastKept ==
  ASSUME unique_id \in Nat, Onward, NEW m \in Nat, m <= Depth, Depth \in Nat,
         SameFrames(m), NEW a, Past(a),
         \A k \in 2..Len(calls') :
           k > m /\ IsCond(calls'[k]) /\ a[1] = "if" /\ a[2] = Counters(k)'[1]
             => a[3] < Counters(k)'[2]
  PROVE  Past(a)'
  <1>1. /\ OfFunction(a) => a[3] \in Names /\ functions'[a[3]].is_defined
        /\ ~ OfFunction(a) => a[2] \in Nat /\ a[2] < unique_id'
        /\ a[1] = "if" => a[3] \in Int
    BY DEF Past, Onward
  <1>2. ASSUME NEW k \in 2..Len(calls'),
               IsCond(calls'[k]), a[1] = "if", a[2] = Counters(k)'[1]
        PROVE  a[3] < Counters(k)'[2]
    <2>1. CASE k > m
      BY <1>2, <2>1
    <2>2. CASE k <= m
      <3>1. k \in 2..m /\ k \in 2..Depth
        BY <2>2
      <3>2. SameFrame(k)
        BY <3>1 DEF SameFrames
      <3>3. IsCond(calls[k]) /\ Counters(k)' = Counters(k)
        BY <1>2, <3>2, SameFrameFacts DEF SameFrame
      <3> QED
        BY <1>2, <3>1, <3>3 DEF Past
    <2> QED
      BY <2>1, <2>2
  <1>3. \A k \in 2..Len(calls') :
          IsCond(calls'[k]) /\ a[1] = "if" /\ a[2] = Counters(k)'[1]
             => a[3] < Counters(k)'[2]
    BY <1>2
  <1> QED
    BY <1>1, <1>3 DEF Past, Depth, OfFunction

LEMMA TextPast ==
  ASSUME IInv, phase = "running", ListIsSafe, TextIsForText, IdsIncrease,
         unique_id \in Nat, Onward, NEW a \in Labels(tmp_instr)
  PROVE  Past(a)'
  <1>1. tmp_instr # <<>> /\ a \in TextLabels(symstack[Depth].uid)
    BY TextLinks
  <1>2. a[1] \in {"for", "step_le", "body"} /\ a[2] = symstack[Depth].uid
    BY <1>1, TextLabelKinds
  <1>3. symstack[Depth].uid \in Nat /\ symstack[Depth].uid < unique_id
    BY DepthFacts DEF Frames, IdsIncrease
  <1>4. a[2] \in Nat /\ a[2] < unique_id'
    BY <1>2, <1>3 DEF Onward
  <1>5. ~ OfFunction(a) /\ a[1] # "if"
    BY <1>2 DEF OfFunction
  <1> QED
    BY <1>4, <1>5 DEF Past, OfFunction

(* No frame owes anything else, and the code puts no label.                *)
LEMMA LinksSameFrames ==
  ASSUME IInv, phase = "running", phase' = "running", ListIsSafe, LinksInv,
         IdsIncrease, unique_id \in Nat, Onward, NEW d, d = Depth, Len(calls') = d,
         SameFrames(d), UNCHANGED in_loop,
         NEW code, NEW T, Links(code, in_loop', {}, T), T \subseteq OwedAbove(2),
         Here(code)
  PROVE  LinksInv'
  <1>1. d \in Nat
    BY DepthFacts
  <1>2. /\ Grows(instrListFunctions, before_loop_start, WithText(code))
        /\ tmp_instr' = <<>>
    BY DEF Here
  <1>3. in_loop' => Current(Code, before_loop_start)
    BY DEF LinksInv
  <1>4. TextIsForText
    BY DEF LinksInv
  <1>5. ASSUME NEW a
        PROVE  a \in Due' <=> \E k \in 2..d : a \in Owed(k)
    <2>1. \A k \in 2..d : Owed(k)' = Owed(k)
      BY SameFrameFacts DEF SameFrames
    <2>2. a \in Due' <=> \E k \in 2..d : a \in Owed(k)'
      BY <1>2, DueFrames
    <2> QED
      BY <2>1, <2>2
  <1>6. Suits({}, T, Due')
    <2>1. \A a \in Due' : a \in Due
      BY <1>5, DueFrames
    <2>2. \A a \in Due : a \in Due' \/ a \in Labels(tmp_instr)
      BY <1>5, DueFrames
    <2>3. \A a \in Due' : a \notin Labels(tmp_instr)
      BY <1>4, <1>5, OwedNextNotText, OwedNotText
    <2>4. \A a \in T : a \in Due'
      BY <1>5 DEF OwedAbove
    <2> QED
      BY <2>1, <2>2, <2>3, <2>4 DEF Suits
  <1>7. BacksKept({})
    <2>1. ASSUME NEW k \in 2..Len(calls'), calls'[k].proc \in LoopProcs
          PROVE  k <= Depth /\ calls[k].proc \in LoopProcs /\ Back(k)' = Back(k)
      <3>1. SameFrame(k) /\ k <= Depth
        BY <1>1 DEF SameFrames
      <3> QED
        BY <2>1, <3>1, SameFrameFacts DEF SameFrame
    <2> QED
      BY <2>1 DEF BacksKept
  <1>8. \A a : a \in {} \/ a \in Labels(tmp_instr) => Past(a)'
    BY <1>4, TextPast
  <1>9. ASSUME NEW a \in Labels(Code)
        PROVE  Past(a)'
    <2>1. Past(a)
      BY DEF LinksInv
    <2>2. \A k \in 2..Len(calls') : ~ (k > d)
      BY <1>1
    <2> QED
      BY <1>1, <2>1, <2>2, PastKept
  <1> QED
    BY <1>2, <1>3, <1>6, <1>7, <1>8, <1>9, LinksNext

(***************************************************************************)
(* The steps that open and close nothing.                                  *)
(***************************************************************************)
LEMMA UidIsNat == ASSUME IInv PROVE unique_id \in Nat
  BY DEF IInv, TypeOK, ScopesOK

LEMMA SameProcs ==
  ASSUME IInv, phase = "running", NEW d, d = Depth, Len(calls') = d, UNCHANGED conds,
         \A k \in 1..d : /\ calls'[k].id = calls[k].id
                         /\ calls'[k].saved = calls[k].saved
                         /\ symstack'[k].uid = symstack[k].uid
                         /\ \/ calls'[k].proc = calls[k].proc
                            \/ /\ calls'[k].proc \notin LoopProcs \union CondProcs
                               /\ calls[k].proc \notin LoopProcs \union CondProcs
  PROVE  SameFrames(d)
  <1>1. d \in Nat /\ KeepsCounters(d)
    BY CountersSame, DepthFacts
  <1>2. ASSUME NEW k \in 2..d PROVE SameFrame(k)
    <2>1. k \in 1..d
      BY <1>1
    <2>2. Counters(k)' = Counters(k)
      BY <1>1, <2>1 DEF KeepsCounters
    <2> QED
      BY <2>1, <2>2 DEF SameFrame
  <1> QED
    BY <1>2 DEF SameFrames

LEMMA HeaderProcsApart ==
  /\ HeaderProcs \intersect (LoopProcs \union CondProcs) = {}
  /\ \A p \in HeaderProcs : p # "function_definition"
  /\ "other_funparams" \notin LoopProcs \union CondProcs
  /\ "function_definition" \notin LoopProcs \union CondProcs
  /\ LoopProcs \intersect CondProcs = {}
  BY DEF HeaderProcs, LoopProcs, CondProcs

(* Nothing is emitted.                                                     *)
LEMMA NoCode ==
  ASSUME Here(<<>>), tmp_instr = <<>>
  PROVE  UNCHANGED gen
  <1>1. WithText(<<>>) = <<>>
    BY DEF WithText
  <1>2. EmitAll(instrListFunctions, before_loop_start, <<>>) = instrListFunctions
    <2>1. Len(<<>>) = 0 /\ Len(<<>>) \in Nat
      BY TupleFacts
    <2>2. PICK a : /\ a[0] = instrListFunctions
                   /\ EmitAll(instrListFunctions, before_loop_start, <<>>) = a[Len(<<>>)]
      BY <2>1, EmitAllSteps
    <2> QED
      BY <2>1, <2>2
  <1> QED
    BY <1>1, <1>2 DEF Here, Grows, gen

LEMMA LinksSilent ==
  ASSUME IInv, phase = "running", phase' = "running", LinksInv, Onward,
         NEW d, d = Depth, Len(calls') = d, SameFrames(d),
         tmp_instr = <<>>, UNCHANGED gen, UNCHANGED in_loop
  PROVE  LinksInv'
  <1>1. d \in Nat /\ unique_id \in Nat
    BY DepthFacts, UidIsNat
  <1>2. tmp_instr' = <<>> /\ Code' = Code /\ before_loop_start' = before_loop_start
    BY DEF gen, Code
  <1>3. \A k \in 2..d : Owed(k)' = Owed(k)
    BY SameFrameFacts DEF SameFrames
  <1>4. Due' = Due
    <2>1. \A a : a \in Due' <=> a \in Due
      <3>1. Labels(tmp_instr) = {}
        <4>1. \A i \in 1..Len(<<>>) : FALSE
          BY TupleFacts
        <4> QED
          BY <4>1 DEF Labels
      <3> QED
        BY <1>2, <1>3, <3>1, DueFrames
    <2>2. Due' \subseteq Due /\ Due \subseteq Due'
      BY <2>1
    <2> QED
      BY <2>2
  <1>5. ASSUME NEW a \in Labels(Code) PROVE Past(a)'
    <2>1. Past(a)
      BY DEF LinksInv
    <2>2. \A k \in 2..Len(calls') : ~ (k > d)
      BY <1>1
    <2> QED
      BY <1>1, <2>1, <2>2, PastKept
  <1>6. ASSUME NEW k \in 2..d, calls'[k].proc \in LoopProcs
        PROVE  HasLabel(Code', Back(k)')
    <2>1. SameFrame(k)
      BY DEF SameFrames
    <2>2. calls[k].proc \in LoopProcs /\ Back(k)' = Back(k)
      BY <1>6, <2>1, SameFrameFacts DEF SameFrame
    <2>3. HasLabel(Code, Back(k)) \/ Back(k) \in Labels(<<>>)
      BY <2>2 DEF LinksInv
    <2>4. \A i \in 1..Len(<<>>) : FALSE
      BY TupleFacts
    <2> QED
      BY <1>2, <2>2, <2>3, <2>4 DEF Labels
  <1>7. Linked(Code', Due') /\ (in_loop' => Current(Code', before_loop_start'))
    BY <1>2, <1>4 DEF LinksInv
  <1>8. TextIsForText' /\ Depth' = d
    BY <1>2 DEF TextIsForText, Depth
  <1> QED
    BY <1>2, <1>5, <1>6, <1>7, <1>8 DEF LinksInv

(* A return statement jumps to the end of its function.                    *)
LEMMA ParentIsFunction ==
  ASSUME NamesInv, InBody
  PROVE  FuncEnd(ParentFuncName) \in OwedAbove(2)
  <1>1. phase = "running" /\ Top.proc \in BodyProcs /\ IInv
    BY DEF InBody, NamesInv
  <1>2. /\ Depth \in Nat /\ Depth >= 2 /\ Len(symstack) = Depth
        /\ Depth = Len(calls) /\ Top = calls[Depth]
        /\ \A i \in 1..Depth : /\ calls[i].proc \in Procs
                               /\ symstack[i].type = ScopeOf(calls[i].proc)
                               /\ symstack[i].type = "function"
                                    => symstack[i].fun = calls[i].id
                               /\ calls[i].proc = "stmt_list" <=> i = 1
    BY <1>1, DepthFacts DEF Depth, Activations, BodyProcs, FunBodyCallers
  <1>3. \A i \in 2..Depth :
           calls[i].proc \in HeaderProcs \union {"function_definition"} <=> i = 2
    BY <1>1, <1>2 DEF NamesInv, FunctionAtBottom
  <1>4. \A i \in 1..Depth : symstack[i].type = "function" <=> i = 2
    <2>1. "stmt_list" \notin HeaderProcs \union {"function_definition"}
      BY DEF HeaderProcs
    <2> QED
      BY <1>2, <1>3, <2>1, ScopeOfFacts
  <1>5. 2 \in 1..Depth /\ 2 \in 2..Depth
    BY <1>2
  <1>6. IsParentFrame(symstack, 2) /\ symstack[2].fun = calls[2].id
    BY <1>2, <1>4, <1>5 DEF IsParentFrame
  <1>7. \A i \in 1..Len(symstack) : IsParentFrame(symstack, i) => i = 2
    BY <1>2, <1>4 DEF IsParentFrame
  <1>8. ParentFuncName = calls[2].id
    <2>1. 2 \in 1..Len(symstack)
      BY <1>2, <1>5
    <2>2. (CHOOSE i \in 1..Len(symstack) : IsParentFrame(symstack, i)) = 2
      BY <1>6, <1>7, <2>1
    <2> QED
      BY <1>6, <2>2 DEF ParentFuncName
  <1>9. Owed(2) = {FuncEnd(calls[2].id)}
    <2>1. calls[2].proc \in HeaderProcs \union {"function_definition"}
      BY <1>3, <1>5
    <2> QED
      BY <2>1, HeaderProcsApart DEF Owed, OwedBy
  <1> QED
    BY <1>5, <1>8, <1>9 DEF OwedAbove

LEMMA LinksStays ==
  ASSUME NamesInv, IdsIncrease, phase = "running", phase' = "running", ListIsSafe,
         LinksInv, CodeStays
  PROVE  LinksInv'
  <1>1. IInv
    BY DEF NamesInv
  <1>2. unique_id \in Nat
    BY <1>1, UidIsNat
  <1>3. Onward /\ UNCHANGED in_loop
    BY <1>2 DEF CodeStays, Stays, Onward, loops
  <1>4. PICK d \in Nat : d = Depth /\ Len(calls') = d
    BY <1>1, DepthFacts DEF CodeStays, Stays, Depth
  <1>5. SameFrames(d)
    BY <1>1, <1>4, SameProcs DEF CodeStays, Stays
  <1>6. CASE AtStatement /\ Here(<<>>)
    <2>1. tmp_instr = <<>>
      BY <1>6 DEF AtStatement, ListIsSafe, TextIsHeader
    <2> QED
      BY <1>1, <1>3, <1>4, <1>5, <1>6, <2>1, NoCode, LinksSilent
  <1>7. ASSUME NEW code, NEW T, Links(code, in_loop', {}, T), T \subseteq OwedAbove(2),
               Here(code)
        PROVE  LinksInv'
    BY <1>1, <1>2, <1>3, <1>4, <1>5, <1>7, LinksSameFrames
  <1>8. ASSUME NEW x \in Names, Here(<<Other, Instr("MOVE", Variable(x))>>)
        PROVE  LinksInv'
    BY <1>7, <1>8, SimpleLinks
  <1>9. CASE InBody /\ Here(<<Other, Instr("RETURN", FuncEnd(ParentFuncName))>>)
    <2>1. {FuncEnd(ParentFuncName)} \subseteq OwedAbove(2)
      BY <1>9, ParentIsFunction
    <2> QED
      BY <1>7, <1>9, <2>1, EndLinks
  <1>10. CASE Here(<<Instr("BREAK", End(SS_Head(symstack).uid))>>)
    BY <1>7, <1>10, SimpleLinks
  <1> QED
    BY <1>6, <1>8, <1>9, <1>10 DEF CodeStays

LEMMA LinksDeclares ==
  ASSUME SignaturesInv, IdsIncrease, phase = "running", phase' = "running", ListIsSafe,
         LinksInv, CodeDeclares
  PROVE  LinksInv'
  <1>1. IInv
    BY DEF SignaturesInv, NamesInv
  <1>2. unique_id \in Nat
    BY <1>1, UidIsNat
  <1>3. PICK f \in Names, sig \in Signatures : Declares(f, sig) /\ Here(<<>>)
    BY DEF CodeDeclares
  <1>4. Onward /\ UNCHANGED in_loop
    <2>1. FunctionsOK
      BY <1>1 DEF IInv, TypeOK
    <2>2. \A g \in Names : functions'[g].is_defined = functions[g].is_defined
      BY <1>3, <2>1, DeclarationChange DEF Declares
    <2>3. unique_id' = unique_id /\ UNCHANGED in_loop
      BY <1>3 DEF Declares, Puts, loops
    <2> QED
      BY <1>2, <2>2, <2>3 DEF Onward
  <1>5. PICK d \in Nat : d = Depth /\ Len(calls') = d /\ d = 1
    BY <1>1, <1>3, DepthFacts DEF Declares, Depth
  <1>6. SameFrames(d)
    BY <1>5 DEF SameFrames
  <1>7. tmp_instr = <<>>
    BY <1>3 DEF Declares, ListIsSafe, TextIsHeader
  <1> QED
    BY <1>1, <1>3, <1>4, <1>5, <1>6, <1>7, NoCode, LinksSilent

(* A name is put in the table of the scope at the head.                    *)
LEMMA PutsUids ==
  ASSUME IInv, phase = "running", NEW d, d = Depth, NEW x, Puts(x)
  PROVE  \A k \in 1..d : symstack'[k].uid = symstack[k].uid
  <1>1. d \in Nat \ {0}
    BY DepthFacts
  <1>2. ASSUME NEW k \in 1..d PROVE symstack'[k].uid = symstack[k].uid
    <2>1. CASE k = d
      BY <2>1 DEF Puts
    <2>2. CASE k # d
      <3>1. k \in 1..(d - 1)
        BY <1>1, <2>2
      <3> QED
        BY <3>1 DEF Puts, KeepsFrames
    <2> QED
      BY <2>1, <2>2
  <1> QED
    BY <1>2

(* A header goes on as another procedure of its kind.                      *)
LEMMA BecomesSame ==
  ASSUME IInv, phase = "running", NEW d, d = Depth, Top.proc \in HeaderProcs,
         NEW p \in {"other_funparams", "function_definition"}, Becomes(p)
  PROVE  /\ Len(calls') = d
         /\ \A k \in 1..d : /\ calls'[k].id = calls[k].id
                            /\ calls'[k].saved = calls[k].saved
                            /\ \/ calls'[k].proc = calls[k].proc
                               \/ /\ calls'[k].proc \notin LoopProcs \union CondProcs
                                  /\ calls[k].proc \notin LoopProcs \union CondProcs
  <1>1. d \in Nat \ {0} /\ Top = calls[d]
    BY DepthFacts
  <1>2. ASSUME NEW k \in 1..d
        PROVE  /\ calls'[k].id = calls[k].id
               /\ calls'[k].saved = calls[k].saved
               /\ \/ calls'[k].proc = calls[k].proc
                  \/ /\ calls'[k].proc \notin LoopProcs \union CondProcs
                     /\ calls[k].proc \notin LoopProcs \union CondProcs
    <2>1. CASE k = d
      BY <1>1, <2>1, HeaderProcsApart DEF Becomes
    <2>2. CASE k # d
      <3>1. k \in 1..(d - 1)
        BY <1>1, <2>2
      <3> QED
        BY <3>1 DEF Becomes, KeepsCalls
    <2> QED
      BY <2>1, <2>2
  <1> QED
    BY <1>2 DEF Becomes

LEMMA LinksPuts ==
  ASSUME SignaturesInv, IdsIncrease, phase = "running", phase' = "running", ListIsSafe,
         LinksInv, CodeTakesParameter \/ CodeAddsVariable
  PROVE  LinksInv'
  <1>1. IInv
    BY DEF SignaturesInv, NamesInv
  <1>2. unique_id \in Nat
    BY <1>1, UidIsNat
  <1>3. PICK d \in Nat : d = Depth
    BY <1>1, DepthFacts
  <1>4. ASSUME NEW code, Links(code, in_loop', {}, {}), Here(code),
               Onward, UNCHANGED in_loop, Len(calls') = d, SameFrames(d)
        PROVE  LinksInv'
    BY <1>1, <1>2, <1>3, <1>4, LinksSameFrames
  <1>5. CASE CodeTakesParameter
    <2>1. PICK x \in Names, t \in Types : TakesParameter(x, t) /\ Here(Param(x))
      BY <1>5 DEF CodeTakesParameter
    <2>2. Onward /\ UNCHANGED in_loop
      <3>1. FunctionsOK
        BY <1>1 DEF IInv, TypeOK
      <3>2. \A g \in Names : functions'[g].is_defined = functions[g].is_defined
        BY <2>1, <3>1 DEF TakesParameter, FunctionsOK, Semantics
      <3> QED
        BY <1>2, <2>1, <3>2 DEF TakesParameter, Puts, Onward, loops
    <2>3. Len(calls') = d /\ SameFrames(d)
      <3>1. Top.proc \in HeaderProcs /\ Becomes("other_funparams") /\ Puts(x) /\ UNCHANGED conds
        BY <2>1 DEF TakesParameter
      <3> QED
        BY <1>1, <1>3, <3>1, BecomesSame, PutsUids, SameProcs
    <2> QED
      BY <1>4, <2>1, <2>2, <2>3, SimpleLinks
  <1>6. CASE CodeAddsVariable
    <2>1. PICK x \in Names :
            /\ AddsVariable(x)
            /\ \/ Here(VariableCode(Var(SS_Head(symstack).uid, x)))
               \/ Here(DeclareCode(Var(SS_Head(symstack).uid, x)))
      BY <1>6 DEF CodeAddsVariable
    <2>2. Onward /\ UNCHANGED in_loop
      BY <1>2, <2>1 DEF AddsVariable, Puts, Onward, loops
    <2>3. Len(calls') = d /\ SameFrames(d)
      <3>1. Puts(x) /\ UNCHANGED <<calls, conds>>
        BY <2>1 DEF AddsVariable
      <3>2. \A k \in 1..d : symstack'[k].uid = symstack[k].uid
        BY <1>1, <1>3, <3>1, PutsUids
      <3>3. Len(calls') = d
        BY <1>3, <3>1 DEF Depth
      <3>4. UNCHANGED conds /\ calls' = calls
        BY <3>1
      <3> QED
        BY <1>1, <1>3, <3>2, <3>3, <3>4, SameProcs
    <2> QED
      BY <1>4, <2>1, <2>2, <2>3, SimpleLinks
  <1> QED
    BY <1>5, <1>6

LEMMA LinksHeader ==
  ASSUME SignaturesInv, IdsIncrease, phase = "running", phase' = "running", ListIsSafe,
         LinksInv, CodeEndsHeader
  PROVE  LinksInv'
  <1>1. IInv
    BY DEF SignaturesInv, NamesInv
  <1>2. unique_id \in Nat
    BY <1>1, UidIsNat
  <1>3. PICK d \in Nat : d = Depth
    BY <1>1, DepthFacts
  <1>4. PICK rets \in Seq(Types), n \in Nat :
          EndsHeader(rets) /\ Here(ReturnDefvars(n) \o <<Other>>)
    BY DEF CodeEndsHeader
  <1>5. Onward /\ UNCHANGED in_loop
    <2>1. FunctionsOK
      BY <1>1 DEF IInv, TypeOK
    <2>2. \A g \in Names : functions'[g].is_defined = functions[g].is_defined
      BY <1>4, <2>1 DEF EndsHeader, FunctionsOK, Semantics
    <2> QED
      BY <1>2, <1>4, <2>2 DEF EndsHeader, Onward, loops
  <1>6. Len(calls') = d /\ SameFrames(d)
    <2>1. Top.proc \in HeaderProcs /\ Becomes("function_definition") /\ UNCHANGED conds
          /\ symstack' = symstack
      BY <1>4 DEF EndsHeader
    <2> QED
      BY <1>1, <1>3, <2>1, BecomesSame, SameProcs
  <1>7. Links(ReturnDefvars(n) \o <<Other>>, in_loop', {}, {})
    BY HeaderLinks
  <1> QED
    BY <1>1, <1>2, <1>3, <1>4, <1>5, <1>6, <1>7, LinksSameFrames

(***************************************************************************)
(* A cycle, a branch or a function begins.                                 *)
(***************************************************************************)
LEMMA OpensFrames ==
  ASSUME IInv, phase = "running", NEW d, d = Depth,
         NEW p, NEW x, NEW fun, NEW names, Opens(p, x, fun, names),
         \A k \in 2..d : symstack'[k].uid = symstack[k].uid
  PROVE  /\ Len(calls') = d + 1 /\ SameFrames(d)
         /\ calls'[d + 1].proc = p /\ symstack'[d + 1].uid = unique_id
         /\ Counters(d + 1)' = <<outer_cond_id', cond_cnt'>>
         /\ Owed(d + 1)' = OwedBy(p, x, unique_id, <<outer_cond_id', cond_cnt'>>)
         /\ unique_id' = unique_id + 1
  <1>1. d \in Nat /\ Len(calls') = d + 1 /\ unique_id' = unique_id + 1
    BY DepthFacts DEF Opens
  <1>2. KeepsCounters(d) /\ Counters(d + 1)' = <<outer_cond_id', cond_cnt'>>
    BY CountersOpen
  <1>3. /\ calls'[d + 1].proc = p /\ calls'[d + 1].id = x
        /\ symstack'[d + 1].uid = unique_id
    BY DEF Opens, Activation
  <1>4. ASSUME NEW k \in 2..d PROVE SameFrame(k)
    <2>1. k \in 1..d
      BY <1>1
    <2>2. calls'[k] = calls[k] /\ Counters(k)' = Counters(k)
      BY <1>2, <2>1 DEF Opens, KeepsCalls, KeepsCounters
    <2> QED
      BY <2>2 DEF SameFrame
  <1>5. Owed(d + 1)' = OwedBy(p, x, unique_id, <<outer_cond_id', cond_cnt'>>)
    BY <1>2, <1>3 DEF Owed
  <1> QED
    BY <1>1, <1>2, <1>3, <1>4, <1>5 DEF SameFrames

(* What the new frame owes and what the code puts is new.                  *)
LEMMA LinksOpens ==
  ASSUME IInv, IdsIncrease, phase = "running", phase' = "running", ListIsSafe,
         LinksInv, NEW d, d = Depth, Len(calls') = d + 1, SameFrames(d), Onward,
         NEW b, NEW code, NEW L, NEW T, Links(code, in_loop', L, T),
         Grows(instrListFunctions, b, WithText(code)), tmp_instr' = <<>>,
         in_loop' => Current(Code, b),
         \A a : a \in Owed(d + 1)' \/ a \in L =>
                  /\ a \notin Labels(Code)
                  /\ a[1] \notin {"for", "step_le", "body"},
         \A a \in L : a \notin Owed(d + 1)' /\ Past(a)',
         \A k \in 2..d : \A a \in L : a \notin Owed(k),
         T \subseteq Owed(d + 1)',
         calls'[d + 1].proc \in LoopProcs => Back(d + 1)' \in L,
         IsCond(calls'[d + 1]) =>
           \A a \in Labels(Code) : a[1] = "if" => a[2] # Counters(d + 1)'[1]
  PROVE  LinksInv'
  <1>1. d \in Nat \ {0} /\ unique_id \in Nat
    BY DepthFacts, UidIsNat
  <1>2. TextIsForText
    BY DEF LinksInv
  <1>3. ASSUME NEW a
        PROVE  a \in Due' <=> (\E k \in 2..d : a \in Owed(k)) \/ a \in Owed(d + 1)'
    <2>1. \A k \in 2..d : Owed(k)' = Owed(k)
      BY SameFrameFacts DEF SameFrames
    <2>2. a \in Due' <=> \E k \in 2..(d + 1) : a \in Owed(k)'
      BY DueFrames
    <2>3. \A k \in 2..(d + 1) : k \in 2..d \/ k = d + 1
      BY <1>1
    <2>4. \A k \in 2..d : k \in 2..(d + 1)
      BY <1>1
    <2>5. d + 1 \in 2..(d + 1)
      BY <1>1
    <2>6. CASE a \in Owed(d + 1)'
      BY <2>2, <2>5, <2>6
    <2>7. CASE \E k \in 2..d : a \in Owed(k)
      BY <2>1, <2>2, <2>4, <2>7
    <2>8. a \in Due' => (\E k \in 2..d : a \in Owed(k)) \/ a \in Owed(d + 1)'
      BY <2>1, <2>2, <2>3
    <2> QED
      BY <2>6, <2>7, <2>8
  <1>4. Suits(L, T, Due')
    <2>1. \A a \in L : a \notin Due'
      BY <1>3
    <2>2. \A a \in L : a \notin Labels(tmp_instr) /\ a \notin Labels(Code)
      BY <1>2, OwedNotText
    <2>3. ASSUME NEW a \in Due'
          PROVE  /\ a \notin Labels(tmp_instr)
                 /\ a \in Due \/ a \notin Labels(Code)
      <3>1. CASE a \in Owed(d + 1)'
        BY <1>2, <3>1, OwedNotText
      <3>2. CASE \E k \in 2..d : a \in Owed(k)
        <4>1. a[1] \notin {"for", "step_le", "body"}
          BY <3>2, OwedNextNotText
        <4> QED
          BY <1>2, <3>2, <4>1, OwedNotText, DueFrames
      <3> QED
        BY <1>3, <3>1, <3>2
    <2>4. \A a \in Due : a \in Due' \/ a \in Labels(tmp_instr)
      BY <1>3, DueFrames
    <2>5. \A a \in T : a \in Due'
      BY <1>3
    <2> QED
      BY <2>1, <2>2, <2>3, <2>4, <2>5 DEF Suits
  <1>5. BacksKept(L)
    <2>1. ASSUME NEW k \in 2..Len(calls'), calls'[k].proc \in LoopProcs
          PROVE  \/ Back(k)' \in L
                 \/ k <= Depth /\ calls[k].proc \in LoopProcs /\ Back(k)' = Back(k)
      <3>1. CASE k = d + 1
        BY <2>1, <3>1
      <3>2. CASE k # d + 1
        <4>1. k \in 2..d /\ k <= d
          BY <1>1, <3>2
        <4>2. SameFrame(k)
          BY <4>1 DEF SameFrames
        <4> QED
          BY <2>1, <4>1, <4>2, SameFrameFacts DEF SameFrame
      <3> QED
        BY <3>1, <3>2
    <2> QED
      BY <2>1 DEF BacksKept
  <1>6. \A a : a \in L \/ a \in Labels(tmp_instr) => Past(a)'
    BY <1>1, <1>2, TextPast
  <1>7. ASSUME NEW a \in Labels(Code)
        PROVE  Past(a)'
    <2>1. Past(a)
      BY DEF LinksInv
    <2>2. ASSUME NEW k \in 2..Len(calls'), k > d, IsCond(calls'[k]), a[1] = "if",
                 a[2] = Counters(k)'[1]
          PROVE  FALSE
      <3>1. k = d + 1
        BY <1>1, <2>2
      <3> QED
        BY <2>2, <3>1
    <2> QED
      BY <1>1, <2>1, <2>2, PastKept
  <1> QED
    BY <1>4, <1>5, <1>6, <1>7, LinksNext

(* The labels of a scope that is opened are new.                           *)
LEMMA FreshLabel ==
  ASSUME LinksInv, phase = "running", unique_id \in Nat, NEW a,
         ~ OfFunction(a), a[2] = unique_id
  PROVE  a \notin Labels(Code)
  BY DEF LinksInv, Past

LEMMA LoopKinds ==
  /\ LoopKind("while_cycle") = "while" /\ LoopKind("for_cycle") = "for"
  /\ LoopKind("repeat_body") = "repeat"
  BY DEF LoopKind

LEMMA StartIsCurrent ==
  ASSUME LinksInv, phase = "running", ListIsSafe
  PROVE  Current(Code, LoopStart(instrListFunctions))
  <1>1. Len(Code) \in Nat /\ instrListFunctions.tail = Len(Code)
    BY DEF ListIsSafe, Tidy, Code
  <1> QED
    BY <1>1, LastIsCurrent DEF LinksInv, LoopStart

LEMMA LinksLoops ==
  ASSUME IInv, IdsIncrease, phase = "running", phase' = "running", ListIsSafe,
         LinksInv, CodeOpensWhile \/ CodeOpensRepeat
  PROVE  LinksInv'
  <1>1. PICK uid \in Nat : uid = unique_id
    BY UidIsNat
  <1>2. PICK d \in Nat : d = Depth
    BY DepthFacts
  <1>3. Current(Code, LoopStart(instrListFunctions))
    BY StartIsCurrent
  <1>4. ASSUME NEW p \in {"while_cycle", "repeat_body"}, NEW h, h = LoopKind(p),
               h \in {"while", "repeat"},
               NEW code, NEW T, OpensLoop(p, NoName, {}),
               Starting(instrListFunctions, WithText(code), <<>>),
               Links(code, in_loop', {Loop(h, uid)}, T), T \subseteq {End(uid)}
        PROVE  LinksInv'
    <2> DEFINE a0 == Loop(h, uid)
    <2>1. Opens(p, NoName, NoName, {}) /\ KeepsFrames(Depth) /\ UNCHANGED functions
      BY <1>4 DEF OpensLoop
    <2>2. \A k \in 2..d : symstack'[k].uid = symstack[k].uid
      BY <1>2, <2>1 DEF KeepsFrames
    <2>3. /\ Len(calls') = d + 1 /\ SameFrames(d)
          /\ calls'[d + 1].proc = p /\ symstack'[d + 1].uid = unique_id
          /\ Owed(d + 1)' = OwedBy(p, NoName, uid, <<outer_cond_id', cond_cnt'>>)
          /\ unique_id' = unique_id + 1
      BY <1>1, <1>2, <2>1, <2>2, OpensFrames
    <2>4. p \in LoopProcs /\ ~ IsCond(calls'[d + 1])
      BY <1>4, <2>3 DEF LoopProcs, CondProcs, IsCond
    <2>5. Owed(d + 1)' = {End(uid)}
      BY <2>3, <2>4 DEF OwedBy
    <2>6. a0[1] = h /\ a0[2] = uid /\ a0[1] \notin {"for", "step_le", "body"}
          /\ ~ OfFunction(a0) /\ a0[1] # "if"
      BY <1>4 DEF Loop, OfFunction
    <2>7. End(uid)[1] = "end" /\ End(uid)[2] = uid /\ ~ OfFunction(End(uid))
      BY DEF End, OfFunction
    <2> HIDE DEF a0
    <2>8. \A a : a \in Owed(d + 1)' \/ a \in {a0} =>
            a \notin Labels(Code) /\ a[1] \notin {"for", "step_le", "body"}
      BY <1>1, <2>5, <2>6, <2>7, FreshLabel
    <2>9. Onward
      BY <1>1, <2>1, <2>3 DEF Onward
    <2>10. \A a \in {a0} : a \notin Owed(d + 1)' /\ Past(a)'
      <3>1. a0 # End(uid)
        BY <1>4, <2>6, <2>7
      <3>2. a0[2] \in Nat /\ a0[2] < unique_id'
        BY <1>1, <2>3, <2>6
      <3>3. Past(a0)'
        BY <2>6, <3>2 DEF Past, OfFunction
      <3> QED
        BY <2>5, <3>1, <3>3
    <2>11. \A k \in 2..d : \A a \in {a0} : a \notin Owed(k)
      <3>1. \A q, f, u, c : \A z \in OwedBy(q, f, u, c) :
              z[1] \in {"end", "ifend", "if", "funcend"}
        BY OwedKinds
      <3> QED
        BY <1>4, <2>6, <3>1 DEF Owed
    <2>12. Back(d + 1)' = a0
      BY <1>1, <1>4, <2>3 DEF Back, a0
    <2>13. /\ Grows(instrListFunctions, LoopStart(instrListFunctions), WithText(code))
           /\ tmp_instr' = <<>>
      BY <1>4 DEF Starting
    <2>14. Links(code, in_loop', {a0}, T) /\ T \subseteq Owed(d + 1)'
      BY <1>4, <2>5 DEF a0
    <2> QED
      BY <1>2, <1>3, <2>3, <2>4, <2>8, <2>9, <2>10, <2>11, <2>12, <2>13, <2>14, LinksOpens
  <1>5. CASE CodeOpensWhile
    <2>1. /\ OpensLoop("while_cycle", NoName, {})
          /\ Starting(instrListFunctions, WithText(WhileCode(uid)), <<>>)
      BY <1>1, <1>5 DEF CodeOpensWhile
    <2>2. Links(WhileCode(uid), in_loop', {Loop("while", uid)}, {End(uid)})
      BY LoopLinks
    <2> QED
      BY <1>4, <2>1, <2>2, LoopKinds
  <1>6. CASE CodeOpensRepeat
    <2>1. /\ OpensLoop("repeat_body", NoName, {})
          /\ Starting(instrListFunctions, WithText(RepeatCode(uid)), <<>>)
      BY <1>1, <1>6 DEF CodeOpensRepeat
    <2>2. Links(RepeatCode(uid), in_loop', {Loop("repeat", uid)}, {}) /\ {} \subseteq {End(uid)}
      BY LoopLinks
    <2> QED
      BY <1>4, <2>1, <2>2, LoopKinds
  <1> QED
    BY <1>5, <1>6

LEMMA LinksBranch ==
  ASSUME IInv, IdsIncrease, phase = "running", phase' = "running", ListIsSafe,
         LinksInv, CodeOpensBranch
  PROVE  LinksInv'
  <1> DEFINE uid == unique_id
             n == cond_cnt'
             code == <<Other, Jump(If(uid, n))>>
  <1>1. unique_id \in Nat
    BY UidIsNat
  <1>2. PICK d \in Nat : d = Depth
    BY DepthFacts
  <1>3. OpensBranch /\ Here(code)
    BY DEF CodeOpensBranch
  <1>4. Links(code, in_loop', {}, {If(uid, n)})
    BY BranchLinks
  <1> HIDE DEF code
  <1>5. Opens("cond_body", NoName, NoName, {}) /\ KeepsFrames(Depth)
        /\ UNCHANGED <<functions, in_loop>> /\ outer_cond_id' = uid
    BY <1>3 DEF OpensBranch, loops
  <1>6. \A k \in 2..d : symstack'[k].uid = symstack[k].uid
    BY <1>2, <1>5 DEF KeepsFrames
  <1>7. /\ Len(calls') = d + 1 /\ SameFrames(d)
        /\ calls'[d + 1].proc = "cond_body"
        /\ Counters(d + 1)' = <<outer_cond_id', cond_cnt'>>
        /\ Owed(d + 1)' = OwedBy("cond_body", NoName, uid, <<outer_cond_id', cond_cnt'>>)
        /\ unique_id' = unique_id + 1
    BY <1>2, <1>5, <1>6, OpensFrames
  <1>8. Owed(d + 1)' = {IfEnd(uid), If(uid, n)} /\ Counters(d + 1)'[1] = uid
        /\ calls'[d + 1].proc \notin LoopProcs
    BY <1>5, <1>7 DEF OwedBy, LoopProcs, CondProcs
  <1>9. /\ IfEnd(uid)[1] = "ifend" /\ IfEnd(uid)[2] = uid /\ ~ OfFunction(IfEnd(uid))
        /\ If(uid, n)[1] = "if" /\ If(uid, n)[2] = uid /\ ~ OfFunction(If(uid, n))
    BY DEF IfEnd, If, OfFunction
  <1>10. \A a : a \in Owed(d + 1)' \/ a \in {} =>
           a \notin Labels(Code) /\ a[1] \notin {"for", "step_le", "body"}
    BY <1>1, <1>8, <1>9, FreshLabel
  <1>11. Onward
    BY <1>1, <1>5, <1>7 DEF Onward
  <1>12. \A a \in Labels(Code) : a[1] = "if" => a[2] # Counters(d + 1)'[1]
    BY <1>1, <1>8 DEF LinksInv, Past, OfFunction
  <1>13. /\ Grows(instrListFunctions, before_loop_start, WithText(code))
         /\ tmp_instr' = <<>>
    BY <1>3 DEF Here
  <1>14. in_loop' => Current(Code, before_loop_start)
    BY <1>5 DEF LinksInv
  <1>15. {If(uid, n)} \subseteq Owed(d + 1)'
    BY <1>8
  <1> QED
    BY <1>2, <1>4, <1>7, <1>8, <1>10, <1>11, <1>12, <1>13, <1>14, <1>15, LinksOpens

(***************************************************************************)
(* A for cycle begins: its comment is added with the text that waits, then *)
(* its header, and its own text waits.                                     *)
(***************************************************************************)
LEMMA ForOwes ==
  ASSUME IInv, phase = "running", NEW d, d = Depth, NEW uid, uid = unique_id,
         NEW x, OpensLoop("for_cycle", x, {x})
  PROVE  /\ Len(calls') = d + 1 /\ SameFrames(d)
         /\ calls'[d + 1].proc = "for_cycle" /\ symstack'[d + 1].uid = uid
         /\ Owed(d + 1)' = {End(uid)} /\ Back(d + 1)' = Loop("for", uid)
         /\ unique_id' = uid + 1 /\ Onward
  <1>1. unique_id \in Nat
    BY UidIsNat
  <1>2. Opens("for_cycle", x, NoName, {x}) /\ KeepsFrames(Depth) /\ UNCHANGED functions
    BY DEF OpensLoop
  <1>3. \A k \in 2..d : symstack'[k].uid = symstack[k].uid
    BY <1>2, DepthFacts DEF KeepsFrames
  <1>4. /\ Len(calls') = d + 1 /\ SameFrames(d)
        /\ calls'[d + 1].proc = "for_cycle" /\ symstack'[d + 1].uid = unique_id
        /\ Owed(d + 1)' = OwedBy("for_cycle", x, uid, <<outer_cond_id', cond_cnt'>>)
        /\ unique_id' = unique_id + 1
    BY <1>2, <1>3, OpensFrames
  <1>5. Owed(d + 1)' = {End(uid)}
    BY <1>4 DEF OwedBy, LoopProcs
  <1>6. Back(d + 1)' = Loop("for", uid)
    BY <1>4, LoopKinds DEF Back
  <1>7. Onward
    BY <1>1, <1>2, <1>4 DEF Onward
  <1> QED
    BY <1>4, <1>5, <1>6, <1>7

LEMMA ForDue ==
  ASSUME IInv, phase = "running", NEW d \in Nat \ {0}, d = Depth, NEW uid, NEW x,
         Len(calls') = d + 1, SameFrames(d), Owed(d + 1)' = {End(uid)},
         tmp_instr' = ForText(uid, x), NEW a
  PROVE  a \in Due' <=> \/ \E k \in 2..d : a \in Owed(k)
                        \/ a = End(uid) \/ a \in TextLabels(uid)
  <1>1. \A k \in 2..d : Owed(k)' = Owed(k)
    BY SameFrameFacts DEF SameFrames
  <1>2. Labels(tmp_instr)' = TextLabels(uid)
    <2>1. Labels(ForText(uid, x)) = TextLabels(uid)
      BY ForTextLinks
    <2> QED
      BY <2>1 DEF Labels
  <1>3. a \in Due' <=> (\E k \in 2..(d + 1) : a \in Owed(k)') \/ a \in TextLabels(uid)
    BY <1>2 DEF Due, OwedAbove, Depth
  <1>4. \A k \in 2..(d + 1) : k \in 2..d \/ k = d + 1
    OBVIOUS
  <1>5. (\A k \in 2..d : k \in 2..(d + 1)) /\ d + 1 \in 2..(d + 1)
    OBVIOUS
  <1>6. CASE a \in Owed(d + 1)'
    BY <1>3, <1>5, <1>6
  <1>7. CASE \E k \in 2..d : a \in Owed(k)
    BY <1>1, <1>3, <1>5, <1>7
  <1>8. CASE a \in TextLabels(uid)
    BY <1>3, <1>8
  <1>9. a \in Due' => \/ \E k \in 2..d : a \in Owed(k)
                      \/ a = End(uid) \/ a \in TextLabels(uid)
    BY <1>1, <1>3, <1>4
  <1> QED
    BY <1>6, <1>7, <1>8, <1>9

LEMMA ForComment ==
  ASSUME IInv, phase = "running", ListIsSafe, LinksInv, NEW b, b = before_loop_start,
         Ready(instrListFunctions, b, WithText(<<Other>>))
  PROVE  LET s == EmitAll(instrListFunctions, b, WithText(<<Other>>)).items IN
         /\ Linked(s, OwedAbove(2))
         /\ in_loop => Current(s, b)
         /\ Labels(s) = Labels(Code) \union Labels(tmp_instr)
         /\ \A a : HasLabel(Code, a) \/ a \in Labels(tmp_instr) => HasLabel(s, a)
  <1>1. TextIsForText /\ Linked(Code, Due) /\ (in_loop => Current(Code, b))
    BY DEF LinksInv
  <1>2. Suits({}, {}, OwedAbove(2))
    <2>1. \A a \in OwedAbove(2) : a \in Due /\ \E k \in 2..Depth : a \in Owed(k)
      BY DEF OwedAbove, Due
    <2>2. \A a \in OwedAbove(2) : a \notin Labels(tmp_instr)
      BY <1>1, <2>1, OwedNextNotText, OwedNotText
    <2>3. \A a \in Due : a \in OwedAbove(2) \/ a \in Labels(tmp_instr)
      BY DEF Due
    <2> QED
      BY <2>1, <2>2, <2>3 DEF Suits
  <1>3. Links(<<Other>>, in_loop, {}, {})
    BY SimpleLinks
  <1> DEFINE code == <<Other>>
             s == EmitAll(instrListFunctions, b, WithText(code)).items
  <1> HIDE DEF code
  <1>4. Links(code, in_loop, {}, {}) /\ Ready(instrListFunctions, b, WithText(code))
    BY <1>3 DEF code
  <1>5. /\ Linked(s, OwedAbove(2))
        /\ in_loop => Current(s, b)
        /\ Labels(s) = Labels(Code) \union Labels(tmp_instr) \union {}
        /\ \A a : HasLabel(Code, a) \/ a \in {} \/ a \in Labels(tmp_instr)
                    => HasLabel(s, a)
    BY <1>1, <1>2, <1>4, LinkedText
  <1>6. Labels(s) = Labels(Code) \union Labels(tmp_instr)
    BY <1>5
  <1> HIDE DEF s
  <1>7. /\ Linked(s, OwedAbove(2)) /\ (in_loop => Current(s, b))
        /\ \A a : HasLabel(Code, a) \/ a \in Labels(tmp_instr) => HasLabel(s, a)
    BY <1>5
  <1> QED
    BY <1>6, <1>7 DEF s, code

(* The labels of the scope that is opened are new in the text, too.        *)
LEMMA FreshInText ==
  ASSUME IInv, IdsIncrease, phase = "running", ListIsSafe, LinksInv,
         NEW uid, uid = unique_id, NEW a \in TextLabels(uid) \union {End(uid)}
  PROVE  a \notin Labels(Code) /\ a \notin Labels(tmp_instr)
  <1>1. a[2] = uid /\ ~ OfFunction(a)
    BY TextLabelKinds DEF End, OfFunction
  <1>2. a \notin Labels(Code)
    BY <1>1, UidIsNat, FreshLabel
  <1>3. ASSUME a \in Labels(tmp_instr) PROVE FALSE
    <2>1. TextIsForText
      BY DEF LinksInv
    <2>2. a \in TextLabels(symstack[Depth].uid)
      BY <1>3, <2>1, TextLinks
    <2>3. a[2] = symstack[Depth].uid
      BY <2>2, TextLabelKinds
    <2>4. symstack[Depth].uid \in Nat /\ symstack[Depth].uid < unique_id
      BY DepthFacts DEF Frames, IdsIncrease
    <2> QED
      BY <1>1, <2>3, <2>4, UidIsNat
  <1> QED
    BY <1>2, <1>3

LEMMA LinksFor ==
  ASSUME IInv, IdsIncrease, phase = "running", phase' = "running", ListIsSafe,
         LinksInv, CodeOpensFor
  PROVE  LinksInv'
  <1>1. PICK uid \in Nat : uid = unique_id
    BY UidIsNat
  <1>2. PICK d \in Nat \ {0} : d = Depth
    BY DepthFacts
  <1>3. PICK b : b = before_loop_start
    OBVIOUS
  <1> DEFINE l == EmitAll(instrListFunctions, b, WithText(<<Other>>))
             s == l.items
  <1>4. PICK x \in Names :
          /\ OpensLoop("for_cycle", x, {x})
          /\ Ready(instrListFunctions, b, WithText(<<Other>>))
          /\ Starting(l, ForHeader(uid, x), ForText(uid, x))
    BY <1>1, <1>3 DEF CodeOpensFor
  <1>5. /\ Linked(s, OwedAbove(2))
        /\ in_loop => Current(s, b)
        /\ Labels(s) = Labels(Code) \union Labels(tmp_instr)
        /\ \A a : HasLabel(Code, a) \/ a \in Labels(tmp_instr) => HasLabel(s, a)
    BY <1>3, <1>4, ForComment
  <1>6. /\ Len(calls') = d + 1 /\ SameFrames(d)
        /\ calls'[d + 1].proc = "for_cycle" /\ symstack'[d + 1].uid = uid
        /\ Owed(d + 1)' = {End(uid)} /\ Back(d + 1)' = Loop("for", uid)
        /\ unique_id' = uid + 1 /\ Onward
    BY <1>1, <1>2, <1>4, ForOwes
  <1> DEFINE code == ForHeader(uid, x)
             g == LoopStart(l)
  <1>7. /\ Grows(l, g, code) /\ tmp_instr' = ForText(uid, x)
        /\ Len(s) \in Nat /\ l.tail = Len(s)
    BY <1>4 DEF Starting, Tidy
  <1>8. in_loop' /\ (g = IF in_loop THEN b ELSE Len(s))
    BY <1>3, <1>4, <1>7 DEF OpensLoop, EnterLoop, LoopStart
  <1>9. Links(code, in_loop', {}, {})
    BY HeaderLinks
  <1> HIDE DEF code, g, l
  <1>10. Current(s, g)
    BY <1>5, <1>7, <1>8, LastIsCurrent
  <1>11. \A a : a \in Due' <=> \/ \E k \in 2..d : a \in Owed(k)
                               \/ a = End(uid) \/ a \in TextLabels(uid)
    BY <1>2, <1>6, <1>7, ForDue
  <1>12. PICK E : E = Due'
    OBVIOUS
  <1>13. Fits(code, s, OwedAbove(2), E)
    <2>1. LabelledOnce(code) /\ Labels(code) = {} /\ Targets(code) = {}
      BY <1>9 DEF Links
    <2>2. \A a \in OwedAbove(2) : a \in E
      BY <1>2, <1>11, <1>12 DEF OwedAbove
    <2>3. ASSUME NEW a \in E PROVE a \notin Labels(s)
      <3>1. CASE \E k \in 2..d : a \in Owed(k)
        <4>1. a \in OwedAbove(2)
          BY <1>2, <3>1 DEF OwedAbove
        <4> QED
          BY <1>5, <4>1 DEF Linked
      <3>2. CASE a \in TextLabels(uid) \union {End(uid)}
        BY <1>1, <1>5, <3>2, FreshInText
      <3> QED
        BY <1>11, <1>12, <3>1, <3>2
    <2> QED
      BY <2>1, <2>2, <2>3 DEF Fits
  <1>14. Steady(code, in_loop') /\ Ready(l, g, code)
    BY <1>7, <1>9 DEF Links, Grows
  <1>15. LET t == EmitAll(l, g, code).items IN
         /\ Linked(t, E) /\ Current(t, g)
         /\ Labels(t) = Labels(s) \union Labels(code)
         /\ \A a : HasLabel(s, a) => HasLabel(t, a)
    BY <1>5, <1>8, <1>10, <1>13, <1>14, LinkedCode
  <1>16. Code' = EmitAll(l, g, code).items /\ before_loop_start' = g
    BY <1>7 DEF Grows, Code
  <1>17. /\ Linked(Code', Due') /\ Current(Code', before_loop_start')
         /\ Labels(Code') = Labels(Code) \union Labels(tmp_instr)
         /\ \A a : HasLabel(Code, a) \/ a \in Labels(tmp_instr) => HasLabel(Code', a)
    BY <1>5, <1>9, <1>12, <1>15, <1>16 DEF Links
  <1>18. ASSUME NEW a \in Labels(Code') PROVE Past(a)'
    <2>1. CASE a \in Labels(tmp_instr)
      BY <1>1, <1>6, <2>1, TextPast DEF LinksInv
    <2>2. CASE a \in Labels(Code)
      <3>1. Past(a)
        BY <2>2 DEF LinksInv
      <3>2. ASSUME NEW k \in 2..Len(calls'), k > d PROVE ~ IsCond(calls'[k])
        <4>1. k = d + 1
          BY <1>6, <3>2
        <4> QED
          BY <1>6, <4>1 DEF IsCond, CondProcs
      <3> QED
        BY <1>1, <1>2, <1>6, <3>1, <3>2, PastKept
    <2> QED
      BY <1>17, <2>1, <2>2
  <1>19. ASSUME NEW k \in 2..(d + 1), calls'[k].proc \in LoopProcs
         PROVE  HasLabel(Code', Back(k)') \/ Back(k)' \in Labels(ForText(uid, x))
    <2>1. CASE k = d + 1
      BY <1>6, <2>1, ForTextLinks DEF TextLabels
    <2>2. CASE k # d + 1
      <3>1. k \in 2..d
        BY <2>2
      <3>2. calls[k].proc \in LoopProcs /\ Back(k)' = Back(k)
        BY <1>6, <1>19, <3>1, SameFrameFacts DEF SameFrames, SameFrame
      <3>3. HasLabel(Code, Back(k)) \/ Back(k) \in Labels(tmp_instr)
        BY <1>2, <3>1, <3>2 DEF LinksInv
      <3> QED
        BY <1>17, <3>2, <3>3
    <2> QED
      BY <2>1, <2>2
  <1>20. TextIsForText' /\ Depth' = d + 1
    BY <1>6, <1>7 DEF TextIsForText, Depth
  <1> QED
    BY <1>7, <1>17, <1>18, <1>19, <1>20 DEF LinksInv

(***************************************************************************)
(* The next branch of an if statement.                                     *)
(***************************************************************************)
LEMMA CountersAreInts ==
  ASSUME IInv, phase = "running", NEW k \in 1..Depth
  PROVE  Counters(k)[1] \in Int /\ Counters(k)[2] \in Int
  <1>1. Depth \in Nat /\ outer_cond_id \in Int /\ cond_cnt \in Int
    BY DepthFacts DEF IInv, TypeOK, CondsOK
  <1>2. CASE k < Depth
    <2>1. k + 1 \in 1..Depth
      BY <1>1, <1>2
    <2>2. calls[k + 1] \in Activations
      BY <2>1, DepthFacts
    <2> QED
      BY <1>2, <2>2 DEF Counters, Activations
  <1>3. CASE ~ (k < Depth)
    BY <1>1, <1>3 DEF Counters
  <1> QED
    BY <1>2, <1>3

(* Two open if statements have different ids.                              *)
LEMMA CondIdsOrder ==
  ASSUME IInv, phase = "running", IdsIncrease, CondIdsIncrease,
         NEW j \in 2..Depth, NEW k \in 2..Depth, j < k, IsCond(calls[j]), IsCond(calls[k])
  PROVE  Counters(j)[1] < Counters(k)[1]
  <1>1. Depth \in Nat /\ Len(symstack) = Depth
        /\ \A i \in 1..Depth : symstack[i].uid \in Nat
    BY DepthFacts DEF Frames
  <1>2. Counters(j)[1] \in Int /\ Counters(k)[1] \in Int
    BY CountersAreInts
  <1>3. Counters(j)[1] <= symstack[j].uid /\ symstack[k - 1].uid < Counters(k)[1]
    BY DEF CondIdsIncrease
  <1>4. k - 1 \in 1..Depth /\ j \in 1..Depth
    BY <1>1
  <1>5. symstack[j].uid <= symstack[k - 1].uid
    <2>1. CASE j = k - 1
      BY <1>1, <1>4, <2>1
    <2>2. CASE j # k - 1
      <3>1. j \in 1..((k - 1) - 1)
        BY <2>2
      <3>2. symstack[j].uid < symstack[k - 1].uid
        BY <1>1, <1>4, <3>1 DEF IdsIncrease
      <3> QED
        BY <1>1, <1>4, <3>2
    <2> QED
      BY <2>1, <2>2
  <1> QED
    BY <1>1, <1>2, <1>3, <1>4, <1>5

(* An open if statement's id is a scope's.                                 *)
LEMMA CondIdIsPast ==
  ASSUME IInv, phase = "running", IdsIncrease, CondIdsIncrease,
         NEW k \in 2..Depth, IsCond(calls[k])
  PROVE  Counters(k)[1] \in Nat /\ Counters(k)[1] < unique_id
  <1>1. Depth \in Nat /\ Len(symstack) = Depth
        /\ \A i \in 1..Depth : symstack[i].uid \in Nat
    BY DepthFacts DEF Frames
  <1>2. k \in 1..Depth /\ k - 1 \in 1..Depth
    BY <1>1
  <1>3. Counters(k)[1] \in Int /\ unique_id \in Nat
    BY UidIsNat, CountersAreInts
  <1>4. symstack[k - 1].uid < Counters(k)[1] /\ Counters(k)[1] <= symstack[k].uid
    BY DEF CondIdsIncrease
  <1>5. symstack[k].uid < unique_id
    BY <1>1, <1>2 DEF IdsIncrease
  <1> QED
    BY <1>1, <1>2, <1>3, <1>4, <1>5

LEMMA NextFrames ==
  ASSUME IInv, phase = "running", NEW d, d = Depth, NEW p \in {"cond_body", "else_stmt"},
         NextBranch(p)
  PROVE  /\ d \in Nat /\ d >= 2 /\ Len(calls') = d /\ SameFrames(d - 1)
         /\ IsCond(calls[d]) /\ IsCond(calls'[d]) /\ calls'[d].proc \notin LoopProcs
         /\ Counters(d) = <<outer_cond_id, cond_cnt>>
         /\ Counters(d)' = <<outer_cond_id, ToChar(cond_cnt + 1)>>
         /\ Owed(d) = {IfEnd(outer_cond_id), If(outer_cond_id, cond_cnt)}
         /\ Owed(d)' = {IfEnd(outer_cond_id), If(outer_cond_id, ToChar(cond_cnt + 1))}
         /\ Onward /\ UNCHANGED in_loop
  <1>1. d \in Nat /\ d >= 2 /\ Len(calls') = d /\ Top = calls[d]
    BY DepthFacts DEF NextBranch, Becomes
  <1>2. /\ KeepsCounters(d - 1)
        /\ Counters(d)' = <<outer_cond_id, ToChar(cond_cnt + 1)>>
        /\ Counters(d) = <<outer_cond_id, cond_cnt>>
    BY CountersNext
  <1>3. calls[d].proc = "cond_body" /\ calls'[d].proc = p
    BY <1>1 DEF NextBranch, Becomes
  <1>4. /\ IsCond(calls[d]) /\ IsCond(calls'[d])
        /\ calls[d].proc \notin LoopProcs /\ calls'[d].proc \notin LoopProcs
    BY <1>3 DEF IsCond, CondProcs, LoopProcs
  <1>5. ASSUME NEW k \in 2..(d - 1) PROVE SameFrame(k)
    <2>1. k \in 1..(d - 1)
      BY <1>1
    <2>2. calls'[k] = calls[k] /\ symstack'[k] = symstack[k] /\ Counters(k)' = Counters(k)
      BY <1>2, <2>1 DEF NextBranch, Becomes, KeepsCalls, KeepsFrames, KeepsCounters
    <2> QED
      BY <2>2 DEF SameFrame
  <1>6. Onward
    <2>1. unique_id \in Nat
      BY UidIsNat
    <2> QED
      BY <2>1 DEF Onward, NextBranch
  <1>7. UNCHANGED in_loop
    BY DEF NextBranch, loops
  <1>8. Owed(d) = {IfEnd(outer_cond_id), If(outer_cond_id, cond_cnt)}
    BY <1>2, <1>4 DEF Owed, OwedBy, IsCond
  <1>9. Owed(d)' = {IfEnd(outer_cond_id), If(outer_cond_id, ToChar(cond_cnt + 1))}
    BY <1>2, <1>4 DEF Owed, OwedBy, IsCond
  <1> QED
    BY <1>1, <1>2, <1>4, <1>5, <1>6, <1>7, <1>8, <1>9 DEF SameFrames

LEMMA LinksNextCode ==
  ASSUME IInv, IdsIncrease, CondIdsIncrease, phase = "running", phase' = "running",
         ListIsSafe, LinksInv, NEW p \in {"cond_body", "else_stmt"}, NextBranch(p),
         NEW o, o = outer_cond_id, NEW c \in Int, c = cond_cnt, ToChar(c + 1) = c + 1,
         NEW code, NEW T, Links(code, in_loop', {If(o, c)}, T),
         T \subseteq {IfEnd(o), If(o, c + 1)}, Here(code)
  PROVE  LinksInv'
  <1>1. PICK d : d = Depth
    OBVIOUS
  <1>2. /\ d \in Nat /\ d >= 2 /\ Len(calls') = d /\ SameFrames(d - 1)
        /\ IsCond(calls[d]) /\ IsCond(calls'[d]) /\ calls'[d].proc \notin LoopProcs
        /\ Counters(d) = <<o, c>> /\ Counters(d)' = <<o, c + 1>>
        /\ Owed(d) = {IfEnd(o), If(o, c)} /\ Owed(d)' = {IfEnd(o), If(o, c + 1)}
        /\ Onward /\ UNCHANGED in_loop
    BY <1>1, NextFrames
  <1> DEFINE a0 == If(o, c)
             a1 == If(o, c + 1)
             ae == IfEnd(o)
  <1>3. /\ a0[1] = "if" /\ a0[2] = o /\ a0[3] = c /\ a1[1] = "if" /\ a1[2] = o
        /\ a1[3] = c + 1 /\ ae[1] = "ifend" /\ ae[2] = o
        /\ ~ OfFunction(a0) /\ ~ OfFunction(a1) /\ ~ OfFunction(ae)
    BY DEF If, IfEnd, OfFunction
  <1> HIDE DEF a0, a1, ae
  <1>4. a0 # a1 /\ a0 # ae
    BY <1>3
  <1>5. ASSUME NEW k \in 2..(d - 1), IsCond(calls[k]) PROVE Counters(k)[1] # o
    <2>1. k \in 2..Depth /\ d \in 2..Depth /\ k < d /\ k \in 1..Depth
      BY <1>1, <1>2
    <2>2. Counters(k)[1] < Counters(d)[1]
      BY <1>2, <1>5, <2>1, CondIdsOrder
    <2>3. Counters(k)[1] \in Int
      BY <2>1, CountersAreInts
    <2>4. Counters(d)[1] = o
      BY <1>2
    <2> QED
      BY <2>2, <2>3, <2>4
  <1>6. o \in Nat /\ o < unique_id
    <2>1. d \in 2..Depth
      BY <1>1, <1>2
    <2>2. Counters(d)[1] \in Nat /\ Counters(d)[1] < unique_id
      BY <1>2, <2>1, CondIdIsPast
    <2> QED
      BY <1>2, <2>2
  <1>7. unique_id \in Nat /\ TextIsForText
    BY UidIsNat DEF LinksInv
  <1>8. /\ Grows(instrListFunctions, before_loop_start, WithText(code))
        /\ tmp_instr' = <<>>
    BY DEF Here
  <1>9. \A k \in 2..d : k \in 2..(d - 1) \/ k = d
    BY <1>2
  <1>10. d \in 2..d /\ \A k \in 2..(d - 1) : k \in 2..d
    BY <1>2
  <1>11. \A k \in 2..(d - 1) : SameFrame(k) /\ Owed(k)' = Owed(k)
    BY <1>2, SameFrameFacts DEF SameFrames
  <1>12. ASSUME NEW a
         PROVE  /\ a \in Due' <=> (\E k \in 2..(d - 1) : a \in Owed(k)) \/ a \in {ae, a1}
                /\ a \in Due <=> \/ \E k \in 2..(d - 1) : a \in Owed(k)
                                 \/ a \in {ae, a0} \/ a \in Labels(tmp_instr)
    <2>1. a \in Due' <=> \E k \in 2..d : a \in Owed(k)'
      BY <1>2, <1>8, DueFrames
    <2>2. (\E k \in 2..d : a \in Owed(k)')
            <=> (\E k \in 2..(d - 1) : a \in Owed(k)') \/ a \in Owed(d)'
      BY <1>9, <1>10
    <2>3. (\E k \in 2..(d - 1) : a \in Owed(k)') <=> \E k \in 2..(d - 1) : a \in Owed(k)
      BY <1>11
    <2>4. a \in Due <=> (\E k \in 2..d : a \in Owed(k)) \/ a \in Labels(tmp_instr)
      BY <1>1, DueFrames
    <2>5. (\E k \in 2..d : a \in Owed(k))
            <=> (\E k \in 2..(d - 1) : a \in Owed(k)) \/ a \in Owed(d)
      BY <1>9, <1>10
    <2>6. Owed(d) = {ae, a0} /\ Owed(d)' = {ae, a1}
      BY <1>2 DEF a0, a1, ae
    <2> QED
      BY <2>1, <2>2, <2>3, <2>4, <2>5, <2>6
  <1>13. \A a : a[1] \in {"if", "ifend"} => a \notin Labels(tmp_instr)
    BY <1>7, OwedNotText
  <1>14. \A k \in 2..(d - 1) : a0 \notin Owed(k)
    <2> SUFFICES ASSUME NEW k \in 2..(d - 1), a0 \in Owed(k) PROVE FALSE
      OBVIOUS
    <2>1. a0 \in OwedBy(calls[k].proc, calls[k].id, symstack[k].uid, Counters(k))
      BY DEF Owed
    <2>2. calls[k].proc \in CondProcs /\ a0[2] = Counters(k)[1]
      BY <1>3, <2>1, OwedKinds
    <2> QED
      BY <1>3, <1>5, <2>2 DEF IsCond
  <1>15. a1 \notin Labels(Code)
    <2> SUFFICES ASSUME a1 \in Labels(Code) PROVE FALSE
      OBVIOUS
    <2>1. Past(a1)
      BY DEF LinksInv
    <2>2. a1[3] < Counters(d)[2]
      BY <1>1, <1>2, <1>3, <1>10, <2>1 DEF Past
    <2>3. c + 1 < c
      BY <1>2, <1>3, <2>2
    <2> QED
      BY <2>3
  <1>16. Suits({a0}, T, Due')
    <2>1. a0 \notin Due'
      BY <1>4, <1>12, <1>14
    <2>2. ASSUME NEW a \in Due' PROVE a \notin Labels(tmp_instr)
      <3>1. CASE a \in {ae, a1}
        BY <1>3, <1>13, <3>1
      <3>2. CASE \E k \in 2..(d - 1) : a \in Owed(k)
        BY <1>7, <3>2, OwedNextNotText, OwedNotText
      <3> QED
        BY <1>12, <3>1, <3>2
    <2>3. a0 \notin Labels(tmp_instr)
      BY <1>3, <1>13
    <2>4. \A a : a \in Due' \/ a = a0 => a \in Due \/ a \notin Labels(Code)
      BY <1>12, <1>15
    <2>5. \A a \in Due : a \in Due' \/ a = a0 \/ a \in Labels(tmp_instr)
      BY <1>12
    <2>6. \A a \in T : a \in Due'
      BY <1>12 DEF a1, ae
    <2> QED
      BY <2>1, <2>2, <2>3, <2>4, <2>5, <2>6 DEF Suits
  <1>17. BacksKept({a0})
    <2>1. ASSUME NEW k \in 2..Len(calls'), calls'[k].proc \in LoopProcs
          PROVE  k <= Depth /\ calls[k].proc \in LoopProcs /\ Back(k)' = Back(k)
      <3>1. k \in 2..(d - 1)
        BY <1>2, <1>9, <2>1
      <3>2. SameFrame(k) /\ k <= Depth
        BY <1>1, <1>2, <1>11, <3>1
      <3> QED
        BY <2>1, <3>2, SameFrameFacts DEF SameFrame
    <2> QED
      BY <2>1 DEF BacksKept
  <1>18. Past(a0)'
    <2>1. ASSUME NEW k \in 2..d, IsCond(calls'[k]), o = Counters(k)'[1]
          PROVE  c < Counters(k)'[2]
      <3>1. CASE k = d
        <4>1. Counters(k)'[2] = c + 1
          BY <1>2, <3>1
        <4> QED
          BY <4>1
      <3>2. CASE k \in 2..(d - 1)
        <4>1. IsCond(calls[k]) /\ Counters(k)' = Counters(k)
          BY <1>11, <2>1, <3>2, SameFrameFacts DEF SameFrame
        <4> QED
          BY <1>5, <2>1, <3>2, <4>1
      <3> QED
        BY <1>9, <3>1, <3>2
    <2>2. o < unique_id'
      BY <1>2, <1>6, <1>7 DEF Onward
    <2> QED
      BY <1>2, <1>3, <1>6, <2>1, <2>2 DEF Past, Depth, OfFunction
  <1>19. \A a : a \in {a0} \/ a \in Labels(tmp_instr) => Past(a)'
    BY <1>2, <1>7, <1>18, TextPast
  <1>20. ASSUME NEW a \in Labels(Code) PROVE Past(a)'
    <2>1. Past(a)
      BY DEF LinksInv
    <2>2. ASSUME NEW k \in 2..Len(calls'), k > d - 1, IsCond(calls'[k]), a[1] = "if",
                 a[2] = Counters(k)'[1]
          PROVE  a[3] < Counters(k)'[2]
      <3>1. k = d
        BY <1>2, <1>9, <2>2
      <3>2. a[2] = Counters(d)[1] /\ Counters(d)[2] = c /\ Counters(k)'[2] = c + 1
        BY <1>2, <2>2, <3>1
      <3>3. a[3] < c /\ a[3] \in Int
        BY <1>1, <1>2, <1>10, <2>1, <2>2, <3>2 DEF Past
      <3> QED
        BY <3>2, <3>3
    <2>3. d - 1 \in Nat /\ d - 1 <= Depth /\ Depth \in Nat
      BY <1>1, <1>2
    <2> QED
      BY <1>2, <1>7, <2>1, <2>2, <2>3, PastKept
  <1>21. in_loop' => Current(Code, before_loop_start)
    BY <1>2 DEF LinksInv
  <1>22. Links(code, in_loop', {a0}, T)
    BY DEF a0
  <1> QED
    BY <1>8, <1>16, <1>17, <1>19, <1>20, <1>21, <1>22, LinksNext

LEMMA LinksNextBranch ==
  ASSUME IInv, IdsIncrease, CondIdsIncrease, CountsFit, phase = "running",
         phase' = "running", ListIsSafe, LinksInv, CodeNextBranch,
         cond_cnt >= 1, cond_cnt' >= 1
  PROVE  LinksInv'
  <1>1. PICK c \in Int : c = cond_cnt
    BY DEF IInv, TypeOK, CondsOK
  <1>2. PICK o : o = outer_cond_id
    OBVIOUS
  <1>3. cond_cnt' = ToChar(c + 1)
    BY <1>1 DEF CodeNextBranch, NextBranch
  <1>4. ToChar(c + 1) = c + 1
    BY <1>1, <1>3, CountStored DEF CountsFit
  <1>5. cond_cnt' = c + 1
    BY <1>3, <1>4
  <1>6. ASSUME NEW p \in {"cond_body", "else_stmt"}, NextBranch(p), NEW code, NEW T,
               Links(code, in_loop', {If(o, c)}, T), T \subseteq {IfEnd(o), If(o, c + 1)},
               Here(code)
        PROVE  LinksInv'
    BY <1>1, <1>2, <1>4, <1>6, LinksNextCode
  <1>7. CASE NextBranch("cond_body") /\ Here(ElseifCode)
    <2>1. Links(ElseifCode, in_loop', {If(o, c)}, {IfEnd(o), If(o, c + 1)})
      BY <1>1, <1>2, <1>5, BranchLinks
    <2> QED
      BY <1>6, <1>7, <2>1
  <1>8. CASE NextBranch("else_stmt") /\ Here(ElseCode)
    <2>1. ElseLabel(c + 1) = c
      BY DEF ElseLabel
    <2>2. Links(ElseCode, in_loop', {If(o, ElseLabel(c + 1))}, {IfEnd(o)})
      BY <1>2, <1>5, BranchLinks
    <2>3. Links(ElseCode, in_loop', {If(o, c)}, {IfEnd(o)})
      BY <2>1, <2>2
    <2>4. {IfEnd(o)} \subseteq {IfEnd(o), If(o, c + 1)}
      OBVIOUS
    <2> QED
      BY <1>6, <1>8, <2>3, <2>4
  <1> QED
    BY <1>7, <1>8 DEF CodeNextBranch

(***************************************************************************)
(* A body ends.                                                            *)
(***************************************************************************)
LEMMA ProcKinds ==
  ASSUME NEW p \in Procs
  PROVE  \/ p \in LoopProcs \/ p \in CondProcs \/ p = "stmt_list"
         \/ p \in HeaderProcs \union {"function_definition"}
  BY DEF Procs, LoopProcs, CondProcs, HeaderProcs, BodyProcs, FunBodyCallers

(* No two open scopes owe the same label.                                  *)
LEMMA OwedApart ==
  ASSUME NamesInv, phase = "running", IdsIncrease, CondIdsIncrease,
         NEW j \in 2..Depth, NEW k \in 2..Depth, j < k, NEW a \in Owed(j)
  PROVE  a \notin Owed(k)
  <1> SUFFICES ASSUME a \in Owed(k) PROVE FALSE
    OBVIOUS
  <1>1. IInv
    BY DEF NamesInv
  <1>2. /\ Depth \in Nat /\ Depth = Len(calls) /\ Len(symstack) = Depth
        /\ \A i \in 1..Depth : calls[i].proc \in Procs
        /\ \A i \in 1..Depth : symstack[i].uid \in Nat
        /\ \A i \in 1..Depth : calls[i].proc = "stmt_list" <=> i = 1
    BY <1>1, DepthFacts DEF Frames, Activations, Depth
  <1>3. j \in 1..Depth /\ k \in 1..Depth /\ j # 1 /\ k # 1 /\ k # 2
    BY <1>2
  <1>4. /\ a \in OwedBy(calls[j].proc, calls[j].id, symstack[j].uid, Counters(j))
        /\ a \in OwedBy(calls[k].proc, calls[k].id, symstack[k].uid, Counters(k))
    BY DEF Owed
  <1>5. CASE calls[k].proc \in LoopProcs
    <2>1. a[1] = "end" /\ a[2] = symstack[k].uid
      BY <1>4, <1>5, OwedKinds
    <2>2. a[2] = symstack[j].uid
      BY <1>4, <2>1, OwedKinds
    <2>3. symstack[j].uid < symstack[k].uid
      <3>1. j \in 1..(k - 1)
        BY <1>2
      <3> QED
        BY <1>2, <1>3, <3>1 DEF IdsIncrease
    <2> QED
      BY <1>2, <1>3, <2>1, <2>2, <2>3
  <1>6. CASE calls[k].proc \notin LoopProcs /\ calls[k].proc \in CondProcs
    <2>1. a[1] \in {"if", "ifend"} /\ a[2] = Counters(k)[1]
      BY <1>4, <1>6, OwedKinds
    <2>2. calls[j].proc \in CondProcs /\ a[2] = Counters(j)[1]
      BY <1>4, <2>1, OwedKinds
    <2>3. Counters(j)[1] < Counters(k)[1]
      BY <1>1, <1>6, <2>2, CondIdsOrder DEF IsCond
    <2>4. Counters(j)[1] \in Int
      BY <1>1, <1>3, CountersAreInts
    <2> QED
      BY <2>1, <2>2, <2>3, <2>4
  <1>7. CASE calls[k].proc \notin LoopProcs /\ calls[k].proc \notin CondProcs
    <2>1. calls[k].proc \in HeaderProcs \union {"function_definition"}
      BY <1>2, <1>3, <1>7, ProcKinds
    <2> QED
      BY <1>2, <1>3, <2>1 DEF NamesInv, FunctionAtBottom
  <1> QED
    BY <1>5, <1>6, <1>7

LEMMA EndFrames ==
  ASSUME IInv, phase = "running", CondsSaved, CountersAreSaved, NEW d, d = Depth, Ends
  PROVE  /\ d \in Nat /\ d >= 2 /\ Len(calls') = d - 1 /\ SameFrames(d - 1) /\ Onward
  <1>1. d \in Nat /\ d >= 2 /\ Len(calls') = d - 1
    BY DepthFacts DEF Ends
  <1>2. KeepsCounters(d - 1)
    BY CountersEnd
  <1>3. ASSUME NEW k \in 2..(d - 1) PROVE SameFrame(k)
    <2>1. k \in 1..(d - 1)
      BY <1>1
    <2>2. calls'[k] = calls[k] /\ symstack'[k] = symstack[k] /\ Counters(k)' = Counters(k)
      BY <1>2, <2>1 DEF Ends, KeepsCalls, KeepsFrames, KeepsCounters
    <2> QED
      BY <2>2 DEF SameFrame
  <1>4. unique_id \in Nat
    BY UidIsNat
  <1>5. Onward
    BY <1>4 DEF Onward, Ends
  <1> QED
    BY <1>1, <1>3, <1>5 DEF SameFrames

(* What the scope at the head owed can be put only once.                   *)
LEMMA OwedIsPast ==
  ASSUME NamesInv, phase = "running", IdsIncrease, CondIdsIncrease,
         NEW d, d = Depth, d \in Nat, d >= 2, Len(calls') = d - 1, SameFrames(d - 1), Onward,
         NEW a \in Owed(d)
  PROVE  Past(a)'
  <1>1. IInv
    BY DEF NamesInv
  <1>2. unique_id \in Nat /\ unique_id' \in Nat /\ unique_id <= unique_id'
    BY <1>1, UidIsNat DEF Onward
  <1>3. /\ Depth = Len(calls) /\ Len(symstack) = Depth
        /\ \A i \in 1..Depth : calls[i].proc \in Procs
        /\ \A i \in 1..Depth : symstack[i].uid \in Nat
        /\ \A i \in 1..Depth : calls[i].proc = "stmt_list" <=> i = 1
    BY <1>1, DepthFacts DEF Frames, Activations, Depth
  <1>4. d \in 2..Depth /\ d \in 1..Depth /\ d # 1
    OBVIOUS
  <1>5. a \in OwedBy(calls[d].proc, calls[d].id, symstack[d].uid, Counters(d))
    BY DEF Owed
  <1>6. CASE calls[d].proc \in LoopProcs
    <2>1. a[1] = "end" /\ a[2] = symstack[d].uid
      BY <1>5, <1>6, OwedKinds
    <2>2. symstack[d].uid < unique_id
      BY <1>3, <1>4 DEF IdsIncrease
    <2>3. a[2] \in Nat /\ a[2] < unique_id'
      BY <1>2, <1>3, <1>4, <2>1, <2>2
    <2> QED
      BY <2>1, <2>3 DEF Past, OfFunction
  <1>7. CASE calls[d].proc \notin LoopProcs /\ calls[d].proc \in CondProcs
    <2>1. /\ a[1] \in {"if", "ifend"} /\ a[2] = Counters(d)[1]
          /\ a[1] = "if" => a[3] = Counters(d)[2]
      BY <1>5, <1>7, OwedKinds
    <2>2. Counters(d)[1] \in Nat /\ Counters(d)[1] < unique_id
      BY <1>1, <1>4, <1>7, CondIdIsPast DEF IsCond
    <2>3. Counters(d)[2] \in Int
      BY <1>1, <1>4, CountersAreInts
    <2>4. a[2] \in Nat /\ a[2] < unique_id'
      BY <1>2, <2>1, <2>2
    <2>5. ASSUME NEW k \in 2..(d - 1), IsCond(calls'[k]) PROVE a[2] # Counters(k)'[1]
      <3>1. SameFrame(k)
        BY DEF SameFrames
      <3>2. IsCond(calls[k]) /\ Counters(k)' = Counters(k)
        BY <2>5, <3>1, SameFrameFacts DEF SameFrame
      <3>3. k \in 2..Depth /\ k < d /\ k \in 1..Depth
        OBVIOUS
      <3>4. Counters(k)[1] < Counters(d)[1] /\ Counters(k)[1] \in Int
        BY <1>1, <1>4, <1>7, <3>2, <3>3, CondIdsOrder, CountersAreInts DEF IsCond
      <3> QED
        BY <2>1, <2>2, <3>2, <3>4
    <2>6. a[1] \notin {"func", "funcend"}
      BY <2>1
    <2> QED
      BY <2>1, <2>3, <2>4, <2>5, <2>6 DEF Past, OfFunction, Depth
  <1>8. CASE calls[d].proc \notin LoopProcs /\ calls[d].proc \notin CondProcs
    <2>1. calls[d].proc \in HeaderProcs \union {"function_definition"}
      BY <1>3, <1>4, <1>8, ProcKinds
    <2>2. d = 2 /\ calls[2].id \in GlobalTable /\ functions[calls[2].id].is_defined
      BY <1>3, <1>4, <2>1 DEF NamesInv, FunctionAtBottom
    <2>3. GlobalTable \subseteq Names
      <3>1. 1 \in 1..Depth
        OBVIOUS
      <3>2. symstack[1] \in Frames
        BY <1>1, <3>1, DepthFacts
      <3> QED
        BY <3>2 DEF Frames, GlobalTable
    <2>4. a[1] = "funcend" /\ a[3] = calls[2].id
      BY <1>5, <1>8, <2>2, OwedKinds
    <2>5. functions'[a[3]].is_defined /\ a[3] \in Names
      BY <2>2, <2>3, <2>4 DEF Onward
    <2> QED
      BY <2>4, <2>5 DEF Past, OfFunction
  <1> QED
    BY <1>6, <1>7, <1>8

LEMMA LinksEndCode ==
  ASSUME NamesInv, phase = "running", phase' = "running", IdsIncrease, CondIdsIncrease,
         CondsSaved, CountersAreSaved, ListIsSafe, LinksInv,
         NEW d, d = Depth, Ends,
         NEW b, NEW code, NEW T, Links(code, in_loop', Owed(d), T),
         \A a \in T : calls[d].proc \in LoopProcs /\ a = Back(d),
         Grows(instrListFunctions, b, WithText(code)), tmp_instr' = <<>>,
         in_loop' => Current(Code, b)
  PROVE  LinksInv'
  <1>1. IInv
    BY DEF NamesInv
  <1>2. /\ d \in Nat /\ d >= 2 /\ Len(calls') = d - 1 /\ SameFrames(d - 1) /\ Onward
    BY <1>1, EndFrames
  <1>3. unique_id \in Nat /\ TextIsForText
    BY <1>1, UidIsNat DEF LinksInv
  <1>4. \A k \in 2..d : k \in 2..(d - 1) \/ k = d
    BY <1>2
  <1>5. d \in 2..d /\ \A k \in 2..(d - 1) : k \in 2..d /\ k < d
    BY <1>2
  <1>6. \A k \in 2..(d - 1) : SameFrame(k) /\ Owed(k)' = Owed(k)
    BY <1>2, SameFrameFacts DEF SameFrames
  <1>7. PICK L : L = Owed(d)
    OBVIOUS
  <1>8. ASSUME NEW a
        PROVE  /\ a \in Due' <=> \E k \in 2..(d - 1) : a \in Owed(k)
               /\ a \in Due <=> \/ \E k \in 2..(d - 1) : a \in Owed(k)
                                \/ a \in L \/ a \in Labels(tmp_instr)
    <2>1. a \in Due' <=> \E k \in 2..(d - 1) : a \in Owed(k)'
      BY <1>2, DueFrames
    <2>2. (\E k \in 2..(d - 1) : a \in Owed(k)') <=> \E k \in 2..(d - 1) : a \in Owed(k)
      BY <1>6
    <2>3. a \in Due <=> (\E k \in 2..d : a \in Owed(k)) \/ a \in Labels(tmp_instr)
      BY DueFrames
    <2>4. (\E k \in 2..d : a \in Owed(k))
            <=> (\E k \in 2..(d - 1) : a \in Owed(k)) \/ a \in L
      BY <1>4, <1>5, <1>7
    <2> QED
      BY <2>1, <2>2, <2>3, <2>4
  <1>9. Suits(L, T, Due')
    <2>1. \A k \in 2..(d - 1) : \A a \in Owed(k) : a \notin L
      BY <1>5, <1>7, OwedApart
    <2>2. \A a \in Due' : a \notin L
      BY <1>8, <2>1
    <2>3. ASSUME NEW a, a \in Due' \/ a \in L PROVE a \notin Labels(tmp_instr)
      <3>1. \E k \in 2..d : a \in Owed(k)
        BY <1>5, <1>7, <1>8, <2>3
      <3> QED
        BY <1>1, <1>3, <3>1, OwedNextNotText, OwedNotText
    <2>4. \A a : a \in Due' \/ a \in L => a \in Due
      BY <1>8
    <2>5. \A a \in Due : a \in Due' \/ a \in L \/ a \in Labels(tmp_instr)
      BY <1>8
    <2>6. \A a \in T : a \in Labels(tmp_instr) \/ HasLabel(Code, a)
      BY <1>5 DEF LinksInv
    <2> QED
      BY <2>2, <2>3, <2>4, <2>5, <2>6 DEF Suits
  <1>10. BacksKept(L)
    <2>1. ASSUME NEW k \in 2..Len(calls'), calls'[k].proc \in LoopProcs
          PROVE  k <= Depth /\ calls[k].proc \in LoopProcs /\ Back(k)' = Back(k)
      <3>1. SameFrame(k) /\ k <= Depth
        BY <1>2, <1>6
      <3> QED
        BY <2>1, <3>1, SameFrameFacts DEF SameFrame
    <2> QED
      BY <2>1 DEF BacksKept
  <1>11. \A a \in L : Past(a)'
    BY <1>2, <1>7, OwedIsPast
  <1>12. \A a \in Labels(tmp_instr) : Past(a)'
    BY <1>1, <1>2, <1>3, TextPast
  <1>13. ASSUME NEW a \in Labels(Code) PROVE Past(a)'
    <2>1. Past(a)
      BY DEF LinksInv
    <2>2. \A k \in 2..Len(calls') : ~ (k > d - 1)
      BY <1>2
    <2>3. d - 1 \in Nat /\ d - 1 <= Depth /\ Depth \in Nat
      BY <1>2
    <2> QED
      BY <1>2, <1>3, <2>1, <2>2, <2>3, PastKept
  <1>14. Links(code, in_loop', L, T)
    BY <1>7
  <1> QED
    BY <1>1, <1>9, <1>10, <1>11, <1>12, <1>13, <1>14, LinksNext

LEMMA LinksEnds ==
  ASSUME NamesInv, phase = "running", phase' = "running", IdsIncrease, CondIdsIncrease,
         CondsSaved, CountersAreSaved, ListIsSafe, LinksInv, CodeEnds
  PROVE  LinksInv'
  <1>1. IInv /\ Ends
    BY DEF NamesInv, CodeEnds
  <1>2. PICK d \in Nat : d = Depth
    BY <1>1, DepthFacts
  <1>3. /\ d >= 2 /\ Top = calls[d] /\ SS_Head(symstack) = symstack[d]
        /\ calls[d].proc \in Procs
    BY <1>1, <1>2, DepthFacts DEF Ends, Activations
  <1>4. PICK uid : uid = symstack[d].uid
    OBVIOUS
  <1>5. SS_Head(symstack).uid = uid
    BY <1>3, <1>4
  <1>6. IF calls[d].proc \in LoopProcs THEN ForgetOuterLoop ELSE UNCHANGED in_loop
    BY <1>1, <1>3 DEF Ends
  <1>7. ASSUME NEW h, calls[d].proc \in LoopProcs, h = LoopKind(calls[d].proc),
               NEW code, Links(code, in_loop', {End(uid)}, {Loop(h, uid)}), Ending(code)
        PROVE  LinksInv'
    <2>1. Owed(d) = {End(uid)}
      BY <1>4, <1>7 DEF Owed, OwedBy
    <2>2. Back(d) = Loop(h, uid)
      BY <1>4, <1>7 DEF Back
    <2>3. /\ Grows(instrListFunctions, LoopStartAfter, WithText(code))
          /\ tmp_instr' = <<>>
      BY <1>7 DEF Ending
    <2>4. in_loop' => Current(Code, LoopStartAfter)
      <3>1. in_loop' => in_loop /\ LoopStartAfter = before_loop_start
        BY <1>6, <1>7 DEF ForgetOuterLoop, LoopStartAfter
      <3> QED
        BY <3>1 DEF LinksInv
    <2>5. Links(code, in_loop', Owed(d), {Loop(h, uid)})
      BY <1>7, <2>1
    <2>6. \A a \in {Loop(h, uid)} : calls[d].proc \in LoopProcs /\ a = Back(d)
      BY <1>7, <2>2
    <2> QED
      BY <1>1, <1>2, <2>3, <2>4, <2>5, <2>6, LinksEndCode
  <1>8. ASSUME calls[d].proc \notin LoopProcs, NEW code, Links(code, in_loop', Owed(d), {}),
               Here(code)
        PROVE  LinksInv'
    <2>1. /\ Grows(instrListFunctions, before_loop_start, WithText(code))
          /\ tmp_instr' = <<>>
      BY <1>8 DEF Here
    <2>2. in_loop' => Current(Code, before_loop_start)
      BY <1>6, <1>8 DEF LinksInv
    <2>3. \A a \in {} : calls[d].proc \in LoopProcs /\ a = Back(d)
      OBVIOUS
    <2> QED
      BY <1>1, <1>2, <1>8, <2>1, <2>2, <2>3, LinksEndCode
  <1>9. CASE Top.proc = "repeat_body" /\ Ending(RepeatEnd(uid))
    <2>1. Links(RepeatEnd(uid), in_loop', {End(uid)}, {Loop("repeat", uid)})
      BY LoopLinks
    <2>2. calls[d].proc \in LoopProcs /\ LoopKind(calls[d].proc) = "repeat"
      BY <1>3, <1>9, LoopKinds DEF LoopProcs
    <2> QED
      BY <1>7, <1>9, <2>1, <2>2
  <1>10. CASE Top.proc = "while_cycle" /\ Ending(LoopEnd("while", uid))
    <2>1. Links(LoopEnd("while", uid), in_loop', {End(uid)}, {Loop("while", uid)})
      BY LoopLinks
    <2>2. calls[d].proc \in LoopProcs /\ LoopKind(calls[d].proc) = "while"
      BY <1>3, <1>10, LoopKinds DEF LoopProcs
    <2> QED
      BY <1>7, <1>10, <2>1, <2>2
  <1>11. CASE Top.proc = "for_cycle" /\ Ending(ForEnd)
    <2>1. Links(ForEnd, in_loop', {End(uid)}, {Loop("for", uid)})
      BY <1>5, EndLinks
    <2>2. calls[d].proc \in LoopProcs /\ LoopKind(calls[d].proc) = "for"
      BY <1>3, <1>11, LoopKinds DEF LoopProcs
    <2> QED
      BY <1>7, <1>11, <2>1, <2>2
  <1>12. CASE Top.proc \in CondProcs /\ Here(CondEnd)
    <2>1. Counters(d) = <<outer_cond_id, cond_cnt>>
      BY <1>2 DEF Counters
    <2>2. calls[d].proc \notin LoopProcs /\ calls[d].proc \in CondProcs
      BY <1>3, <1>12, HeaderProcsApart
    <2>3. Owed(d) = {IfEnd(outer_cond_id), If(outer_cond_id, cond_cnt)}
      BY <2>1, <2>2 DEF Owed, OwedBy
    <2>4. Links(CondEnd, in_loop', {IfEnd(outer_cond_id), If(outer_cond_id, cond_cnt)}, {})
      BY BranchLinks
    <2>5. Links(CondEnd, in_loop', Owed(d), {})
      BY <2>3, <2>4
    <2> QED
      BY <1>8, <1>12, <2>2, <2>5
  <1>13. CASE /\ Top.proc = "function_definition"
              /\ Here(<<Label(FuncEnd(SS_Head(symstack).fun)), Other>>)
    <2>1. calls[d].proc = "function_definition"
          /\ calls[d].proc \notin LoopProcs /\ calls[d].proc \notin CondProcs
      BY <1>3, <1>13, HeaderProcsApart
    <2>2. symstack[d].fun = calls[d].id
      <3>1. d \in 1..Depth
        BY <1>2, <1>3
      <3>2. symstack[d].type = "function"
        BY <1>1, <2>1, <3>1, DepthFacts, ScopeOfEach
      <3> QED
        BY <1>1, <3>1, <3>2, DepthFacts
    <2>3. Owed(d) = {FuncEnd(calls[d].id)}
      BY <2>1 DEF Owed, OwedBy
    <2>4. PICK f : f = calls[d].id
      OBVIOUS
    <2>5. Links(<<Label(FuncEnd(f)), Other>>, in_loop', {FuncEnd(f)}, {})
      BY EndLinks
    <2>6. SS_Head(symstack).fun = f
      BY <1>3, <2>2, <2>4
    <2>7. Here(<<Label(FuncEnd(f)), Other>>)
      BY <1>13, <2>6
    <2> QED
      BY <1>8, <2>1, <2>3, <2>4, <2>5, <2>7
  <1> QED
    BY <1>1, <1>3, <1>5, <1>9, <1>10, <1>11, <1>12, <1>13 DEF CodeEnds

(***************************************************************************)
(* A function's definition begins.                                         *)
(***************************************************************************)
LEMMA LinkedBegin ==
  ASSUME NEW s, NEW t, NEW x, Len(s) \in Nat, Inserted(t, s, Len(s), x),
         Begins(x), Linked(s, {}), x.arg \notin Labels(s),
         NEW D, D \intersect Labels(s) = {}, x.arg \notin D
  PROVE  Linked(t, D) /\ Labels(t) = Labels(s) \union {x.arg}
  <1>1. /\ Len(t) = Len(s) + 1 /\ t[Len(s) + 1] = x
        /\ \A i \in 1..Len(s) : t[i] = s[i]
    BY DEF Inserted
  <1>2. IsLabel(x) /\ ~ Jumps(x)
    BY DEF Begins, IsLabel, Jumps
  <1>3. Labels(t) = Labels(s) \union {x.arg}
    <2>1. Len(s) \in 0..Len(s)
      OBVIOUS
    <2> QED
      BY <1>2, <2>1, LabelsStep
  <1>4. \A i \in 1..Len(t) : i \in 1..Len(s) \/ i = Len(s) + 1
    BY <1>1
  <1>5. LabelledOnce(t)
    <2> SUFFICES ASSUME NEW i \in 1..Len(t), NEW j \in 1..Len(t),
                        IsLabel(t[i]), IsLabel(t[j]), t[i].arg = t[j].arg
                 PROVE  i = j
      BY DEF LabelledOnce
    <2>1. \A k \in 1..Len(s) : IsLabel(s[k]) => s[k].arg # x.arg
      BY InLabels
    <2>2. CASE i \in 1..Len(s) /\ j \in 1..Len(s)
      BY <1>1, <2>2 DEF Linked, LabelledOnce
    <2>3. CASE i = Len(s) + 1 /\ j \in 1..Len(s)
      BY <1>1, <2>1, <2>3
    <2>4. CASE j = Len(s) + 1 /\ i \in 1..Len(s)
      BY <1>1, <2>1, <2>4
    <2> QED
      BY <1>4, <2>2, <2>3, <2>4
  <1>6. ASSUME NEW i \in 1..Len(t), Jumps(t[i])
        PROVE  Leads(t, i)
    <2>1. i \in 1..Len(s) /\ t[i] = s[i]
      BY <1>1, <1>2, <1>4, <1>6
    <2>2. PICK j \in 1..Len(s) : /\ IsLabel(s[j]) /\ s[j].arg = s[i].arg
                                 /\ Together(s, i, j)
      BY <1>6, <2>1 DEF Linked, Leads
    <2>3. Together(t, i, j) /\ j \in 1..Len(t) /\ t[j] = s[j]
      BY <1>1, <2>1, <2>2, StartsAppend
    <2> QED
      BY <2>1, <2>2, <2>3 DEF Leads
  <1> QED
    BY <1>3, <1>5, <1>6 DEF Linked

(* The two instructions.                                                   *)
LEMMA LinkedHeader ==
  ASSUME NEW l, NEW b, NEW f, Ready(l, b, <<Label(Func(f)), Other>>),
         Linked(l.items, {}), Func(f) \notin Labels(l.items), FuncEnd(f) \notin Labels(l.items)
  PROVE  LET s == EmitAll(l, b, <<Label(Func(f)), Other>>).items IN
         /\ Linked(s, {FuncEnd(f)}) /\ Labels(s) = Labels(l.items) \union {Func(f)}
  <1> DEFINE x == Label(Func(f))
             y == Other
             code == <<x, y>>
             D == {FuncEnd(f)}
  <1>1. Begins(x) /\ ~ x.hoist /\ x.arg = Func(f) /\ Func(f) # FuncEnd(f)
    BY DEF Begins, Label, Instr, Func, FuncEnd
  <1>2. Mute(y) /\ ~ y.hoist /\ ~ Begins(y)
    BY OtherKind
  <1>3. Len(code) = 2 /\ code[1] = x /\ code[2] = y
    OBVIOUS
  <1>4. Ready(l, b, code)
    OBVIOUS
  <1> HIDE DEF x, y, code
  <1>5. PICK a : /\ a[0] = l /\ EmitAll(l, b, code) = a[2]
                 /\ Insertions(a, b, code)
    BY <1>3, <1>4, EmitAllFacts
  <1>6. /\ Len(a[0].items) \in Nat /\ Len(a[1].items) \in Nat
        /\ Inserted(a[1].items, a[0].items, PlaceOf(a[0], b, x), x)
        /\ Inserted(a[2].items, a[1].items, PlaceOf(a[1], b, y), y)
    <2>1. 1 \in 1..2 /\ 2 \in 1..2 /\ 1 - 1 = 0 /\ 2 - 1 = 1
      OBVIOUS
    <2> QED
      BY <1>3, <1>5, <2>1 DEF Insertions
  <1>7. PlaceOf(a[0], b, x) = Len(a[0].items) /\ PlaceOf(a[1], b, y) = Len(a[1].items)
    BY <1>1, <1>2 DEF PlaceOf
  <1>8. Linked(a[1].items, D) /\ Labels(a[1].items) = Labels(l.items) \union {Func(f)}
    <2>1. D \intersect Labels(a[0].items) = {} /\ x.arg \notin D
      BY <1>1, <1>5
    <2>2. x.arg \notin Labels(a[0].items) /\ Linked(a[0].items, {})
      BY <1>1, <1>5
    <2> HIDE DEF D
    <2>3. Linked(a[1].items, D) /\ Labels(a[1].items) = Labels(a[0].items) \union {x.arg}
      BY <1>1, <1>6, <1>7, <2>1, <2>2, LinkedBegin
    <2> QED
      BY <1>1, <1>5, <2>3
  <1>9. Linked(a[2].items, D) /\ Labels(a[2].items) = Labels(a[1].items)
    <2>1. PICK s1, s2, p : s1 = a[1].items /\ s2 = a[2].items /\ p = Len(s1)
      OBVIOUS
    <2>2. Len(s1) \in Nat /\ p \in 0..Len(s1) /\ Current(s1, p)
      BY <1>6, <2>1, LastIsCurrent
    <2>3. ~ IsLabel(y) /\ ~ Jumps(y)
      BY <1>2 DEF Mute
    <2> HIDE DEF D
    <2>4. Inserted(s2, s1, p, y) /\ Linked(s1, D)
      BY <1>6, <1>7, <1>8, <2>1
    <2>5. Linked(s2, IF IsLabel(y) THEN D \ {y.arg} ELSE D)
      BY <1>2, <2>2, <2>3, <2>4, LinkedStep
    <2>6. Labels(s2) = IF IsLabel(y) THEN Labels(s1) \union {y.arg} ELSE Labels(s1)
      BY <2>2, <2>4, LabelsStep
    <2> QED
      BY <2>1, <2>3, <2>5, <2>6
  <1> QED
    BY <1>5, <1>8, <1>9 DEF x, y, code

LEMMA LinksDefines ==
  ASSUME SignaturesInv, LoopsInv, phase = "running", phase' = "running", ListIsSafe,
         LinksInv, CodeDefines
  PROVE  LinksInv'
  <1>1. IInv /\ FunctionsOK /\ FunctionsAreKnown /\ unique_id \in Nat
    BY UidIsNat DEF SignaturesInv, NamesInv, IInv, TypeOK
  <1>2. PICK f \in Names : Defines(f) /\ Here(<<Label(Func(f)), Other>>)
    BY DEF CodeDefines
  <1>3. PICK d : d = Depth /\ d = 1
    BY <1>2 DEF Defines
  <1>4. Len(symstack) = 1 /\ symstack[1].type = "global"
    BY <1>1, <1>2, DepthFacts, ScopeOfEach DEF Defines
  <1>5. ~ in_loop'
    <2>1. OpenLoops(symstack) = {}
      BY <1>4 DEF OpenLoops, LoopScopes
    <2> QED
      BY <1>2, <2>1 DEF Defines, LoopsInv, OuterLoopIsRemembered, loops
  <1>6. tmp_instr = <<>> /\ Labels(tmp_instr) = {}
    <2>1. tmp_instr = <<>>
      BY <1>2 DEF Defines, ListIsSafe, TextIsHeader
    <2>2. \A i \in 1..Len(<<>>) : FALSE
      BY TupleFacts
    <2> QED
      BY <2>1, <2>2, MuteCode
  <1>7. Linked(Code, {})
    <2>1. \A a : a \notin Due
      BY <1>3, <1>6, DueFrames
    <2>2. Due = {}
      BY <2>1
    <2> QED
      BY <2>2 DEF LinksInv
  <1>8. /\ functions'[f].is_defined
        /\ \A g \in Names \ {f} : functions'[g] = functions[g]
    BY <1>1, <1>2, DefinitionChange DEF Defines
  <1>9. ~ functions[f].is_defined
    <2>1. f \in GlobalTable => SS_Get_symbol(symstack, f)
      BY <1>4 DEF GlobalTable, SS_Get_symbol
    <2> QED
      BY <1>1, <1>2, <2>1 DEF Defines, IsDefined, FunctionsAreKnown
  <1>10. Func(f) \notin Labels(Code) /\ FuncEnd(f) \notin Labels(Code)
    BY <1>9 DEF LinksInv, Past, OfFunction, Func, FuncEnd
  <1>11. Opens("funparam_def_list", f, f, {})
    BY <1>2 DEF Defines
  <1>12. /\ Len(calls') = d + 1 /\ SameFrames(d) /\ calls'[d + 1].proc = "funparam_def_list"
         /\ Owed(d + 1)' = OwedBy("funparam_def_list", f, unique_id, <<outer_cond_id', cond_cnt'>>)
         /\ unique_id' = unique_id + 1
    <2>1. \A k \in 2..d : symstack'[k].uid = symstack[k].uid
      BY <1>3
    <2> QED
      BY <1>1, <1>3, <1>11, <2>1, OpensFrames
  <1>13. Owed(2)' = {FuncEnd(f)} /\ Len(calls') = 2 /\ calls'[2].proc = "funparam_def_list"
    BY <1>3, <1>12 DEF OwedBy, LoopProcs, CondProcs
  <1>14. /\ Ready(instrListFunctions, before_loop_start, <<Label(Func(f)), Other>>)
         /\ Code' = EmitAll(instrListFunctions, before_loop_start, <<Label(Func(f)), Other>>).items
         /\ tmp_instr' = <<>>
    BY <1>2, <1>6 DEF Here, WithText, Grows, Code
  <1>15. Due' = {FuncEnd(f)}
    <2>1. \A a : a \in Due' <=> a \in {FuncEnd(f)}
      BY <1>13, <1>14, DueFrames
    <2>2. Due' \subseteq {FuncEnd(f)} /\ {FuncEnd(f)} \subseteq Due'
      BY <2>1
    <2> QED
      BY <2>2
  <1>16. Linked(Code', Due') /\ Labels(Code') = Labels(Code) \union {Func(f)}
    BY <1>7, <1>10, <1>14, <1>15, LinkedHeader DEF Code
  <1>17. Onward
    BY <1>1, <1>8, <1>12 DEF Onward
  <1>18. \A k \in 2..2 : ~ IsCond(calls'[k]) /\ calls'[k].proc \notin LoopProcs
    BY <1>13 DEF IsCond, CondProcs, LoopProcs
  <1>19. Past(Func(f))'
    <2> DEFINE a == Func(f)
    <2>1. a[1] = "func" /\ a[3] = f
      BY DEF Func
    <2>2. OfFunction(a)
      BY <2>1 DEF OfFunction
    <2> HIDE DEF a
    <2>3. Past(a)'
      BY <1>8, <2>1, <2>2 DEF Past, OfFunction
    <2> QED
      BY <2>3 DEF a
  <1>20. ASSUME NEW a \in Labels(Code) PROVE Past(a)'
    <2>1. Past(a)
      BY DEF LinksInv
    <2>2. \A k \in 2..Len(calls') : ~ IsCond(calls'[k])
      BY <1>13, <1>18
    <2> QED
      BY <1>1, <1>3, <1>12, <1>17, <2>1, <2>2, PastKept
  <1>21. TextIsForText' /\ Depth' = 2
    BY <1>13, <1>14 DEF TextIsForText, Depth
  <1> QED
    BY <1>5, <1>14, <1>16, <1>18, <1>19, <1>20, <1>21 DEF LinksInv

(***************************************************************************)
(* The counters of the open branches, from one state to the next.          *)
(***************************************************************************)
BranchesInv == CondsSaved /\ CountersAreSaved /\ CondIdsIncrease /\ CountsFit

(* The three invariants at one activation.                                 *)
CountersAt(k) ==
  /\ k >= 2 /\ ~ IsCond(calls[k]) => Counters(k) = calls[k].saved
  /\ k >= 2 /\ IsCond(calls[k]) =>
       symstack[k - 1].uid < Counters(k)[1] /\ Counters(k)[1] <= symstack[k].uid
  /\ IsCount(Counters(k)[2])

LEMMA CountersEach ==
  ASSUME Depth \in Nat, Len(calls') \in Nat
  PROVE  /\ phase = "running" /\ CountersAreSaved /\ CondIdsIncrease /\ CountsFit
              => \A k \in 1..Depth : CountersAt(k)
         /\ phase' = "running" /\ IsCount(cond_cnt') /\ (\A k \in 1..Len(calls') : CountersAt(k)')
              => (CountersAreSaved /\ CondIdsIncrease /\ CountsFit)'
  <1>1. ASSUME phase = "running", CountersAreSaved, CondIdsIncrease, CountsFit,
               NEW k \in 1..Depth
        PROVE  CountersAt(k)
    <2>1. k >= 2 => k \in 2..Depth
      OBVIOUS
    <2> QED
      BY <1>1, <2>1 DEF CountersAt, CountersAreSaved, CondIdsIncrease, CountsFit
  <1>2. ASSUME phase' = "running", IsCount(cond_cnt'),
               \A k \in 1..Len(calls') : CountersAt(k)'
        PROVE  (CountersAreSaved /\ CondIdsIncrease /\ CountsFit)'
    <2>1. \A k \in 2..Len(calls') : k \in 1..Len(calls') /\ k >= 2
      OBVIOUS
    <2>2. CountersAreSaved'
      BY <1>2, <2>1 DEF CountersAt, CountersAreSaved, Depth
    <2>3. CondIdsIncrease'
      BY <1>2, <2>1 DEF CountersAt, CondIdsIncrease, Depth
    <2>4. CountsFit'
      BY <1>2 DEF CountersAt, CountsFit, Depth
    <2> QED
      BY <2>2, <2>3, <2>4
  <1> QED
    BY <1>1, <1>2

(* An activation that keeps its counters, its kind and its scope's id.     *)
LEMMA CountersAtKept ==
  ASSUME IInv, phase = "running", NEW k \in 1..Depth, CountersAt(k),
         Counters(k)' = Counters(k), calls'[k].saved = calls[k].saved,
         IsCond(calls'[k]) <=> IsCond(calls[k]),
         k >= 2 => symstack'[k - 1].uid = symstack[k - 1].uid,
         symstack'[k].uid = symstack[k].uid
  PROVE  CountersAt(k)'
  BY DEF CountersAt

(* No activation comes or goes.                                            *)
LEMMA BranchesSame ==
  ASSUME IInv, phase = "running", phase' = "running", BranchesInv,
         NEW d, d = Depth, Len(calls') = d, UNCHANGED conds,
         \A k \in 1..d : /\ calls'[k].saved = calls[k].saved
                         /\ IsCond(calls'[k]) <=> IsCond(calls[k])
                         /\ symstack'[k].uid = symstack[k].uid
  PROVE  (CountersAreSaved /\ CondIdsIncrease /\ CountsFit)'
  <1>1. d \in Nat /\ KeepsCounters(d)
    BY DepthFacts, CountersSame
  <1>2. \A k \in 1..d : CountersAt(k)
    BY <1>1, CountersEach DEF BranchesInv
  <1>3. ASSUME NEW k \in 1..d PROVE CountersAt(k)'
    <2>1. k >= 2 => k - 1 \in 1..d
      BY <1>1
    <2> QED
      BY <1>1, <1>2, <2>1, CountersAtKept DEF KeepsCounters
  <1>4. IsCount(cond_cnt')
    BY DEF BranchesInv, CountsFit, conds
  <1> QED
    BY <1>1, <1>3, <1>4, CountersEach

(* One is called.                                                          *)
LEMMA BranchesOpen ==
  ASSUME IInv, phase = "running", phase' = "running", BranchesInv,
         NEW d, d = Depth, NEW p, NEW x, NEW fun, NEW names, Opens(p, x, fun, names),
         \A k \in 1..d : symstack'[k].uid = symstack[k].uid,
         IF p \in CondProcs
         THEN /\ symstack[d].uid < outer_cond_id' /\ outer_cond_id' <= unique_id
              /\ IsCount(cond_cnt')
         ELSE UNCHANGED conds
  PROVE  (CountersAreSaved /\ CondIdsIncrease /\ CountsFit)'
  <1>1. d \in Nat \ {0} /\ Len(calls') = d + 1
    BY DepthFacts DEF Opens
  <1>2. /\ KeepsCounters(d) /\ Counters(d + 1)' = <<outer_cond_id', cond_cnt'>>
        /\ calls'[d + 1].saved = Counters(d)
    BY CountersOpen
  <1>3. Counters(d) = <<outer_cond_id, cond_cnt>>
    BY <1>1 DEF Counters
  <1>4. \A k \in 1..d : CountersAt(k)
    BY <1>1, CountersEach DEF BranchesInv
  <1>5. ASSUME NEW k \in 1..d PROVE CountersAt(k)'
    <2>1. k >= 2 => k - 1 \in 1..d
      BY <1>1
    <2>2. calls'[k] = calls[k]
      BY DEF Opens, KeepsCalls
    <2> QED
      BY <1>2, <1>4, <2>1, <2>2, CountersAtKept DEF KeepsCounters, IsCond
  <1>6. calls'[d + 1].proc = p /\ symstack'[d + 1].uid = unique_id
    BY DEF Opens, Activation
  <1>7. IsCond(calls'[d + 1]) <=> p \in CondProcs
    BY <1>6 DEF IsCond
  <1>8. (d + 1) - 1 = d /\ symstack'[d].uid = symstack[d].uid
    BY <1>1
  <1>9. IsCount(cond_cnt')
    BY DEF BranchesInv, CountsFit, conds
  <1>10. CountersAt(d + 1)'
    <2>1. CASE p \in CondProcs
      BY <1>2, <1>6, <1>7, <1>8, <1>9, <2>1 DEF CountersAt
    <2>2. CASE p \notin CondProcs
      <3>1. Counters(d + 1)' = calls'[d + 1].saved
        BY <1>2, <1>3, <2>2 DEF conds
      <3> QED
        BY <1>2, <1>7, <1>9, <2>2, <3>1 DEF CountersAt
    <2> QED
      BY <2>1, <2>2
  <1>11. \A k \in 1..(d + 1) : k \in 1..d \/ k = d + 1
    BY <1>1
  <1>12. \A k \in 1..(d + 1) : CountersAt(k)'
    BY <1>5, <1>10, <1>11
  <1> QED
    BY <1>1, <1>9, <1>12, CountersEach

LEMMA BranchesNext ==
  ASSUME IInv, phase = "running", phase' = "running", BranchesInv, IdsIncrease,
         NEW p \in CondProcs, NextBranch(p), cond_cnt >= 1, cond_cnt' >= 1
  PROVE  (CountersAreSaved /\ CondIdsIncrease /\ CountsFit)'
  <1>1. PICK d \in Nat : d = Depth /\ d >= 2 /\ Len(calls') = d
    BY DepthFacts DEF NextBranch, Becomes
  <1>2. /\ KeepsCounters(d - 1)
        /\ Counters(d)' = <<outer_cond_id, ToChar(cond_cnt + 1)>>
        /\ Counters(d) = <<outer_cond_id, cond_cnt>>
    BY <1>1, CountersNext
  <1>3. IsCount(ToChar(cond_cnt + 1)) /\ cond_cnt' = ToChar(cond_cnt + 1)
    <2>1. cond_cnt \in Int
      BY DEF IInv, TypeOK, CondsOK
    <2>2. cond_cnt' = ToChar(cond_cnt + 1)
      BY DEF NextBranch
    <2> QED
      BY <2>1, <2>2, CountStored DEF BranchesInv, CountsFit
  <1>4. \A k \in 1..d : CountersAt(k)
    BY <1>1, CountersEach DEF BranchesInv
  <1>5. ASSUME NEW k \in 1..(d - 1) PROVE CountersAt(k)'
    <2>1. k \in 1..d /\ (k >= 2 => k - 1 \in 1..(d - 1))
      BY <1>1
    <2>2. /\ calls'[k] = calls[k] /\ symstack'[k] = symstack[k]
          /\ k >= 2 => symstack'[k - 1] = symstack[k - 1]
          /\ Counters(k)' = Counters(k)
      BY <1>1, <1>2, <2>1 DEF NextBranch, Becomes, KeepsCalls, KeepsFrames, KeepsCounters
    <2> QED
      BY <1>1, <1>4, <2>1, <2>2, CountersAtKept
  <1>6. CountersAt(d)'
    <2>1. calls[d].proc = "cond_body" /\ calls'[d].proc = p
      BY <1>1, DepthFacts DEF NextBranch, Becomes
    <2>2. IsCond(calls[d]) /\ IsCond(calls'[d])
      BY <2>1 DEF IsCond, CondProcs
    <2>3. d - 1 \in 1..(d - 1) /\ d \in 1..d /\ d \in 1..Len(symstack)
      BY <1>1, DepthFacts
    <2>4. symstack'[d - 1] = symstack[d - 1] /\ symstack'[d].uid = unique_id
      BY <1>1, <2>3 DEF NextBranch, KeepsFrames
    <2>5. symstack[d].uid < unique_id /\ symstack[d].uid \in Nat /\ unique_id \in Nat
      BY <1>1, <2>3, DepthFacts, UidIsNat DEF IdsIncrease, Frames
    <2>6. symstack[d - 1].uid < outer_cond_id /\ outer_cond_id <= symstack[d].uid
      BY <1>1, <1>2, <1>4, <2>2, <2>3 DEF CountersAt
    <2>7. outer_cond_id \in Int
      BY DEF IInv, TypeOK, CondsOK
    <2>8. outer_cond_id <= unique_id
      BY <2>5, <2>6, <2>7
    <2> QED
      BY <1>2, <1>3, <2>2, <2>4, <2>6, <2>8 DEF CountersAt
  <1>7. \A k \in 1..d : k \in 1..(d - 1) \/ k = d
    BY <1>1
  <1>8. \A k \in 1..d : CountersAt(k)'
    BY <1>5, <1>6, <1>7
  <1> QED
    BY <1>1, <1>3, <1>8, CountersEach

LEMMA BranchesEnd ==
  ASSUME IInv, phase = "running", phase' = "running", BranchesInv, Ends
  PROVE  (CountersAreSaved /\ CondIdsIncrease /\ CountsFit)'
  <1>1. PICK d \in Nat : d = Depth /\ d >= 2 /\ Len(calls') = d - 1
    BY DepthFacts DEF Ends
  <1>2. KeepsCounters(d - 1)
    BY <1>1, CountersEnd DEF BranchesInv
  <1>3. \A k \in 1..d : CountersAt(k)
    BY <1>1, CountersEach DEF BranchesInv
  <1>4. ASSUME NEW k \in 1..(d - 1) PROVE CountersAt(k)'
    <2>1. k \in 1..d /\ (k >= 2 => k - 1 \in 1..(d - 1))
      BY <1>1
    <2>2. /\ calls'[k] = calls[k] /\ symstack'[k] = symstack[k]
          /\ k >= 2 => symstack'[k - 1] = symstack[k - 1]
          /\ Counters(k)' = Counters(k)
      BY <1>1, <1>2, <2>1 DEF Ends, KeepsCalls, KeepsFrames, KeepsCounters
    <2> QED
      BY <1>1, <1>3, <2>1, <2>2, CountersAtKept
  <1>5. IsCount(cond_cnt')
    <2>1. d - 1 \in 1..(d - 1)
      BY <1>1
    <2>2. Counters(d - 1)' = <<outer_cond_id', cond_cnt'>>
      BY <1>1 DEF Counters, Depth
    <2>3. IsCount(Counters(d - 1)'[2])
      BY <1>4, <2>1 DEF CountersAt
    <2> QED
      BY <2>2, <2>3
  <1> QED
    BY <1>1, <1>4, <1>5, CountersEach

LEMMA BranchesStep ==
  ASSUME IInv, [Next]_vars, IdsIncrease, BranchesInv, cond_cnt >= 1, cond_cnt' >= 1
  PROVE  BranchesInv'
  <1>1. CondsSaved'
    BY CondsStep DEF BranchesInv
  <1> SUFFICES (CountersAreSaved /\ CondIdsIncrease /\ CountsFit)'
    BY <1>1 DEF BranchesInv
  <1>2. CASE phase' # "running"
    <2>1. cond_cnt' = cond_cnt \/ cond_cnt' = 1
      BY <1>2, LastConds
    <2>2. IsCount(cond_cnt')
      BY <2>1 DEF BranchesInv, CountsFit, IsCount
    <2> QED
      BY <1>2, <2>2 DEF CountersAreSaved, CondIdsIncrease, CountsFit
  <1>3. CASE phase' = "running" /\ phase # "running"
    <2>1. Len(calls') = 1 /\ UNCHANGED conds
      BY <1>3, BeginsFacts
    <2>2. IsCount(cond_cnt')
      BY <2>1 DEF BranchesInv, CountsFit, conds
    <2>3. \A k \in 2..Len(calls') : FALSE
      BY <2>1
    <2>4. \A k \in 1..Len(calls') : Counters(k)' = <<outer_cond_id', cond_cnt'>>
      BY <2>1 DEF Counters, Depth
    <2>5. \A k \in 1..Len(calls') : IsCount(Counters(k)[2])'
      BY <2>2, <2>4
    <2> QED
      BY <2>2, <2>3, <2>5 DEF CountersAreSaved, CondIdsIncrease, CountsFit, Depth
  <1>4. CASE phase = "running" /\ phase' = "running"
    <2>1. PICK d \in Nat \ {0} : d = Depth
      BY <1>4, DepthFacts
    <2>2. ASSUME Len(calls') = d, UNCHANGED conds,
                 \A k \in 1..d : /\ calls'[k].saved = calls[k].saved
                                 /\ IsCond(calls'[k]) <=> IsCond(calls[k])
                                 /\ symstack'[k].uid = symstack[k].uid
          PROVE  (CountersAreSaved /\ CondIdsIncrease /\ CountsFit)'
      BY <1>4, <2>1, <2>2, BranchesSame
    <2>3. ASSUME NEW x, Puts(x) PROVE \A k \in 1..d : symstack'[k].uid = symstack[k].uid
      BY <1>4, <2>1, <2>3, PutsUids
    <2>4. CASE Stays
      BY <2>1, <2>2, <2>4 DEF Stays, Depth
    <2>5. CASE \E f \in Names, sig \in Signatures : Declares(f, sig)
      BY <2>1, <2>2, <2>3, <2>5 DEF Declares, Depth
    <2>6. CASE \E x \in Names : AddsVariable(x)
      BY <2>1, <2>2, <2>3, <2>6 DEF AddsVariable, Depth
    <2>7. ASSUME NEW p \in {"other_funparams", "function_definition"}, Becomes(p),
                 Top.proc \in HeaderProcs
          PROVE  /\ Len(calls') = d
                 /\ \A k \in 1..d : /\ calls'[k].saved = calls[k].saved
                                    /\ IsCond(calls'[k]) <=> IsCond(calls[k])
      BY <1>4, <2>1, <2>7, BecomesSame DEF IsCond
    <2>8. CASE \E x \in Names, t \in Types : TakesParameter(x, t)
      BY <2>2, <2>3, <2>7, <2>8 DEF TakesParameter
    <2>9. CASE \E rets \in Seq(Types) : EndsHeader(rets)
      BY <2>2, <2>7, <2>9 DEF EndsHeader
    <2>10. CASE \E f \in Names : Defines(f)
      <3>1. PICK f \in Names : Defines(f)
        BY <2>10
      <3>2. /\ Opens("funparam_def_list", f, f, {}) /\ UNCHANGED conds
            /\ \A k \in 1..d : symstack'[k].uid = symstack[k].uid
        BY <2>1, <3>1 DEF Defines
      <3>3. "funparam_def_list" \notin CondProcs
        BY DEF CondProcs
      <3> QED
        BY <1>4, <2>1, <3>2, <3>3, BranchesOpen
    <2>11. CASE \E p \in LoopProcs, x \in Names \union {NoName}, names \in SUBSET Names :
                  OpensLoop(p, x, names)
      <3>1. PICK p \in LoopProcs, x \in Names \union {NoName}, names \in SUBSET Names :
              OpensLoop(p, x, names)
        BY <2>11
      <3>2. /\ Opens(p, x, NoName, names) /\ UNCHANGED conds
            /\ \A k \in 1..d : symstack'[k].uid = symstack[k].uid
        BY <2>1, <3>1 DEF OpensLoop, KeepsFrames
      <3>3. p \notin CondProcs
        BY HeaderProcsApart
      <3> QED
        BY <1>4, <2>1, <3>2, <3>3, BranchesOpen
    <2>12. CASE OpensBranch
      <3>1. /\ Opens("cond_body", NoName, NoName, {})
            /\ \A k \in 1..d : symstack'[k].uid = symstack[k].uid
            /\ outer_cond_id' = unique_id /\ cond_cnt' = ToChar(2)
        BY <2>1, <2>12 DEF OpensBranch, KeepsFrames
      <3>2. symstack[d].uid < outer_cond_id' /\ outer_cond_id' <= unique_id
        <4>1. d \in 1..Len(symstack)
          BY <1>4, <2>1, DepthFacts
        <4> QED
          BY <1>4, <3>1, <4>1, UidIsNat DEF IdsIncrease
      <3>3. IsCount(cond_cnt')
        <4>1. ToChar(1 + 1) >= 1 /\ IsCount(1)
          BY <3>1 DEF IsCount
        <4>2. IsCount(1 + 1) /\ ToChar(1 + 1) = 1 + 1
          BY <4>1, CountStored
        <4> QED
          BY <3>1, <4>2
      <3>4. "cond_body" \in CondProcs
        BY DEF CondProcs
      <3> QED
        BY <1>4, <2>1, <3>1, <3>2, <3>3, <3>4, BranchesOpen
    <2>13. CASE (\E p \in CondProcs : NextBranch(p)) \/ Ends
      BY <1>4, <2>13, BranchesNext, BranchesEnd
    <2> QED
      BY <1>4, <2>4, <2>5, <2>6, <2>8, <2>9, <2>10, <2>11, <2>12, <2>13, StepCases
         DEF Moves
  <1> QED
    BY <1>2, <1>3, <1>4

(* A list without labels and jumps.                                        *)
LEMMA NothingLinked ==
  ASSUME NEW s, Labels(s) = {}, Targets(s) = {}
  PROVE  Linked(s, {})
  BY InLabels DEF Linked, LabelledOnce

LEMMA LinksStep ==
  ASSUME SignaturesInv, LoopsInv, IInv', BranchesInv, ListIsSafe, LinksInv,
         [CodegenNext]_cgvars, cond_cnt >= 1, cond_cnt' >= 1
  PROVE  LinksInv'
  <1>1. IInv /\ NamesInv /\ IdsIncrease
    BY DEF SignaturesInv, LoopsInv
  <1>2. CASE UNCHANGED cgvars
    <2>1. /\ UNCHANGED <<phase, calls, symstack, in_loop, Code, before_loop_start,
                         tmp_instr, functions, unique_id, outer_cond_id, cond_cnt>>
      BY <1>2 DEF cgvars, gen, vars, control, scopes, loops, conds, Code
    <2>2. UNCHANGED <<Due, Depth>> /\ \A k : Back(k)' = Back(k) /\ Counters(k)' = Counters(k)
      BY <2>1 DEF Due, OwedAbove, Owed, Depth, Back, Counters
    <2>3. \A a : Past(a) <=> Past(a)'
      BY <2>1, <2>2 DEF Past, OfFunction
    <2> QED
      BY <2>1, <2>2, <2>3 DEF LinksInv, TextIsForText
  <1> SUFFICES ASSUME CodegenNext PROVE LinksInv'
    BY <1>2
  <1>3. CASE phase' \notin {"running", "accepted"}
    <2>1. Code' = <<>> /\ tmp_instr' = <<>>
      BY <1>3, FreedCode
    <2>2. \A i \in 1..Len(<<>>) : FALSE
      BY TupleFacts
    <2>3. Labels(Code') = {} /\ Targets(Code') = {}
      BY <2>1, <2>2, MuteCode
    <2> QED
      BY <1>3, <2>1, <2>3 DEF LinksInv, TextIsForText
  <1>4. CASE phase' = "accepted"
    <2>1. AtStatement /\ phase = "running"
      BY <1>4, AcceptedCode DEF AtStatement
    <2>2. UNCHANGED <<instrListFunctions, tmp_instr>>
      BY <1>4, <2>1, AcceptedCode, NothingEmitted
    <2>3. tmp_instr = <<>> /\ Labels(tmp_instr) = {}
      <3>1. tmp_instr = <<>>
        BY <2>1 DEF AtStatement, ListIsSafe, TextIsHeader
      <3>2. \A i \in 1..Len(<<>>) : FALSE
        BY TupleFacts
      <3> QED
        BY <3>1, <3>2, MuteCode
    <2>4. Depth = 1
      BY <1>1, <2>1, DepthFacts DEF AtStatement
    <2>5. Due = {}
      <3>1. \A a : a \notin Due
        BY <2>3, <2>4, DueFrames
      <3> QED
        BY <3>1
    <2>6. Linked(Code', {})
      BY <2>1, <2>2, <2>5 DEF LinksInv, Code
    <2> QED
      BY <1>4, <2>2, <2>3, <2>6 DEF LinksInv, TextIsForText
  <1>5. CASE phase = "running" /\ phase' = "running"
    <2>1. CodeMoves
      BY <1>1, <1>5, CodeSteps DEF SignaturesInv, NamesInv
    <2>2. CASE CodeStays \/ CodeDeclares \/ CodeDefines \/ CodeTakesParameter
               \/ CodeEndsHeader \/ CodeAddsVariable
      BY <1>1, <1>5, <2>2, LinksStays, LinksDeclares, LinksDefines, LinksPuts, LinksHeader
    <2>3. CASE CodeOpensWhile \/ CodeOpensRepeat \/ CodeOpensFor \/ CodeOpensBranch
      BY <1>1, <1>5, <2>3, LinksLoops, LinksFor, LinksBranch
    <2>4. CASE CodeNextBranch \/ CodeEnds
      BY <1>1, <1>5, <2>4, LinksNextBranch, LinksEnds DEF BranchesInv
    <2> QED
      BY <2>1, <2>2, <2>3, <2>4 DEF CodeMoves
  <1>6. CASE phase # "running" /\ phase' = "running"
    <2>1. phase = "prolog" /\ UNCHANGED <<in_loop, functions>> /\ Len(calls') = 1
      BY <1>1, <1>6, ParserStep, BeginsFacts DEF loops
    <2>2. UNCHANGED <<instrListFunctions, tmp_instr>> /\ tmp_instr = <<>>
      BY <1>6, <2>1, PrologCode, NothingEmitted DEF ListIsSafe, TextIsHeader
    <2>3. ~ in_loop'
      BY <2>1 DEF LoopsInv, PrologOutsideLoops
    <2>4. Labels(Code') = {} /\ Targets(Code') = {}
      BY <2>1, <2>2 DEF LinksInv, Code
    <2>5. \A k \in 2..Len(calls') : FALSE
      BY <2>1
    <2>6. Due' = {}
      <3>1. \A a : a \notin Due'
        BY <2>2, <2>5, DueFrames
      <3> QED
        BY <3>1
    <2>7. Linked(Code', Due')
      BY <2>4, <2>6, NothingLinked
    <2> QED
      BY <1>6, <2>2, <2>3, <2>4, <2>5, <2>7 DEF LinksInv, TextIsForText, Depth
  <1> QED
    BY <1>3, <1>4, <1>5, <1>6

LEMMA InitLinks ==
  ASSUME CodegenInit
  PROVE  LinksInv /\ BranchesInv
  <1>1. /\ Code = <<Other>> /\ tmp_instr = <<>> /\ phase = "prolog" /\ cond_cnt = 1
    BY DEF CodegenInit, Init, Code
  <1>2. CondsSaved
    BY InitBookkeeping DEF CodegenInit
  <1>3. \A i \in 1..Len(<<Other>>) : Mute(<<Other>>[i])
    BY OtherKind, TupleFacts
  <1>4. Labels(Code) = {} /\ Targets(Code) = {}
    BY <1>1, <1>3, MuteCode
  <1>5. LinksInv
    BY <1>1, <1>4 DEF LinksInv, TextIsForText
  <1>6. BranchesInv
    BY <1>1, <1>2 DEF BranchesInv, CountersAreSaved, CondIdsIncrease, CountsFit, IsCount
  <1> QED
    BY <1>5, <1>6

(* The invariant in the terms of the property.                             *)
LEMMA LinkedMeans ==
  ASSUME LinksInv
  PROVE  JumpsResolve
  <1> DEFINE labels == PlacesOf({"LABEL"})
  <1> SUFFICES ASSUME phase = "accepted", NEW i \in PlacesOf({"JUMP", "RETURN"})
               PROVE  Resolves(i, labels)
    BY DEF JumpsResolve
  <1>1. Linked(Code, {})
    BY DEF LinksInv
  <1>2. i \in 1..Len(Code) /\ Jumps(Code[i])
    BY DEF PlacesOf, Places, Jumps
  <1>3. PICK j \in 1..Len(Code) :
          IsLabel(Code[j]) /\ Code[j].arg = Code[i].arg /\ Together(Code, i, j)
    BY <1>1, <1>2 DEF Linked, Leads
  <1>4. \A m : m \in labels <=> m \in 1..Len(Code) /\ IsLabel(Code[m])
    BY DEF PlacesOf, Places, IsLabel
  <1>5. {m \in labels : Code[m].arg = Code[i].arg} = {j}
    BY <1>1, <1>3, <1>4 DEF Linked, LabelledOnce
  <1>6. FunctionStarts = Starts(Code)
    BY DEF FunctionStarts, PlacesOf, Places, Starts, Begins
  <1>7. SameFunction(i, j)
    BY <1>3, <1>6 DEF SameFunction, Together
  <1>8. j \in {m \in labels : Code[m].arg = Code[i].arg}
    BY <1>5
  <1> QED
    BY <1>5, <1>7, <1>8 DEF Resolves

(***************************************************************************)
(* Variables are created once.                                             *)
(***************************************************************************)
(* No function has two creations of a variable.                            *)
Single(s) ==
  \A i, j \in 1..Len(s) :
    Creates(s[i]) /\ Creates(s[j]) /\ s[i].arg = s[j].arg /\ Together(s, i, j)
      => i = j

(* The jump at place j goes back to the label at place i.                  *)
GoesBack(s, i, j) ==
  IsLabel(s[i]) /\ s[j].op = "JUMP" /\ s[i].arg = s[j].arg /\ i < j

(* No creation is between a label and a jump back to it.                   *)
Apart(s) ==
  \A i, j, m \in 1..Len(s) :
    GoesBack(s, i, j) /\ Creates(s[m]) => m < i \/ j < m

(* The same for jumps that are still to come, to the labels R.             *)
Outside(s, R) ==
  \A i, m \in 1..Len(s) :
    IsLabel(s[i]) /\ s[i].arg \in R /\ Creates(s[m]) => m < i

(* The place b in the last function is in front of every cycle that is     *)
(* still open, and in none that is over.                                   *)
InFront(s, b, R) ==
  /\ Current(s, b)
  /\ \A i \in 1..Len(s) : IsLabel(s[i]) /\ i <= b =>
       /\ s[i].arg \notin R
       /\ \A j \in 1..Len(s) : j > b => ~ GoesBack(s, i, j)

(* What a list satisfies while the cycles with the labels R are open, and  *)
(* one is around the code if nested.                                       *)
Sound(s, b, nested, R) ==
  /\ Single(s) /\ Apart(s) /\ Outside(s, R)
  /\ nested => InFront(s, b, R)

(* What was in the same function stays there, and nothing joins it.        *)
LEMMA StartsOnly ==
  ASSUME NEW s, NEW t, NEW p, NEW x, Len(s) \in Nat, p \in 0..Len(s),
         Inserted(t, s, p, x)
  PROVE  /\ \A i, j \in 1..Len(s) :
               Together(t, Shift(i, p), Shift(j, p)) => Together(s, i, j)
         /\ \A i \in 1..Len(s) : Current(t, Shift(i, p)) => Current(s, i)
  <1>1. /\ \A i \in 1..Len(s) : Shift(i, p) \in 1..Len(t) /\ t[Shift(i, p)] = s[i]
        /\ p \in Nat
    BY ShiftFacts
  <1>2. ASSUME NEW h \in Starts(s)
        PROVE  h \in 1..Len(s) /\ Shift(h, p) \in Starts(t)
    BY <1>1 DEF Starts
  <1>3. ASSUME NEW i \in 1..Len(s), NEW h \in 1..Len(s)
        PROVE  h <= i <=> Shift(h, p) <= Shift(i, p)
    BY <1>1 DEF Shift
  <1>4. ASSUME NEW i \in 1..Len(s), NEW j \in 1..Len(s),
               Together(t, Shift(i, p), Shift(j, p)), NEW h \in Starts(s)
        PROVE  h <= i <=> h <= j
    <2>1. Shift(h, p) <= Shift(i, p) <=> Shift(h, p) <= Shift(j, p)
      BY <1>2, <1>4 DEF Together
    <2> QED
      BY <1>2, <1>3, <2>1
  <1>5. ASSUME NEW i \in 1..Len(s), Current(t, Shift(i, p)), NEW h \in Starts(s)
        PROVE  h <= i
    BY <1>2, <1>3, <1>5 DEF Current
  <1> QED
    BY <1>4, <1>5 DEF Together, Current

(* One instruction: only creations are moved in front of the cycle, what   *)
(* is created is new in the function, and a jump that goes back goes to R. *)
LEMMA SoundStep ==
  ASSUME NEW s, NEW t, NEW p, NEW x, Len(s) \in Nat, p \in 0..Len(s),
         Inserted(t, s, p, x), NEW b \in 0..Len(s), NEW nested, NEW R,
         Sound(s, b, nested, R),
         x.hoist => p = b, ~ x.hoist => p = Len(s),
         nested => ~ Begins(x), x.hoist => nested /\ Creates(x),
         Creates(x) => x.hoist \/ R = {},
         Creates(x) => ~ HasVariable(s, x.arg),
         x.op = "JUMP" => x.arg \in R \/ x.arg \notin Labels(s)
  PROVE  /\ Sound(t, b, nested, R)
         /\ \A v : HasVariable(t, v) => HasVariable(s, v) \/ (Creates(x) /\ x.arg = v)
  <1> DEFINE q == p + 1
  <1>1. /\ Len(t) = Len(s) + 1 /\ t[q] = x /\ q \in 1..Len(t) /\ p \in Nat /\ b \in Nat
        /\ \A i \in 1..Len(s) : Shift(i, p) \in 1..Len(t) /\ t[Shift(i, p)] = s[i]
        /\ \A k \in 1..Len(t) : k # q => \E i \in 1..Len(s) : k = Shift(i, p)
    BY ShiftFacts
  <1>2. /\ \A i, j \in 1..Len(s) :
              Together(t, Shift(i, p), Shift(j, p)) => Together(s, i, j)
        /\ \A i \in 1..Len(s) : Current(t, Shift(i, p)) => Current(s, i)
    BY StartsOnly
  <1>3. /\ \A i, j \in 1..Len(s) : i < j <=> Shift(i, p) < Shift(j, p)
        /\ \A i \in 1..Len(s) : i <= p <=> Shift(i, p) < q
        /\ \A i \in 1..Len(s) : i > p <=> Shift(i, p) > q
        /\ \A i \in 1..Len(s) : i <= b <=> Shift(i, p) <= b
    <2>1. p = Len(s) \/ p = b
      OBVIOUS
    <2> QED
      BY <1>1, <2>1 DEF Shift
  <1>4. /\ Creates(x) => ~ IsLabel(x) /\ x.op # "JUMP" /\ ~ Begins(x)
        /\ x.op = "JUMP" => ~ IsLabel(x)
        /\ ~ Creates(x) => p = Len(s)
    BY DEF Creates, IsLabel, Begins
  <1>5. /\ Single(s) /\ Apart(s) /\ Outside(s, R)
        /\ nested => InFront(s, b, R)
    BY DEF Sound
  <1> HIDE DEF q
  <1>6. Creates(x) => Current(t, q)
    <2>1. CASE p = Len(s)
      <3>1. q = Len(t) /\ Len(t) \in Nat
        BY <1>1, <2>1 DEF q
      <3> QED
        BY <3>1, LastIsCurrent
    <2>2. CASE x.hoist /\ p = b
      <3>1. Current(s, p) /\ ~ Begins(x)
        BY <1>4, <1>5, <2>2 DEF InFront
      <3> QED
        BY <3>1, StartsShift DEF q
    <2> QED
      BY <2>1, <2>2
  <1>7. Creates(x) => \A i \in 1..Len(s) :
          Creates(s[i]) /\ s[i].arg = x.arg => ~ Current(t, Shift(i, p))
    BY <1>2 DEF HasVariable
  <1>8. Single(t)
    <2> SUFFICES ASSUME NEW i \in 1..Len(t), NEW j \in 1..Len(t),
                        Creates(t[i]), Creates(t[j]), t[i].arg = t[j].arg,
                        Together(t, i, j)
                 PROVE  i = j
      BY DEF Single
    <2>1. ASSUME NEW k \in 1..Len(t), k # q, Creates(t[k]), Creates(x),
                 t[k].arg = x.arg, Together(t, k, q) \/ Together(t, q, k)
          PROVE  FALSE
      <3>1. PICK m \in 1..Len(s) : k = Shift(m, p)
        BY <1>1, <2>1
      <3>2. Creates(s[m]) /\ s[m].arg = x.arg
        BY <1>1, <2>1, <3>1
      <3>3. Current(t, k)
        BY <1>6, <2>1 DEF Together, Current
      <3> QED
        BY <1>7, <2>1, <3>1, <3>2, <3>3
    <2>2. CASE i = q \/ j = q
      BY <1>1, <2>1, <2>2
    <2>3. CASE i # q /\ j # q
      <3>1. PICK m \in 1..Len(s), n \in 1..Len(s) : i = Shift(m, p) /\ j = Shift(n, p)
        BY <1>1, <2>3
      <3>2. t[i] = s[m] /\ t[j] = s[n] /\ Together(s, m, n)
        BY <1>1, <1>2, <3>1
      <3>3. m = n
        BY <1>5, <3>2 DEF Single
      <3> QED
        BY <3>1, <3>3
    <2> QED
      BY <2>2, <2>3
  <1>9. ASSUME NEW i \in 1..Len(t), NEW j \in 1..Len(t), GoesBack(t, i, j)
        PROVE  /\ i # q
               /\ j # q => \E k, n \in 1..Len(s) :
                    i = Shift(k, p) /\ j = Shift(n, p) /\ GoesBack(s, k, n)
               /\ j = q => \E k \in 1..Len(s) :
                    i = Shift(k, p) /\ IsLabel(s[k]) /\ s[k].arg \in R /\ ~ Creates(x)
    <2>1. IsLabel(t[i]) /\ t[j].op = "JUMP" /\ t[i].arg = t[j].arg /\ i < j
      BY <1>9 DEF GoesBack
    <2>2. i # q
      <3> SUFFICES ASSUME i = q PROVE FALSE
        OBVIOUS
      <3>1. IsLabel(x) /\ ~ Creates(x)
        BY <1>1, <1>4, <2>1
      <3>2. q = Len(t)
        BY <1>1, <1>4, <3>1 DEF q
      <3> QED
        BY <1>1, <2>1, <3>2
    <2>3. PICK k \in 1..Len(s) : i = Shift(k, p)
      BY <1>1, <2>2
    <2>4. t[i] = s[k]
      BY <1>1, <2>3
    <2>5. ASSUME j # q
          PROVE  \E n \in 1..Len(s) : j = Shift(n, p) /\ GoesBack(s, k, n)
      <3>1. PICK n \in 1..Len(s) : j = Shift(n, p)
        BY <1>1, <2>5
      <3>2. t[j] = s[n] /\ k < n
        BY <1>1, <1>3, <2>1, <2>3, <3>1
      <3> QED
        BY <2>1, <2>4, <3>1, <3>2 DEF GoesBack
    <2>6. ASSUME j = q
          PROVE  IsLabel(s[k]) /\ s[k].arg \in R /\ ~ Creates(x)
      <3>1. x.op = "JUMP" /\ s[k].arg = x.arg /\ IsLabel(s[k])
        BY <1>1, <2>1, <2>4, <2>6
      <3>2. s[k].arg \in Labels(s)
        BY <3>1, InLabels
      <3> QED
        BY <1>4, <3>1, <3>2
    <2> QED
      BY <2>2, <2>3, <2>5, <2>6
  <1>10. Apart(t)
    <2> SUFFICES ASSUME NEW i \in 1..Len(t), NEW j \in 1..Len(t), NEW m \in 1..Len(t),
                        GoesBack(t, i, j), Creates(t[m])
                 PROVE  m < i \/ j < m
      BY DEF Apart
    <2>1. CASE j = q
      <3>1. PICK k \in 1..Len(s) : i = Shift(k, p) /\ IsLabel(s[k]) /\ s[k].arg \in R
                                   /\ ~ Creates(x)
        BY <1>9, <2>1
      <3>2. PICK r \in 1..Len(s) : m = Shift(r, p)
        BY <1>1, <3>1
      <3>3. Creates(s[r])
        BY <1>1, <3>2
      <3>4. r < k
        BY <1>5, <3>1, <3>3 DEF Outside
      <3> QED
        BY <1>3, <3>1, <3>2, <3>4
    <2>2. CASE j # q
      <3>1. PICK k \in 1..Len(s), n \in 1..Len(s) :
              i = Shift(k, p) /\ j = Shift(n, p) /\ GoesBack(s, k, n)
        BY <1>9, <2>2
      <3>2. CASE m # q
        <4>1. PICK r \in 1..Len(s) : m = Shift(r, p)
          BY <1>1, <3>2
        <4>2. Creates(s[r])
          BY <1>1, <4>1
        <4>3. r < k \/ n < r
          BY <1>5, <3>1, <4>2 DEF Apart
        <4> QED
          BY <1>3, <3>1, <4>1, <4>3
      <3>3. CASE m = q
        <4>1. Creates(x)
          BY <1>1, <3>3
        <4>2. CASE p = Len(s)
          <5>1. n <= p
            BY <4>2
          <5> QED
            BY <1>3, <3>1, <3>3, <5>1
        <4>3. CASE x.hoist /\ p = b
          <5>1. InFront(s, b, R)
            BY <1>5, <4>3
          <5>2. k > p \/ n <= p
            <6> SUFFICES ASSUME k <= b, n > b PROVE FALSE
              BY <4>3
            <6>1. IsLabel(s[k])
              BY <3>1 DEF GoesBack
            <6> QED
              BY <3>1, <5>1, <6>1 DEF InFront
          <5> QED
            BY <1>3, <3>1, <3>3, <5>2
        <4> QED
          BY <4>2, <4>3
      <3> QED
        BY <3>2, <3>3
    <2> QED
      BY <2>1, <2>2
  <1>11. Outside(t, R)
    <2> SUFFICES ASSUME NEW i \in 1..Len(t), NEW m \in 1..Len(t), IsLabel(t[i]),
                        t[i].arg \in R, Creates(t[m])
                 PROVE  m < i
      BY DEF Outside
    <2>1. CASE i = q
      <3>1. IsLabel(x) /\ ~ Creates(x)
        BY <1>1, <1>4, <2>1
      <3>2. q = Len(t) /\ m # q
        BY <1>1, <1>4, <3>1 DEF q
      <3> QED
        BY <1>1, <2>1, <3>2
    <2>2. CASE i # q
      <3>1. PICK k \in 1..Len(s) : i = Shift(k, p)
        BY <1>1, <2>2
      <3>2. IsLabel(s[k]) /\ s[k].arg \in R
        BY <1>1, <3>1
      <3>3. CASE m = q
        <4>1. Creates(x) /\ R # {}
          BY <1>1, <3>2, <3>3
        <4>2. x.hoist /\ nested
          BY <4>1
        <4>3. p = b
          BY <4>2
        <4>4. k > b
          BY <1>1, <1>5, <3>2, <4>2 DEF InFront
        <4> QED
          BY <1>3, <3>1, <3>3, <4>2, <4>3, <4>4
      <3>4. CASE m # q
        <4>1. PICK r \in 1..Len(s) : m = Shift(r, p)
          BY <1>1, <3>4
        <4>2. Creates(s[r])
          BY <1>1, <4>1
        <4>3. r < k
          BY <1>5, <3>2, <4>2 DEF Outside
        <4> QED
          BY <1>3, <3>1, <4>1, <4>3
      <3> QED
        BY <3>3, <3>4
    <2> QED
      BY <2>1, <2>2
  <1>12. ASSUME nested PROVE InFront(t, b, R)
    <2>1. InFront(s, b, R) /\ ~ Begins(x)
      BY <1>5, <1>12
    <2>2. Current(t, b)
      <3>1. b \in 0..p
        BY <1>1
      <3> QED
        BY <2>1, <3>1, StartsShift DEF InFront
    <2>3. ASSUME NEW i \in 1..Len(t), IsLabel(t[i]), i <= b
          PROVE  t[i].arg \notin R /\ \A j \in 1..Len(t) : j > b => ~ GoesBack(t, i, j)
      <3>1. i # q
        BY <1>1, <2>3 DEF q
      <3>2. PICK k \in 1..Len(s) : i = Shift(k, p)
        BY <1>1, <3>1
      <3>3. t[i] = s[k] /\ IsLabel(s[k]) /\ k <= b
        BY <1>1, <1>3, <2>3, <3>2
      <3>4. s[k].arg \notin R
        BY <2>1, <3>3 DEF InFront
      <3>5. ASSUME NEW j \in 1..Len(t), j > b, GoesBack(t, i, j) PROVE FALSE
        <4>1. CASE j = q
          <5>1. PICK h \in 1..Len(s) : i = Shift(h, p) /\ s[h].arg \in R
            BY <1>9, <3>5, <4>1
          <5>2. t[i].arg \in R
            BY <1>1, <5>1
          <5> QED
            BY <3>3, <3>4, <5>2
        <4>2. CASE j # q
          <5>1. PICK h \in 1..Len(s), n \in 1..Len(s) :
                  i = Shift(h, p) /\ j = Shift(n, p) /\ GoesBack(s, h, n)
            BY <1>9, <3>5, <4>2
          <5>2. h <= b /\ n > b /\ IsLabel(s[h])
            BY <1>3, <2>3, <3>5, <5>1 DEF GoesBack
          <5> QED
            BY <2>1, <5>1, <5>2 DEF InFront
        <4> QED
          BY <4>1, <4>2
      <3> QED
        BY <3>3, <3>4, <3>5
    <2> QED
      BY <2>2, <2>3 DEF InFront
  <1>13. ASSUME NEW v, HasVariable(t, v)
         PROVE  HasVariable(s, v) \/ (Creates(x) /\ x.arg = v)
    <2>1. PICK m \in 1..Len(t) : Creates(t[m]) /\ t[m].arg = v /\ Current(t, m)
      BY <1>13 DEF HasVariable
    <2>2. CASE m = q
      BY <1>1, <2>1, <2>2
    <2>3. CASE m # q
      <3>1. PICK r \in 1..Len(s) : m = Shift(r, p)
        BY <1>1, <2>3
      <3>2. Creates(s[r]) /\ s[r].arg = v /\ Current(s, r)
        BY <1>1, <1>2, <2>1, <3>1
      <3> QED
        BY <3>2 DEF HasVariable
    <2> QED
      BY <2>2, <2>3
  <1> QED
    BY <1>8, <1>10, <1>11, <1>12, <1>13 DEF Sound

(* Code that a list stays sound with: what it creates is new in the list's *)
(* last function, and its jumps back go to R.                              *)
Orderly(code, nested, R, s) ==
  \A i \in 1..Len(code) :
    /\ nested => ~ Begins(code[i])
    /\ code[i].hoist => nested /\ Creates(code[i])
    /\ Creates(code[i]) =>
         /\ code[i].hoist \/ R = {}
         /\ ~ HasVariable(s, code[i].arg)
         /\ \A j \in 1..(i - 1) : ~ (Creates(code[j]) /\ code[j].arg = code[i].arg)
    /\ code[i].op = "JUMP" =>
         \/ code[i].arg \in R
         \/ /\ code[i].arg \notin Labels(s)
            /\ \A j \in 1..(i - 1) : ~ (IsLabel(code[j]) /\ code[j].arg = code[i].arg)

(* The labels of a list that got more code.                                *)
LEMMA LabelsOfAll ==
  ASSUME NEW l, NEW b, NEW code, Ready(l, b, code)
  PROVE  Labels(EmitAll(l, b, code).items) = Labels(l.items) \union Labels(code)
  <1> DEFINE n == Len(code)
  <1>1. n \in Nat
    BY DEF Ready
  <1>2. PICK a : /\ a[0] = l /\ EmitAll(l, b, code) = a[n]
                 /\ Insertions(a, b, code)
    BY EmitAllFacts
  <1> DEFINE Holds(k) == \A z : z \in Labels(a[k].items) <=>
                    \/ z \in Labels(l.items)
                    \/ \E j \in 1..k : IsLabel(code[j]) /\ code[j].arg = z
             S == {k \in Nat : Holds(k)}
  <1>3. Holds(0)
    BY <1>2
  <1>4. ASSUME NEW k \in 0..(n - 1), Holds(k) PROVE Holds(k + 1)
    <2> DEFINE s == a[k].items
               t == a[k + 1].items
               x == code[k + 1]
               p == PlaceOf(a[k], b, x)
    <2>1. k + 1 \in 1..n /\ (k + 1) - 1 = k /\ k \in Nat
      BY <1>1
    <2>2. Len(s) \in Nat /\ b \in 0..Len(s) /\ Inserted(t, s, p, x)
      BY <1>2, <2>1 DEF Insertions
    <2>3. p \in 0..Len(s)
      BY <2>2 DEF PlaceOf
    <2>4. \A z : z \in Labels(s) <=>
            \/ z \in Labels(l.items)
            \/ \E j \in 1..k : IsLabel(code[j]) /\ code[j].arg = z
      BY <1>4
    <2>5. \A j : j \in 1..(k + 1) <=> j \in 1..k \/ j = k + 1
      BY <2>1
    <2> HIDE DEF s, t, p
    <2>6. Labels(t) = IF IsLabel(x) THEN Labels(s) \union {x.arg} ELSE Labels(s)
      BY <2>2, <2>3, LabelsStep
    <2>7. \A z : z \in Labels(t) <=> z \in Labels(s) \/ (IsLabel(x) /\ x.arg = z)
      BY <2>6
    <2>8. \A z : z \in Labels(t) <=>
            \/ z \in Labels(l.items)
            \/ \E j \in 1..(k + 1) : IsLabel(code[j]) /\ code[j].arg = z
      BY <2>4, <2>5, <2>7
    <2> QED
      BY <2>8 DEF t
  <1>5. Holds(n)
    <2> HIDE DEF Holds
    <2>1. 0 \in S /\ \A k \in 0..(n - 1) : k \in S => k + 1 \in S
      BY <1>1, <1>3, <1>4
    <2> HIDE DEF S
    <2>2. \A k \in 0..n : k \in S
      BY <1>1, <2>1, Counting
    <2>3. n \in S
      BY <1>1, <2>2
    <2> QED
      BY <2>3 DEF S
  <1>6. \A z : z \in Labels(a[n].items) <=> z \in Labels(l.items) \/ z \in Labels(code)
    BY <1>5, OfLabels
  <1> QED
    BY <1>2, <1>6

LEMMA SoundCode ==
  ASSUME NEW l, NEW b, NEW code, Ready(l, b, code), NEW nested, NEW R,
         Sound(l.items, b, nested, R), Orderly(code, nested, R, l.items)
  PROVE  LET s == EmitAll(l, b, code).items IN
         /\ Sound(s, b, nested, R)
         /\ \A v : HasVariable(s, v) => HasVariable(l.items, v) \/ Made(code, v)
         /\ Labels(s) = Labels(l.items) \union Labels(code)
  <1> DEFINE n == Len(code)
  <1>1. n \in Nat
    BY DEF Ready
  <1>2. PICK a : /\ a[0] = l /\ EmitAll(l, b, code) = a[n]
                 /\ Insertions(a, b, code)
    BY EmitAllFacts
  <1> DEFINE Holds(k) ==
               /\ Sound(a[k].items, b, nested, R)
               /\ \A v : HasVariable(a[k].items, v) =>
                    \/ HasVariable(l.items, v)
                    \/ \E j \in 1..k : Creates(code[j]) /\ code[j].arg = v
               /\ \A z : z \in Labels(a[k].items) <=>
                    \/ z \in Labels(l.items)
                    \/ \E j \in 1..k : IsLabel(code[j]) /\ code[j].arg = z
             S == {k \in Nat : Holds(k)}
  <1>3. Holds(0)
    BY <1>2
  <1>4. ASSUME NEW k \in 0..(n - 1), Holds(k) PROVE Holds(k + 1)
    <2> DEFINE s == a[k].items
               t == a[k + 1].items
               x == code[k + 1]
               p == PlaceOf(a[k], b, x)
    <2>1. k + 1 \in 1..n /\ (k + 1) - 1 = k /\ k \in Nat
      BY <1>1
    <2>2. Len(s) \in Nat /\ b \in 0..Len(s) /\ Inserted(t, s, p, x)
      BY <1>2, <2>1 DEF Insertions
    <2>3. /\ x.hoist => p = b
          /\ ~ x.hoist => p = Len(s)
          /\ p \in 0..Len(s)
      BY <2>2 DEF PlaceOf
    <2>4. /\ nested => ~ Begins(x)
          /\ x.hoist => nested /\ Creates(x)
          /\ Creates(x) => x.hoist \/ R = {}
      BY <2>1 DEF Orderly
    <2>5. Creates(x) => ~ HasVariable(s, x.arg)
      <3>1. Creates(x) => /\ ~ HasVariable(l.items, x.arg)
                          /\ \A j \in 1..k : ~ (Creates(code[j]) /\ code[j].arg = x.arg)
        BY <2>1 DEF Orderly
      <3> QED
        BY <1>4, <3>1
    <2>6. x.op = "JUMP" => x.arg \in R \/ x.arg \notin Labels(s)
      <3>1. x.op = "JUMP" =>
              \/ x.arg \in R
              \/ /\ x.arg \notin Labels(l.items)
                 /\ \A j \in 1..k : ~ (IsLabel(code[j]) /\ code[j].arg = x.arg)
        BY <2>1 DEF Orderly
      <3> QED
        BY <1>4, <3>1
    <2>7. /\ Sound(s, b, nested, R)
          /\ \A v : HasVariable(s, v) =>
               \/ HasVariable(l.items, v)
               \/ \E j \in 1..k : Creates(code[j]) /\ code[j].arg = v
          /\ \A z : z \in Labels(s) <=>
               \/ z \in Labels(l.items)
               \/ \E j \in 1..k : IsLabel(code[j]) /\ code[j].arg = z
      BY <1>4
    <2>8. \A j : j \in 1..(k + 1) <=> j \in 1..k \/ j = k + 1
      BY <2>1
    <2> HIDE DEF s, t, p
    <2>9. /\ Sound(t, b, nested, R)
          /\ \A v : HasVariable(t, v) => HasVariable(s, v) \/ (Creates(x) /\ x.arg = v)
      BY <2>2, <2>3, <2>4, <2>5, <2>6, <2>7, SoundStep
    <2>10. \A v : HasVariable(t, v) =>
             \/ HasVariable(l.items, v)
             \/ \E j \in 1..(k + 1) : Creates(code[j]) /\ code[j].arg = v
      BY <2>7, <2>8, <2>9
    <2>11. \A z : z \in Labels(t) <=>
             \/ z \in Labels(l.items)
             \/ \E j \in 1..(k + 1) : IsLabel(code[j]) /\ code[j].arg = z
      <3>1. Labels(t) = IF IsLabel(x) THEN Labels(s) \union {x.arg} ELSE Labels(s)
        BY <2>2, <2>3, LabelsStep
      <3>2. \A z : z \in Labels(t) <=> z \in Labels(s) \/ (IsLabel(x) /\ x.arg = z)
        BY <3>1
      <3> QED
        BY <2>7, <2>8, <3>2
    <2> QED
      BY <2>9, <2>10, <2>11 DEF t
  <1>5. Holds(n)
    <2> HIDE DEF Holds
    <2>1. 0 \in S /\ \A k \in 0..(n - 1) : k \in S => k + 1 \in S
      BY <1>1, <1>3, <1>4
    <2> HIDE DEF S
    <2>2. \A k \in 0..n : k \in S
      BY <1>1, <2>1, Counting
    <2>3. n \in S
      BY <1>1, <2>2
    <2> QED
      BY <2>3 DEF S
  <1> DEFINE r == a[n].items
  <1>6. EmitAll(l, b, code).items = r
    BY <1>2
  <1>7. Labels(r) = Labels(l.items) \union Labels(code)
    <2>1. \A z : z \in Labels(r) <=> z \in Labels(l.items) \/ z \in Labels(code)
      BY <1>5, OfLabels
    <2> HIDE DEF r
    <2> QED
      BY <2>1
  <1>8. \A v : HasVariable(r, v) => HasVariable(l.items, v) \/ Made(code, v)
    BY <1>5 DEF Made
  <1>9. Sound(r, b, nested, R)
    BY <1>5
  <1> HIDE DEF r
  <1> QED
    BY <1>6, <1>7, <1>8, <1>9

(* The text's jumps lead forwards.                                         *)
LEMMA ForTextForwards ==
  ASSUME NEW uid, NEW x
  PROVE  LET t == ForText(uid, x) IN
         \A i \in 1..Len(t) : \A j \in 1..(i - 1) :
           t[i].op = "JUMP" /\ IsLabel(t[j]) => t[j].arg # t[i].arg
  <1> DEFINE t == ForText(uid, x)
             l1 == Loop("for", uid)
             l2 == Loop("step_le", uid)
             l3 == Loop("body", uid)
             e  == End(uid)
             u  == Instr("USE", <<"for", uid, x>>)
  <1>1. /\ Len(t) = 8
        /\ t[1] = u /\ t[2] = Label(l1) /\ t[3] = Jump(l2) /\ t[4] = Jump(e)
        /\ t[5] = Jump(l3) /\ t[6] = Label(l2) /\ t[7] = Jump(e) /\ t[8] = Label(l3)
    BY DEF ForText
  <1>2. l1 # l2 /\ l1 # l3 /\ l2 # l3 /\ e # l1 /\ e # l2 /\ e # l3
    BY DEF Loop, End
  <1>3. /\ \A l : IsLabel(Label(l)) /\ Label(l).arg = l /\ Label(l).op # "JUMP"
        /\ \A l : Jump(l).arg = l /\ ~ IsLabel(Jump(l))
        /\ ~ IsLabel(u) /\ u.op # "JUMP"
    BY DEF IsLabel, Label, Jump, Instr
  <1> HIDE DEF t, l1, l2, l3, e, u
  <1>4. \A i \in 1..8 : i \in {1, 2, 3, 4, 5, 6, 7, 8}
    OBVIOUS
  <1>5. /\ \A i \in 1..8 : IsLabel(t[i]) => i \in {2, 6, 8}
        /\ \A i \in 1..8 : t[i].op = "JUMP" => i \in {3, 4, 5, 7}
        /\ t[2].arg = l1 /\ t[6].arg = l2 /\ t[8].arg = l3
        /\ t[3].arg = l2 /\ t[4].arg = e /\ t[5].arg = l3 /\ t[7].arg = e
    BY <1>1, <1>3, <1>4
  <1>6. ASSUME NEW i \in 1..8, NEW j \in 1..(i - 1), t[i].op = "JUMP", IsLabel(t[j])
        PROVE  t[j].arg # t[i].arg
    <2>1. j \in {2, 6, 8} /\ i \in {3, 4, 5, 7} /\ j < i
      BY <1>5, <1>6
    <2>2. j = 2 \/ (j = 6 /\ i = 7)
      BY <2>1
    <2>3. t[i].arg \in {l2, e, l3} /\ (i = 7 => t[i].arg = e)
      BY <1>5, <2>1
    <2> QED
      BY <1>2, <1>5, <2>2, <2>3
  <1> QED
    BY <1>1, <1>6 DEF t

LEMMA OrderlyTogether ==
  ASSUME NEW c, NEW d, IsSeq(c), IsSeq(d), NEW nested, NEW R, NEW s,
         Orderly(c, nested, R, s), Orderly(d, nested, R, s),
         \A i \in 1..Len(c) : ~ Creates(c[i]),
         \A i \in 1..Len(d) : d[i].op = "JUMP" =>
                                d[i].arg \in R \/ d[i].arg \notin Labels(c)
  PROVE  Orderly(c \o d, nested, R, s)
  <1> DEFINE e == c \o d
             m == Len(c)
             Good(f, i) ==
               /\ nested => ~ Begins(f[i])
               /\ f[i].hoist => nested /\ Creates(f[i])
               /\ Creates(f[i]) =>
                    /\ f[i].hoist \/ R = {}
                    /\ ~ HasVariable(s, f[i].arg)
                    /\ \A j \in 1..(i - 1) : ~ (Creates(f[j]) /\ f[j].arg = f[i].arg)
               /\ f[i].op = "JUMP" =>
                    \/ f[i].arg \in R
                    \/ /\ f[i].arg \notin Labels(s)
                       /\ \A j \in 1..(i - 1) : ~ (IsLabel(f[j]) /\ f[j].arg = f[i].arg)
  <1>1. /\ m \in Nat /\ Len(d) \in Nat /\ Len(e) = m + Len(d)
        /\ \A i \in 1..m : e[i] = c[i]
        /\ \A i \in 1..Len(d) : e[m + i] = d[i]
    BY ConcatFacts
  <1>2. \A i \in 1..m : Good(c, i)
    BY DEF Orderly
  <1>3. \A i \in 1..Len(d) : Good(d, i)
    BY DEF Orderly
  <1>4. \A i \in 1..m : IsLabel(c[i]) => c[i].arg \in Labels(c)
    BY InLabels
  <1> HIDE DEF e, m
  <1>5. ASSUME NEW i \in 1..m PROVE Good(e, i)
    <2>1. e[i] = c[i] /\ \A j \in 1..(i - 1) : e[j] = c[j]
      BY <1>1
    <2>2. Good(c, i)
      BY <1>2
    <2> QED
      BY <2>1, <2>2
  <1>6. ASSUME NEW k \in 1..Len(d) PROVE Good(e, m + k)
    <2>1. e[m + k] = d[k] /\ Good(d, k)
      BY <1>1, <1>3
    <2>2. ASSUME NEW j \in 1..((m + k) - 1)
          PROVE  \/ j \in 1..m /\ e[j] = c[j]
                 \/ \E i \in 1..(k - 1) : e[j] = d[i]
      <3>1. CASE j <= m
        BY <1>1, <3>1
      <3>2. CASE j > m
        <4>1. j - m \in 1..(k - 1) /\ j - m \in 1..Len(d) /\ m + (j - m) = j
          BY <1>1, <3>2
        <4>2. e[j] = d[j - m]
          BY <1>1, <4>1
        <4> QED
          BY <4>1, <4>2
      <3> QED
        BY <1>1, <3>1, <3>2
    <2>3. Creates(d[k]) => \A j \in 1..((m + k) - 1) :
             ~ (Creates(e[j]) /\ e[j].arg = d[k].arg)
      BY <2>1, <2>2 DEF m
    <2>4. d[k].op = "JUMP" =>
             \/ d[k].arg \in R
             \/ /\ d[k].arg \notin Labels(s)
                /\ \A j \in 1..((m + k) - 1) : ~ (IsLabel(e[j]) /\ e[j].arg = d[k].arg)
      BY <1>4, <2>1, <2>2
    <2> QED
      BY <2>1, <2>3, <2>4
  <1>7. ASSUME NEW i \in 1..Len(e) PROVE Good(e, i)
    <2>1. CASE i <= m
      BY <1>1, <1>5, <2>1
    <2>2. CASE i > m
      <3>1. i - m \in 1..Len(d) /\ m + (i - m) = i
        BY <1>1, <2>2
      <3> QED
        BY <1>6, <3>1
    <2> QED
      BY <1>1, <2>1, <2>2
  <1> HIDE DEF Good
  <1>8. \A i \in 1..Len(e) : Good(e, i)
    BY <1>7
  <1> QED
    BY <1>8 DEF Orderly, Good, e

(* Code without regard to the list: what it creates it creates once, and   *)
(* inside the cycles R in front of them.                                   *)
Tame(code, nested, R) ==
  \A i \in 1..Len(code) :
    /\ nested => ~ Begins(code[i])
    /\ code[i].hoist => nested /\ Creates(code[i])
    /\ Creates(code[i]) =>
         /\ code[i].hoist \/ R = {}
         /\ \A j \in 1..(i - 1) : ~ (Creates(code[j]) /\ code[j].arg = code[i].arg)

(* A rule's code is added behind the text.                                 *)
LEMMA SoundText ==
  ASSUME IInv, phase = "running", ListIsSafe, TextIsForText, Linked(Code, Due),
         NEW b, NEW code, IsSeq(code), NEW nested, NEW R,
         Ready(instrListFunctions, b, WithText(code)),
         OnlyDefvars(EmitAll(instrListFunctions, b, WithText(code)).items),
         Sound(Code, b, nested, R), Orderly(code, nested, R, Code),
         \A i \in 1..Len(code) : code[i].op = "JUMP" =>
           code[i].arg \in R \/ code[i].arg \notin Labels(tmp_instr)
  PROVE  LET s == EmitAll(instrListFunctions, b, WithText(code)).items IN
         /\ Sound(s, b, nested, R)
         /\ \A v : HasVariable(s, v) => HasVariable(Code, v) \/ Made(code, v)
  <1> DEFINE l == instrListFunctions
             t == tmp_instr
             w == WithText(code)
             s == EmitAll(l, b, w).items
  <1>1. IsText(t)
    BY DEF ListIsSafe, TextIsHeader
  <1>2. IsSeq(t) /\ \A i \in 1..Len(t) : ~ Begins(t[i]) /\ ~ t[i].hoist
    BY <1>1, TextFacts
  <1>3. \A i \in 1..Len(t) : ~ Creates(t[i])
    BY <1>1 DEF IsText
  <1>4. w = code \/ w = t \o code
    BY <1>1, TextComesFirst
  <1>5. Orderly(t, nested, R, Code)
    <2>1. ASSUME NEW i \in 1..Len(t), t[i].op = "JUMP"
          PROVE  t[i].arg \notin Labels(Code)
      <3>1. t[i].arg \in Targets(t)
        BY <2>1, InLabels DEF Jumps
      <3>2. t[i].arg \in Due
        BY <3>1, TextLinks
      <3> QED
        BY <3>2 DEF Linked
    <2>2. ASSUME NEW i \in 1..Len(t), t[i].op = "JUMP",
                 NEW j \in 1..(i - 1), IsLabel(t[j])
          PROVE  t[j].arg # t[i].arg
      <3>1. t # <<>>
        BY <2>2, SeqNotEmpty, <1>2
      <3>2. PICK x : t = ForText(symstack[Depth].uid, x)
        BY <3>1 DEF TextIsForText
      <3> QED
        BY <2>2, <3>2, ForTextForwards
    <2> HIDE DEF t
    <2> QED
      BY <1>2, <1>3, <2>1, <2>2 DEF Orderly
  <1> HIDE DEF t
  <1>6. Orderly(t \o code, nested, R, Code)
    BY <1>2, <1>3, <1>5, OrderlyTogether DEF t
  <1>7. ASSUME NEW v, Made(t \o code, v) PROVE Made(code, v)
    <2> DEFINE e == t \o code
    <2>1. /\ Len(t) \in Nat /\ Len(code) \in Nat /\ Len(e) = Len(t) + Len(code)
          /\ \A i \in 1..Len(t) : e[i] = t[i]
          /\ \A i \in 1..Len(code) : e[Len(t) + i] = code[i]
      BY <1>2, ConcatFacts
    <2>2. PICK j \in 1..Len(e) : Creates(e[j]) /\ e[j].arg = v
      BY <1>7 DEF Made
    <2> HIDE DEF e
    <2>3. j > Len(t)
      BY <1>3, <2>1, <2>2
    <2>4. j - Len(t) \in 1..Len(code) /\ Len(t) + (j - Len(t)) = j
      BY <2>1, <2>3
    <2>5. e[j] = code[j - Len(t)]
      BY <2>1, <2>4
    <2> QED
      BY <2>2, <2>4, <2>5 DEF Made
  <1>8. Orderly(w, nested, R, Code) /\ \A v : Made(w, v) => Made(code, v)
    BY <1>4, <1>6, <1>7
  <1>9. l.items = Code /\ Ready(l, b, w)
    BY DEF Code
  <1> HIDE DEF w, l
  <1>10. Sound(s, b, nested, R) /\ \A v : HasVariable(s, v) => HasVariable(Code, v) \/ Made(w, v)
    BY <1>8, <1>9, SoundCode
  <1> HIDE DEF s
  <1>11. \A v : HasVariable(s, v) => HasVariable(Code, v) \/ Made(code, v)
    BY <1>8, <1>10
  <1> QED
    BY <1>10, <1>11 DEF s, w, l

(***************************************************************************)
(* The invariant.                                                          *)
(***************************************************************************)
(* The labels that the ends of the open cycles jump back to.               *)
OpenBacks == {Back(k) : k \in {j \in 2..Depth : calls[j].proc \in LoopProcs}}

(* The variable v cannot be created once more in the function that is      *)
(* read: its header is over, its scope's id was given, and the scope, if   *)
(* it is open, has its name.                                               *)
VarPast(v) ==
  /\ v[1] = "return" => calls[Len(calls)].proc \notin HeaderProcs
  /\ v[1] # "return" => v[2] \in Nat /\ v[2] < unique_id
  /\ v[1] = "var" => \A k \in 2..Len(symstack) :
                       symstack[k].uid = v[2] => v[3] \in symstack[k].table

(* VariablesCreatedOnce, with what makes it inductive.                     *)
OnceInv ==
  OnlyDefvarsAreMoved =>
    /\ Single(Code) /\ Apart(Code)
    /\ phase = "prolog" =>
         \A i \in 1..Len(Code) : ~ Creates(Code[i]) /\ ~ IsLabel(Code[i])
    /\ phase = "running" =>
         /\ Sound(Code, before_loop_start, in_loop, OpenBacks)
         /\ \A v : HasVariable(Code, v) => VarPast(v)

LEMMA InBacks ==
  ASSUME NEW a
  PROVE  /\ a \in OpenBacks <=>
              \E k \in 2..Depth : calls[k].proc \in LoopProcs /\ a = Back(k)
         /\ a \in OpenBacks' <=>
              \E k \in 2..Len(calls') : calls'[k].proc \in LoopProcs /\ a = Back(k)'
  BY DEF OpenBacks, Depth

LEMMA SoundWithin ==
  ASSUME NEW s, NEW b, NEW n, NEW R, Sound(s, b, n, R), NEW Q, Q \subseteq R
  PROVE  Sound(s, b, n, Q)
  BY DEF Sound, Outside, InFront

(* A rule's code is added, and so is the text.                             *)
LEMMA OnceNext ==
  ASSUME IInv, phase = "running", phase' = "running", ListIsSafe,
         LinksInv, LinksInv', OnceInv, OnlyDefvarsAreMoved',
         NEW b, NEW code, IsSeq(code), NEW R,
         Grows(instrListFunctions, b, WithText(code)),
         OnlyDefvarsAreMoved => Sound(Code, b, in_loop', R),
         OpenBacks' \subseteq R, Tame(code, in_loop', R),
         OnlyDefvarsAreMoved =>
           \A i \in 1..Len(code) : Creates(code[i]) => ~ HasVariable(Code, code[i].arg),
         \A i \in 1..Len(code) : code[i].op = "JUMP" =>
           code[i].arg \in R \/ code[i].arg \in Due',
         \A v : VarPast(v) => VarPast(v)',
         \A v : Made(code, v) => VarPast(v)'
  PROVE  OnceInv'
  <1> DEFINE l == instrListFunctions
             w == WithText(code)
             s == EmitAll(l, b, w).items
  <1>1. Code' = s /\ before_loop_start' = b /\ Ready(l, b, w)
    BY DEF Grows, Code
  <1>2. OnlyDefvars(s)
    BY <1>1, OnlyDefvarsMeans
  <1>3. IsText(tmp_instr)
    BY DEF ListIsSafe, TextIsHeader
  <1>4. OnlyDefvarsAreMoved
    BY <1>1, <1>2, <1>3, TextComesFirst, OnlyDefvarsMeans DEF Code
  <1>5. Due' \intersect Labels(s) = {}
    BY <1>1 DEF LinksInv, Linked
  <1>6. TextIsForText /\ Linked(Code, Due)
    BY DEF LinksInv
  <1>7. Len(code) > 0 => Labels(w) = Labels(tmp_instr) \union Labels(code)
    BY <1>3, LabelsWithText
  <1>8. Sound(Code, b, in_loop', R)
    BY <1>4
  <1>9. Len(code) > 0 =>
          /\ Labels(Code) \subseteq Labels(s) /\ Labels(tmp_instr) \subseteq Labels(s)
          /\ Labels(code) \subseteq Labels(s)
    <2>1. Labels(s) = Labels(l.items) \union Labels(w)
      BY <1>1, LabelsOfAll
    <2> QED
      BY <1>7, <2>1 DEF Code
  <1>10. ASSUME NEW i \in 1..Len(code), code[i].op = "JUMP", code[i].arg \notin R
         PROVE  /\ code[i].arg \notin Labels(tmp_instr) /\ code[i].arg \notin Labels(Code)
                /\ \A j \in 1..(i - 1) : ~ (IsLabel(code[j]) /\ code[j].arg = code[i].arg)
    <2>1. code[i].arg \notin Labels(s) /\ Len(code) > 0 /\ Len(code) \in Nat
      BY <1>5, <1>10, SeqNotEmpty
    <2>2. ASSUME NEW j \in 1..(i - 1), IsLabel(code[j]) PROVE code[j].arg # code[i].arg
      <3>1. j \in 1..Len(code)
        BY <2>1
      <3>2. code[j].arg \in Labels(code)
        BY <2>2, <3>1, InLabels
      <3> QED
        BY <1>9, <2>1, <3>2
    <2> QED
      BY <1>9, <2>1, <2>2
  <1>11. Orderly(code, in_loop', R, Code)
    BY <1>4, <1>10 DEF Orderly, Tame
  <1>12. /\ Sound(s, b, in_loop', R)
         /\ \A v : HasVariable(s, v) => HasVariable(Code, v) \/ Made(code, v)
    <2>1. \A i \in 1..Len(code) : code[i].op = "JUMP" =>
            code[i].arg \in R \/ code[i].arg \notin Labels(tmp_instr)
      BY <1>10
    <2> QED
      BY <1>1, <1>2, <1>6, <1>8, <1>11, <2>1, SoundText
  <1> HIDE DEF s
  <1>13. \A v : HasVariable(s, v) => VarPast(v)'
    BY <1>4, <1>12 DEF OnceInv
  <1>14. Sound(s, b, in_loop', OpenBacks')
    BY <1>12, SoundWithin
  <1>15. Single(s) /\ Apart(s)
    BY <1>14 DEF Sound
  <1> QED
    BY <1>1, <1>13, <1>14, <1>15 DEF OnceInv

(* Frames that were there keep their ids and names, and others have new    *)
(* ids.                                                                    *)
KeepsNames ==
  /\ unique_id \in Nat /\ unique_id' \in Nat /\ unique_id <= unique_id'
  /\ calls[Len(calls)].proc \notin HeaderProcs
       => calls'[Len(calls')].proc \notin HeaderProcs
  /\ \A k \in 2..Len(symstack') :
       \/ symstack'[k].uid = unique_id
       \/ /\ k <= Len(symstack) /\ symstack'[k].uid = symstack[k].uid
          /\ symstack[k].table \subseteq symstack'[k].table

LEMMA VarKept ==
  ASSUME KeepsNames, Len(symstack) \in Nat, NEW v, VarPast(v)
  PROVE  VarPast(v)'
  <1>1. v[1] # "return" => v[2] \in Nat /\ v[2] < unique_id /\ v[2] < unique_id'
    BY DEF KeepsNames, VarPast
  <1>2. ASSUME v[1] = "var", NEW k \in 2..Len(symstack'), symstack'[k].uid = v[2]
        PROVE  v[3] \in symstack'[k].table
    <2>1. v[2] # unique_id
      BY <1>1, <1>2 DEF KeepsNames
    <2>2. /\ k \in 2..Len(symstack) /\ symstack[k].uid = v[2]
          /\ symstack[k].table \subseteq symstack'[k].table
      BY <1>2, <2>1 DEF KeepsNames
    <2> QED
      BY <1>2, <2>2 DEF VarPast
  <1>3. v[1] = "return" => calls'[Len(calls')].proc \notin HeaderProcs
    BY DEF KeepsNames, VarPast
  <1> QED
    BY <1>1, <1>2, <1>3 DEF VarPast

(* The cycles that are open were open.                                     *)
LEMMA BacksWithin ==
  ASSUME Depth \in Nat,
         \A k \in 2..Len(calls') : calls'[k].proc \in LoopProcs =>
           /\ k <= Depth /\ calls'[k].proc = calls[k].proc
           /\ symstack'[k].uid = symstack[k].uid
  PROVE  OpenBacks' \subseteq OpenBacks
  <1> SUFFICES ASSUME NEW a, a \in OpenBacks' PROVE a \in OpenBacks
    OBVIOUS
  <1>1. PICK k \in 2..Len(calls') : calls'[k].proc \in LoopProcs /\ a = Back(k)'
    BY InBacks
  <1>2. /\ k \in 2..Depth /\ calls'[k].proc = calls[k].proc
        /\ symstack'[k].uid = symstack[k].uid
    BY <1>1
  <1>3. Back(k)' = Back(k)
    BY <1>2 DEF Back
  <1> QED
    BY <1>1, <1>2, <1>3, InBacks

(* No cycle is open.                                                       *)
LEMMA NoBacks ==
  ASSUME SignaturesInv, LoopsInv, phase = "running", ~ in_loop \/ Top.proc \in HeaderProcs
  PROVE  OpenBacks = {}
  <1> SUFFICES ASSUME NEW k \in 2..Depth, calls[k].proc \in LoopProcs PROVE FALSE
    BY DEF OpenBacks
  <1>1. /\ Depth \in Nat \ {0} /\ Len(symstack) = Depth
        /\ symstack[k].type = ScopeOf(calls[k].proc) /\ Top = calls[Depth]
    BY DepthFacts DEF LoopsInv
  <1>2. CASE ~ in_loop
    <2>1. symstack[k].type \in LoopScopes
      BY <1>1, ScopeOfEach DEF LoopProcs, LoopScopes
    <2>2. k \in OpenLoops(symstack)
      BY <1>1, <2>1 DEF OpenLoops
    <2> QED
      BY <1>2, <2>2 DEF LoopsInv, OuterLoopIsRemembered
  <1>3. CASE Top.proc \in HeaderProcs
    <2>1. \A i \in 2..Depth :
            /\ calls[i].proc \in HeaderProcs \union {"function_definition"} <=> i = 2
            /\ calls[i].proc \in HeaderProcs => i = Depth
      BY DEF SignaturesInv, NamesInv, FunctionAtBottom, Depth
    <2>2. Depth \in 2..Depth
      BY <1>1
    <2>3. Depth = 2 /\ k = 2
      BY <1>1, <1>3, <2>1, <2>2
    <2> QED
      BY <1>1, <1>3, <2>3 DEF HeaderProcs, LoopProcs
  <1> QED
    BY <1>2, <1>3

(* Code without creations.                                                 *)
Quiet(x) == ~ Begins(x) /\ ~ Creates(x) /\ ~ x.hoist

LEMMA OnceQuiet ==
  ASSUME IInv, phase = "running", phase' = "running", ListIsSafe,
         LinksInv, LinksInv', OnceInv, OnlyDefvarsAreMoved',
         NEW b, NEW code, IsSeq(code), NEW R,
         Grows(instrListFunctions, b, WithText(code)),
         OnlyDefvarsAreMoved => Sound(Code, b, in_loop', R),
         OpenBacks' \subseteq R,
         \A i \in 1..Len(code) : Quiet(code[i]),
         \A i \in 1..Len(code) : code[i].op = "JUMP" =>
           code[i].arg \in R \/ code[i].arg \in Due',
         KeepsNames
  PROVE  OnceInv'
  <1>1. Tame(code, in_loop', R) /\ \A i \in 1..Len(code) : ~ Creates(code[i])
    BY DEF Tame, Quiet
  <1>2. \A v : ~ Made(code, v)
    BY <1>1 DEF Made
  <1>3. Len(symstack) \in Nat
    BY DepthFacts
  <1>4. \A v : VarPast(v) => VarPast(v)'
    BY <1>3, VarKept
  <1> QED
    BY <1>1, <1>2, <1>4, OnceNext

LEMMA QuietKinds ==
  /\ Quiet(Other) /\ Other.op # "JUMP"
  /\ \A l : \A op \in {"MOVE", "USE", "BREAK", "RETURN"} :
       Quiet(Instr(op, l)) /\ Instr(op, l).op # "JUMP"
  /\ \A l : Quiet(Jump(l)) /\ Jump(l).arg = l
  /\ \A l : l[1] # "func" => Quiet(Label(l)) /\ Label(l).op # "JUMP"
  BY DEF Quiet, Begins, Creates, Other, Jump, Label, Instr

LEMMA QuietLabels ==
  /\ \A uid : LET x == Label(End(uid)) IN Quiet(x) /\ x.op # "JUMP"
  /\ \A uid : LET x == Label(IfEnd(uid)) IN Quiet(x) /\ x.op # "JUMP"
  /\ \A uid, n : LET x == Label(If(uid, n)) IN Quiet(x) /\ x.op # "JUMP"
  /\ \A f : LET x == Label(FuncEnd(f)) IN Quiet(x) /\ x.op # "JUMP"
  /\ \A uid : \A k \in {"while", "repeat", "for", "step_le", "body"} :
       LET x == Label(Loop(k, uid)) IN Quiet(x) /\ x.op # "JUMP"
  BY QuietKinds DEF End, IfEnd, If, FuncEnd, Loop

(* Statements.                                                             *)
LEMMA OnceStays ==
  ASSUME IInv, phase = "running", phase' = "running", ListIsSafe,
         LinksInv, LinksInv', OnceInv, OnlyDefvarsAreMoved', CodeStays \/ CodeDeclares
  PROVE  OnceInv'
  <1>1. /\ Depth \in Nat \ {0} /\ Len(symstack) = Depth /\ unique_id \in Nat
    BY DepthFacts, UidIsNat
  <1>2. KeepsNames /\ OpenBacks' \subseteq OpenBacks /\ UNCHANGED in_loop
    <2>1. CASE CodeStays
      <3>1. UNCHANGED <<calls, symstack, unique_id, in_loop>>
        BY <2>1 DEF CodeStays, Stays, loops
      <3> QED
        BY <1>1, <3>1, BacksWithin DEF KeepsNames, Depth
    <2>2. CASE CodeDeclares
      <3>1. PICK f \in Names, sig \in Signatures : Declares(f, sig)
        BY <2>2 DEF CodeDeclares
      <3>2. /\ Depth = 1 /\ Len(symstack') = 1 /\ UNCHANGED <<in_loop, calls>>
            /\ unique_id' = unique_id
        BY <3>1 DEF Declares, Puts, loops
      <3>3. Len(calls') = 1
        BY <3>2 DEF Depth
      <3>4. OpenBacks' \subseteq OpenBacks
        BY <3>2, <3>3, BacksWithin
      <3> QED
        BY <1>1, <3>2, <3>4 DEF KeepsNames
    <2> QED
      BY <2>1, <2>2
  <1>3. OnlyDefvarsAreMoved => Sound(Code, before_loop_start, in_loop', OpenBacks)
    BY <1>2 DEF OnceInv
  <1>4. ASSUME NEW code, IsSeq(code), Here(code), \A i \in 1..Len(code) : Quiet(code[i]),
               \A i \in 1..Len(code) : code[i].op # "JUMP"
        PROVE  OnceInv'
    BY <1>2, <1>3, <1>4, OnceQuiet DEF Here
  <1>5. ASSUME NEW c \in {"MOVE", "RETURN"}, NEW l,
               Here(<<Other, Instr(c, l)>>)
        PROVE  OnceInv'
    <2> DEFINE o == Other
               x == Instr(c, l)
               code == <<o, x>>
    <2>1. Quiet(o) /\ Quiet(x) /\ o.op # "JUMP" /\ x.op # "JUMP"
      BY QuietKinds
    <2> HIDE DEF o, x
    <2>2. IsSeq(code) /\ \A i \in 1..Len(code) : code[i] \in {o, x}
      <3>1. \A i \in 1..2 : i \in {1, 2}
        OBVIOUS
      <3>2. Len(code) = 2 /\ code[1] = o /\ code[2] = x
        OBVIOUS
      <3> QED
        BY <3>1, <3>2, TupleFacts
    <2> HIDE DEF code
    <2>3. Here(code)
      BY <1>5 DEF code, o, x
    <2> QED
      BY <1>4, <2>1, <2>2, <2>3
  <1>6. ASSUME NEW l, Here(<<Instr("BREAK", l)>>) PROVE OnceInv'
    <2> DEFINE x == Instr("BREAK", l)
               code == <<x>>
    <2>1. Quiet(x) /\ x.op # "JUMP"
      BY QuietKinds
    <2> HIDE DEF x
    <2>2. IsSeq(code) /\ \A i \in 1..Len(code) : code[i] = x
      <3>1. \A i \in 1..1 : i = 1
        OBVIOUS
      <3>2. Len(code) = 1 /\ code[1] = x
        OBVIOUS
      <3> QED
        BY <3>1, <3>2, TupleFacts
    <2> HIDE DEF code
    <2>3. Here(code)
      BY <1>6 DEF code, x
    <2> QED
      BY <1>4, <2>1, <2>2, <2>3
  <1>7. ASSUME Here(<<>>) PROVE OnceInv'
    <2>1. IsSeq(<<>>)
      BY TupleFacts
    <2>2. Len(<<>>) = 0
      OBVIOUS
    <2>3. \A i \in 1..Len(<<>>) : FALSE
      BY <2>2
    <2> QED
      BY <1>4, <1>7, <2>1, <2>3
  <1> QED
    BY <1>5, <1>6, <1>7 DEF CodeStays, CodeDeclares

(***************************************************************************)
(* The steps that create a variable.                                       *)
(***************************************************************************)
LEMMA OncePuts ==
  ASSUME SignaturesInv, LoopsInv, phase = "running", phase' = "running", ListIsSafe,
         LinksInv, LinksInv', OnceInv, OnlyDefvarsAreMoved',
         CodeTakesParameter \/ CodeAddsVariable
  PROVE  OnceInv'
  <1>1. IInv
    BY DEF LoopsInv
  <1>2. /\ Depth \in Nat \ {0} /\ Len(symstack) = Depth /\ unique_id \in Nat
        /\ SS_Head(symstack) = symstack[Depth] /\ Top = calls[Depth]
        /\ \A i \in 1..Depth : symstack[i] \in Frames
    BY <1>1, DepthFacts, UidIsNat
  <1>3. PICK uid \in Nat : uid = symstack[Depth].uid
    BY <1>2 DEF Frames
  <1>4. uid < unique_id
    BY <1>2, <1>3 DEF LoopsInv, IdsIncrease
  <1>5. ASSUME NEW x, Depth >= 2, ~ IsTaken(x), Puts(x), UNCHANGED in_loop,
               calls[Depth].proc \notin HeaderProcs
                 => calls'[Len(calls')].proc \notin HeaderProcs,
               OpenBacks' \subseteq OpenBacks,
               NEW code, IsSeq(code), Here(code),
               Tame(code, in_loop', OpenBacks),
               \A i \in 1..Len(code) : Creates(code[i]) => code[i].arg = Var(uid, x),
               \A i \in 1..Len(code) : code[i].op # "JUMP"
        PROVE  OnceInv'
    <2> DEFINE v0 == Var(uid, x)
    <2>1. v0[1] = "var" /\ v0[2] = uid /\ v0[3] = x
      BY DEF Var
    <2>2. /\ unique_id' = unique_id /\ Len(symstack') = Depth
          /\ \A k \in 1..(Depth - 1) : symstack'[k] = symstack[k]
          /\ symstack'[Depth].uid = symstack[Depth].uid
          /\ symstack'[Depth].table = symstack[Depth].table \union {x}
      BY <1>5 DEF Puts, KeepsFrames
    <2>3. KeepsNames
      <3>1. ASSUME NEW k \in 2..Len(symstack')
            PROVE  /\ k <= Len(symstack) /\ symstack'[k].uid = symstack[k].uid
                   /\ symstack[k].table \subseteq symstack'[k].table
        <4>1. CASE k = Depth
          BY <1>2, <2>2, <4>1
        <4>2. CASE k # Depth
          <5>1. k \in 1..(Depth - 1)
            BY <1>2, <2>2, <4>2
          <5> QED
            BY <1>2, <2>2, <5>1
        <4> QED
          BY <4>1, <4>2
      <3> QED
        BY <1>2, <1>5, <2>2, <3>1 DEF KeepsNames, Depth
    <2>4. \A v : VarPast(v) => VarPast(v)'
      BY <1>2, <2>3, VarKept
    <2>5. ~ VarPast(v0)
      <3>1. x \notin symstack[Depth].table
        BY <1>2, <1>5 DEF IsTaken, LocalTable
      <3>2. Depth \in 2..Len(symstack)
        BY <1>2, <1>5
      <3> HIDE DEF v0
      <3> QED
        BY <1>3, <2>1, <3>1, <3>2 DEF VarPast
    <2>6. VarPast(v0)'
      <3>1. ASSUME NEW k \in 2..Len(symstack'), symstack'[k].uid = uid
            PROVE  x \in symstack'[k].table
        <4>1. CASE k = Depth
          BY <2>2, <4>1
        <4>2. CASE k # Depth
          <5>1. k \in 1..(Depth - 1) /\ k \in 1..Len(symstack)
            BY <1>2, <2>2, <4>2
          <5>2. symstack[k].uid = uid
            BY <2>2, <3>1, <5>1
          <5>3. symstack[k].uid < symstack[Depth].uid
            BY <1>2, <5>1 DEF LoopsInv, IdsIncrease
          <5> QED
            BY <1>3, <5>2, <5>3
        <4> QED
          BY <4>1, <4>2
      <3> HIDE DEF v0
      <3> QED
        BY <1>4, <2>1, <2>2, <3>1 DEF VarPast
    <2> HIDE DEF v0
    <2>7. \A v : Made(code, v) => v = v0
      BY <1>5 DEF Made, v0
    <2>8. OnlyDefvarsAreMoved =>
            \A i \in 1..Len(code) : Creates(code[i]) => ~ HasVariable(Code, code[i].arg)
      BY <1>5, <2>5 DEF OnceInv, v0
    <2>9. OnlyDefvarsAreMoved => Sound(Code, before_loop_start, in_loop', OpenBacks)
      BY <1>5 DEF OnceInv
    <2>10. \A v : Made(code, v) => VarPast(v)'
      BY <2>6, <2>7
    <2> QED
      BY <1>1, <1>5, <2>4, <2>8, <2>9, <2>10, OnceNext DEF Here
  <1>6. ASSUME NEW x \in Names, NEW t \in Types, TakesParameter(x, t), Here(Param(x))
        PROVE  OnceInv'
    <2> DEFINE d == Instr("DEFVAR", Var(uid, x))
               m == Instr("MOVE", Var(uid, x))
    <2>1. /\ Creates(d) /\ d.arg = Var(uid, x) /\ ~ d.hoist /\ ~ Begins(d) /\ d.op # "JUMP"
          /\ ~ Creates(m) /\ ~ m.hoist /\ ~ Begins(m) /\ m.op # "JUMP"
      BY DEF Instr, Creates, Begins
    <2>2. Param(x) = <<d, m>>
      BY <1>2, <1>3 DEF Param
    <2> HIDE DEF d, m
    <2>3. OpenBacks = {}
      BY <1>6, NoBacks DEF TakesParameter
    <2>4. Tame(<<d, m>>, in_loop', OpenBacks)
      <3>1. \A i \in 1..Len(<<d, m>>) : i \in {1, 2}
        OBVIOUS
      <3>2. <<d, m>>[1] = d /\ <<d, m>>[2] = m /\ \A j \in 1..(1 - 1) : FALSE
        OBVIOUS
      <3> QED
        BY <2>1, <2>3, <3>1, <3>2 DEF Tame
    <2>5. IsSeq(<<d, m>>)
      BY TupleFacts
    <2>6. Depth >= 2 /\ Puts(x) /\ UNCHANGED in_loop /\ ~ IsTaken(x)
          /\ Top.proc \in HeaderProcs /\ Becomes("other_funparams")
      BY <1>6 DEF TakesParameter, loops
    <2>7. OpenBacks' \subseteq OpenBacks
      <3>1. "other_funparams" \notin LoopProcs
        BY DEF LoopProcs
      <3> QED
        BY <1>2, <2>6, <3>1, BacksWithin DEF Becomes, KeepsCalls, Puts, KeepsFrames
    <2>8. \A i \in 1..Len(<<d, m>>) :
            /\ Creates(<<d, m>>[i]) => <<d, m>>[i].arg = Var(uid, x)
            /\ <<d, m>>[i].op # "JUMP"
      BY <2>1
    <2> QED
      BY <1>2, <1>5, <1>6, <2>2, <2>4, <2>5, <2>6, <2>7, <2>8
  <1>7. ASSUME NEW v
        PROVE  \A code \in {VariableCode(v), DeclareCode(v)} :
                 /\ IsSeq(code) /\ Tame(code, in_loop', IF in_loop' THEN OpenBacks ELSE {})
                 /\ \A i \in 1..Len(code) :
                      (Creates(code[i]) => code[i].arg = v) /\ code[i].op # "JUMP"
    <2> DEFINE d == Defvar(v)
               m == Instr("MOVE", v)
               o == Other
    <2>1. /\ Creates(d) /\ d.arg = v /\ d.hoist = in_loop' /\ ~ Begins(d) /\ d.op # "JUMP"
          /\ ~ Creates(m) /\ ~ m.hoist /\ ~ Begins(m) /\ m.op # "JUMP"
          /\ ~ Creates(o) /\ ~ o.hoist /\ ~ Begins(o) /\ o.op # "JUMP"
      BY DefvarFacts DEF Instr, Creates, Begins, Other
    <2>2. VariableCode(v) = <<o, d, m>> /\ DeclareCode(v) = <<d, m>>
      BY DEF VariableCode, DeclareCode
    <2> HIDE DEF d, m, o
    <2>3. ASSUME NEW code \in {<<o, d, m>>, <<d, m>>}
          PROVE  /\ \A i \in 1..Len(code) :
                      code[i] \in {o, d, m} /\ (code[i] = d => \A j \in 1..(i - 1) : code[j] = o)
                 /\ IsSeq(code)
      <3>0. d # m /\ d # o
        BY <2>1
      <3>1. CASE code = <<o, d, m>>
        <4>1. Len(code) = 3 /\ code[1] = o /\ code[2] = d /\ code[3] = m
          BY <3>1
        <4>2. \A i \in 1..3 : i \in {1, 2, 3}
          OBVIOUS
        <4>3. \A j \in 1..(2 - 1) : j = 1
          OBVIOUS
        <4> QED
          BY <3>0, <3>1, <4>1, <4>2, <4>3, TupleFacts
      <3>2. CASE code = <<d, m>>
        <4>1. Len(code) = 2 /\ code[1] = d /\ code[2] = m
          BY <3>2
        <4>2. \A i \in 1..2 : i \in {1, 2}
          OBVIOUS
        <4>3. \A j \in 1..(1 - 1) : FALSE
          OBVIOUS
        <4> QED
          BY <3>0, <3>2, <4>1, <4>2, <4>3, TupleFacts
      <3> QED
        BY <3>1, <3>2
    <2>4. ASSUME NEW code \in {<<o, d, m>>, <<d, m>>}
          PROVE  /\ Tame(code, in_loop', IF in_loop' THEN OpenBacks ELSE {})
                 /\ \A i \in 1..Len(code) :
                      (Creates(code[i]) => code[i].arg = v) /\ code[i].op # "JUMP"
      <3>1. \A i \in 1..Len(code) :
              code[i] \in {o, d, m} /\ (code[i] = d => \A j \in 1..(i - 1) : code[j] = o)
        BY <2>3
      <3>2. \A i \in 1..Len(code) : Creates(code[i]) => code[i] = d
        BY <2>1, <3>1
      <3>3. \A i \in 1..Len(code) : ~ Begins(code[i]) /\ code[i].op # "JUMP"
                                    /\ (code[i].hoist => in_loop' /\ Creates(code[i]))
        BY <2>1, <3>1
      <3>4. ASSUME NEW i \in 1..Len(code), Creates(code[i])
            PROVE  /\ code[i].hoist \/ (IF in_loop' THEN OpenBacks ELSE {}) = {}
                   /\ \A j \in 1..(i - 1) : ~ Creates(code[j])
        BY <2>1, <3>1, <3>2, <3>4
      <3> QED
        BY <2>1, <3>2, <3>3, <3>4 DEF Tame
    <2> QED
      BY <2>2, <2>3, <2>4
  <1>8. ASSUME NEW x \in Names, AddsVariable(x),
               \/ Here(VariableCode(Var(uid, x)))
               \/ Here(DeclareCode(Var(uid, x)))
        PROVE  OnceInv'
    <2>1. Depth >= 2 /\ Puts(x) /\ UNCHANGED <<calls, in_loop>> /\ ~ IsTaken(x)
      BY <1>8 DEF AddsVariable, loops
    <2>2. OpenBacks' \subseteq OpenBacks
      <3>1. Len(calls') = Depth
        BY <2>1 DEF Depth
      <3>2. \A k \in 2..Depth : symstack'[k].uid = symstack[k].uid
        <4>1. ASSUME NEW k \in 2..Depth, k # Depth PROVE symstack'[k] = symstack[k]
          <5>1. k \in 1..(Depth - 1)
            BY <1>2, <4>1
          <5> QED
            BY <2>1, <5>1 DEF Puts, KeepsFrames
        <4> QED
          BY <2>1, <4>1 DEF Puts
      <3> QED
        BY <1>2, <2>1, <3>1, <3>2, BacksWithin
    <2>3. (IF in_loop' THEN OpenBacks ELSE {}) = OpenBacks
      BY <2>1, NoBacks
    <2>4. calls'[Len(calls')] = calls[Depth]
      BY <2>1 DEF Depth
    <2>5. PICK code \in {VariableCode(Var(uid, x)), DeclareCode(Var(uid, x))} : Here(code)
      BY <1>8
    <2>6. /\ IsSeq(code) /\ Tame(code, in_loop', OpenBacks)
          /\ \A i \in 1..Len(code) :
               (Creates(code[i]) => code[i].arg = Var(uid, x)) /\ code[i].op # "JUMP"
      BY <1>7, <2>3, <2>5
    <2> QED
      BY <1>5, <2>1, <2>2, <2>4, <2>5, <2>6
  <1> QED
    BY <1>2, <1>3, <1>6, <1>8 DEF CodeTakesParameter, CodeAddsVariable

(* A function's header is over: its return values' variables are created.  *)
LEMMA ReturnCode ==
  ASSUME NEW n \in Nat
  PROVE  LET e == ReturnDefvars(n) \o <<Other>> IN
         /\ IsSeq(e) /\ Len(e) = n + 1 /\ e[n + 1] = Other
         /\ \A i \in 1..n : e[i] = Instr("DEFVAR", <<"return", i, NoName>>)
  <1> DEFINE D(i) == Instr("DEFVAR", <<"return", i, NoName>>)
             c == ReturnDefvars(n)
             d == <<Other>>
  <1>1. c = [i \in 1..n |-> D(i)]
    BY DEF ReturnDefvars
  <1>2. d[1] = Other /\ 1 \in 1..1
    OBVIOUS
  <1>3. IsSeq(d) /\ Len(d) = 1
    BY TupleFacts
  <1> HIDE DEF c, D, d
  <1>4. c \in Seq({D(i) : i \in 1..n}) /\ Len(c) = n /\ \A i \in 1..n : c[i] = D(i)
    BY <1>1
  <1>5. IsSeq(c)
    BY <1>4 DEF IsSeq
  <1> DEFINE e == c \o d
  <1>6. /\ IsSeq(e) /\ Len(e) = Len(c) + Len(d)
        /\ \A i \in 1..Len(c) : e[i] = c[i]
        /\ \A i \in 1..Len(d) : e[Len(c) + i] = d[i]
    <2>1. IsSeq(c) /\ IsSeq(d)
      BY <1>3, <1>5
    <2> QED
      BY ONLY <2>1, ConcatFacts DEF e
  <1> HIDE DEF e
  <1>7. /\ IsSeq(e) /\ Len(e) = n + 1 /\ e[n + 1] = Other /\ \A i \in 1..n : e[i] = D(i)
    BY <1>2, <1>3, <1>4, <1>6
  <1> QED
    BY <1>7 DEF e, c, d, D

LEMMA ReturnVariables ==
  ASSUME NEW n \in Nat, NEW e, IsSeq(e), Len(e) = n + 1, e[n + 1] = Other,
         \A i \in 1..n : e[i] = Instr("DEFVAR", <<"return", i, NoName>>)
  PROVE  /\ \A nested : Tame(e, nested, {})
         /\ \A i \in 1..Len(e) : /\ Creates(e[i]) => e[i].arg[1] = "return"
                                 /\ e[i].op # "JUMP"
  <1> DEFINE a(i) == <<"return", i, NoName>>
             D(i) == Instr("DEFVAR", a(i))
  <1>1. \A i : /\ Creates(D(i)) /\ D(i).arg = a(i) /\ ~ D(i).hoist /\ ~ Begins(D(i))
               /\ D(i).op # "JUMP"
    BY DEF Creates, Begins, Instr
  <1>2. \A i : a(i)[1] = "return" /\ a(i)[2] = i
    OBVIOUS
  <1>3. ~ Creates(Other) /\ ~ Other.hoist /\ ~ Begins(Other) /\ Other.op # "JUMP"
    BY DEF Other, Instr, Creates, Begins
  <1>4. \A i \in 1..n : e[i] = D(i)
    OBVIOUS
  <1> HIDE DEF a, D
  <1>5. \A i \in 1..Len(e) : i \in 1..n \/ i = n + 1
    OBVIOUS
  <1>6. ASSUME NEW i \in 1..Len(e)
        PROVE  /\ ~ e[i].hoist /\ ~ Begins(e[i]) /\ e[i].op # "JUMP"
               /\ Creates(e[i]) => i \in 1..n /\ e[i].arg = a(i)
    <2>1. CASE i \in 1..n
      BY <1>1, <1>4, <2>1
    <2>2. CASE i = n + 1
      BY <1>3, <2>2
    <2> QED
      BY <1>5, <2>1, <2>2
  <1>7. ASSUME NEW i \in 1..Len(e), Creates(e[i]), NEW j \in 1..(i - 1), Creates(e[j])
        PROVE  e[j].arg # e[i].arg
    <2>1. j \in 1..Len(e) /\ j # i
      OBVIOUS
    <2>2. e[i].arg[2] = i /\ e[j].arg[2] = j
      BY <1>2, <1>6, <1>7, <2>1
    <2> QED
      BY <2>1, <2>2
  <1>8. \A nested : Tame(e, nested, {})
    BY <1>6, <1>7 DEF Tame
  <1> QED
    BY <1>2, <1>6, <1>8

LEMMA OnceHeader ==
  ASSUME SignaturesInv, LoopsInv, phase = "running", phase' = "running", ListIsSafe,
         LinksInv, LinksInv', OnceInv, OnlyDefvarsAreMoved', CodeEndsHeader
  PROVE  OnceInv'
  <1>1. IInv
    BY DEF LoopsInv
  <1>2. /\ Depth \in Nat \ {0} /\ Len(symstack) = Depth /\ unique_id \in Nat
        /\ Top = calls[Depth]
    BY <1>1, DepthFacts, UidIsNat
  <1>3. PICK rets \in Seq(Types), n \in Nat :
          EndsHeader(rets) /\ Here(ReturnDefvars(n) \o <<Other>>)
    BY DEF CodeEndsHeader
  <1>4. /\ Top.proc \in HeaderProcs /\ Becomes("function_definition")
        /\ symstack' = symstack /\ unique_id' = unique_id /\ UNCHANGED in_loop
    BY <1>3 DEF EndsHeader, loops
  <1>5. PICK d : d = Depth
    OBVIOUS
  <1>6. /\ Len(calls') = d
        /\ \A k \in 1..d : \/ calls'[k].proc = calls[k].proc
                           \/ calls'[k].proc \notin LoopProcs \union CondProcs
    BY <1>1, <1>4, <1>5, BecomesSame
  <1>7. OpenBacks = {} /\ OpenBacks' = {}
    <2>1. OpenBacks = {}
      BY <1>4, NoBacks
    <2>2. OpenBacks' \subseteq OpenBacks
      BY <1>2, <1>4, <1>5, <1>6, BacksWithin
    <2> QED
      BY <2>1, <2>2
  <1>8. calls'[Len(calls')].proc \notin HeaderProcs
    BY <1>4, <1>5, <1>6 DEF Becomes, HeaderProcs
  <1>9. KeepsNames
    BY <1>2, <1>4, <1>8 DEF KeepsNames
  <1>10. \A v : VarPast(v) => VarPast(v)'
    BY <1>2, <1>9, VarKept
  <1>11. \A v : v[1] = "return" => ~ VarPast(v) /\ VarPast(v)'
    BY <1>2, <1>4, <1>8 DEF VarPast, Depth
  <1> DEFINE code == ReturnDefvars(n) \o <<Other>>
  <1>12. IsSeq(code) /\ Here(code)
    BY <1>3, ReturnCode
  <1>13. /\ \A nested : Tame(code, nested, {})
         /\ \A i \in 1..Len(code) : /\ Creates(code[i]) => code[i].arg[1] = "return"
                                    /\ code[i].op # "JUMP"
    <2>1. /\ Len(code) = n + 1 /\ code[n + 1] = Other
          /\ \A i \in 1..n : code[i] = Instr("DEFVAR", <<"return", i, NoName>>)
      BY ReturnCode
    <2> HIDE DEF code
    <2> QED
      BY <1>12, <2>1, ReturnVariables
  <1> HIDE DEF code
  <1>14. OnlyDefvarsAreMoved =>
           \A i \in 1..Len(code) : Creates(code[i]) => ~ HasVariable(Code, code[i].arg)
    BY <1>11, <1>13 DEF OnceInv
  <1>15. OnlyDefvarsAreMoved => Sound(Code, before_loop_start, in_loop', {})
    BY <1>4, <1>7 DEF OnceInv
  <1>16. \A v : Made(code, v) => VarPast(v)'
    BY <1>11, <1>13 DEF Made
  <1> QED
    BY <1>1, <1>7, <1>10, <1>12, <1>13, <1>14, <1>15, <1>16, OnceNext DEF Here

(***************************************************************************)
(* A cycle or a branch begins.                                             *)
(***************************************************************************)
(* A scope is opened that creates nothing yet.                             *)
LEMMA NamesOpen ==
  ASSUME IInv, phase = "running", NEW p, NEW x, NEW fun, NEW names,
         Opens(p, x, fun, names), KeepsFrames(Depth), p \notin HeaderProcs
  PROVE  KeepsNames
  <1>1. /\ Depth \in Nat /\ Len(symstack) = Depth /\ unique_id \in Nat
        /\ Depth = Len(calls)
    BY DepthFacts, UidIsNat DEF Depth
  <1>2. /\ unique_id' = unique_id + 1 /\ Len(symstack') = Depth + 1
        /\ symstack'[Depth + 1].uid = unique_id
        /\ Len(calls') = Depth + 1 /\ calls'[Depth + 1].proc = p
    BY <1>1 DEF Opens, Activation
  <1>3. ASSUME NEW k \in 2..Len(symstack'), k # Depth + 1
        PROVE  k <= Len(symstack) /\ symstack'[k] = symstack[k]
    <2>1. k \in 1..Depth
      BY <1>1, <1>2, <1>3
    <2> QED
      BY <1>1, <2>1 DEF KeepsFrames
  <1> QED
    BY <1>1, <1>2, <1>3 DEF KeepsNames

(* In a cycle, what it is open to is the label it begins with.             *)
LEMMA BacksOpen ==
  ASSUME NEW d \in Nat, d = Depth, Len(calls') = d + 1, SameFrames(d)
  PROVE  /\ calls'[d + 1].proc \in LoopProcs
              => OpenBacks' \subseteq OpenBacks \union {Back(d + 1)'}
         /\ calls'[d + 1].proc \notin LoopProcs => OpenBacks' \subseteq OpenBacks
  <1>1. ASSUME NEW a, a \in OpenBacks'
        PROVE  \/ a \in OpenBacks
               \/ calls'[d + 1].proc \in LoopProcs /\ a = Back(d + 1)'
    <2>1. PICK k \in 2..Len(calls') : calls'[k].proc \in LoopProcs /\ a = Back(k)'
      BY <1>1, InBacks
    <2>2. CASE k = d + 1
      BY <2>1, <2>2
    <2>3. CASE k # d + 1
      <3>1. k \in 2..d
        BY <2>3
      <3>2. calls[k].proc \in LoopProcs /\ Back(k)' = Back(k)
        BY <2>1, <3>1, SameFrameFacts DEF SameFrames, SameFrame
      <3> QED
        BY <2>1, <3>1, <3>2, InBacks
    <2> QED
      BY <2>2, <2>3
  <1> QED
    BY <1>1

(* A list is sound for a cycle that begins behind it, or in an outer one.  *)
LEMMA SoundStart ==
  ASSUME NEW s, Len(s) \in Nat, NEW b \in 0..Len(s), NEW nested \in BOOLEAN, NEW R,
         Sound(s, b, nested, R), ~ nested => R = {},
         NEW a, a \notin Labels(s)
  PROVE  Sound(s, IF nested THEN b ELSE Len(s), TRUE, R \union {a})
  <1>1. \A i \in 1..Len(s) : IsLabel(s[i]) => s[i].arg # a
    BY InLabels
  <1>2. Single(s) /\ Apart(s) /\ Outside(s, R \union {a})
    BY <1>1 DEF Sound, Outside
  <1>3. CASE nested
    <2>1. InFront(s, b, R \union {a})
      BY <1>1, <1>3 DEF Sound, InFront
    <2> QED
      BY <1>2, <1>3, <2>1 DEF Sound
  <1>4. CASE ~ nested
    <2>1. Current(s, Len(s))
      BY LastIsCurrent
    <2>2. \A j \in 1..Len(s) : ~ (j > Len(s))
      OBVIOUS
    <2>3. R = {}
      BY <1>4
    <2>4. InFront(s, Len(s), R \union {a})
      BY <1>1, <2>1, <2>2, <2>3 DEF InFront
    <2> QED
      BY <1>2, <1>4, <2>4 DEF Sound
  <1> QED
    BY <1>3, <1>4

LEMMA OnceLoops ==
  ASSUME SignaturesInv, LoopsInv, phase = "running", phase' = "running", ListIsSafe,
         LinksInv, LinksInv', OnceInv, OnlyDefvarsAreMoved',
         CodeOpensWhile \/ CodeOpensRepeat
  PROVE  OnceInv'
  <1>1. IInv
    BY DEF LoopsInv
  <1>2. PICK uid \in Nat : uid = unique_id
    BY <1>1, UidIsNat
  <1>3. PICK d \in Nat : d = Depth
    BY <1>1, DepthFacts
  <1>4. PICK b : b = LoopStart(instrListFunctions)
    OBVIOUS
  <1>5. ~ in_loop => OpenBacks = {}
    BY NoBacks
  <1>6. /\ Len(Code) \in Nat /\ instrListFunctions.tail = Len(Code)
        /\ before_loop_start \in 0..Len(Code) /\ in_loop \in BOOLEAN
    BY <1>1 DEF ListIsSafe, Tidy, Code, IInv, TypeOK, LoopsOK
  <1>7. b = IF in_loop THEN before_loop_start ELSE Len(Code)
    BY <1>4, <1>6 DEF LoopStart
  <1>8. ASSUME NEW p \in {"while_cycle", "repeat_body"}, NEW h, h = LoopKind(p),
               h \in {"while", "repeat"},
               NEW code, IsSeq(code), OpensLoop(p, NoName, {}),
               Starting(instrListFunctions, WithText(code), <<>>),
               \A i \in 1..Len(code) : Quiet(code[i]),
               \A i \in 1..Len(code) : code[i].op = "JUMP" => code[i].arg = End(uid)
        PROVE  OnceInv'
    <2> DEFINE a0 == Loop(h, uid)
               R  == OpenBacks \union {a0}
    <2>1. Opens(p, NoName, NoName, {}) /\ KeepsFrames(Depth) /\ in_loop'
      BY <1>8 DEF OpensLoop, EnterLoop
    <2>2. \A k \in 2..d : symstack'[k].uid = symstack[k].uid
      BY <1>3, <2>1 DEF KeepsFrames
    <2>3. /\ Len(calls') = d + 1 /\ SameFrames(d)
          /\ calls'[d + 1].proc = p /\ symstack'[d + 1].uid = unique_id
          /\ Owed(d + 1)' = OwedBy(p, NoName, unique_id, <<outer_cond_id', cond_cnt'>>)
      BY <1>1, <1>3, <2>1, <2>2, OpensFrames
    <2>4. p \in LoopProcs /\ p \notin HeaderProcs
      BY <1>8 DEF LoopProcs, HeaderProcs
    <2>5. Owed(d + 1)' = {End(uid)}
      BY <1>2, <2>3, <2>4 DEF OwedBy
    <2>6. Back(d + 1)' = a0
      BY <1>2, <1>8, <2>3 DEF Back
    <2>7. a0[2] = uid /\ ~ OfFunction(a0)
      BY <1>8 DEF Loop, OfFunction
    <2> HIDE DEF a0
    <2>8. a0 \notin Labels(Code)
      BY <1>2, <2>7, FreshLabel
    <2>9. KeepsNames
      BY <1>1, <2>1, <2>4, NamesOpen
    <2>10. OpenBacks' \subseteq R
      BY <1>3, <2>3, <2>4, <2>6, BacksOpen
    <2>11. OnlyDefvarsAreMoved => Sound(Code, b, in_loop', R)
      <3>1. SUFFICES ASSUME OnlyDefvarsAreMoved PROVE Sound(Code, b, in_loop', R)
        OBVIOUS
      <3>2. Sound(Code, before_loop_start, in_loop, OpenBacks)
        BY <3>1 DEF OnceInv
      <3>3. Sound(Code, b, TRUE, R)
        BY <1>5, <1>6, <1>7, <2>8, <3>2, SoundStart
      <3> QED
        BY <2>1, <3>3 DEF Sound
    <2>12. /\ Grows(instrListFunctions, b, WithText(code))
           /\ tmp_instr' = <<>>
      BY <1>4, <1>8 DEF Starting
    <2>13. End(uid) \in Due'
      <3>1. d + 1 \in 2..(d + 1)
        BY <1>1, <1>3, DepthFacts
      <3> QED
        BY <2>3, <2>5, <2>12, <3>1, DueFrames
    <2>14. \A i \in 1..Len(code) : code[i].op = "JUMP" =>
             code[i].arg \in R \/ code[i].arg \in Due'
      BY <1>8, <2>13
    <2> HIDE DEF R
    <2> QED
      BY <1>1, <1>8, <2>9, <2>10, <2>11, <2>12, <2>14, OnceQuiet
  <1>9. CASE CodeOpensWhile
    <2> DEFINE x == Label(Loop("while", uid))
               y == Other
               z == Jump(End(uid))
               code == <<x, y, z>>
    <2>1. /\ OpensLoop("while_cycle", NoName, {})
          /\ Starting(instrListFunctions, WithText(code), <<>>)
      BY <1>2, <1>9 DEF CodeOpensWhile, WhileCode
    <2>2. /\ Quiet(x) /\ Quiet(y) /\ Quiet(z) /\ x.op # "JUMP" /\ y.op # "JUMP"
          /\ z.arg = End(uid)
      BY QuietKinds, QuietLabels
    <2> HIDE DEF x, y, z
    <2>3. IsSeq(code) /\ \A i \in 1..Len(code) : code[i] \in {x, y, z}
      <3>1. \A i \in 1..3 : i \in {1, 2, 3}
        OBVIOUS
      <3>2. Len(code) = 3 /\ code[1] = x /\ code[2] = y /\ code[3] = z
        OBVIOUS
      <3> QED
        BY <3>1, <3>2, TupleFacts
    <2> HIDE DEF code
    <2> QED
      BY <1>8, <2>1, <2>2, <2>3, LoopKinds
  <1>10. CASE CodeOpensRepeat
    <2> DEFINE x == Other
               y == Label(Loop("repeat", uid))
               code == <<x, y>>
    <2>1. /\ OpensLoop("repeat_body", NoName, {})
          /\ Starting(instrListFunctions, WithText(code), <<>>)
      BY <1>2, <1>10 DEF CodeOpensRepeat, RepeatCode
    <2>2. Quiet(x) /\ Quiet(y) /\ x.op # "JUMP" /\ y.op # "JUMP"
      BY QuietKinds, QuietLabels
    <2> HIDE DEF x, y
    <2>3. IsSeq(code) /\ \A i \in 1..Len(code) : code[i] \in {x, y}
      <3>1. \A i \in 1..2 : i \in {1, 2}
        OBVIOUS
      <3>2. Len(code) = 2 /\ code[1] = x /\ code[2] = y
        OBVIOUS
      <3> QED
        BY <3>1, <3>2, TupleFacts
    <2> HIDE DEF code
    <2> QED
      BY <1>8, <2>1, <2>2, <2>3, LoopKinds
  <1> QED
    BY <1>9, <1>10

(* A branch begins, or the next one does: the jumps of its code lead to    *)
(* labels that are still to come.                                          *)
LEMMA OnceForwards ==
  ASSUME IInv, phase = "running", phase' = "running", ListIsSafe,
         LinksInv, LinksInv', OnceInv, OnlyDefvarsAreMoved',
         NEW code, IsSeq(code), Here(code), UNCHANGED in_loop, KeepsNames,
         OpenBacks' \subseteq OpenBacks, \A i \in 1..Len(code) : Quiet(code[i]),
         NEW k \in 2..Len(calls'),
         \A i \in 1..Len(code) : code[i].op = "JUMP" => code[i].arg \in Owed(k)'
  PROVE  OnceInv'
  <1>1. /\ Grows(instrListFunctions, before_loop_start, WithText(code))
        /\ tmp_instr' = <<>>
    BY DEF Here
  <1>2. \A i \in 1..Len(code) : code[i].op = "JUMP" =>
          code[i].arg \in OpenBacks \/ code[i].arg \in Due'
    BY <1>1, DueFrames
  <1>3. OnlyDefvarsAreMoved => Sound(Code, before_loop_start, in_loop', OpenBacks)
    BY DEF OnceInv
  <1> QED
    BY <1>1, <1>2, <1>3, OnceQuiet

LEMMA OnceBranches ==
  ASSUME SignaturesInv, LoopsInv, phase = "running", phase' = "running", ListIsSafe,
         LinksInv, LinksInv', OnceInv, OnlyDefvarsAreMoved',
         CodeOpensBranch \/ CodeNextBranch
  PROVE  OnceInv'
  <1>1. IInv /\ unique_id \in Nat
    BY UidIsNat DEF LoopsInv
  <1>2. PICK d \in Nat \ {0} : d = Depth
    BY <1>1, DepthFacts
  <1>3. Len(symstack) = d /\ d = Len(calls)
    BY <1>1, <1>2, DepthFacts DEF Depth
  <1>4. PICK n : n = cond_cnt'
    OBVIOUS
  <1>5. CASE CodeOpensBranch
    <2> DEFINE uid == unique_id
               x == Other
               y == Jump(If(uid, n))
               code == <<x, y>>
    <2>1. OpensBranch /\ Here(code)
      BY <1>4, <1>5 DEF CodeOpensBranch
    <2>2. /\ Opens("cond_body", NoName, NoName, {}) /\ KeepsFrames(Depth)
          /\ UNCHANGED in_loop /\ outer_cond_id' = uid
      BY <2>1 DEF OpensBranch, loops
    <2>3. \A k \in 2..d : symstack'[k].uid = symstack[k].uid
      BY <1>2, <2>2 DEF KeepsFrames
    <2>4. /\ Len(calls') = d + 1 /\ SameFrames(d)
          /\ calls'[d + 1].proc = "cond_body"
          /\ Owed(d + 1)' = OwedBy("cond_body", NoName, uid, <<outer_cond_id', cond_cnt'>>)
      BY <1>1, <1>2, <2>2, <2>3, OpensFrames
    <2>5. If(uid, n) \in Owed(d + 1)'
      BY <1>4, <2>2, <2>4 DEF OwedBy, LoopProcs, CondProcs
    <2>6. "cond_body" \notin LoopProcs \union HeaderProcs
      BY DEF LoopProcs, HeaderProcs
    <2>7. KeepsNames /\ OpenBacks' \subseteq OpenBacks
      BY <1>1, <1>2, <2>2, <2>4, <2>6, NamesOpen, BacksOpen
    <2>8. Quiet(x) /\ Quiet(y) /\ x.op # "JUMP" /\ y.arg \in Owed(d + 1)'
      BY <2>5, QuietKinds
    <2> HIDE DEF x, y
    <2>9. IsSeq(code) /\ \A i \in 1..Len(code) : code[i] \in {x, y}
      <3>1. \A i \in 1..2 : i \in {1, 2}
        OBVIOUS
      <3>2. Len(code) = 2 /\ code[1] = x /\ code[2] = y
        OBVIOUS
      <3> QED
        BY <3>1, <3>2, TupleFacts
    <2> HIDE DEF code
    <2>10. d + 1 \in 2..Len(calls')
      BY <2>4
    <2> QED
      BY <1>1, <2>1, <2>2, <2>7, <2>8, <2>9, <2>10, OnceForwards
  <1>6. ASSUME NEW p \in {"cond_body", "else_stmt"}, NextBranch(p),
               NEW code, IsSeq(code), Here(code), \A i \in 1..Len(code) : Quiet(code[i]),
               \A i \in 1..Len(code) : code[i].op = "JUMP" =>
                 code[i].arg \in {IfEnd(outer_cond_id), If(outer_cond_id, n)}
        PROVE  OnceInv'
    <2>1. /\ d >= 2 /\ Len(calls') = d /\ SameFrames(d - 1)
          /\ calls'[d].proc \notin LoopProcs /\ UNCHANGED in_loop
          /\ Owed(d)' = {IfEnd(outer_cond_id), If(outer_cond_id, ToChar(cond_cnt + 1))}
      BY <1>1, <1>2, <1>6, NextFrames
    <2>2. /\ cond_cnt' = ToChar(cond_cnt + 1) /\ Len(symstack') = d
          /\ unique_id' = unique_id + 1 /\ symstack'[d].uid = unique_id
          /\ \A k \in 1..(d - 1) : symstack'[k] = symstack[k] /\ calls'[k] = calls[k]
          /\ calls'[d].proc = p
      BY <1>2, <1>6 DEF NextBranch, Becomes, KeepsFrames, KeepsCalls
    <2>3. ASSUME NEW k \in 2..d, k # d PROVE k \in 1..(d - 1)
      BY <2>3
    <2>4. KeepsNames
      <3>1. p \notin HeaderProcs
        BY DEF HeaderProcs
      <3>2. \A k \in 2..d : \/ symstack'[k].uid = unique_id
                            \/ k <= d /\ symstack'[k] = symstack[k]
        BY <2>2, <2>3
      <3> QED
        BY <1>1, <1>3, <2>1, <2>2, <3>1, <3>2 DEF KeepsNames
    <2>5. OpenBacks' \subseteq OpenBacks
      <3>1. ASSUME NEW k \in 2..Len(calls'), calls'[k].proc \in LoopProcs
            PROVE  /\ k <= Depth /\ calls'[k].proc = calls[k].proc
                   /\ symstack'[k].uid = symstack[k].uid
        <4>1. k \in 1..(d - 1)
          BY <2>1, <2>3, <3>1
        <4> QED
          BY <1>2, <2>2, <4>1
      <3> QED
        BY <1>2, <3>1, BacksWithin
    <2>6. \A i \in 1..Len(code) : code[i].op = "JUMP" => code[i].arg \in Owed(d)'
      BY <1>4, <1>6, <2>1, <2>2
    <2>7. d \in 2..Len(calls')
      BY <2>1
    <2> QED
      BY <1>1, <1>6, <2>1, <2>4, <2>5, <2>6, <2>7, OnceForwards
  <1>7. CASE NextBranch("cond_body") /\ Here(ElseifCode)
    <2> DEFINE o == outer_cond_id
               x == Jump(IfEnd(o))
               y == Label(If(o, cond_cnt))
               z == Other
               w == Jump(If(o, n))
               code == <<x, y, z, w>>
    <2>1. Here(code)
      BY <1>4, <1>7 DEF ElseifCode
    <2>2. /\ Quiet(x) /\ Quiet(y) /\ Quiet(z) /\ Quiet(w) /\ y.op # "JUMP" /\ z.op # "JUMP"
          /\ x.arg = IfEnd(o) /\ w.arg = If(o, n)
      BY QuietKinds, QuietLabels
    <2> HIDE DEF x, y, z, w
    <2>3. IsSeq(code)
      <3>1. code \in Seq({x, y, z, w})
        OBVIOUS
      <3> QED
        BY <3>1 DEF IsSeq
    <2>4. \A i \in 1..Len(code) : code[i] \in {x, y, z, w}
      <3>1. \A i \in 1..4 : i \in {1, 2, 3, 4}
        OBVIOUS
      <3>2. Len(code) = 4 /\ code[1] = x /\ code[2] = y /\ code[3] = z /\ code[4] = w
        OBVIOUS
      <3> QED
        BY <3>1, <3>2
    <2> HIDE DEF code
    <2> QED
      BY <1>6, <1>7, <2>1, <2>2, <2>3, <2>4
  <1>8. CASE NextBranch("else_stmt") /\ Here(ElseCode)
    <2> DEFINE o == outer_cond_id
               x == Jump(IfEnd(o))
               y == Label(If(o, ElseLabel(n)))
               code == <<x, y>>
    <2>1. Here(code)
      BY <1>4, <1>8 DEF ElseCode
    <2>2. Quiet(x) /\ Quiet(y) /\ y.op # "JUMP" /\ x.arg = IfEnd(o)
      BY QuietKinds, QuietLabels
    <2> HIDE DEF x, y
    <2>3. IsSeq(code) /\ \A i \in 1..Len(code) : code[i] \in {x, y}
      <3>1. \A i \in 1..2 : i \in {1, 2}
        OBVIOUS
      <3>2. Len(code) = 2 /\ code[1] = x /\ code[2] = y
        OBVIOUS
      <3> QED
        BY <3>1, <3>2, TupleFacts
    <2> HIDE DEF code
    <2> QED
      BY <1>6, <1>8, <2>1, <2>2, <2>3
  <1> QED
    BY <1>5, <1>7, <1>8 DEF CodeNextBranch

(* A body ends: only the loop's own jump goes back.                        *)
LEMMA OnceEndCode ==
  ASSUME SignaturesInv, LoopsInv, phase = "running", phase' = "running", ListIsSafe,
         LinksInv, LinksInv', OnceInv, OnlyDefvarsAreMoved', Ends,
         NEW b, NEW code, IsSeq(code), Grows(instrListFunctions, b, WithText(code)),
         in_loop' => in_loop /\ b = before_loop_start,
         \A i \in 1..Len(code) : Quiet(code[i]),
         \A i \in 1..Len(code) : code[i].op = "JUMP" =>
           Top.proc \in LoopProcs /\ code[i].arg = Back(Depth)
  PROVE  OnceInv'
  <1>1. IInv
    BY DEF LoopsInv
  <1>2. PICK d \in Nat : d = Depth
    BY <1>1, DepthFacts
  <1>3. /\ d >= 2 /\ Len(symstack) = d /\ d = Len(calls) /\ Top = calls[d] /\ unique_id \in Nat
        /\ Len(calls') = d - 1 /\ Len(symstack') = d - 1 /\ unique_id' = unique_id
        /\ \A k \in 1..(d - 1) : symstack'[k] = symstack[k] /\ calls'[k] = calls[k]
    BY <1>1, <1>2, DepthFacts, UidIsNat DEF Depth, Ends, KeepsFrames, KeepsCalls
  <1>4. d \in 2..d /\ d - 1 \in 1..(d - 1) /\ \A k \in 2..(d - 1) : k \in 1..(d - 1) /\ k <= d
    BY <1>3
  <1>5. calls[d - 1].proc \notin HeaderProcs
    <2>1. CASE d - 1 = 1
      <3>1. calls[1].proc = "stmt_list"
        BY <1>1, <1>2, <1>3, DepthFacts
      <3> QED
        BY <2>1, <3>1 DEF HeaderProcs
    <2>2. CASE d - 1 # 1
      <3>1. d - 1 \in 2..Len(calls) /\ d - 1 # Len(calls)
        BY <1>3, <2>2
      <3> QED
        BY <3>1 DEF SignaturesInv, NamesInv, FunctionAtBottom
    <2> QED
      BY <2>1, <2>2
  <1>6. KeepsNames
    BY <1>3, <1>4, <1>5 DEF KeepsNames
  <1>7. OpenBacks' \subseteq OpenBacks
    BY <1>2, <1>3, <1>4, BacksWithin
  <1>8. Top.proc \in LoopProcs => Back(d) \in OpenBacks
    BY <1>2, <1>3, <1>4, InBacks
  <1>9. OnlyDefvarsAreMoved => Sound(Code, b, in_loop', OpenBacks)
    BY DEF OnceInv, Sound
  <1>10. \A i \in 1..Len(code) : code[i].op = "JUMP" =>
           code[i].arg \in OpenBacks \/ code[i].arg \in Due'
    BY <1>2, <1>8
  <1> QED
    BY <1>1, <1>6, <1>7, <1>9, <1>10, OnceQuiet

LEMMA OnceEnds ==
  ASSUME SignaturesInv, LoopsInv, phase = "running", phase' = "running", ListIsSafe,
         LinksInv, LinksInv', OnceInv, OnlyDefvarsAreMoved', CodeEnds
  PROVE  OnceInv'
  <1>1. IInv /\ Ends
    BY DEF LoopsInv, CodeEnds
  <1>2. PICK d \in Nat \ {0} : d = Depth
    BY <1>1, DepthFacts
  <1>3. Top = calls[d] /\ SS_Head(symstack) = symstack[d]
    BY <1>1, <1>2, DepthFacts
  <1>4. PICK uid : uid = symstack[d].uid
    OBVIOUS
  <1>5. SS_Head(symstack).uid = uid
    BY <1>3, <1>4
  <1>6. ASSUME NEW h, Top.proc \in LoopProcs, h = LoopKind(Top.proc),
               NEW code, IsSeq(code), Ending(code),
               \A i \in 1..Len(code) : Quiet(code[i]),
               \A i \in 1..Len(code) : code[i].op = "JUMP" => code[i].arg = Loop(h, uid)
        PROVE  OnceInv'
    <2>1. Back(Depth) = Loop(h, uid)
      BY <1>2, <1>3, <1>4, <1>6 DEF Back
    <2>2. in_loop' => in_loop /\ LoopStartAfter = before_loop_start
      BY <1>1, <1>6 DEF Ends, ForgetOuterLoop, LoopStartAfter
    <2>3. Grows(instrListFunctions, LoopStartAfter, WithText(code))
      BY <1>6 DEF Ending
    <2> QED
      BY <1>1, <1>6, <2>1, <2>2, <2>3, OnceEndCode
  <1>7. ASSUME Top.proc \notin LoopProcs, NEW x, NEW y, Here(<<x, y>>),
               Quiet(x), Quiet(y), x.op # "JUMP", y.op # "JUMP"
        PROVE  OnceInv'
    <2> DEFINE code == <<x, y>>
    <2>1. UNCHANGED in_loop
      BY <1>1, <1>7 DEF Ends
    <2>2. Grows(instrListFunctions, before_loop_start, WithText(code))
      BY <1>7 DEF Here
    <2>3. IsSeq(code) /\ \A i \in 1..Len(code) : code[i] \in {x, y}
      <3>1. \A i \in 1..2 : i \in {1, 2}
        OBVIOUS
      <3>2. Len(code) = 2 /\ code[1] = x /\ code[2] = y
        OBVIOUS
      <3> QED
        BY <3>1, <3>2, TupleFacts
    <2> HIDE DEF code
    <2> QED
      BY <1>1, <1>7, <2>1, <2>2, <2>3, OnceEndCode
  <1>8. \A k : Quiet(Jump(Loop(k, uid))) /\ Jump(Loop(k, uid)).arg = Loop(k, uid)
    BY QuietKinds
  <1>9. CASE Top.proc = "repeat_body" /\ Ending(RepeatEnd(uid))
    <2> DEFINE x == Other
               y == Jump(Loop("repeat", uid))
               z == Label(End(uid))
               code == <<x, y, z>>
    <2>1. Ending(code)
      BY <1>9 DEF RepeatEnd
    <2>2. /\ Quiet(x) /\ Quiet(y) /\ Quiet(z) /\ x.op # "JUMP" /\ z.op # "JUMP"
          /\ y.arg = Loop("repeat", uid)
      BY <1>8, QuietKinds, QuietLabels
    <2> HIDE DEF x, y, z
    <2>3. IsSeq(code) /\ \A i \in 1..Len(code) : code[i] \in {x, y, z}
      <3>1. \A i \in 1..3 : i \in {1, 2, 3}
        OBVIOUS
      <3>2. Len(code) = 3 /\ code[1] = x /\ code[2] = y /\ code[3] = z
        OBVIOUS
      <3> QED
        BY <3>1, <3>2, TupleFacts
    <2> HIDE DEF code
    <2>4. Top.proc \in LoopProcs /\ LoopKind(Top.proc) = "repeat"
      BY <1>9, LoopKinds DEF LoopProcs
    <2> QED
      BY <1>6, <2>1, <2>2, <2>3, <2>4
  <1>10. ASSUME NEW k
         PROVE  LET e == LoopEnd(k, uid) IN
                /\ IsSeq(e)
                /\ \A i \in 1..Len(e) :
                     Quiet(e[i]) /\ (e[i].op = "JUMP" => e[i].arg = Loop(k, uid))
    <2> DEFINE x == Jump(Loop(k, uid))
               y == Label(End(uid))
    <2>1. Quiet(x) /\ Quiet(y) /\ y.op # "JUMP" /\ x.arg = Loop(k, uid)
      BY <1>8, QuietLabels
    <2>2. LoopEnd(k, uid) = <<x, y>>
      BY DEF LoopEnd
    <2> HIDE DEF x, y
    <2>3. IsSeq(<<x, y>>) /\ \A i \in 1..Len(<<x, y>>) : <<x, y>>[i] \in {x, y}
      <3>1. \A i \in 1..2 : i \in {1, 2}
        OBVIOUS
      <3>2. Len(<<x, y>>) = 2 /\ <<x, y>>[1] = x /\ <<x, y>>[2] = y
        OBVIOUS
      <3> QED
        BY <3>1, <3>2, TupleFacts
    <2> QED
      BY <2>1, <2>2, <2>3
  <1>11. CASE Top.proc = "while_cycle" /\ Ending(LoopEnd("while", uid))
    <2>1. Top.proc \in LoopProcs /\ LoopKind(Top.proc) = "while"
      BY <1>11, LoopKinds DEF LoopProcs
    <2> QED
      BY <1>6, <1>10, <1>11, <2>1
  <1>12. CASE Top.proc = "for_cycle" /\ Ending(ForEnd)
    <2> DEFINE x == Instr("USE", <<"for", Variable(Top.id)[2], Top.id>>)
               c == <<x>>
               e == LoopEnd("for", uid)
               code == c \o e
    <2>1. Ending(code)
      BY <1>5, <1>12 DEF ForEnd
    <2>2. Quiet(x) /\ x.op # "JUMP"
      BY QuietKinds
    <2>3. IsSeq(e) /\ \A i \in 1..Len(e) :
            Quiet(e[i]) /\ (e[i].op = "JUMP" => e[i].arg = Loop("for", uid))
      BY <1>10
    <2> HIDE DEF x, e
    <2>4. IsSeq(c) /\ Len(c) = 1 /\ c[1] = x
      BY TupleFacts
    <2> HIDE DEF c
    <2>5. /\ IsSeq(code) /\ Len(code) = Len(c) + Len(e)
          /\ Len(c) \in Nat /\ Len(e) \in Nat
          /\ \A i \in 1..Len(c) : code[i] = c[i]
          /\ \A i \in 1..Len(e) : code[Len(c) + i] = e[i]
      <3>1. IsSeq(c) /\ IsSeq(e)
        BY <2>3, <2>4
      <3> QED
        BY ONLY <3>1, ConcatFacts DEF code
    <2> HIDE DEF code
    <2>6. ASSUME NEW i \in 1..Len(code)
          PROVE  Quiet(code[i]) /\ (code[i].op = "JUMP" => code[i].arg = Loop("for", uid))
      <3>1. CASE i = 1
        BY <2>2, <2>4, <2>5, <3>1
      <3>2. CASE i # 1
        <4>1. i - 1 \in 1..Len(e) /\ Len(c) + (i - 1) = i
          BY <2>4, <2>5, <3>2
        <4>2. code[i] = e[i - 1]
          BY <2>5, <4>1
        <4> QED
          BY <2>3, <4>1, <4>2
      <3> QED
        BY <3>1, <3>2
    <2>7. Top.proc \in LoopProcs /\ LoopKind(Top.proc) = "for"
      BY <1>12, LoopKinds DEF LoopProcs
    <2> QED
      BY <1>6, <2>1, <2>5, <2>6, <2>7
  <1>13. CASE Top.proc \in CondProcs /\ Here(CondEnd)
    <2>1. Top.proc \notin LoopProcs
      BY <1>13 DEF CondProcs, LoopProcs
    <2> QED
      BY <1>7, <1>13, <2>1, QuietLabels DEF CondEnd
  <1>14. CASE /\ Top.proc = "function_definition"
              /\ Here(<<Label(FuncEnd(SS_Head(symstack).fun)), Other>>)
    <2>1. Top.proc \notin LoopProcs
      BY <1>14 DEF LoopProcs
    <2> QED
      BY <1>7, <1>14, <2>1, QuietKinds, QuietLabels
  <1> QED
    BY <1>5, <1>9, <1>11, <1>12, <1>13, <1>14 DEF CodeEnds

(* A function begins: it has no variables.                                 *)
LEMMA SoundBegin ==
  ASSUME NEW l, NEW b, NEW x, NEW y, Ready(l, b, <<x, y>>),
         Begins(x), ~ x.hoist, Quiet(y), y.op # "JUMP", Sound(l.items, b, FALSE, {})
  PROVE  LET s == EmitAll(l, b, <<x, y>>).items IN
         Sound(s, b, FALSE, {}) /\ \A v : ~ HasVariable(s, v)
  <1> DEFINE code == <<x, y>>
  <1>1. Len(code) = 2 /\ code[1] = x /\ code[2] = y
    OBVIOUS
  <1>2. Ready(l, b, code)
    OBVIOUS
  <1> HIDE DEF code
  <1>3. PICK a : /\ a[0] = l /\ EmitAll(l, b, code) = a[2]
                 /\ Insertions(a, b, code)
    <2>1. PICK a : /\ a[0] = l /\ EmitAll(l, b, code) = a[Len(code)]
                   /\ Insertions(a, b, code)
      BY <1>2, EmitAllFacts
    <2> QED
      BY <1>1, <2>1
  <1>4. PICK s0, s1, s2 : s0 = a[0].items /\ s1 = a[1].items /\ s2 = a[2].items
    OBVIOUS
  <1>5. /\ Len(s0) \in Nat /\ Len(s1) \in Nat /\ b \in 0..Len(s0) /\ b \in 0..Len(s1)
        /\ Inserted(s1, s0, PlaceOf(a[0], b, x), x)
        /\ Inserted(s2, s1, PlaceOf(a[1], b, y), y)
    <2>1. 1 \in 1..2 /\ 2 \in 1..2 /\ 1 - 1 = 0 /\ 2 - 1 = 1
      OBVIOUS
    <2> QED
      BY <1>1, <1>3, <1>4, <2>1 DEF Insertions
  <1>6. Inserted(s1, s0, Len(s0), x) /\ Inserted(s2, s1, Len(s1), y)
    BY <1>4, <1>5 DEF PlaceOf, Quiet
  <1>7. /\ ~ Creates(x) /\ x.op # "JUMP" /\ ~ Creates(y) /\ ~ y.hoist
        /\ Len(s0) \in 0..Len(s0) /\ Len(s1) \in 0..Len(s1)
    BY <1>5 DEF Begins, Creates, Quiet
  <1>8. Sound(s1, b, FALSE, {})
    <2>1. Sound(s0, b, FALSE, {})
      BY <1>3, <1>4
    <2> QED
      BY <1>5, <1>6, <1>7, <2>1, SoundStep
  <1>9. /\ Sound(s2, b, FALSE, {})
        /\ \A v : HasVariable(s2, v) => HasVariable(s1, v)
    BY <1>5, <1>6, <1>7, <1>8, SoundStep
  <1>10. ASSUME NEW v, HasVariable(s1, v) PROVE FALSE
    <2>1. /\ Len(s1) = Len(s0) + 1 /\ s1[Len(s1)] = x
      BY <1>5, <1>6 DEF Inserted
    <2>2. PICK m \in 1..Len(s1) : Creates(s1[m]) /\ Current(s1, m)
      BY <1>10 DEF HasVariable
    <2>3. Len(s1) \in Starts(s1)
      BY <1>5, <2>1 DEF Starts
    <2>4. m = Len(s1)
      BY <1>5, <2>2, <2>3 DEF Current
    <2> QED
      BY <1>7, <2>1, <2>2, <2>4
  <1> QED
    BY <1>3, <1>4, <1>9, <1>10 DEF code

LEMMA OnceDefines ==
  ASSUME SignaturesInv, LoopsInv, phase = "running", phase' = "running", ListIsSafe,
         OnceInv, OnlyDefvarsAreMoved', CodeDefines
  PROVE  OnceInv'
  <1>1. IInv
    BY DEF LoopsInv
  <1>2. PICK f \in Names : Defines(f) /\ Here(<<Label(Func(f)), Other>>)
    BY DEF CodeDefines
  <1> DEFINE x == Label(Func(f))
             y == Other
  <1>3. PICK l, b : l = instrListFunctions /\ b = before_loop_start
    OBVIOUS
  <1>4. Depth = 1 /\ Len(symstack) = 1 /\ symstack[1].type = "global"
    BY <1>1, <1>2, DepthFacts, ScopeOfEach DEF Defines
  <1>5. ~ in_loop /\ ~ in_loop'
    <2>1. OpenLoops(symstack) = {}
      BY <1>4 DEF OpenLoops, LoopScopes
    <2> QED
      BY <1>2, <2>1 DEF Defines, LoopsInv, OuterLoopIsRemembered, loops
  <1>6. OpenBacks = {}
    BY <1>5, NoBacks
  <1>7. OpenBacks' = {}
    <2>1. Len(calls') = 2 /\ calls'[2].proc = "funparam_def_list"
      BY <1>2, <1>4 DEF Defines, Opens, Activation
    <2>2. \A k \in 2..2 : calls'[k].proc \notin LoopProcs
      BY <2>1 DEF LoopProcs
    <2> QED
      BY <2>1, <2>2, InBacks
  <1>8. /\ Begins(x) /\ ~ x.hoist /\ Quiet(y) /\ y.op # "JUMP"
    BY QuietKinds DEF Begins, Label, Instr, Func
  <1>9. /\ Ready(l, b, <<x, y>>) /\ Code' = EmitAll(l, b, <<x, y>>).items
        /\ before_loop_start' = b
    <2>1. tmp_instr = <<>>
      BY <1>2 DEF Defines, ListIsSafe, TextIsHeader
    <2> QED
      BY <1>2, <1>3, <2>1 DEF Here, WithText, Grows, Code
  <1> HIDE DEF x, y
  <1>10. OnlyDefvars(l.items)
    BY <1>9, DefvarsKept, OnlyDefvarsMeans
  <1>11. Sound(l.items, b, FALSE, {})
    BY <1>3, <1>5, <1>6, <1>10, OnlyDefvarsMeans DEF OnceInv, Sound, Code
  <1>12. Sound(Code', b, FALSE, {}) /\ \A v : ~ HasVariable(Code', v)
    BY <1>8, <1>9, <1>11, SoundBegin
  <1>13. Single(Code') /\ Apart(Code') /\ Sound(Code', b, in_loop', OpenBacks')
    BY <1>5, <1>7, <1>12 DEF Sound
  <1> QED
    BY <1>9, <1>12, <1>13 DEF OnceInv

(* The variables that the instructions code create belong to the frame uid *)
(* and are none of the program's but x.                                    *)
CreatesOnly(code, uid, x) ==
  \A i \in 1..Len(code) : Creates(code[i]) =>
    /\ code[i].arg[1] # "return" /\ code[i].arg[2] = uid
    /\ code[i].arg[1] = "var" => code[i].arg[3] = x

(* A for cycle's header creates four variables in front of the cycle.      *)
LEMMA HeaderVariables ==
  ASSUME NEW uid, NEW x, NEW s, NEW R, NEW c, c = ForHeader(uid, x), in_loop',
         \A v : v[1] # "return" /\ v[2] = uid => ~ HasVariable(s, v)
  PROVE  Orderly(c, TRUE, R, s) /\ CreatesOnly(c, uid, x)
  <1> DEFINE v1 == Var(uid, x)
             v2 == <<"terminating_cond", uid, NoName>>
             v3 == <<"step", uid, NoName>>
             v4 == <<"for", uid, x>>
             Use(v) == Instr("USE", v)
             Create(v) == Defvar(v)
             o == Other
  <1>1. /\ Len(c) = 10
        /\ c[1] = o /\ c[4] = o /\ c[7] = o
        /\ c[2] = Create(v1) /\ c[3] = Use(v1)
        /\ c[5] = Create(v2) /\ c[6] = Use(v2)
        /\ c[8] = Create(v3) /\ c[9] = Use(v3)
        /\ c[10] = Create(v4)
    BY ForHeaderFacts
  <1>2. /\ v1[1] = "var" /\ v1[2] = uid /\ v1[3] = x
        /\ v2[1] = "terminating_cond" /\ v2[2] = uid
        /\ v3[1] = "step" /\ v3[2] = uid
        /\ v4[1] = "for" /\ v4[2] = uid
    BY DEF Var
  <1>3. \A v : /\ Creates(Create(v)) /\ Create(v).arg = v /\ Create(v).hoist
               /\ ~ Begins(Create(v)) /\ Create(v).op # "JUMP"
    BY DefvarFacts DEF Creates, Begins
  <1>4. \A v : ~ Creates(Use(v)) /\ ~ Use(v).hoist /\ ~ Begins(Use(v)) /\ Use(v).op # "JUMP"
    BY QuietKinds DEF Quiet
  <1>5. ~ Creates(o) /\ ~ o.hoist /\ ~ Begins(o) /\ o.op # "JUMP"
    BY QuietKinds DEF Quiet
  <1> HIDE DEF v1, v2, v3, v4, Use, Create, o
  <1>6. \A i \in 1..10 : i \in {1, 2, 3, 4, 5, 6, 7, 8, 9, 10}
    OBVIOUS
  <1>7. ASSUME NEW i \in 1..10
        PROVE  \/ ~ Creates(c[i]) /\ ~ c[i].hoist /\ ~ Begins(c[i]) /\ c[i].op # "JUMP"
               \/ \E v : /\ c[i] = Create(v)
                         /\ <<i, v>> \in {<<2, v1>>, <<5, v2>>, <<8, v3>>, <<10, v4>>}
    <2>1. CASE i \in {1, 4, 7}
      BY <1>1, <1>5, <2>1
    <2>2. CASE i \in {3, 6, 9}
      BY <1>1, <1>4, <2>2
    <2>3. CASE i \in {2, 5, 8, 10}
      BY <1>1, <2>3
    <2> QED
      BY <1>6, <2>1, <2>2, <2>3
  <1>8. ASSUME NEW i \in 1..10, Creates(c[i])
        PROVE  <<i, c[i].arg>> \in {<<2, v1>>, <<5, v2>>, <<8, v3>>, <<10, v4>>}
    BY <1>3, <1>7, <1>8
  <1>9. ASSUME NEW i \in 1..10, Creates(c[i])
        PROVE  /\ c[i].arg[1] # "return" /\ c[i].arg[2] = uid
               /\ c[i].arg[1] = "var" => c[i].arg[3] = x
               /\ c[i].hoist
               /\ \A j \in 1..(i - 1) : ~ (Creates(c[j]) /\ c[j].arg = c[i].arg)
    <2>1. ASSUME NEW j \in 1..(i - 1), Creates(c[j]), c[j].arg = c[i].arg
          PROVE  FALSE
      <3>1. j \in 1..10 /\ j # i
        OBVIOUS
      <3>2. <<j, c[j].arg>> \in {<<2, v1>>, <<5, v2>>, <<8, v3>>, <<10, v4>>}
        BY <1>8, <2>1, <3>1
      <3>3. <<i, c[i].arg>> \in {<<2, v1>>, <<5, v2>>, <<8, v3>>, <<10, v4>>}
        BY <1>8, <1>9
      <3>4. \A n, v : <<n, v>> \in {<<2, v1>>, <<5, v2>>, <<8, v3>>, <<10, v4>>} =>
              v[1] = CASE n = 2 -> "var" [] n = 5 -> "terminating_cond"
                       [] n = 8 -> "step" [] n = 10 -> "for"
        BY <1>2
      <3>5. i \in {2, 5, 8, 10} /\ j \in {2, 5, 8, 10}
        BY <3>2, <3>3
      <3> QED
        BY <2>1, <3>1, <3>2, <3>3, <3>4, <3>5
    <2>2. \E v \in {v1, v2, v3, v4} : c[i].arg = v
      BY <1>8, <1>9
    <2>3. c[i].arg[1] # "return" /\ c[i].arg[2] = uid /\ (c[i].arg[1] = "var" => c[i].arg[3] = x)
      BY <1>2, <2>2
    <2>4. c[i].hoist
      BY <1>3, <1>7, <1>9
    <2> QED
      BY <2>1, <2>3, <2>4
  <1>10. ASSUME NEW i \in 1..10
         PROVE  /\ ~ Begins(c[i]) /\ c[i].op # "JUMP" /\ (c[i].hoist => Creates(c[i]))
    BY <1>3, <1>7
  <1>11. \A i \in 1..10 : Creates(c[i]) => ~ HasVariable(s, c[i].arg)
    BY <1>9
  <1>12. Orderly(c, TRUE, R, s)
    BY <1>1, <1>9, <1>10, <1>11 DEF Orderly
  <1>13. \A i \in 1..Len(c) : Creates(c[i]) =>
           /\ c[i].arg[1] # "return" /\ c[i].arg[2] = uid
           /\ c[i].arg[1] = "var" => c[i].arg[3] = x
    BY <1>1, <1>9
  <1> QED
    BY <1>12, <1>13 DEF CreatesOnly

(* The comment of a for cycle, and the text that waits, create nothing.    *)
LEMMA OnceComment ==
  ASSUME IInv, phase = "running", ListIsSafe, LinksInv, OnceInv,
         NEW b, b = before_loop_start,
         Ready(instrListFunctions, b, WithText(<<Other>>)),
         OnlyDefvars(EmitAll(instrListFunctions, b, WithText(<<Other>>)).items)
  PROVE  LET s == EmitAll(instrListFunctions, b, WithText(<<Other>>)).items IN
         /\ Sound(s, b, in_loop, OpenBacks)
         /\ \A v : HasVariable(s, v) => VarPast(v)
  <1> DEFINE o == Other
             code == <<o>>
             s == EmitAll(instrListFunctions, b, WithText(code)).items
  <1>1. Quiet(o) /\ o.op # "JUMP"
    BY QuietKinds
  <1> HIDE DEF o
  <1>2. IsSeq(code) /\ \A i \in 1..Len(code) : code[i] = o
    <2>1. \A i \in 1..1 : i = 1
      OBVIOUS
    <2>2. Len(code) = 1 /\ code[1] = o
      OBVIOUS
    <2> QED
      BY <2>1, <2>2, TupleFacts
  <1>3. Ready(instrListFunctions, b, WithText(code)) /\ OnlyDefvars(s)
    BY DEF o
  <1> HIDE DEF code
  <1>4. IsText(tmp_instr)
    BY DEF ListIsSafe, TextIsHeader
  <1>5. OnlyDefvarsAreMoved
    BY <1>2, <1>3, <1>4, TextComesFirst, OnlyDefvarsMeans DEF Code
  <1>6. Sound(Code, b, in_loop, OpenBacks) /\ \A v : HasVariable(Code, v) => VarPast(v)
    BY <1>5 DEF OnceInv
  <1>7. Orderly(code, in_loop, OpenBacks, Code)
    BY <1>1, <1>2 DEF Orderly, Quiet
  <1>8. \A v : ~ Made(code, v)
    BY <1>1, <1>2 DEF Made, Quiet
  <1>9. \A i \in 1..Len(code) : code[i].op = "JUMP" =>
          code[i].arg \in OpenBacks \/ code[i].arg \notin Labels(tmp_instr)
    BY <1>1, <1>2
  <1>10. TextIsForText /\ Linked(Code, Due)
    BY DEF LinksInv
  <1>11. /\ Sound(s, b, in_loop, OpenBacks)
         /\ \A v : HasVariable(s, v) => HasVariable(Code, v) \/ Made(code, v)
    BY <1>2, <1>3, <1>6, <1>7, <1>9, <1>10, SoundText
  <1> HIDE DEF s
  <1>12. \A v : HasVariable(s, v) => VarPast(v)
    BY <1>6, <1>8, <1>11
  <1> QED
    BY <1>11, <1>12 DEF s, code, o

LEMMA OnceFor ==
  ASSUME SignaturesInv, LoopsInv, phase = "running", phase' = "running", ListIsSafe,
         LinksInv, OnceInv, OnlyDefvarsAreMoved', CodeOpensFor
  PROVE  OnceInv'
  <1>1. IInv /\ IdsIncrease
    BY DEF LoopsInv
  <1>2. PICK uid \in Nat : uid = unique_id
    BY <1>1, UidIsNat
  <1>3. PICK d \in Nat \ {0} : d = Depth
    BY <1>1, DepthFacts
  <1>4. PICK b : b = before_loop_start
    OBVIOUS
  <1> DEFINE l == EmitAll(instrListFunctions, b, WithText(<<Other>>))
             s == l.items
  <1>5. PICK x \in Names :
          /\ OpensLoop("for_cycle", x, {x})
          /\ Ready(instrListFunctions, b, WithText(<<Other>>))
          /\ Starting(l, ForHeader(uid, x), ForText(uid, x))
    BY <1>2, <1>4 DEF CodeOpensFor
  <1> DEFINE code == ForHeader(uid, x)
             g == LoopStart(l)
             a0 == Loop("for", uid)
             R == OpenBacks \union {a0}
  <1>6. /\ Grows(l, g, code) /\ Len(s) \in Nat /\ l.tail = Len(s) /\ b < Len(s) /\ b \in Nat
        /\ in_loop \in BOOLEAN
    BY <1>1, <1>4, <1>5 DEF Starting, Tidy, ListIsSafe, IInv, TypeOK, LoopsOK
  <1>7. in_loop' /\ (g = IF in_loop THEN b ELSE Len(s))
    BY <1>4, <1>5, <1>6 DEF OpensLoop, EnterLoop, LoopStart
  <1>8. /\ Ready(l, g, code) /\ Code' = EmitAll(l, g, code).items
        /\ before_loop_start' = g
    BY <1>6 DEF Grows, Code
  <1>9. OnlyDefvars(s)
    <2> HIDE DEF l, g, code
    <2> QED
      BY <1>8, DefvarsKept, OnlyDefvarsMeans
  <1>10. /\ Sound(s, b, in_loop, OpenBacks)
         /\ \A v : HasVariable(s, v) => VarPast(v)
    BY <1>1, <1>4, <1>5, <1>9, OnceComment
  <1>11. a0 \notin Labels(s)
    <2>1. a0 \in TextLabels(uid) \union {End(uid)}
      BY DEF TextLabels
    <2>2. a0 \notin Labels(Code) /\ a0 \notin Labels(tmp_instr)
      BY <1>1, <1>2, <2>1, FreshInText
    <2>3. Labels(s) = Labels(Code) \union Labels(tmp_instr)
      BY <1>1, <1>4, <1>5, ForComment
    <2> QED
      BY <2>2, <2>3
  <1> HIDE DEF a0, l, g, code
  <1>12. ~ in_loop => OpenBacks = {}
    BY NoBacks
  <1>13. Sound(s, g, TRUE, R)
    <2>1. b \in 0..Len(s)
      BY <1>6
    <2> QED
      BY <1>6, <1>7, <1>10, <1>11, <1>12, <2>1, SoundStart
  <1>14. \A v : v[1] # "return" /\ v[2] = uid => ~ VarPast(v)
    BY <1>2 DEF VarPast
  <1>15. /\ Orderly(code, TRUE, R, s)
         /\ CreatesOnly(code, uid, x)
    <2>1. \A v : v[1] # "return" /\ v[2] = uid => ~ HasVariable(s, v)
      BY <1>10, <1>14
    <2>2. PICK s0, R0 : s0 = s /\ R0 = R
      OBVIOUS
    <2> HIDE DEF s, R
    <2>3. \A v : v[1] # "return" /\ v[2] = uid => ~ HasVariable(s0, v)
      BY <2>1, <2>2
    <2>4. PICK c : c = ForHeader(uid, x)
      OBVIOUS
    <2>5. Orderly(c, TRUE, R0, s0) /\ CreatesOnly(c, uid, x)
      BY <1>7, <2>3, <2>4, HeaderVariables
    <2> QED
      BY <2>2, <2>4, <2>5 DEF code
  <1>16. /\ Sound(Code', g, TRUE, R)
         /\ \A v : HasVariable(Code', v) => HasVariable(s, v) \/ Made(code, v)
    BY <1>8, <1>13, <1>15, SoundCode
  <1>17. Opens("for_cycle", x, NoName, {x}) /\ KeepsFrames(Depth)
    BY <1>5 DEF OpensLoop
  <1>18. KeepsNames
    <2>1. "for_cycle" \notin HeaderProcs
      BY DEF HeaderProcs
    <2> QED
      BY <1>1, <1>17, <2>1, NamesOpen
  <1>19. OpenBacks' \subseteq R
    <2>1. /\ Len(calls') = d + 1 /\ SameFrames(d)
          /\ calls'[d + 1].proc = "for_cycle" /\ Back(d + 1)' = a0
      BY <1>1, <1>2, <1>3, <1>5, ForOwes DEF a0
    <2>2. "for_cycle" \in LoopProcs
      BY DEF LoopProcs
    <2> QED
      BY <1>3, <2>1, <2>2, BacksOpen
  <1>20. /\ Len(symstack) = d /\ Len(symstack') = d + 1 /\ unique_id' = uid + 1
         /\ symstack'[d + 1].table = {x}
         /\ \A k \in 1..d : symstack'[k] = symstack[k] /\ symstack[k].uid # uid
    <2>1. Len(symstack) = d /\ \A k \in 1..d : symstack[k] \in Frames
      BY <1>1, <1>3, DepthFacts
    <2>2. \A k \in 1..d : symstack[k].uid \in Nat /\ symstack[k].uid < uid
      BY <1>1, <1>2, <2>1 DEF Frames, IdsIncrease
    <2> QED
      BY <1>2, <1>3, <1>17, <2>1, <2>2 DEF Opens, KeepsFrames
  <1>21. ASSUME NEW v, v[1] # "return", v[2] = uid, v[1] = "var" => v[3] = x
         PROVE  VarPast(v)'
    <2>1. ASSUME NEW k \in 2..Len(symstack'), symstack'[k].uid = uid
          PROVE  x \in symstack'[k].table
      <3>1. CASE k \in 1..d
        BY <1>20, <2>1, <3>1
      <3>2. CASE k \notin 1..d
        <4>1. k = d + 1
          BY <1>20, <3>2
        <4> QED
          BY <1>20, <4>1
      <3> QED
        BY <3>1, <3>2
    <2>2. v[2] \in Nat /\ v[2] < unique_id'
      BY <1>20, <1>21
    <2> QED
      BY <1>21, <2>1, <2>2 DEF VarPast
  <1>22. ASSUME NEW v, HasVariable(Code', v) PROVE VarPast(v)'
    <2>1. CASE HasVariable(s, v)
      <3>1. VarPast(v) /\ Len(symstack) \in Nat
        BY <1>10, <1>20, <2>1
      <3> QED
        BY <1>18, <3>1, VarKept
    <2>2. CASE Made(code, v)
      BY <1>15, <1>21, <2>2 DEF Made, CreatesOnly
    <2> QED
      BY <1>16, <1>22, <2>1, <2>2
  <1>23. Sound(Code', g, in_loop', OpenBacks')
    <2>1. Sound(Code', g, TRUE, OpenBacks')
      BY <1>16, <1>19, SoundWithin
    <2> QED
      BY <1>7, <2>1 DEF Sound
  <1> QED
    BY <1>8, <1>22, <1>23 DEF OnceInv, Sound

LEMMA OnceStep ==
  ASSUME SignaturesInv, LoopsInv, IInv', ListIsSafe, LinksInv, LinksInv', OnceInv,
         [CodegenNext]_cgvars
  PROVE  OnceInv'
  <1>1. IInv
    BY DEF LoopsInv
  <1>2. CASE UNCHANGED cgvars
    <2>1. /\ UNCHANGED <<phase, calls, symstack, in_loop, Code, before_loop_start, unique_id>>
      BY <1>2 DEF cgvars, gen, vars, control, scopes, loops, Code
    <2>2. OpenBacks' = OpenBacks /\ \A v : VarPast(v) <=> VarPast(v)'
      BY <2>1 DEF OpenBacks, Back, Depth, VarPast
    <2>3. OnlyDefvarsAreMoved' <=> OnlyDefvarsAreMoved
      BY <2>1, OnlyDefvarsMeans
    <2> QED
      BY <2>1, <2>2, <2>3 DEF OnceInv
  <1> SUFFICES ASSUME CodegenNext, OnlyDefvarsAreMoved' PROVE OnceInv'
    BY <1>2 DEF OnceInv
  <1>3. CASE phase' \notin {"running", "accepted"}
    <2>1. Code' = <<>> /\ Len(<<>>) = 0
      BY <1>3, FreedCode
    <2>2. \A i \in 1..Len(Code') : FALSE
      BY <2>1
    <2> QED
      BY <1>3, <2>2 DEF OnceInv, Single, Apart
  <1>4. CASE phase' = "accepted"
    <2>1. UNCHANGED instrListFunctions
      BY <1>4, AcceptedCode, NothingEmitted DEF AtStatement
    <2>2. OnlyDefvarsAreMoved' <=> OnlyDefvarsAreMoved
      BY <2>1, OnlyDefvarsMeans DEF Code
    <2> QED
      BY <1>4, <2>1, <2>2 DEF OnceInv, Code
  <1>5. CASE phase = "running" /\ phase' = "running"
    <2>1. CodeMoves
      BY <1>1, <1>5, CodeSteps DEF SignaturesInv, NamesInv
    <2>2. CASE CodeStays \/ CodeDeclares \/ CodeDefines \/ CodeTakesParameter
               \/ CodeEndsHeader \/ CodeAddsVariable
      BY <1>1, <1>5, <2>2, OnceStays, OnceDefines, OncePuts, OnceHeader
    <2>3. CASE CodeOpensWhile \/ CodeOpensRepeat \/ CodeOpensFor
      BY <1>5, <2>3, OnceLoops, OnceFor
    <2>4. CASE CodeOpensBranch \/ CodeNextBranch \/ CodeEnds
      BY <1>5, <2>4, OnceBranches, OnceEnds
    <2> QED
      BY <2>1, <2>2, <2>3, <2>4 DEF CodeMoves
  <1>6. CASE phase # "running" /\ phase' = "running"
    <2>1. phase = "prolog" /\ UNCHANGED in_loop /\ Len(calls') = 1
      BY <1>1, <1>6, ParserStep, BeginsFacts DEF loops
    <2>2. UNCHANGED <<instrListFunctions, before_loop_start>>
      BY <1>6, <2>1, PrologCode, NothingEmitted
    <2>3. ~ in_loop' /\ Code' = Code
      BY <2>1, <2>2 DEF LoopsInv, PrologOutsideLoops, Code
    <2>4. OnlyDefvarsAreMoved
      BY <2>3, OnlyDefvarsMeans
    <2>5. Single(Code) /\ Apart(Code) /\ \A i \in 1..Len(Code) : ~ Creates(Code[i])
      BY <2>1, <2>4 DEF OnceInv
    <2>6. \A k \in 2..Len(calls') : FALSE
      BY <2>1
    <2>7. OpenBacks' = {}
      BY <2>6, InBacks
    <2>8. \A v : ~ HasVariable(Code', v)
      BY <2>3, <2>5 DEF HasVariable
    <2>9. Sound(Code', before_loop_start', in_loop', OpenBacks')
      BY <2>3, <2>5, <2>7 DEF Sound, Outside
    <2> QED
      BY <1>6, <2>3, <2>5, <2>8, <2>9 DEF OnceInv
  <1> QED
    BY <1>3, <1>4, <1>5, <1>6

LEMMA InitOnce ==
  ASSUME CodegenInit
  PROVE  OnceInv
  <1>1. Code = <<Other>> /\ phase = "prolog"
    BY DEF CodegenInit, Init, Code
  <1>2. ~ Creates(Other) /\ ~ IsLabel(Other)
    BY DEF Other, Instr, Creates, IsLabel
  <1>3. \A i \in 1..Len(Code) : ~ Creates(Code[i]) /\ ~ IsLabel(Code[i])
    BY <1>1, <1>2
  <1> QED
    BY <1>1, <1>3 DEF OnceInv, Single, Apart

(* The invariant in the terms of the property.                             *)
LEMMA OnceMeans ==
  ASSUME OnceInv
  PROVE  VariablesCreatedOnce
  <1> DEFINE defvars == PlacesOf({"DEFVAR"})
  <1> SUFFICES ASSUME Single(Code), Apart(Code)
               PROVE  /\ \A k \in defvars, m \in defvars :
                           (Code[m].arg = Code[k].arg /\ SameFunction(k, m)) => m = k
                      /\ \A b \in BackwardJumps : \A k \in defvars : k \notin b[1]..b[2]
    BY DEF VariablesCreatedOnce, OnceInv
  <1>1. \A k : k \in defvars <=> k \in 1..Len(Code) /\ Creates(Code[k])
    BY DEF PlacesOf, Places, Creates
  <1>2. FunctionStarts = Starts(Code)
    BY DEF FunctionStarts, PlacesOf, Places, Starts, Begins
  <1>3. \A k, m : SameFunction(k, m) <=> Together(Code, k, m)
    BY <1>2 DEF SameFunction, Together
  <1>4. ASSUME NEW b \in BackwardJumps, NEW k \in defvars PROVE k \notin b[1]..b[2]
    <2>1. /\ b[1] \in 1..Len(Code) /\ b[2] \in 1..Len(Code)
          /\ GoesBack(Code, b[1], b[2])
      BY DEF BackwardJumps, PlacesOf, Places, GoesBack, IsLabel
    <2>2. k < b[1] \/ b[2] < k
      BY <1>1, <2>1 DEF Apart
    <2>3. k \in Int /\ b[1] \in Int /\ b[2] \in Int
      BY <1>1, <2>1
    <2> QED
      BY <2>2, <2>3
  <1> QED
    BY <1>1, <1>3, <1>4 DEF Single

(***************************************************************************)
(* Theorems.                                                               *)
(***************************************************************************)
CodeInv ==
  SignaturesInv /\ LoopsInv /\ ListIsSafe /\ ForVarsKnown /\ LiveAreCreated

LEMMA InitCode == CodegenInit => CodeInv
  <1> SUFFICES ASSUME CodegenInit PROVE CodeInv
    OBVIOUS
  <1>1. SignaturesInv /\ LoopsInv
    BY InitBookkeeping DEF CodegenInit
  <1>2. /\ instrListFunctions.items = <<Other>> /\ instrListFunctions.tail = 1
        /\ before_loop_start = 0 /\ in_loop = FALSE /\ phase = "prolog"
    BY DEF CodegenInit, NULL, Init
  <1>3. IsSeq(<<Other>>) /\ Len(<<Other>>) = 1
    BY TupleFacts
  <1>4. ListIsSafe
    <2>1. tmp_instr = <<>>
      BY DEF CodegenInit
    <2> QED
      BY <1>2, <1>3, <2>1, NoText DEF ListIsSafe, TextIsHeader, Tidy, NULL
  <1>5. ForVarsKnown
    BY <1>2 DEF ForVarsKnown
  <1>6. Prepared(<<Other>>)
    BY PlainFacts DEF Prepared, Plain
  <1>7. LiveAreCreated
    BY <1>2, <1>6 DEF LiveAreCreated, Code
  <1> QED
    BY <1>1, <1>4, <1>5, <1>7 DEF CodeInv

LEMMA StepCode == CodeInv /\ [CodegenNext]_cgvars => CodeInv'
  <1> SUFFICES ASSUME CodeInv, [CodegenNext]_cgvars PROVE CodeInv'
    OBVIOUS
  <1>1. SignaturesInv' /\ LoopsInv'
    BY ParserStep, StepBookkeeping DEF CodeInv
  <1>2. IInv /\ IInv'
    BY <1>1 DEF CodeInv, LoopsInv
  <1>3. ListIsSafe'
    BY <1>2, SafeStep DEF CodeInv, SignaturesInv, NamesInv
  <1>4. ForVarsKnown'
    BY <1>2, ParserStep, ForVarsStep DEF CodeInv
  <1>5. LiveAreCreated'
    BY <1>2, LiveStep DEF CodeInv
  <1> QED
    BY <1>1, <1>3, <1>4, <1>5 DEF CodeInv

(* Inserting a definition in front of the outermost cycle neither fails    *)
(* (list.c:70) nor leaves the list's tail behind (list.c:79), and nothing  *)
(* that was appended is dropped (list.c:63).                               *)
THEOREM InsertionSafe == CodegenSpec => []InsertionIsSafe
  <1>1. CodeInv => InsertionIsSafe
    BY DEF CodeInv, ListIsSafe, InsertionIsSafe, Tidy, Code
  <1> QED
    BY <1>1, InitCode, StepCode, PTL DEF CodegenSpec

(* Whatever is nested in what, and wherever the creation of a variable was *)
(* moved to (generate_defvar), a write to it comes later in the code of    *)
(* the same function: of a parameter, of a definition, of an assignment to *)
(* a variable of an enclosing scope, and of the four variables of a for    *)
(* cycle (code_generator.c:1013-1148).  The one exception is a program of  *)
(* which a for cycle's header was moved together with a definition.        *)
THEOREM VariablesCreated == CodegenSpec => []VariablesCreatedBeforeUse
  <1>1. CodeInv => VariablesCreatedBeforeUse
    BY PreparedMeans DEF CodeInv, LiveAreCreated
  <1> QED
    BY <1>1, InitCode, StepCode, PTL DEF CodegenSpec

(* What the jumps of the code rest on, besides.                            *)
LinkedInv == CodeInv /\ BranchesInv /\ LinksInv

LEMMA StepLinked ==
  ASSUME LinkedInv, [CodegenNext]_cgvars, cond_cnt >= 1, cond_cnt' >= 1
  PROVE  LinkedInv'
  <1>1. CodeInv /\ CodeInv'
    BY StepCode DEF LinkedInv
  <1>2. IInv /\ IInv' /\ IdsIncrease
    BY <1>1 DEF CodeInv, LoopsInv
  <1>3. BranchesInv'
    BY <1>2, ParserStep, BranchesStep DEF LinkedInv
  <1>4. LinksInv'
    BY <1>1, <1>2, LinksStep DEF LinkedInv, CodeInv
  <1> QED
    BY <1>1, <1>3, <1>4 DEF LinkedInv

(* However loops, branches and functions are nested, and wherever a return *)
(* statement is, every jump in an accepted program's code leads to exactly *)
(* one label, in the same function (code_generator.c:912-975, 1083-1148):  *)
(* as long as the branch counter, a char, does not wrap                    *)
(* (code_generator.h:28).                                                  *)
THEOREM JumpsCorrect == CodegenSpec /\ [](cond_cnt >= 1) => []JumpsResolve
  <1>1. CodegenInit => LinkedInv
    BY InitCode, InitLinks DEF LinkedInv
  <1>2. LinkedInv /\ cond_cnt >= 1 /\ (cond_cnt >= 1)' /\ [CodegenNext]_cgvars => LinkedInv'
    BY StepLinked
  <1>3. LinkedInv => JumpsResolve
    BY LinkedMeans DEF LinkedInv
  <1> QED
    BY <1>1, <1>2, <1>3, PTL DEF CodegenSpec

LEMMA FewBranchesCounted ==
  ASSUME MaxScopes <= SCHAR_MAX
  PROVE  CodegenSpec => [](cond_cnt >= 1)
  <1> DEFINE Inv == IInv /\ CondsSaved /\ CountersAreSmall
  <1>1. CodegenInit => Inv
    BY InitBookkeeping DEF LoopsInv, CodegenInit
  <1>2. Inv => cond_cnt >= 1
    BY DEF CountersAreSmall, IInv, TypeOK, CondsOK
  <1>3. Inv /\ [CodegenNext]_cgvars => Inv'
    <2> SUFFICES ASSUME Inv, [CodegenNext]_cgvars PROVE Inv'
      OBVIOUS
    <2>1. [Next]_vars /\ IInv'
      BY ParserStep, StepIInv
    <2>2. CondsSaved'
      <3>1. cond_cnt # 0
        BY <1>2
      <3> QED
        BY <2>1, <3>1, CondsStep
    <2>3. CountersAreSmall'
      BY <2>1, SmallStep
    <2> QED
      BY <2>1, <2>2, <2>3
  <1> HIDE DEF Inv
  <1> QED
    BY <1>1, <1>2, <1>3, PTL DEF CodegenSpec

(* With no more scopes than a char can count, every jump leads to its one  *)
(* label, of whatever functions, loops and branches the program is made.   *)
THEOREM FewBranchesLinked ==
  ASSUME MaxScopes <= SCHAR_MAX
  PROVE  CodegenSpec => []JumpsResolve
  <1>1. CodegenSpec => [](cond_cnt >= 1)
    BY FewBranchesCounted
  <1> QED
    BY <1>1, JumpsCorrect, PTL

(* However loops and branches are nested, and wherever the creations of    *)
(* variables were moved to (generate_defvar, code_generator.c:607), no     *)
(* function creates a variable twice, and none is created between the      *)
(* label of a loop's body and the jump back to it: as long as the branch   *)
(* counter, a char, does not wrap (code_generator.h:28).  The exception is *)
(* again a program of which a for cycle's header was moved.                *)
THEOREM VariablesOnce == CodegenSpec /\ [](cond_cnt >= 1) => []VariablesCreatedOnce
  <1> DEFINE Inv == LinkedInv /\ OnceInv
  <1>1. CodegenInit => Inv
    BY InitCode, InitLinks, InitOnce DEF LinkedInv
  <1>2. Inv /\ cond_cnt >= 1 /\ (cond_cnt >= 1)' /\ [CodegenNext]_cgvars => Inv'
    <2> SUFFICES ASSUME Inv, cond_cnt >= 1, cond_cnt' >= 1, [CodegenNext]_cgvars
                 PROVE  Inv'
      OBVIOUS
    <2>1. LinkedInv'
      BY StepLinked
    <2>2. OnceInv'
      BY <2>1, OnceStep DEF LinkedInv, CodeInv, LoopsInv
    <2> QED
      BY <2>1, <2>2
  <1>3. Inv => VariablesCreatedOnce
    BY OnceMeans
  <1> HIDE DEF Inv
  <1> QED
    BY <1>1, <1>2, <1>3, PTL DEF CodegenSpec

(* With no more scopes than a char can count, no variable is created twice *)
(* and none in a cycle's body, whatever program it is.                     *)
THEOREM FewBranchesOnce ==
  ASSUME MaxScopes <= SCHAR_MAX
  PROVE  CodegenSpec => []VariablesCreatedOnce
  <1>1. CodegenSpec => [](cond_cnt >= 1)
    BY FewBranchesCounted
  <1> QED
    BY <1>1, VariablesOnce, PTL
=============================================================================
