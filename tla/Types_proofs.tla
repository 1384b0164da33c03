----------------------------- MODULE Types_proofs -----------------------------
(***************************************************************************)
(* The types of semantics.c are those of the values at run time, for all   *)
(* declarations, literals, operators, statements and bounds, provided no   *)
(* definition leaves a value on the stack behind a caller's operands.      *)
(***************************************************************************)
EXTENDS Types, SequenceTheorems, TLAPS

(* A body's definitions convert nothing: parser.c:413 pushes the converted *)
(* value once too often, and the caller would take it for an operand.      *)
NoLeftover ==
  "definition" \in BodyStatements => \A x \in DOMAIN VarType : VarType[x] # "f"

-----------------------------------------------------------------------------
(***************************************************************************)
(* What the emitted code makes of kinds, given the types of the checks.    *)
(***************************************************************************)
(* The kinds a type allows.                                                *)
LEMMA MayFacts ==
  /\ May("i") = {"nil", "int"} /\ May("f") = {"nil", "float"}
  /\ May("s") = {"nil", "string"} /\ May("b") = {"nil", "bool"}
  /\ May("n") = {"nil"}
  /\ \A t \in Types : May(t) \subseteq Kinds /\ KindOf[t] \in May(t)
  BY DEF May, Types, KindOf, Kinds

(* An exit code is no kind, and the codes differ.                          *)
LEMMA ExitFacts ==
  /\ Exits \intersect Kinds = {} /\ "no" \notin Exits
  /\ Exits = {NIL_ERROR, DIV_BY_ZERO, REDEFINED, WRONG_TYPE}
  /\ WRONG_TYPE \notin {NIL_ERROR, DIV_BY_ZERO, REDEFINED, "no"}
  BY DEF Exits, Kinds, NIL_ERROR, DIV_BY_ZERO, REDEFINED, WRONG_TYPE

(* A value of a compatible type, converted where the checks say so, has    *)
(* the type it is wanted for.                                              *)
LEMMA Converted ==
  ASSUME NEW t \in Types, NEW u \in Types \ {"n"}, NEW k \in May(t),
         Check_type_compatibility(u, t)
  PROVE  (IF Recast(u, t) THEN recast_to_float(k) ELSE k) \in May(u)
  BY DEF Check_type_compatibility, Recast, recast_to_float, May, KindOf, Types

(* Every operator the checks let through finds operands it accepts.        *)
LEMMA BinaryKinds ==
  ASSUME NEW op \in BinaryOps, NEW t \in Types, NEW u \in Types,
         NEW typing \in Check_binary_compatibility(op, t, u),
         NEW k \in May(t), NEW l \in May(u),
         NEW r \in expression_binary(op, Recasts(typing[2], k, l)[1],
                                         Recasts(typing[2], k, l)[2])
  PROVE  /\ typing[1] \in Types
         /\ r \in Exits => r \in {NIL_ERROR, DIV_BY_ZERO}
         /\ r \notin Exits => r \in May(typing[1])
<1> DEFINE K == Recasts(typing[2], k, l)[1]
           L == Recasts(typing[2], k, l)[2]
           Mix == \/ t = "i" /\ u = "f" /\ typing[2] = "first"
                  \/ t = "f" /\ u = "i" /\ typing[2] = "second"
<1>1. /\ K = IF typing[2] \in {"first", "both"} THEN recast_to_float(k) ELSE k
      /\ L = IF typing[2] \in {"second", "both"} THEN recast_to_float(l) ELSE l
  BY DEF Recasts
<1>2. ASSUME NEW x, NEW y \in {<<x, c>> : c \in Mixed(t, u)}
      PROVE  /\ y[1] = x
             /\ \/ t = "i" /\ u = "f" /\ y[2] = "first"
                \/ t = "f" /\ u = "i" /\ y[2] = "second"
  <2>1. PICK c \in Mixed(t, u) : y = <<x, c>>
    OBVIOUS
  <2>2. y[1] = x /\ y[2] = c
    BY <2>1
  <2> QED
    BY <2>2 DEF Mixed, Types
<1>3. r \in expression_binary(op, K, L)
  OBVIOUS
<1> HIDE DEF K, L
<1>4. CASE op \in Relational
  <2>1. /\ typing[1] = "b"
        /\ \/ t = u /\ typing[2] = "none" /\ ((t # "n" /\ t # "b") \/ op \in {"==", "~="})
           \/ ("n" \in {t, u}) /\ typing[2] = "none" /\ op \in {"==", "~="}
           \/ Mix
    <3> DEFINE alike == t = u /\ t \notin {"n", "b"}
               equal == op \in {"==", "~="} /\ ("n" \in {t, u} \/ t = u)
    <3>1. typing \in IF alike THEN {<<"b", "none">>}
                     ELSE IF Mixed(t, u) # {} THEN {<<"b", c>> : c \in Mixed(t, u)}
                     ELSE IF equal THEN {<<"b", "none">>} ELSE {}
      <4>1. Check_binary_compatibility(op, t, u) =
              IF t = u /\ t \notin {"n", "b"} THEN {<<"b", "none">>}
              ELSE IF Mixed(t, u) # {} THEN {<<"b", c>> : c \in Mixed(t, u)}
              ELSE IF op \in {"==", "~="} /\ ("n" \in {t, u} \/ t = u)
                   THEN {<<"b", "none">>} ELSE {}
        BY <1>4, Zenon
           DEF Check_binary_compatibility, Relational, Arithmetic, IntegerOps
      <4> QED
        BY <4>1
    <3>2. CASE alike
      BY <3>1, <3>2
    <3>3. CASE ~ alike /\ Mixed(t, u) # {}
      <4>1. typing \in {<<"b", c>> : c \in Mixed(t, u)}
        BY <3>1, <3>3
      <4> QED
        BY <1>2, <4>1
    <3>4. CASE ~ alike /\ Mixed(t, u) = {} /\ equal
      <4>1. typing = <<"b", "none">>
        BY <3>1, <3>4
      <4> QED
        BY <3>4, <4>1
    <3> HIDE DEF alike, equal
    <3> QED
      BY <3>1, <3>2, <3>3, <3>4
  <2>2. r \in IF op \in {"==", "~="} THEN If(K = L \/ "nil" \in {K, L}, {"bool"})
                                   ELSE Checked(K, L, If(K = L, {"bool"}))
    BY <1>3, <1>4 DEF expression_binary, Relational, IntegerOps
  <2> QED
    BY <2>1, <2>2, <1>1, MayFacts, ExitFacts
       DEF If, Checked, recast_to_float, Types, Kinds
<1>5. CASE op \in Arithmetic
  <2>1. \/ t = "i" /\ u = "i" /\ typing = <<"f", "both">> /\ op \in {"/", "^"}
        \/ t = "i" /\ u = "i" /\ typing = <<"i", "none">> /\ op \notin {"/", "^"}
        \/ t = "f" /\ u = "f" /\ typing = <<"f", "none">>
        \/ Mix /\ typing[1] = "f"
    <3>1. typing \in IF t = "i" /\ u = "i"
                     THEN IF op \in {"/", "^"} THEN {<<"f", "both">>} ELSE {<<"i", "none">>}
                     ELSE IF t = "f" /\ u = "f" THEN {<<"f", "none">>}
                     ELSE {<<"f", c>> : c \in Mixed(t, u)}
      <4>1. Check_binary_compatibility(op, t, u) =
              IF <<t, u>> = <<"i", "i">>
              THEN IF op \in {"/", "^"} THEN {<<"f", "both">>} ELSE {<<"i", "none">>}
              ELSE IF <<t, u>> = <<"f", "f">> THEN {<<"f", "none">>}
              ELSE {<<"f", c>> : c \in Mixed(t, u)}
        BY <1>5, Zenon
           DEF Check_binary_compatibility, Relational, Arithmetic, IntegerOps
      <4> QED
        BY <4>1
    <3>2. CASE typing \in {<<"f", c>> : c \in Mixed(t, u)}
      BY <1>2, <3>2
    <3> QED
      BY <3>1, <3>2
  <2>2. r \in Checked(K, L, IF op \in {"/", "^"}
                            THEN If(K = "float" /\ L = "float", {DIV_BY_ZERO, "float"})
                            ELSE If(K = L /\ K \in {"int", "float"}, {K}))
    BY <1>3, <1>5 DEF expression_binary, Arithmetic, IntegerOps
  <2>3. typing[1] = "f" => K \in {"nil", "float"} /\ L \in {"nil", "float"}
    BY <2>1, <1>1, MayFacts DEF recast_to_float
  <2>4. typing[1] # "f" => K \in {"nil", "int"} /\ L \in {"nil", "int"}
                           /\ typing[1] = "i" /\ op \notin {"/", "^"}
    BY <2>1, <1>1, MayFacts
  <2>5. K \in Kinds /\ L \in Kinds /\ WRONG_TYPE \notin Kinds
    BY <2>3, <2>4, ExitFacts DEF Kinds
  <2>6. CASE "nil" \in {K, L}
    BY <2>2, <2>3, <2>4, <2>5, <2>6, ExitFacts DEF Checked, Types
  <2>7. CASE "nil" \notin {K, L}
    <3>1. r \in IF op \in {"/", "^"}
               THEN If(K = "float" /\ L = "float", {DIV_BY_ZERO, "float"})
               ELSE If(K = L /\ K \in {"int", "float"}, {K})
      BY <2>2, <2>5, <2>7 DEF Checked
    <3>2. r = K \/ r = DIV_BY_ZERO
      BY <3>1, <2>3, <2>4, <2>7 DEF If
    <3> QED
      BY <3>2, <2>3, <2>4, <2>5, <2>7, MayFacts, ExitFacts DEF Types
  <2> QED
    BY <2>6, <2>7
<1>6. CASE op \in IntegerOps
  <2>1. t = "i" /\ u = "i" /\ typing = <<"i", "none">>
    BY <1>6 DEF Check_binary_compatibility, Relational, Arithmetic, IntegerOps
  <2>2. r \in Checked(K, L, If(K = "int" /\ L = "int", {DIV_BY_ZERO, "int"}))
    BY <1>3, <1>6 DEF expression_binary, IntegerOps
  <2> QED
    BY <2>1, <2>2, <1>1, MayFacts, ExitFacts DEF If, Checked, Types, Kinds
<1>7. CASE op = ".."
  <2>1. t = "s" /\ u = "s" /\ typing = <<"s", "none">>
    BY <1>7 DEF Check_binary_compatibility, Relational, Arithmetic, IntegerOps
  <2>2. r \in Checked(K, L, If(K = "string" /\ L = "string", {"string"}))
    BY <1>3, <1>7 DEF expression_binary, IntegerOps
  <2> QED
    BY <2>1, <2>2, <1>1, MayFacts, ExitFacts DEF If, Checked, Types, Kinds
<1>8. CASE op \in {"and", "or"}
  <2>1. t = "b" /\ u = "b" /\ typing = <<"b", "none">>
    BY <1>8 DEF Check_binary_compatibility, Relational, Arithmetic, IntegerOps
  <2>2. r \in Checked(K, L, If(K = "bool" /\ L = "bool", {"bool"}))
    BY <1>3, <1>8 DEF expression_binary, IntegerOps
  <2> QED
    BY <2>1, <2>2, <1>1, MayFacts, ExitFacts DEF If, Checked, Types, Kinds
<1> QED
  BY <1>4, <1>5, <1>6, <1>7, <1>8, OperatorsAssumption

(* The same for the operators of one operand.                              *)
LEMMA UnaryKinds ==
  ASSUME NEW op \in UnaryOps, NEW t \in Types,
         NEW u \in Check_unary_compatability(op, t), NEW k \in May(t),
         NEW r \in expression_unary(op, k)
  PROVE  /\ u \in Types
         /\ r \in Exits => r \in {NIL_ERROR, DIV_BY_ZERO}
         /\ r \notin Exits => r \in May(u)
<1> USE MayFacts, ExitFacts DEF If, Checked
<1>1. CASE op = "-"
  BY <1>1 DEF Check_unary_compatability, expression_unary, Types, Kinds
<1>2. CASE op = "not"
  BY <1>2 DEF Check_unary_compatability, expression_unary, Types, Kinds
<1>3. CASE op = "#"
  BY <1>3 DEF Check_unary_compatability, expression_unary, Types, Kinds
<1> QED
  BY <1>1, <1>2, <1>3, OperatorsAssumption

-----------------------------------------------------------------------------
(***************************************************************************)
(* Sequences without their newest elements, and of these alone.            *)
(***************************************************************************)
LEMMA DropFacts ==
  ASSUME NEW S, NEW s \in Seq(S), NEW n \in 0..Len(s)
  PROVE  /\ Drop(s, n) \in Seq(S) /\ Len(Drop(s, n)) = Len(s) - n
         /\ \A i \in 1..(Len(s) - n) : Drop(s, n)[i] = s[i]
<1>1. Len(s) \in Nat /\ n \in Nat /\ n <= Len(s)
  BY LenProperties
<1> DEFINE m == Len(s) - n
<1>2. m \in Nat /\ m <= Len(s)
  BY <1>1
<1>3. \A i \in 1..m : s[i] \in S
  BY <1>1, <1>2, ElementOfSeq
<1> HIDE DEF m
<1>4. /\ SubSeq(s, 1, m) \in Seq(S)
      /\ Len(SubSeq(s, 1, m)) = IF 1 <= m THEN m - 1 + 1 ELSE 0
      /\ \A i \in 1..(m - 1 + 1) : SubSeq(s, 1, m)[i] = s[1 + i - 1]
  BY <1>2, <1>3, SubSeqProperties
<1>5. Len(SubSeq(s, 1, m)) = m /\ m - 1 + 1 = m
  BY <1>2, <1>4
<1>6. ASSUME NEW i \in 1..m PROVE SubSeq(s, 1, m)[i] = s[i]
  <2>1. 1 + i - 1 = i
    BY <1>2
  <2> QED
    BY <1>4, <1>5, <2>1
<1> QED
  BY <1>4, <1>5, <1>6 DEF Drop, m

LEMMA NewestFacts ==
  ASSUME NEW S, NEW s \in Seq(S), NEW n \in 0..Len(s)
  PROVE  /\ Newest(s, n) \in Seq(S) /\ Len(Newest(s, n)) = n
         /\ \A i \in 1..n : Newest(s, n)[i] = s[Len(s) - n + i]
<1> DEFINE l == Len(s)
           m == l - n + 1
<1>1. l \in Nat /\ n \in Nat /\ n <= l /\ m \in 1..(l + 1)
  BY LenProperties
<1>2. \A i \in m..l : s[i] \in S
  BY <1>1, ElementOfSeq
<1>3. /\ SubSeq(s, m, l) \in Seq(S)
      /\ Len(SubSeq(s, m, l)) = IF m <= l THEN l - m + 1 ELSE 0
      /\ \A i \in 1..(l - m + 1) : SubSeq(s, m, l)[i] = s[m + i - 1]
  BY <1>1, <1>2, SubSeqProperties
<1>4. Len(SubSeq(s, m, l)) = n /\ l - m + 1 = n
  BY <1>1, <1>3
<1>5. ASSUME NEW i \in 1..n PROVE SubSeq(s, m, l)[i] = s[l - n + i]
  <2>1. m + i - 1 = l - n + i
    BY <1>1
  <2> QED
    BY <1>3, <1>4, <2>1
<1> QED
  BY <1>3, <1>4, <1>5 DEF Newest

-----------------------------------------------------------------------------
(***************************************************************************)
(* The inductive invariant.  What the callers wait with lies on the data   *)
(* stack without a gap, the operands of the body that runs on top of it:   *)
(* those of the k-th activation begin behind position base[k].             *)
(***************************************************************************)
(* Local frames whose variables are of their declared types.               *)
Envs == {e \in [DOMAIN VarType -> Kinds]
                  \union [DOMAIN VarType \union {"%exp"} -> Kinds] :
           \A x \in DOMAIN VarType : e[x] \in May(VarType[x])}

SortsOK ==
  /\ items \in Seq(Types) /\ data \in Seq(Kinds) /\ env \in Envs
  /\ frames \in Seq([items : Seq(Types), env : Envs])
  /\ exit \in {"no", NIL_ERROR, DIV_BY_ZERO, REDEFINED}

(* The values behind position b have the types in its.                     *)
Lie(b, its) == \A i \in 1..Len(its) : data[b + i] \in May(its[i])

Callers(base) ==
  /\ \A j, k \in 1..(Len(frames) + 1) : j <= k => base[j] <= base[k]
  /\ \A k \in 1..Len(frames) : /\ base[k] + Len(frames[k].items) = base[k + 1]
                               /\ Lie(base[k], frames[k].items)

OnTop(base) ==
  /\ base[Len(frames) + 1] + Len(items) = Len(data)
  /\ Lie(base[Len(frames) + 1], items)

Aligned == \E base \in [1..(Len(frames) + 1) -> Nat] :
             Callers(base) /\ OnTop(base)

TypesInv == SortsOK /\ Aligned

(* The newest operands are those of the body that runs.                    *)
LEMMA TopFacts ==
  ASSUME TypesInv
  PROVE  /\ Len(items) \in Nat /\ Len(data) \in Nat /\ Len(items) <= Len(data)
         /\ Len(data) - Len(items) \in Nat
         /\ \A i \in 1..Len(items) : /\ items[i] \in Types
                                   /\ data[Len(data) - Len(items) + i] \in May(items[i])
<1>1. Len(items) \in Nat /\ Len(data) \in Nat /\ Len(frames) \in Nat
  BY LenProperties DEF TypesInv, SortsOK
<1>2. PICK base \in [1..(Len(frames) + 1) -> Nat] : OnTop(base)
  BY DEF TypesInv, Aligned
<1>3. PICK b \in Nat : b = base[Len(frames) + 1]
  BY <1>1
<1>4. b + Len(items) = Len(data) /\ Lie(b, items)
  BY <1>2, <1>3 DEF OnTop
<1>5. Len(data) - Len(items) = b
  BY <1>1, <1>4
<1>6. \A i \in 1..Len(items) : data[b + i] \in May(items[i])
  BY <1>4 DEF Lie
<1>7. \A i \in 1..Len(items) : items[i] \in Types
  BY ElementOfSeq DEF TypesInv, SortsOK
<1>8. \A i \in 1..Len(items) : data[Len(data) - Len(items) + i] \in May(items[i])
  BY <1>5, <1>6
<1> QED
  BY ONLY <1>1, <1>4, <1>5, <1>7, <1>8

(* A step inside one body leaves what lies below its operands alone.       *)
LEMMA BodyStep ==
  ASSUME TypesInv, SortsOK', UNCHANGED frames,
         Len(data)' - Len(items)' = Len(data) - Len(items),
         \A i \in 1..(Len(data) - Len(items)) : data'[i] = data[i],
         \A i \in 1..Len(items)' :
           data'[Len(data) - Len(items) + i] \in May(items'[i])
  PROVE  TypesInv'
<1>1. /\ Len(items) \in Nat /\ Len(data) \in Nat /\ Len(frames) \in Nat
      /\ Len(items)' \in Nat /\ Len(data)' \in Nat
  BY LenProperties DEF TypesInv, SortsOK
<1>2. PICK base \in [1..(Len(frames) + 1) -> Nat] : Callers(base) /\ OnTop(base)
  BY DEF TypesInv, Aligned
<1>3. PICK b \in Nat : b = base[Len(frames) + 1]
  <2>1. Len(frames) + 1 \in 1..(Len(frames) + 1)
    BY <1>1
  <2> QED
    BY <2>1
<1>4. b = Len(data) - Len(items)
  BY <1>1, <1>2, <1>3 DEF OnTop
<1>5. b + Len(items)' = Len(data)' /\ Lie(b, items)'
  BY <1>1, <1>4 DEF Lie
<1>6. ASSUME NEW k \in 1..Len(frames) PROVE Lie(base[k], frames[k].items)'
  <2>1. PICK c \in Nat : c = base[k]
    BY <1>1
  <2>2. PICK its : its = frames[k].items
    OBVIOUS
  <2>3. its \in Seq(Types)
    <3>1. frames \in Seq([items : Seq(Types), env : Envs])
      BY DEF TypesInv, SortsOK
    <3>2. frames[k] \in [items : Seq(Types), env : Envs]
      BY <3>1, ElementOfSeq
    <3> QED
      BY <2>2, <3>2
  <2>4. PICK n \in Nat : n = Len(its)
    BY <2>3, LenProperties
  <2>5. c + n = base[k + 1] /\ Lie(c, its) /\ base[k + 1] <= b
    <3>1. k + 1 \in 1..(Len(frames) + 1) /\ Len(frames) + 1 \in 1..(Len(frames) + 1)
          /\ k + 1 <= Len(frames) + 1
      BY <1>1
    <3> QED
      BY <1>2, <1>3, <2>1, <2>2, <2>4, <3>1 DEF Callers
  <2>6. \A i \in 1..n : c + i \in 1..b
    BY <2>5
  <2>7. \A i \in 1..n : data'[c + i] \in May(its[i])
    BY <2>4, <2>5, <2>6, <1>4 DEF Lie
  <2> QED
    BY <2>1, <2>2, <2>4, <2>7 DEF Lie
<1>7. Callers(base)'
  BY <1>2, <1>6 DEF Callers
<1>8. OnTop(base)'
  BY <1>3, <1>5 DEF OnTop
<1> QED
  BY <1>7, <1>8 DEF TypesInv, Aligned

(* In main nobody waits, and what lies below the operands does not matter. *)
LEMMA MainStep ==
  ASSUME SortsOK', frames' = <<>>, items' = <<>>
  PROVE  TypesInv'
<1>1. Len(items)' = 0 /\ Len(frames)' = 0
  OBVIOUS
<1>2. PICK n \in Nat : n = Len(data)'
  BY LenProperties DEF SortsOK
<1> DEFINE base == [k \in 1..1 |-> n]
<1>3. base \in [1..(Len(frames)' + 1) -> Nat] /\ base[1] = Len(data)'
  BY <1>1, <1>2
<1> HIDE DEF base
<1>4. Callers(base)'
  <2>1. \A j, k \in 1..(Len(frames)' + 1) : j = 1 /\ k = 1
    BY <1>1
  <2>2. 1..Len(frames)' = {}
    BY <1>1
  <2> QED
    BY <1>1, <1>3, <2>1, <2>2 DEF Callers
<1>5. OnTop(base)'
  <2>1. Len(frames)' + 1 = 1 /\ 1..Len(items)' = {}
    BY <1>1
  <2> QED
    BY <1>1, <1>3, <2>1 DEF OnTop, Lie
<1> QED
  BY <1>3, <1>4, <1>5 DEF TypesInv, Aligned

(* The result of an operation takes the place of its n operands.           *)
LEMMA ReplaceStep ==
  ASSUME TypesInv, NEW n \in 0..Len(items), NEW t \in Types, NEW k \in May(t),
         items' = Append(Drop(items, n), t), data' = Append(Drop(data, n), k),
         UNCHANGED <<frames, exit>>, env' \in Envs
  PROVE  TypesInv'
<1>1. /\ items \in Seq(Types) /\ data \in Seq(Kinds)
      /\ Len(items) \in Nat /\ Len(data) \in Nat
      /\ Len(items) <= Len(data) /\ n \in 0..Len(data) /\ k \in Kinds
  BY TopFacts, MayFacts DEF TypesInv, SortsOK
<1>2. PICK its, dat : its = Drop(items, n) /\ dat = Drop(data, n)
  OBVIOUS
<1>3. /\ its \in Seq(Types) /\ Len(its) = Len(items) - n
      /\ \A i \in 1..(Len(items) - n) : its[i] = items[i]
  BY <1>1, <1>2, DropFacts
<1>4. /\ dat \in Seq(Kinds) /\ Len(dat) = Len(data) - n
      /\ \A i \in 1..(Len(data) - n) : dat[i] = data[i]
  BY <1>1, <1>2, DropFacts
<1>5. PICK p : p \in Nat /\ p = Len(items) - n
  BY ONLY <1>1
<1>6. PICK q : q \in Nat /\ q = Len(data) - n
  BY ONLY <1>1
<1>7. /\ items' \in Seq(Types) /\ Len(items') = p + 1 /\ items'[p + 1] = t
      /\ \A i \in 1..p : items'[i] = items[i]
  BY <1>2, <1>3, <1>5, AppendProperties
<1>8. /\ data' \in Seq(Kinds) /\ Len(data') = q + 1 /\ data'[q + 1] = k
      /\ \A i \in 1..q : data'[i] = data[i]
  BY <1>1, <1>2, <1>4, <1>6, AppendProperties
<1>9. SortsOK'
  BY <1>7, <1>8 DEF TypesInv, SortsOK
<1>10. PICK b : b \in Nat /\ b = Len(data) - Len(items)
  BY ONLY <1>1
<1>11. q = b + p /\ p <= Len(items)
  BY ONLY <1>1, <1>5, <1>6, <1>10
<1>12. Len(data)' - Len(items)' = b
  BY ONLY <1>5, <1>6, <1>7, <1>8, <1>10, <1>11
<1>13. 1..b \subseteq 1..q
  BY ONLY <1>5, <1>10, <1>11
<1>14. \A i \in 1..b : data'[i] = data[i]
  BY <1>8, <1>13
<1>15. ASSUME NEW i \in 1..(p + 1) PROVE data'[b + i] \in May(items'[i])
  <2>1. i = p + 1 \/ i \in 1..p
    BY ONLY <1>5, i \in 1..(p + 1)
  <2>2. CASE i = p + 1
    <3>1. b + i = q + 1
      BY ONLY <1>5, <1>10, <1>11, <2>2
    <3> QED
      BY <1>7, <1>8, <2>2, <3>1
  <2>3. CASE i \in 1..p
    <3>1. b + i \in 1..q /\ i \in 1..Len(items)
      BY ONLY <1>1, <1>5, <1>10, <1>11, <2>3
    <3>2. data[b + i] \in May(items[i])
      BY <1>10, <3>1, TopFacts
    <3> QED
      BY <1>7, <1>8, <2>3, <3>1, <3>2
  <2> QED
    BY <2>1, <2>2, <2>3
<1> QED
  BY <1>7, <1>9, <1>10, <1>12, <1>14, <1>15, BodyStep

(* A statement takes the values of its expression from the stack.          *)
LEMMA ClearStep ==
  ASSUME TypesInv, items' = <<>>, data' = Drop(data, Len(items)),
         UNCHANGED frames, env' \in Envs,
         exit' \in {"no", NIL_ERROR, DIV_BY_ZERO, REDEFINED}
  PROVE  TypesInv'
<1>1. /\ data \in Seq(Kinds) /\ Len(items) \in 0..Len(data)
      /\ Len(items) \in Nat /\ Len(data) \in Nat
  BY TopFacts DEF TypesInv, SortsOK
<1>2. PICK m \in Nat : m = Len(items)
  BY <1>1
<1>3. /\ data' \in Seq(Kinds) /\ Len(data') = Len(data) - m
      /\ \A i \in 1..(Len(data) - m) : data'[i] = data[i]
  BY <1>1, <1>2, DropFacts
<1>4. items' \in Seq(Types) /\ Len(items)' = 0 /\ 1..Len(items)' = {}
  OBVIOUS
<1>5. SortsOK'
  BY <1>3, <1>4 DEF TypesInv, SortsOK
<1>6. Len(data)' - Len(items)' = Len(data) - Len(items)
  BY <1>1, <1>2, <1>3, <1>4
<1> QED
  BY <1>2, <1>3, <1>4, <1>5, <1>6, BodyStep

(* A call's arguments are taken; what is left waits for the callee.        *)
LEMMA CallStep ==
  ASSUME TypesInv, NEW n \in 0..Len(items), NEW e \in Envs,
         frames' = Append(frames, [items |-> Drop(items, n), env |-> env]),
         items' = <<>>, data' = Drop(data, n), env' = e, UNCHANGED exit
  PROVE  TypesInv'
<1>1. /\ items \in Seq(Types) /\ data \in Seq(Kinds) /\ env \in Envs
      /\ frames \in Seq([items : Seq(Types), env : Envs])
      /\ Len(items) \in Nat /\ Len(data) \in Nat
      /\ Len(items) <= Len(data) /\ n \in 0..Len(data)
  BY TopFacts DEF TypesInv, SortsOK
<1>2. PICK its : its = Drop(items, n)
  OBVIOUS
<1>3. /\ its \in Seq(Types) /\ Len(its) = Len(items) - n
      /\ \A i \in 1..(Len(items) - n) : its[i] = items[i]
  BY <1>1, <1>2, DropFacts
<1>4. /\ data' \in Seq(Kinds) /\ Len(data') = Len(data) - n
      /\ \A i \in 1..(Len(data) - n) : data'[i] = data[i]
  BY <1>1, DropFacts
<1>5. PICK f : f = [items |-> its, env |-> env]
  OBVIOUS
<1>6. f \in [items : Seq(Types), env : Envs] /\ f.items = its
  BY <1>1, <1>3, <1>5
<1>7. PICK m : m \in Nat /\ m = Len(frames)
  BY <1>1, LenProperties
<1>8. /\ frames' \in Seq([items : Seq(Types), env : Envs])
      /\ Len(frames') = m + 1 /\ frames'[m + 1] = f
      /\ \A i \in 1..m : frames'[i] = frames[i]
  BY <1>1, <1>2, <1>5, <1>6, <1>7, AppendProperties
<1>9. items' \in Seq(Types) /\ Len(items)' = 0 /\ 1..Len(items)' = {}
  OBVIOUS
<1>10. SortsOK'
  BY <1>4, <1>8, <1>9 DEF TypesInv, SortsOK
<1>11. PICK base \in [1..(m + 1) -> Nat] : Callers(base) /\ OnTop(base)
  BY <1>7 DEF TypesInv, Aligned
<1>12. PICK p : p \in Nat /\ p = Len(items) - n
  BY ONLY <1>1
<1>13. PICK q : q \in Nat /\ q = Len(data) - n
  BY ONLY <1>1
<1>14. PICK b : b \in Nat /\ b = base[m + 1]
  <2>1. m + 1 \in 1..(m + 1)
    BY <1>7
  <2> QED
    BY <1>11, <2>1
<1>15. b + p = q
  <2>1. b + Len(items) = Len(data)
    BY <1>7, <1>11, <1>14 DEF OnTop
  <2>2. Len(items) \in Nat /\ Len(data) \in Nat /\ n \in Nat
    BY ONLY <1>1
  <2> QED
    BY ONLY <1>12, <1>13, <1>14, <2>1, <2>2
<1> DEFINE above == [k \in 1..(m + 2) |-> IF k = m + 2 THEN q ELSE base[k]]
<1>16. /\ above \in [1..(m + 2) -> Nat] /\ above[m + 2] = q
       /\ \A k \in 1..(m + 1) : above[k] = base[k] /\ above[k] \in Nat /\ above[k] <= b
  <2>1. \A k \in 1..(m + 1) : base[k] \in Nat /\ k # m + 2 /\ k \in 1..(m + 2)
    BY <1>7, <1>11
  <2>2. m + 2 \in 1..(m + 2) /\ \A k \in 1..(m + 2) : k # m + 2 => k \in 1..(m + 1)
    BY <1>7
  <2>3. \A k \in 1..(m + 1) : base[k] <= b
    <3>1. m + 1 \in 1..(m + 1) /\ \A k \in 1..(m + 1) : k <= m + 1
      BY <1>7
    <3> QED
      BY <1>7, <1>11, <1>14, <3>1 DEF Callers
  <2> QED
    BY <1>13, <2>1, <2>2, <2>3
<1> HIDE DEF above
<1>17. \A j, k \in 1..(m + 2) : j <= k => above[j] <= above[k]
  <2> SUFFICES ASSUME NEW j \in 1..(m + 2), NEW k \in 1..(m + 2), j <= k
               PROVE  above[j] <= above[k]
    OBVIOUS
  <2>1. CASE k = m + 2
    <3>1. b <= q
      BY ONLY <1>12, <1>13, <1>14, <1>15
    <3>2. j = m + 2 \/ j \in 1..(m + 1)
      BY <1>7
    <3> QED
      BY <1>13, <1>14, <1>16, <2>1, <3>1, <3>2
  <2>2. CASE k # m + 2
    <3>1. j \in 1..(m + 1) /\ k \in 1..(m + 1)
      BY <1>7, <2>2
    <3>2. base[j] <= base[k]
      BY <1>7, <1>11, <3>1 DEF Callers
    <3> QED
      BY <1>16, <3>1, <3>2
  <2> QED
    BY <2>1, <2>2
<1>18. ASSUME NEW k \in 1..(m + 1)
       PROVE  /\ above[k] + Len(frames'[k].items) = above[k + 1]
              /\ \A i \in 1..Len(frames'[k].items) :
                    data'[above[k] + i] \in May(frames'[k].items[i])
  <2>1. CASE k = m + 1
    <3>1. frames'[k].items = its /\ above[k] = b /\ above[k + 1] = q
      <4>1. k + 1 = m + 2
        BY ONLY <1>7, <2>1
      <4> QED
        BY <1>6, <1>8, <1>14, <1>16, <2>1, <4>1
    <3>2. Len(its) = p
      BY <1>3, <1>12
    <3>3. ASSUME NEW i \in 1..p PROVE data'[b + i] \in May(its[i])
      <4>1. b + i \in 1..q /\ i \in 1..Len(items)
        BY ONLY <1>1, <1>12, <1>13, <1>14, <1>15, i \in 1..p
      <4>2. data[b + i] \in May(items[i])
        BY <1>7, <1>11, <1>14, <4>1 DEF OnTop, Lie
      <4> QED
        BY <1>3, <1>4, <1>12, <1>13, <4>1, <4>2
    <3> QED
      BY <1>15, <3>1, <3>2, <3>3
  <2>2. CASE k \in 1..m
    <3>1. PICK c : c \in Nat /\ c = above[k]
      BY <1>16
    <3>2. k + 1 \in 1..(m + 1) /\ k \in 1..(m + 1)
      BY ONLY <1>7, <2>2
    <3>3. base[k] = c /\ base[k + 1] = above[k + 1] /\ above[k + 1] \in Nat
          /\ above[k + 1] <= b
      BY <1>16, <3>1, <3>2
    <3>4. PICK cits : cits = frames[k].items
      OBVIOUS
    <3>5. c + Len(cits) = above[k + 1] /\ Lie(c, cits)
      BY <1>7, <1>11, <2>2, <3>3, <3>4 DEF Callers
    <3>6. PICK n2 : n2 \in Nat /\ n2 = Len(cits)
      <4>1. frames[k] \in [items : Seq(Types), env : Envs]
        BY <1>1, <1>7, <2>2, ElementOfSeq
      <4> QED
        BY <3>4, <4>1, LenProperties
    <3>7. \A i \in 1..n2 : c + i \in 1..q
      <4>1. PICK d : d \in Nat /\ d = above[k + 1]
        BY <3>3
      <4>2. c + n2 = d /\ d <= b
        BY <3>3, <3>5, <3>6, <4>1
      <4>3. c \in Nat /\ n2 \in Nat /\ d \in Nat /\ b \in Nat /\ q \in Nat /\ p \in Nat
        BY <1>12, <1>13, <1>14, <3>1, <3>6, <4>1
      <4>4. b + p = q
        BY <1>15
      <4> QED
        BY ONLY <4>2, <4>3, <4>4
    <3>8. \A i \in 1..n2 : data'[c + i] \in May(cits[i])
      BY <1>4, <1>13, <3>5, <3>6, <3>7 DEF Lie
    <3> QED
      BY <1>8, <2>2, <3>1, <3>4, <3>5, <3>6, <3>8
  <2> QED
    BY <1>7, <2>1, <2>2
<1>19. Callers(above)'
  <2>1. Len(frames)' = m + 1 /\ (m + 1) + 1 = m + 2
    BY <1>7, <1>8
  <2> QED
    BY <1>17, <1>18, <2>1 DEF Callers, Lie
<1>20. OnTop(above)'
  <2>1. Len(frames)' + 1 = m + 2
    BY <1>7, <1>8
  <2> QED
    BY <1>4, <1>9, <1>13, <1>16, <2>1 DEF OnTop, Lie
<1>21. Aligned'
  <2>1. Len(frames)' + 1 = m + 2
    BY <1>7, <1>8
  <2> QED
    BY <1>16, <1>19, <1>20, <2>1 DEF Aligned
<1> QED
  BY <1>10, <1>21 DEF TypesInv

(* A value of the callee's return type comes on top of what waited.        *)
LEMMA ReturnStep ==
  ASSUME TypesInv, frames # <<>>, NEW k \in May(ReturnType), GiveBack(k)
  PROVE  TypesInv'
<1>1. /\ items \in Seq(Types) /\ data \in Seq(Kinds)
      /\ frames \in Seq([items : Seq(Types), env : Envs])
      /\ Len(items) \in Nat /\ Len(data) \in Nat
      /\ Len(items) <= Len(data) /\ Len(items) \in 0..Len(data)
  BY TopFacts DEF TypesInv, SortsOK
<1>2. PICK m : m \in Nat /\ m + 1 = Len(frames)
  <2>1. Len(frames) \in Nat \ {0}
    BY <1>1, EmptySeq
  <2>2. Len(frames) - 1 \in Nat /\ (Len(frames) - 1) + 1 = Len(frames)
    BY <2>1
  <2> QED
    BY <2>2
<1>3. m + 1 \in 1..(m + 1) /\ 1 \in 0..(m + 1) /\ (m + 1) - 1 = m /\ (m + 1) + 1 = m + 2
  BY ONLY <1>2
<1>4. PICK f : f = frames[m + 1]
  OBVIOUS
<1>5. f \in [items : Seq(Types), env : Envs]
  BY <1>1, <1>2, <1>3, <1>4, ElementOfSeq
<1>6. PICK its : its = f.items
  OBVIOUS
<1>7. PICK p : p \in Nat /\ p = Len(its)
  BY <1>5, <1>6, LenProperties
<1>8. PICK dat : dat = Drop(data, Len(items))
  OBVIOUS
<1>9. PICK q : q \in Nat /\ q = Len(data) - Len(items)
  BY ONLY <1>1
<1>10. /\ dat \in Seq(Kinds) /\ Len(dat) = q /\ \A i \in 1..q : dat[i] = data[i]
  BY <1>1, <1>8, <1>9, DropFacts
<1>11. Last(frames) = f
  BY <1>2, <1>4 DEF Last
<1>12. k \in Kinds /\ ReturnType \in Types
  BY MayFacts, DeclarationsAssumption
<1>13. /\ items' \in Seq(Types) /\ Len(items') = p + 1 /\ items'[p + 1] = ReturnType
       /\ \A i \in 1..p : items'[i] = its[i]
  BY <1>5, <1>6, <1>7, <1>11, <1>12, AppendProperties DEF GiveBack
<1>14. /\ data' \in Seq(Kinds) /\ Len(data') = q + 1 /\ data'[q + 1] = k
       /\ \A i \in 1..q : data'[i] = data[i]
  BY <1>8, <1>10, <1>12, AppendProperties DEF GiveBack
<1>15. /\ frames' \in Seq([items : Seq(Types), env : Envs]) /\ Len(frames') = m
       /\ \A i \in 1..m : frames'[i] = frames[i]
  <2>1. 1 \in 0..Len(frames) /\ Len(frames) - 1 = m
    BY ONLY <1>2, <1>3
  <2>2. frames' = Drop(frames, 1)
    BY DEF GiveBack
  <2> QED
    BY <1>1, <2>1, <2>2, DropFacts
<1>16. SortsOK'
  BY <1>5, <1>11, <1>13, <1>14, <1>15 DEF TypesInv, SortsOK, GiveBack, Parsed
<1>17. PICK base \in [1..(m + 2) -> Nat] : Callers(base) /\ OnTop(base)
  BY <1>2, <1>3 DEF TypesInv, Aligned
<1>18. PICK b : b \in Nat /\ b = base[m + 1]
  <2>1. m + 1 \in 1..(m + 2)
    BY ONLY <1>2
  <2> QED
    BY <1>17, <2>1
<1>19. base[m + 2] = q /\ b + p = q
  <2>1. base[m + 2] \in Nat
    <3>1. m + 2 \in 1..(m + 2)
      BY ONLY <1>2
    <3> QED
      BY <1>17, <3>1
  <2>2. base[m + 2] + Len(items) = Len(data)
    BY <1>2, <1>3, <1>17 DEF OnTop
  <2>3. b + p = base[m + 2]
    BY <1>2, <1>3, <1>4, <1>6, <1>7, <1>17, <1>18 DEF Callers
  <2>4. Len(items) \in Nat /\ Len(data) \in Nat
    BY ONLY <1>1
  <2> QED
    BY ONLY <1>9, <2>1, <2>2, <2>3, <2>4
<1> DEFINE below == [j \in 1..(m + 1) |-> base[j]]
<1>20. /\ below \in [1..(m + 1) -> Nat]
       /\ \A j \in 1..(m + 1) : below[j] = base[j] /\ below[j] \in Nat /\ base[j] <= b
  <2>1. \A j \in 1..(m + 1) : j \in 1..(m + 2) /\ j <= m + 1
    BY ONLY <1>2
  <2>2. \A j \in 1..(m + 1) : base[j] <= b
    <3>1. m + 1 \in 1..(m + 2)
      BY ONLY <1>2
    <3> QED
      BY <1>2, <1>3, <1>17, <1>18, <2>1, <3>1 DEF Callers
  <2> QED
    BY <1>17, <2>1, <2>2
<1> HIDE DEF below
<1>21. \A i, j \in 1..(m + 1) : i <= j => below[i] <= below[j]
  <2>1. \A j \in 1..(m + 1) : j \in 1..(m + 2)
    BY ONLY <1>2
  <2> QED
    BY <1>2, <1>3, <1>17, <1>20, <2>1 DEF Callers
<1>22. ASSUME NEW j \in 1..m
       PROVE  /\ below[j] + Len(frames'[j].items) = below[j + 1]
              /\ \A i \in 1..Len(frames'[j].items) :
                    data'[below[j] + i] \in May(frames'[j].items[i])
  <2>1. j \in 1..(m + 1) /\ j + 1 \in 1..(m + 1)
    BY ONLY <1>2, j \in 1..m
  <2>2. PICK c : c \in Nat /\ c = below[j]
    BY <1>20, <2>1
  <2>3. /\ base[j] = c /\ base[j + 1] = below[j + 1] /\ below[j + 1] \in Nat
        /\ below[j + 1] <= b
    BY <1>20, <2>1, <2>2
  <2>4. PICK cits : cits = frames[j].items
    OBVIOUS
  <2>5. c + Len(cits) = below[j + 1] /\ Lie(c, cits)
    BY <1>2, <1>17, <2>1, <2>3, <2>4 DEF Callers
  <2>6. PICK n : n \in Nat /\ n = Len(cits)
    <3>1. frames[j] \in [items : Seq(Types), env : Envs]
      BY <1>1, <1>2, <2>1, ElementOfSeq
    <3> QED
      BY <2>4, <3>1, LenProperties
  <2>7. \A i \in 1..n : c + i \in 1..q
    <3>1. PICK d : d \in Nat /\ d = below[j + 1]
      BY <2>3
    <3>2. c + n = d /\ d <= b
      BY <2>3, <2>5, <2>6, <3>1
    <3>3. c \in Nat /\ n \in Nat /\ d \in Nat /\ b \in Nat /\ q \in Nat /\ p \in Nat
      BY <1>7, <1>9, <1>18, <2>2, <2>6, <3>1
    <3>4. b + p = q
      BY <1>19
    <3> QED
      BY ONLY <3>2, <3>3, <3>4
  <2>8. \A i \in 1..n : data'[c + i] \in May(cits[i])
    BY <1>14, <2>5, <2>6, <2>7 DEF Lie
  <2> QED
    BY <1>15, <2>2, <2>4, <2>5, <2>6, <2>8
<1>23. Callers(below)'
  BY <1>15, <1>21, <1>22 DEF Callers, Lie
<1>24. ASSUME NEW i \in 1..(p + 1) PROVE data'[b + i] \in May(items'[i])
  <2>1. i = p + 1 \/ i \in 1..p
    BY ONLY <1>7, i \in 1..(p + 1)
  <2>2. CASE i = p + 1
    <3>1. b + i = q + 1
      BY ONLY <1>7, <1>9, <1>18, <1>19, <2>2
    <3> QED
      BY <1>13, <1>14, <2>2, <3>1
  <2>3. CASE i \in 1..p
    <3>1. b + i \in 1..q
      BY ONLY <1>7, <1>9, <1>18, <1>19, <2>3
    <3>2. data[b + i] \in May(its[i])
      BY <1>2, <1>3, <1>4, <1>6, <1>7, <1>17, <1>18, <2>3 DEF Callers, Lie
    <3> QED
      BY <1>13, <1>14, <2>3, <3>1, <3>2
  <2> QED
    BY <2>1, <2>2, <2>3
<1>25. OnTop(below)'
  <2>1. below[m + 1] = b
    BY <1>3, <1>18, <1>20
  <2>2. b + (p + 1) = q + 1
    BY ONLY <1>7, <1>9, <1>18, <1>19
  <2> QED
    BY <1>13, <1>14, <1>15, <1>24, <2>1, <2>2 DEF OnTop, Lie
<1>26. Aligned'
  BY <1>15, <1>20, <1>23, <1>25 DEF Aligned
<1> QED
  BY <1>16, <1>26 DEF TypesInv

(* Where only the parser's own state or an exit code changes.              *)
LEMMA QuietStep ==
  ASSUME TypesInv, UNCHANGED <<items, data, env, frames>>,
         exit' \in {exit, NIL_ERROR, DIV_BY_ZERO, REDEFINED}
  PROVE  TypesInv'
<1>1. SortsOK'
  BY DEF TypesInv, SortsOK
<1>2. Aligned'
  BY DEF TypesInv, Aligned, Callers, OnTop, Lie
<1> QED
  BY <1>1, <1>2 DEF TypesInv

-----------------------------------------------------------------------------
(***************************************************************************)
(* The actions, one lemma each.                                            *)
(***************************************************************************)
LEMMA OperandPreserves ==
  ASSUME TypesInv, operand
  PROVE  TypesInv'
<1>1. PICK t \in Types : \E k \in May(t) : Operand(t, k)
  <2>1. CASE \E t \in Literals : Operand(t, KindOf[t])
    BY <2>1, MayFacts, DeclarationsAssumption
  <2>2. CASE \E x \in DOMAIN VarType : Operand(VarType[x], env[x])
    <3>1. \A x \in DOMAIN VarType : VarType[x] \in Types
      BY DeclarationsAssumption
    <3>2. \A x \in DOMAIN VarType : env[x] \in May(VarType[x])
      BY DEF TypesInv, SortsOK, Envs
    <3> QED
      BY <2>2, <3>1, <3>2
  <2> QED
    BY <2>1, <2>2 DEF operand
<1>2. PICK k \in May(t) : Operand(t, k)
  BY <1>1
<1>3. items \in Seq(Types) /\ data \in Seq(Kinds) /\ 0 \in 0..Len(items)
  <2>1. Len(items) \in Nat
    BY TopFacts
  <2> QED
    BY <2>1 DEF TypesInv, SortsOK
<1>4. Drop(items, 0) = items /\ Drop(data, 0) = data
  <2>1. Len(items) - 0 = Len(items) /\ Len(data) - 0 = Len(data)
    BY TopFacts
  <2> QED
    BY <1>3, <2>1, SubSeqFull DEF Drop
<1>5. /\ items' = Append(Drop(items, 0), t) /\ data' = Append(Drop(data, 0), k)
      /\ UNCHANGED <<frames, exit>> /\ env' \in Envs
  BY <1>2, <1>4 DEF Operand, Parsed, TypesInv, SortsOK
<1> QED
  BY <1>3, <1>5, ReplaceStep

LEMMA UnaryPreserves ==
  ASSUME TypesInv, unary
  PROVE  TypesInv'
<1>1. PICK op \in UnaryOps :
        LET typing == Check_unary_compatability(op, Last(items))
        IN  \/ typing = {} /\ Reject(EXPRESSIONS_TYPE_INCOMPATIBILITY)
            \/ \E t \in typing, r \in expression_unary(op, Last(data)) :
                 IF r \in Exits THEN Stop(r)
                 ELSE Replace(1, t, r) /\ UNCHANGED env
  BY DEF unary
<1>2. CASE Reject(EXPRESSIONS_TYPE_INCOMPATIBILITY)
  BY <1>2, QuietStep DEF Reject
<1>3. CASE \E t \in Check_unary_compatability(op, Last(items)),
             r \in expression_unary(op, Last(data)) :
             IF r \in Exits THEN Stop(r) ELSE Replace(1, t, r) /\ UNCHANGED env
  <2>1. PICK t \in Check_unary_compatability(op, Last(items)),
             r \in expression_unary(op, Last(data)) :
             IF r \in Exits THEN Stop(r) ELSE Replace(1, t, r) /\ UNCHANGED env
    BY <1>3
  <2>2. /\ 1 \in 0..Len(items) /\ Last(items) \in Types
        /\ Last(data) \in May(Last(items))
    <3>1. Len(items) \in Nat \ {0}
      BY EmptySeq DEF unary, TypesInv, SortsOK
    <3>2. /\ Len(items) \in 1..Len(items)
          /\ Len(data) - Len(items) + Len(items) = Len(data)
      BY <3>1, TopFacts
    <3>3. items[Len(items)] \in Types /\ data[Len(data)] \in May(items[Len(items)])
      BY <3>2, TopFacts
    <3> QED
      BY <3>1, <3>3 DEF Last
  <2>3. /\ t \in Types
        /\ r \in Exits => r \in {NIL_ERROR, DIV_BY_ZERO}
        /\ r \notin Exits => r \in May(t)
    BY <2>2, UnaryKinds
  <2>4. CASE r \in Exits
    BY <2>1, <2>3, <2>4, QuietStep DEF Stop
  <2>5. CASE r \notin Exits
    <3>1. /\ items' = Append(Drop(items, 1), t) /\ data' = Append(Drop(data, 1), r)
          /\ UNCHANGED <<frames, exit>> /\ env' \in Envs
      BY <2>1, <2>5 DEF Replace, Parsed, TypesInv, SortsOK
    <3> QED
      BY <2>2, <2>3, <2>5, <3>1, ReplaceStep
  <2> QED
    BY <2>4, <2>5
<1> QED
  BY <1>1, <1>2, <1>3

LEMMA BinaryPreserves ==
  ASSUME TypesInv, binary
  PROVE  TypesInv'
<1> DEFINE WithPower == [x \in DOMAIN env \union {"%exp"} |->
                          IF x = "%exp" THEN "float" ELSE env[x]]
           t1 == Newest(items, 2)[1]
           t2 == Newest(items, 2)[2]
           k1 == Newest(data, 2)[1]
           k2 == Last(data)
           Outcomes(op, t) ==
             LET k == Recasts(t[2], k1, k2)
             IN  IF op = "^" /\ "%exp" \in DOMAIN env THEN {REDEFINED}
                 ELSE expression_binary(op, k[1], k[2])
           Continues(op, t, r) ==
             IF r \in Exits THEN Stop(r)
             ELSE /\ Replace(2, t[1], r)
                  /\ env' = IF op = "^" THEN WithPower ELSE env
<1>1. PICK op \in BinaryOps :
        \/ Reject(EXPRESSIONS_TYPE_INCOMPATIBILITY)
        \/ \E t \in Check_binary_compatibility(op, t1, t2) :
             \E r \in Outcomes(op, t) : Continues(op, t, r)
  BY DEF binary
<1>2. CASE Reject(EXPRESSIONS_TYPE_INCOMPATIBILITY)
  BY <1>2, QuietStep DEF Reject
<1>3. CASE \E t \in Check_binary_compatibility(op, t1, t2) :
             \E r \in Outcomes(op, t) : Continues(op, t, r)
  <2>1. PICK t \in Check_binary_compatibility(op, t1, t2) :
             \E r \in Outcomes(op, t) : Continues(op, t, r)
    BY <1>3
  <2>2. PICK r \in Outcomes(op, t) : Continues(op, t, r)
    BY <2>1
  <2>3. /\ 2 \in 0..Len(items) /\ t1 \in Types /\ t2 \in Types
        /\ k1 \in May(t1) /\ k2 \in May(t2)
    <3>1. PICK n : n \in Nat /\ n = Len(items)
      BY TopFacts
    <3>2. PICK m : m \in Nat /\ m = Len(data)
      BY TopFacts
    <3>3. n >= 2 /\ m >= n
      BY <3>1, <3>2, TopFacts DEF binary
    <3>4. /\ 2 \in 0..n /\ 2 \in 0..m /\ n - 1 \in 1..n /\ n \in 1..n
          /\ n - 2 + 1 = n - 1 /\ n - 2 + 2 = n /\ m - 2 + 1 = m - 1
          /\ m - n + (n - 1) = m - 1 /\ m - n + n = m
      BY ONLY <3>1, <3>2, <3>3
    <3>5. t1 = items[n - 1] /\ t2 = items[n]
      BY <3>1, <3>4, NewestFacts DEF TypesInv, SortsOK
    <3>6. k1 = data[m - 1] /\ k2 = data[m]
      BY <3>2, <3>4, NewestFacts DEF TypesInv, SortsOK, Last
    <3>7. items[n - 1] \in Types /\ data[m - 1] \in May(items[n - 1])
      BY <3>1, <3>2, <3>4, TopFacts
    <3>8. items[n] \in Types /\ data[m] \in May(items[n])
      BY <3>1, <3>2, <3>4, TopFacts
    <3> QED
      BY <3>1, <3>4, <3>5, <3>6, <3>7, <3>8
  <2> HIDE DEF t1, t2, k1, k2
  <2>4. CASE op = "^" /\ "%exp" \in DOMAIN env
    <3>1. r = REDEFINED /\ r \in Exits
      BY <2>4, ExitFacts
    <3> QED
      BY <2>2, <3>1, QuietStep DEF Stop
  <2>5. CASE ~ (op = "^" /\ "%exp" \in DOMAIN env)
    <3>1. r \in expression_binary(op, Recasts(t[2], k1, k2)[1], Recasts(t[2], k1, k2)[2])
      BY <2>5
    <3>2. /\ t[1] \in Types
          /\ r \in Exits => r \in {NIL_ERROR, DIV_BY_ZERO}
          /\ r \notin Exits => r \in May(t[1])
      BY <2>3, <3>1, BinaryKinds
    <3>3. CASE r \in Exits
      BY <2>2, <3>2, <3>3, QuietStep DEF Stop
    <3>4. CASE r \notin Exits
      <4>1. /\ items' = Append(Drop(items, 2), t[1]) /\ data' = Append(Drop(data, 2), r)
            /\ UNCHANGED <<frames, exit>>
            /\ env' = IF op = "^" THEN WithPower ELSE env
        BY <2>2, <3>4 DEF Replace, Parsed
      <4>2. env' \in Envs
        <5>1. CASE op # "^"
          BY <4>1, <5>1 DEF TypesInv, SortsOK
        <5>2. CASE "%exp" \notin DOMAIN env
          <6>1. DOMAIN env = DOMAIN VarType /\ env \in [DOMAIN VarType -> Kinds]
            BY <5>2 DEF TypesInv, SortsOK, Envs
          <6>2. WithPower \in [DOMAIN VarType \union {"%exp"} -> Kinds]
            BY <6>1, <5>2 DEF Kinds
          <6>3. \A x \in DOMAIN VarType : WithPower[x] = env[x]
            BY <6>1, <5>2
          <6>4. WithPower \in Envs
            BY <6>2, <6>3 DEF Envs, TypesInv, SortsOK
          <6> QED
            BY <4>1, <6>4 DEF TypesInv, SortsOK
        <5> QED
          BY <2>5, <5>1, <5>2
      <4> QED
        BY <2>3, <3>2, <3>4, <4>1, <4>2, ReplaceStep
    <3> QED
      BY <3>3, <3>4
  <2> QED
    BY <2>4, <2>5
<1> QED
  BY <1>1, <1>2, <1>3

(* The value of an expression of one value, wanted for type u.             *)
LEMMA OneValue ==
  ASSUME TypesInv, Len(items) = 1, NEW u \in Types \ {"n"},
         Check_type_compatibility(u, items[1])
  PROVE  /\ items[1] \in Types /\ Last(data) \in May(items[1])
         /\ (IF Recast(u, items[1]) THEN recast_to_float(Last(data)) ELSE Last(data))
               \in May(u)
<1>1. /\ 1 \in 1..Len(items) /\ Len(data) - Len(items) + 1 = Len(data)
  BY TopFacts
<1>2. items[1] \in Types /\ data[Len(data)] \in May(items[1])
  BY <1>1, TopFacts
<1> QED
  BY <1>2, Converted DEF Last

(* Only here the proviso is needed: in a body, the converted value would   *)
(* be left between the caller's operands and the result.                   *)
LEMMA DefinitionPreserves ==
  ASSUME NoLeftover, TypesInv, definition
  PROVE  TypesInv'
<1>1. PICK x \in DOMAIN VarType :
        LET recast == Recast(VarType[x], items[1])
            value  == IF recast THEN recast_to_float(Last(data)) ELSE Last(data)
        IN  IF Check_type_compatibility(VarType[x], items[1])
            THEN /\ data' = IF recast THEN Append(Drop(data, 1), value) ELSE Drop(data, 1)
                 /\ env' = [env EXCEPT ![x] = value]
                 /\ items' = <<>> /\ UNCHANGED frames /\ Parsed
            ELSE /\ set_error(TYPE_MISSMATCH) /\ phase' = "rejected"
                 /\ UNCHANGED <<items, data, env, frames, exit>>
  BY DEF definition
<1>2. CASE ~ Check_type_compatibility(VarType[x], items[1])
  BY <1>1, <1>2, QuietStep
<1>3. CASE Check_type_compatibility(VarType[x], items[1])
  <2> DEFINE recast == Recast(VarType[x], items[1])
             value  == IF recast THEN recast_to_float(Last(data)) ELSE Last(data)
  <2>1. /\ data' = IF recast THEN Append(Drop(data, 1), value) ELSE Drop(data, 1)
        /\ env' = [env EXCEPT ![x] = value]
        /\ items' = <<>> /\ frames' = frames /\ exit' = exit
    BY <1>1, <1>3 DEF Parsed
  <2>2. Len(items) = 1 /\ VarType[x] \in Types \ {"n"}
    BY DeclarationsAssumption DEF definition
  <2>3. value \in May(VarType[x]) /\ value \in Kinds
    BY <1>3, <2>2, OneValue, MayFacts
  <2> HIDE DEF value
  <2>4. env' \in Envs
    BY <2>1, <2>3 DEF TypesInv, SortsOK, Envs
  <2>5. CASE ~ recast
    <3>1. data' = Drop(data, Len(items))
      BY <2>1, <2>2, <2>5
    <3> QED
      BY <2>1, <2>4, <3>1, ClearStep DEF TypesInv, SortsOK
  <2>6. CASE recast
    <3>1. frames = <<>>
      <4>1. VarType[x] = "f"
        BY <2>6 DEF Recast
      <4>2. "definition" \notin BodyStatements
        BY <4>1 DEF NoLeftover
      <4> QED
        BY <4>2 DEF definition, Statement
    <3>2. data' \in Seq(Kinds)
      <4>1. 1 \in 0..Len(data) /\ data \in Seq(Kinds)
        BY <2>2, TopFacts DEF TypesInv, SortsOK
      <4>2. Drop(data, 1) \in Seq(Kinds)
        BY <4>1, DropFacts
      <4> QED
        BY <2>1, <2>3, <2>6, <4>2, AppendProperties
    <3>3. SortsOK'
      BY <2>1, <2>4, <3>2 DEF TypesInv, SortsOK
    <3> QED
      BY <2>1, <3>1, <3>3, MainStep
  <2> QED
    BY <2>5, <2>6
<1> QED
  BY <1>2, <1>3

LEMMA AssignmentPreserves ==
  ASSUME TypesInv, multiple_assignment
  PROVE  TypesInv'
<1>1. PICK m \in 1..2 : \E ids \in [1..m -> DOMAIN VarType] :
        check_multiple_assignment(ids)
  BY DEF multiple_assignment
<1>2. PICK ids \in [1..m -> DOMAIN VarType] : check_multiple_assignment(ids)
  BY <1>1
<1> DEFINE n == Len(ids)
           types == SubSeq(items, 1, n)
           kinds == SubSeq(Newest(data, Len(items)), 1, n)
           type(k) == VarType[ids[k]]
           value(k) == IF Recast(type(k), types[k]) THEN recast_to_float(kinds[k])
                                                    ELSE kinds[k]
           first(x) == CHOOSE k \in 1..n : ids[k] = x /\ \A j \in 1..(k - 1) : ids[j] # x
           compatible == \A k \in 1..n : Check_type_compatibility(type(k), types[k])
<1>3. n = m /\ n \in 1..2 /\ n \in Nat /\ ids \in [1..n -> DOMAIN VarType]
  OBVIOUS
<1>4. /\ items' = <<>> /\ data' = Drop(data, Len(items))
      /\ frames' = frames /\ exit' = exit
      /\ IF Len(items) >= n /\ compatible
         THEN env' = [x \in DOMAIN env |->
                       IF \E k \in 1..n : ids[k] = x THEN value(first(x)) ELSE env[x]]
         ELSE env' = env
  BY <1>2 DEF check_multiple_assignment
<1> HIDE DEF n
<1>5. CASE ~ (Len(items) >= n /\ compatible)
  BY <1>4, <1>5, ClearStep DEF TypesInv, SortsOK
<1>6. CASE Len(items) >= n /\ compatible
  <2>1. ASSUME NEW k \in 1..n PROVE value(k) \in May(type(k)) /\ value(k) \in Kinds
    <3>1. PICK l : l \in Nat /\ l = Len(items)
      BY TopFacts
    <3>2. l >= n /\ k \in 1..l /\ l <= Len(data) /\ Len(data) \in Nat
      BY <1>3, <1>6, <3>1, TopFacts
    <3>3. types[k] = items[k] /\ kinds[k] = Newest(data, Len(items))[k]
      <4>1. l - n \in 0..l /\ l - (l - n) = n
        BY <1>3, <3>1, <3>2
      <4>2. types[k] = items[k]
        <5>1. items \in Seq(Types)
          BY DEF TypesInv, SortsOK
        <5> QED
          BY <3>1, <4>1, <5>1, DropFacts DEF Drop
      <4>3. Newest(data, l) \in Seq(Kinds) /\ Len(Newest(data, l)) = l
        <5>1. data \in Seq(Kinds) /\ l \in 0..Len(data)
          BY <3>1, <3>2 DEF TypesInv, SortsOK
        <5> QED
          BY <5>1, NewestFacts
      <4>4. kinds[k] = Newest(data, l)[k]
        BY <3>1, <4>1, <4>3, DropFacts DEF Drop
      <4> QED
        BY <3>1, <4>2, <4>4
    <3>4. kinds[k] = data[Len(data) - l + k]
      <4>1. data \in Seq(Kinds) /\ l \in 0..Len(data)
        BY <3>1, <3>2 DEF TypesInv, SortsOK
      <4> QED
        BY <3>1, <3>2, <3>3, <4>1, NewestFacts
    <3>5. types[k] \in Types /\ kinds[k] \in May(types[k])
      BY <3>1, <3>2, <3>3, <3>4, TopFacts
    <3>6. type(k) \in Types \ {"n"} /\ Check_type_compatibility(type(k), types[k])
      BY <1>3, <1>6, DeclarationsAssumption
    <3> HIDE DEF types, kinds
    <3> QED
      BY <3>5, <3>6, Converted, MayFacts
  <2>2. ASSUME NEW x, \E k \in 1..n : ids[k] = x
        PROVE  first(x) \in 1..n /\ ids[first(x)] = x
    <3>1. \E k \in 1..n : ids[k] = x /\ \A j \in 1..(k - 1) : ids[j] # x
      <4>1. n = 1 \/ n = 2
        BY <1>3
      <4>2. CASE ids[1] = x
        <5>1. 1 \in 1..n /\ 1..(1 - 1) = {}
          BY <4>1
        <5> QED
          BY <4>2, <5>1
      <4>3. CASE ids[1] # x
        <5>1. n = 2 /\ ids[2] = x
          BY <2>2, <4>1, <4>3
        <5>2. 2 \in 1..n /\ \A j \in 1..(2 - 1) : j = 1
          BY <5>1
        <5> QED
          BY <4>3, <5>1, <5>2
      <4> QED
        BY <4>2, <4>3
    <3> QED
      BY <3>1
  <2> HIDE DEF value, first
  <2>3. env' \in Envs
    <3>1. /\ DOMAIN env \in {DOMAIN VarType, DOMAIN VarType \union {"%exp"}}
          /\ \A x \in DOMAIN env : env[x] \in Kinds
          /\ \A x \in DOMAIN VarType : env[x] \in May(VarType[x])
      BY DEF TypesInv, SortsOK, Envs
    <3>2. \A x \in DOMAIN env : env'[x] \in Kinds
      BY <1>4, <1>6, <2>1, <2>2, <3>1
    <3>3. ASSUME NEW x \in DOMAIN VarType PROVE env'[x] \in May(VarType[x])
      <4>1. CASE \E k \in 1..n : ids[k] = x
        <5>1. env'[x] = value(first(x))
          BY <1>4, <1>6, <3>1, <4>1
        <5>2. first(x) \in 1..n /\ ids[first(x)] = x
          BY <2>2, <4>1
        <5> QED
          BY <2>1, <5>1, <5>2
      <4>2. CASE ~ \E k \in 1..n : ids[k] = x
        BY <1>4, <1>6, <3>1, <4>2
      <4> QED
        BY <4>1, <4>2
    <3>4. env' = [x \in DOMAIN env |-> env'[x]]
      BY <1>4, <1>6
    <3> QED
      BY <3>1, <3>2, <3>3, <3>4 DEF Envs
  <2> QED
    BY <1>4, <2>3, ClearStep DEF TypesInv, SortsOK
<1> QED
  BY <1>5, <1>6

LEMMA ConditionPreserves ==
  ASSUME TypesInv, condition
  PROVE  TypesInv'
<1> DEFINE value == IF items[1] = "b" THEN Last(data) ELSE recast_to_bool(Last(data))
<1>1. value \in {"bool", "nil"}
  <2>1. /\ 1 \in 1..Len(items) /\ Len(data) - Len(items) + 1 = Len(data)
    BY TopFacts DEF condition
  <2>2. data[Len(data)] \in May(items[1])
    BY <2>1, TopFacts
  <2> QED
    BY <2>2, MayFacts DEF recast_to_bool, Last
<1>2. /\ items' = <<>> /\ data' = Drop(data, Len(items))
      /\ UNCHANGED <<env, frames, exit>>
  BY <1>1 DEF condition, Parsed
<1> QED
  BY <1>2, ClearStep DEF TypesInv, SortsOK

LEMMA CallPreserves ==
  ASSUME TypesInv, func_call
  PROVE  TypesInv'
<1> DEFINE n     == Len(Params)
           types == Newest(items, n)
           kinds == Newest(data, n)
           type(k)  == VarType[Params[k]]
           value(k) == IF Recast(type(k), types[k]) THEN recast_to_float(kinds[k]) ELSE kinds[k]
           index(x) == CHOOSE k \in 1..n : Params[k] = x
           compatible == \A k \in 1..n : Check_type_compatibility(type(k), types[k])
           e == [x \in DOMAIN VarType |->
                   IF \E k \in 1..n : Params[k] = x THEN value(index(x)) ELSE "nil"]
<1>1. /\ Len(items) >= n
      /\ IF compatible
         THEN /\ frames' = Append(frames, [items |-> Drop(items, n), env |-> env])
              /\ items' = <<>> /\ data' = Drop(data, n)
              /\ env' = e /\ UNCHANGED exit
         ELSE Reject(FUNCTION_SEMANTICS)
  BY DEF func_call, Parsed
<1>2. CASE ~ compatible
  BY <1>1, <1>2, QuietStep DEF Reject
<1>3. CASE compatible
  <2>1. n \in Nat /\ \A k \in 1..n : Params[k] \in DOMAIN VarType
    BY DeclarationsAssumption, LenProperties, ElementOfSeq
  <2> HIDE DEF n
  <2>2. PICK l : l \in Nat /\ l = Len(items)
    BY TopFacts
  <2>3. PICK d : d \in Nat /\ d = Len(data)
    BY TopFacts
  <2>4. n \in 0..l /\ n \in 0..d /\ l <= d
    BY <1>1, <2>1, <2>2, <2>3, TopFacts
  <2>5. ASSUME NEW k \in 1..n PROVE value(k) \in May(type(k)) /\ value(k) \in Kinds
    <3>1. PICK p : p \in Nat /\ p = l - n + k
      BY <2>1, <2>2, <2>4
    <3>2. p \in 1..l /\ d - l + p = d - n + k
      BY ONLY <2>1, <2>2, <2>3, <2>4, <3>1, k \in 1..n
    <3>3. types[k] = items[p]
      BY <2>2, <2>4, <3>1, NewestFacts DEF TypesInv, SortsOK
    <3>4. kinds[k] = data[d - n + k]
      BY <2>3, <2>4, NewestFacts DEF TypesInv, SortsOK
    <3>5. types[k] \in Types /\ kinds[k] \in May(types[k])
      BY <2>2, <2>3, <3>2, <3>3, <3>4, TopFacts
    <3>6. type(k) \in Types \ {"n"} /\ Check_type_compatibility(type(k), types[k])
      BY <1>3, <2>1, DeclarationsAssumption
    <3> HIDE DEF types, kinds
    <3> QED
      BY <3>5, <3>6, Converted, MayFacts
  <2>6. ASSUME NEW x, \E k \in 1..n : Params[k] = x
        PROVE  index(x) \in 1..n /\ Params[index(x)] = x
    BY <2>6
  <2> HIDE DEF value, index
  <2>7. e \in Envs
    <3>1. ASSUME NEW x \in DOMAIN VarType
          PROVE  e[x] \in Kinds /\ e[x] \in May(VarType[x])
      <4>1. CASE \E k \in 1..n : Params[k] = x
        <5>1. e[x] = value(index(x))
          BY <4>1
        <5>2. index(x) \in 1..n /\ Params[index(x)] = x
          BY <2>6, <4>1
        <5> QED
          BY <2>5, <5>1, <5>2
      <4>2. CASE ~ \E k \in 1..n : Params[k] = x
        BY <4>2 DEF May, Kinds
      <4> QED
        BY <4>1, <4>2
    <3> QED
      BY <3>1 DEF Envs
  <2> HIDE DEF e
  <2> QED
    BY <1>1, <1>3, <2>2, <2>4, <2>7, CallStep
<1> QED
  BY <1>2, <1>3

LEMMA ReturnPreserves ==
  ASSUME TypesInv, return_expressions \/ func_end
  PROVE  TypesInv'
<1>1. CASE func_end
  BY <1>1, ReturnStep DEF func_end, May
<1>2. CASE return_expressions
  <2>1. CASE ~ Check_type_compatibility(ReturnType, items[1])
    BY <1>2, <2>1, QuietStep DEF return_expressions
  <2>2. CASE Check_type_compatibility(ReturnType, items[1])
    <3> DEFINE k == IF Recast(ReturnType, items[1]) THEN recast_to_float(Last(data))
                                                    ELSE Last(data)
    <3>1. frames # <<>> /\ GiveBack(k)
      BY <1>2, <2>2 DEF return_expressions
    <3>2. k \in May(ReturnType)
      BY <1>2, <2>2, OneValue, DeclarationsAssumption DEF return_expressions
    <3> HIDE DEF k
    <3> QED
      BY <3>1, <3>2, ReturnStep
  <2> QED
    BY <2>1, <2>2
<1> QED
  BY <1>1, <1>2

LEMMA TypesInvPreserved ==
  ASSUME NoLeftover, TypesInv, [Next]_vars
  PROVE  TypesInv'
<1>1. CASE UNCHANGED vars
  BY <1>1, QuietStep DEF vars
<1>2. CASE Terminating
  BY <1>2, QuietStep DEF Terminating, vars
<1>3. CASE main_end
  BY <1>3, QuietStep DEF main_end
<1> QED
  BY <1>1, <1>2, <1>3, OperandPreserves, BinaryPreserves, UnaryPreserves,
     DefinitionPreserves, AssignmentPreserves, ConditionPreserves,
     CallPreserves, ReturnPreserves DEF Next

LEMMA TypesInvInit == Init => TypesInv
<1> SUFFICES ASSUME Init PROVE TypesInv
  OBVIOUS
<1>1. SortsOK
  BY DEF Init, SortsOK, Envs, May, Kinds
<1>2. PICK z : z = 0
  OBVIOUS
<1> DEFINE base == [k \in 1..1 |-> z]
<1>3. base \in [1..(Len(frames) + 1) -> Nat] /\ base[1] = 0
  BY <1>2 DEF Init
<1>4. Callers(base)
  <2>1. \A j, k \in 1..(Len(frames) + 1) : j = 1 /\ k = 1
    BY DEF Init
  <2>2. 1..Len(frames) = {}
    BY DEF Init
  <2> HIDE DEF base
  <2> QED
    BY <1>3, <2>1, <2>2 DEF Callers
<1>5. OnTop(base)
  <2>1. Len(frames) + 1 = 1 /\ Len(items) = 0 /\ Len(data) = 0 /\ 1..Len(items) = {}
    BY DEF Init
  <2> HIDE DEF base
  <2> QED
    BY <1>3, <2>1 DEF OnTop, Lie
<1> QED
  BY <1>1, <1>3, <1>4, <1>5 DEF TypesInv, Aligned

-----------------------------------------------------------------------------
(***************************************************************************)
(* Theorems.                                                               *)
(***************************************************************************)
(* For all declarations and programs: every value is of a kind, and the    *)
(* frames hold the variables they should (code_generator.c:320-380).       *)
THEOREM TypesCorrect == ASSUME NoLeftover PROVE Spec => []TypeOK
<1>1. TypesInv => TypeOK
  BY ExitFacts DEF TypesInv, SortsOK, Envs, TypeOK
<1>2. TypesInv /\ [Next]_vars => TypesInv'
  BY TypesInvPreserved
<1> QED
  BY <1>1, <1>2, TypesInvInit, PTL DEF Spec

(* The types semantics.c derives for the operands are those of the values  *)
(* on the data stack, through all calls that are pending.                  *)
THEOREM OperandsCorrect == ASSUME NoLeftover PROVE Spec => []OperandsAsTyped
<1>1. TypesInv => OperandsAsTyped
  <2> SUFFICES ASSUME TypesInv PROVE OperandsAsTyped
    OBVIOUS
  <2>1. /\ items \in Seq(Types) /\ data \in Seq(Kinds) /\ Len(items) \in 0..Len(data)
    BY TopFacts DEF TypesInv, SortsOK
  <2>2. \A k \in 1..Len(items) : Newest(data, Len(items))[k] = data[Len(data) - Len(items) + k]
    BY <2>1, NewestFacts
  <2>3. DOMAIN items = 1..Len(items)
    BY <2>1, LenProperties
  <2> QED
    BY <2>2, <2>3, TopFacts DEF OperandsAsTyped
<1>2. TypesInv /\ [Next]_vars => TypesInv'
  BY TypesInvPreserved
<1> QED
  BY <1>1, <1>2, TypesInvInit, PTL DEF Spec

(* A variable never holds a value of another type, whatever was assigned   *)
(* to it, passed for it or restored after a call.                          *)
THEOREM VariablesCorrect == ASSUME NoLeftover PROVE Spec => []VariablesAsTyped
<1>1. TypesInv => VariablesAsTyped
  BY DEF TypesInv, SortsOK, Envs, VariablesAsTyped
<1>2. TypesInv /\ [Next]_vars => TypesInv'
  BY TypesInvPreserved
<1> QED
  BY <1>1, <1>2, TypesInvInit, PTL DEF Spec

(* What the checks of semantics.c let through does not stop for a type:    *)
(* no exit code 53.                                                        *)
THEOREM NoFaultOfTypes == ASSUME NoLeftover PROVE Spec => []NoTypeFault
<1>1. TypesInv => NoTypeFault
  BY ExitFacts DEF TypesInv, SortsOK, NoTypeFault
<1>2. TypesInv /\ [Next]_vars => TypesInv'
  BY TypesInvPreserved
<1> QED
  BY <1>1, <1>2, TypesInvInit, PTL DEF Spec
===============================================================================
