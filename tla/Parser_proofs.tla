--------------------------- MODULE Parser_proofs ---------------------------
(***************************************************************************)
(* Theorems about Parser, for every value of its constants.                *)
(*                                                                         *)
(* The argument: the C call stack and the stack of symbol tables           *)
(* correspond frame by frame (ScopesMatchCalls), so the scope at the head  *)
(* is a cycle's exactly when a cycle's procedure is waiting, so the        *)
(* nesting level counts the open cycles (NestingCountsLoops), so it is     *)
(* positive whenever it is decreased, which its type needs (TypeOK).       *)
(***************************************************************************)
EXTENDS Parser, FiniteSetTheorems, SequenceTheorems, TLAPS

(***************************************************************************)
(* What the operations of Symstack do to the frames and to the number of   *)
(* open loops.                                                             *)
(***************************************************************************)
(* Appending one element keeps the others where they are.                  *)
LEMMA AppendFacts ==
  ASSUME NEW S, NEW s \in Seq(S), NEW e \in S
  PROVE  /\ Append(s, e) \in Seq(S)
         /\ Len(Append(s, e)) = Len(s) + 1
         /\ Append(s, e)[Len(s) + 1] = e
         /\ \A i \in 1..Len(s) : Append(s, e)[i] = s[i]
  OBVIOUS

(* Removing the last element keeps the others where they are.              *)
LEMMA FrontFacts ==
  ASSUME NEW S, NEW s \in Seq(S), s # <<>>
  PROVE  /\ Front(s) \in Seq(S)
         /\ Len(Front(s)) = Len(s) - 1
         /\ \A i \in 1..(Len(s) - 1) : Front(s)[i] = s[i]
  <1>1. Len(s) \in Nat \ {0}
    BY EmptySeq
  <1>2. \A i \in 1..(Len(s) - 1) : s[i] \in S
    BY <1>1, ElementOfSeq
  <1> DEFINE n == Len(s) - 1
             t == SubSeq(s, 1, n)
  <1>3. /\ t \in Seq(S)
        /\ Len(t) = IF 1 <= n THEN n - 1 + 1 ELSE 0
        /\ \A i \in 1 .. n - 1 + 1 : t[i] = s[1 + i - 1]
    BY <1>1, <1>2, SubSeqProperties
  <1>4. Len(t) = n /\ \A i \in 1..n : t[i] = s[i]
    <2> HIDE DEF t
    <2>1. n \in Nat /\ n - 1 + 1 = n
      BY <1>1
    <2> HIDE DEF n
    <2>2. Len(t) = n
      BY <1>3, <2>1
    <2>3. ASSUME NEW i \in 1..n PROVE t[i] = s[i]
      <3>1. i \in 1 .. n - 1 + 1 /\ 1 + i - 1 = i
        BY <2>1
      <3> QED
        BY <1>3, <3>1
    <2> QED
      BY <2>2, <2>3
  <1> QED
    BY <1>3, <1>4 DEF Front

(* SS_Push adds a typed frame at the end and changes no other.             *)
LEMMA PushFacts ==
  ASSUME NEW ss \in Seq(Frames), NEW type \in ScopeTypes, NEW uid \in Nat,
         NEW fun \in Names \union {NoName}
  PROVE  LET pushed == SS_Push(ss, type, uid, fun) IN
         /\ pushed \in Seq(Frames)
         /\ Len(pushed) = Len(ss) + 1
         /\ pushed[Len(ss) + 1] =
              [type |-> type, uid |-> uid, fun |-> fun, table |-> {}]
         /\ \A i \in 1..Len(ss) : pushed[i] = ss[i]
  <1> DEFINE frame == [type |-> type, uid |-> uid, fun |-> fun, table |-> {}]
  <1>1. frame \in Frames
    BY DEF Frames
  <1> QED
    BY <1>1, AppendFacts DEF SS_Push

(* SS_Put_symbol changes one table and no frame's scope.                   *)
LEMMA PutFacts ==
  ASSUME NEW ss \in Seq(Frames), ss # <<>>, NEW x \in Names
  PROVE  LET put == SS_Put_symbol(ss, x) IN
         /\ put \in Seq(Frames)
         /\ Len(put) = Len(ss)
         /\ \A i \in 1..Len(ss) : /\ put[i].type = ss[i].type
                                  /\ put[i].uid = ss[i].uid
                                  /\ put[i].fun = ss[i].fun
         /\ put[Len(ss)].table = ss[Len(ss)].table \union {x}
         /\ \A i \in 1..(Len(ss) - 1) : put[i] = ss[i]
  <1> DEFINE n == Len(ss)
             e == [ss[n] EXCEPT !.table = @ \union {x}]
  <1>1. n \in 1..n
    BY EmptySeq
  <1>2. ss[n] \in Frames
    BY <1>1, ElementOfSeq
  <1>3. e \in Frames /\ e.type = ss[n].type /\ e.uid = ss[n].uid
        /\ e.fun = ss[n].fun /\ e.table = ss[n].table \union {x}
    BY <1>2 DEF Frames
  <1>4. SS_Put_symbol(ss, x) = [ss EXCEPT ![n] = e]
    BY DEF SS_Put_symbol
  <1> HIDE DEF e
  <1> QED
    BY <1>1, <1>3, <1>4, ExceptSeq

(* The loops among the frames are finitely many.                           *)
LEMMA OpenLoopsFinite ==
  ASSUME NEW ss \in Seq(Frames)
  PROVE  IsFiniteSet(OpenLoops(ss))
  <1>1. IsFiniteSet(1..Len(ss))
    BY FS_Interval, LenProperties
  <1> QED
    BY <1>1, FS_Subset DEF OpenLoops

(* Pushing a loop's scope adds one open loop, pushing any other none.      *)
LEMMA PushCount ==
  ASSUME NEW ss \in Seq(Frames), NEW type \in ScopeTypes, NEW uid \in Nat,
         NEW fun \in Names \union {NoName}
  PROVE  Cardinality(OpenLoops(SS_Push(ss, type, uid, fun))) =
           Cardinality(OpenLoops(ss)) + (IF type \in LoopScopes THEN 1 ELSE 0)
  <1> DEFINE pushed == SS_Push(ss, type, uid, fun)
             n == Len(ss) + 1
  <1>1. Len(ss) \in Nat
    BY LenProperties
  <1>2. /\ Len(pushed) = n
        /\ pushed[n].type = type
        /\ \A i \in 1..Len(ss) : pushed[i].type = ss[i].type
    <2>1. pushed[n] = [type |-> type, uid |-> uid, fun |-> fun, table |-> {}]
      BY PushFacts
    <2>2. Len(pushed) = n /\ \A i \in 1..Len(ss) : pushed[i] = ss[i]
      BY PushFacts
    <2> HIDE DEF pushed
    <2> QED
      BY <2>1, <2>2
  <1> HIDE DEF pushed
  <1>3. 1..n = (1..Len(ss)) \union {n}
    BY <1>1
  <1>4. CASE type \in LoopScopes
    <2>1. OpenLoops(pushed) = OpenLoops(ss) \union {n}
      BY <1>1, <1>2, <1>3, <1>4 DEF OpenLoops
    <2>2. n \notin OpenLoops(ss)
      BY <1>1 DEF OpenLoops
    <2> QED
      BY <1>4, <2>1, <2>2, OpenLoopsFinite, FS_AddElement DEF pushed
  <1>5. CASE type \notin LoopScopes
    <2>1. OpenLoops(pushed) = OpenLoops(ss)
      BY <1>1, <1>2, <1>3, <1>5 DEF OpenLoops
    <2>2. Cardinality(OpenLoops(ss)) \in Nat
      BY OpenLoopsFinite, FS_CardinalityType
    <2> QED
      BY <1>5, <2>1, <2>2 DEF pushed
  <1> QED
    BY <1>4, <1>5

(* Popping a loop's scope removes one open loop, popping any other none.   *)
LEMMA PopCount ==
  ASSUME NEW ss \in Seq(Frames), ss # <<>>
  PROVE  Cardinality(OpenLoops(SS_Pop(ss))) =
           Cardinality(OpenLoops(ss))
             - (IF SS_Head(ss).type \in LoopScopes THEN 1 ELSE 0)
  <1> DEFINE n == Len(ss)
  <1>1. n \in Nat \ {0}
    BY EmptySeq
  <1>2. /\ Len(SS_Pop(ss)) = n - 1
        /\ \A i \in 1..(n - 1) : SS_Pop(ss)[i] = ss[i]
    BY FrontFacts DEF SS_Pop
  <1>3. 1..n = (1..(n - 1)) \union {n}
    BY <1>1
  <1>4. OpenLoops(SS_Pop(ss)) = OpenLoops(ss) \ {n}
    BY <1>1, <1>2, <1>3 DEF OpenLoops
  <1>5. n \in OpenLoops(ss) <=> SS_Head(ss).type \in LoopScopes
    BY <1>1 DEF OpenLoops, SS_Head
  <1>6. Cardinality(OpenLoops(ss)) \in Nat
    BY OpenLoopsFinite, FS_CardinalityType
  <1>7. Cardinality(OpenLoops(ss) \ {n}) =
          IF n \in OpenLoops(ss) THEN Cardinality(OpenLoops(ss)) - 1
                                  ELSE Cardinality(OpenLoops(ss))
    <2>1. IsFiniteSet(OpenLoops(ss))
      BY OpenLoopsFinite
    <2> QED
      BY <2>1, FS_RemoveElement
  <1> QED
    BY <1>4, <1>5, <1>6, <1>7

(* Putting a name opens and closes no loop.                                *)
LEMMA PutCount ==
  ASSUME NEW ss \in Seq(Frames), ss # <<>>, NEW x \in Names
  PROVE  OpenLoops(SS_Put_symbol(ss, x)) = OpenLoops(ss)
  BY PutFacts DEF OpenLoops

(***************************************************************************)
(* Lemmas about the correspondence of the two stacks.                      *)
(***************************************************************************)
(* The scope types of the procedures.                                      *)
LEMMA ScopeOfFacts ==
  /\ \A p \in Procs : ScopeOf(p) \in ScopeTypes
  /\ \A p \in Procs : ScopeOf(p) = "global" <=> p = "stmt_list"
  /\ \A p \in Procs : ScopeOf(p) = "condition" <=> p \in CondProcs
  /\ \A p \in Procs : ScopeOf(p) = "function" <=>
                        p \in HeaderProcs \union {"function_definition"}
  /\ \A p \in LoopScopes \ {"do_cycle"} : ScopeOf(p) = p
  /\ ScopeOf("repeat_body") = "do_cycle"
  BY DEF Procs, BodyProcs, FunBodyCallers, HeaderProcs, CondProcs, ScopeOf,
         ScopeTypes, LoopScopes

(* The scope types of the procedures, one by one.                          *)
LEMMA ScopeOfEach ==
  /\ ScopeOf("stmt_list") = "global"
  /\ ScopeOf("function_definition") = "function"
  /\ ScopeOf("funparam_def_list") = "function"
  /\ ScopeOf("other_funparams") = "function"
  /\ ScopeOf("cond_body") = "condition"
  /\ ScopeOf("else_stmt") = "condition"
  /\ ScopeOf("while_cycle") = "while_cycle"
  /\ ScopeOf("for_cycle") = "for_cycle"
  /\ ScopeOf("repeat_body") = "do_cycle"
  BY DEF HeaderProcs, CondProcs, ScopeOf

(* A new activation with the scope it opened.                              *)
LEMMA MatchCall ==
  ASSUME NEW cs \in Seq(Activations), NEW ss \in Seq(Frames), cs # <<>>,
         ScopesMatch(cs, ss), NEW a \in Activations, NEW uid \in Nat,
         NEW fun \in Names \union {NoName}, a.proc # "stmt_list",
         ScopeOf(a.proc) = "function" => fun = a.id
  PROVE  /\ Append(cs, a) # <<>>
         /\ ScopesMatch(Append(cs, a), SS_Push(ss, ScopeOf(a.proc), uid, fun))
  <1> DEFINE type == ScopeOf(a.proc)
             dd == Append(cs, a)
             tt == SS_Push(ss, type, uid, fun)
             n == Len(cs)
  <1>1. n \in Nat \ {0} /\ Len(ss) = n
    BY EmptySeq DEF ScopesMatch
  <1>2. a.proc \in Procs /\ type \in ScopeTypes /\ type # "global"
    BY ScopeOfFacts DEF Activations
  <1>3. /\ dd \in Seq(Activations)
        /\ Len(dd) = n + 1
        /\ dd[n + 1] = a
        /\ \A i \in 1..n : dd[i] = cs[i]
    BY AppendFacts
  <1>4. /\ Len(tt) = n + 1
        /\ tt[n + 1] = [type |-> type, uid |-> uid, fun |-> fun, table |-> {}]
        /\ \A i \in 1..n : tt[i] = ss[i]
    BY <1>1, <1>2, PushFacts
  <1> HIDE DEF type, dd, tt
  <1>5. ASSUME NEW i \in 1..(n + 1)
        PROVE  /\ tt[i].type = ScopeOf(dd[i].proc)
               /\ tt[i].type = "function" => tt[i].fun = dd[i].id
               /\ tt[i].type = "global" <=> i = 1
    <2>1. CASE i = n + 1
      BY <1>1, <1>2, <1>3, <1>4, <2>1 DEF type
    <2>2. CASE i \in 1..n
      BY <1>1, <1>3, <1>4, <2>2 DEF ScopesMatch
    <2> QED
      BY <1>1, <2>1, <2>2
  <1>6. dd # <<>>
    BY <1>1, <1>3, EmptySeq
  <1> QED
    BY <1>3, <1>4, <1>5, <1>6 DEF ScopesMatch, dd, tt, type

(* The end of an activation other than the program's, and of its scope.    *)
LEMMA MatchReturn ==
  ASSUME NEW cs \in Seq(Activations), NEW ss \in Seq(Frames), cs # <<>>,
         ScopesMatch(cs, ss), cs[Len(cs)].proc # "stmt_list"
  PROVE  /\ Front(cs) # <<>>
         /\ ScopesMatch(Front(cs), SS_Pop(ss))
  <1> DEFINE n == Len(cs)
             dd == Front(cs)
             tt == SS_Pop(ss)
  <1>1. n \in Nat \ {0} /\ Len(ss) = n
    BY EmptySeq DEF ScopesMatch
  <1>2. n # 1
    <2>1. cs[n] \in Activations
      BY <1>1, ElementOfSeq
    <2>2. cs[n].proc \in Procs
      BY <2>1 DEF Activations
    <2>3. ScopeOf(cs[n].proc) # "global"
      BY <2>2, ScopeOfFacts
    <2> QED
      BY <1>1, <2>3 DEF ScopesMatch
  <1>3. /\ dd \in Seq(Activations)
        /\ Len(dd) = n - 1
        /\ \A i \in 1..(n - 1) : dd[i] = cs[i]
    BY FrontFacts
  <1>4. /\ Len(tt) = n - 1
        /\ \A i \in 1..(n - 1) : tt[i] = ss[i]
    BY <1>1, FrontFacts, EmptySeq DEF SS_Pop
  <1> HIDE DEF dd, tt
  <1>5. ASSUME NEW i \in 1..(n - 1)
        PROVE  /\ tt[i].type = ScopeOf(dd[i].proc)
               /\ tt[i].type = "function" => tt[i].fun = dd[i].id
               /\ tt[i].type = "global" <=> i = 1
    <2>1. i \in 1..n
      BY <1>1
    <2>2. dd[i] = cs[i] /\ tt[i] = ss[i]
      BY <1>3, <1>4
    <2> QED
      BY <2>1, <2>2 DEF ScopesMatch
  <1>6. dd # <<>>
    BY <1>1, <1>2, <1>3, EmptySeq
  <1> QED
    BY <1>3, <1>4, <1>5, <1>6 DEF ScopesMatch, dd, tt

(* A name put in the head's table.                                         *)
LEMMA MatchPut ==
  ASSUME NEW cs \in Seq(Activations), NEW ss \in Seq(Frames), ss # <<>>,
         ScopesMatch(cs, ss), NEW x \in Names
  PROVE  ScopesMatch(cs, SS_Put_symbol(ss, x))
  BY PutFacts DEF ScopesMatch

(* The activation at the top goes on as another procedure of its scope.    *)
LEMMA MatchBecome ==
  ASSUME NEW cs \in Seq(Activations), NEW ss \in Seq(Frames), cs # <<>>,
         ScopesMatch(cs, ss), NEW p \in Procs,
         ScopeOf(p) = ScopeOf(cs[Len(cs)].proc)
  PROVE  LET dd == [cs EXCEPT ![Len(cs)].proc = p] IN
         /\ dd \in Seq(Activations)
         /\ dd # <<>>
         /\ ScopesMatch(dd, ss)
  <1> DEFINE n == Len(cs)
             a == [cs[n] EXCEPT !.proc = p]
             dd == [cs EXCEPT ![n] = a]
  <1>1. n \in Nat \ {0} /\ n \in 1..n
    BY EmptySeq
  <1>2. cs[n] \in Activations
    BY <1>1, ElementOfSeq
  <1>3. a \in Activations /\ a.proc = p /\ a.id = cs[n].id
    BY <1>2 DEF Activations
  <1> HIDE DEF a
  <1>4. /\ dd \in Seq(Activations)
        /\ Len(dd) = n
        /\ \A j \in 1..n : dd[j] = IF j = n THEN a ELSE cs[j]
    BY <1>1, <1>3, ExceptSeq
  <1>5. [cs EXCEPT ![n].proc = p] = dd
    BY DEF a
  <1> HIDE DEF dd
  <1>6. ScopesMatch(dd, ss)
    BY <1>1, <1>3, <1>4 DEF ScopesMatch
  <1>7. dd # <<>>
    BY <1>1, <1>4, EmptySeq
  <1> QED
    BY <1>4, <1>5, <1>6, <1>7

(* elseif and else: the branch's scope is replaced by a fresh one.         *)
LEMMA MatchReopen ==
  ASSUME NEW cs \in Seq(Activations), NEW ss \in Seq(Frames), cs # <<>>,
         ScopesMatch(cs, ss), cs[Len(cs)].proc \in CondProcs, NEW uid \in Nat
  PROVE  ScopesMatch(cs, SS_Push(SS_Pop(ss), "condition", uid, NoName))
  <1> DEFINE n == Len(cs)
             tt == SS_Push(SS_Pop(ss), "condition", uid, NoName)
  <1>1. n \in Nat \ {0} /\ Len(ss) = n /\ ss # <<>>
    BY EmptySeq DEF ScopesMatch
  <1>2. /\ SS_Pop(ss) \in Seq(Frames)
        /\ Len(SS_Pop(ss)) = n - 1
        /\ \A i \in 1..(n - 1) : SS_Pop(ss)[i] = ss[i]
    BY <1>1, FrontFacts DEF SS_Pop
  <1>3. /\ Len(tt) = n
        /\ tt[n] = [type |-> "condition", uid |-> uid, fun |-> NoName,
                    table |-> {}]
        /\ \A i \in 1..(n - 1) : tt[i] = ss[i]
    <2> DEFINE rr == SS_Pop(ss)
    <2>1. /\ "condition" \in ScopeTypes /\ NoName \in Names \union {NoName}
          /\ n - 1 + 1 = n
      BY <1>1 DEF ScopeTypes
    <2>2. rr \in Seq(Frames) /\ Len(rr) = n - 1
      BY <1>2
    <2> HIDE DEF rr
    <2>3. LET pushed == SS_Push(rr, "condition", uid, NoName) IN
          /\ Len(pushed) = Len(rr) + 1
          /\ pushed[Len(rr) + 1] = [type |-> "condition", uid |-> uid,
                                    fun |-> NoName, table |-> {}]
          /\ \A i \in 1..Len(rr) : pushed[i] = rr[i]
      BY <2>1, <2>2, PushFacts
    <2> QED
      BY <1>2, <2>1, <2>2, <2>3 DEF rr
  <1> HIDE DEF tt
  <1>4. cs[n] \in Activations
    BY <1>1, ElementOfSeq
  <1>5. ScopeOf(cs[n].proc) = "condition"
    BY <1>4, ScopeOfFacts DEF Activations
  <1>6. ASSUME NEW i \in 1..n
        PROVE  /\ tt[i].type = ScopeOf(cs[i].proc)
               /\ tt[i].type = "function" => tt[i].fun = cs[i].id
               /\ tt[i].type = "global" <=> i = 1
    <2>1. CASE i = n
      BY <1>1, <1>3, <1>5, <2>1 DEF ScopesMatch
    <2>2. CASE i \in 1..(n - 1)
      BY <1>1, <1>3, <2>2 DEF ScopesMatch
    <2> QED
      BY <1>1, <2>1, <2>2
  <1> QED
    BY <1>1, <1>3, <1>6 DEF ScopesMatch, tt

(***************************************************************************)
(* Types of what the actions compute.                                      *)
(***************************************************************************)
(* A short sequence is a sequence.                                         *)
LEMMA ShortSeqsFacts == ShortSeqs \subseteq Seq(Types)
  BY DEF ShortSeqs, SeqOf

(* The counter and the string of saved counters stay integers.             *)
LEMMA CondInfoFacts ==
  /\ \A n \in Int : ToChar(n) \in Int
  /\ \A info \in Seq(Int), cnt \in Int, id \in Int :
       PushCond(info, cnt, id) \in Seq(Int)
  /\ \A info \in Seq(Int) : CanPop(info) =>
       /\ PoppedId(info) \in Int
       /\ PoppedCnt(info) \in Int
       /\ PopCond(info) \in Seq(Int)
  <1>1. ASSUME NEW n \in Int PROVE ToChar(n) \in Int
    <2>1. n + SCHAR_MAX + 1 \in Int /\ 2 * SCHAR_MAX + 2 \in Nat \ {0}
      BY SCHAR_MAXAssumption
    <2>2. (n + SCHAR_MAX + 1) % (2 * SCHAR_MAX + 2) \in Int
      BY <2>1
    <2> QED
      BY <2>2, SCHAR_MAXAssumption DEF ToChar
  <1>2. ASSUME NEW info \in Seq(Int), NEW cnt \in Int, NEW id \in Int
        PROVE  PushCond(info, cnt, id) \in Seq(Int)
    <2>1. Digits(id) \in Seq(Int)
      BY DEF Digits
    <2>2. Append(info, cnt) \in Seq(Int)
      BY AppendFacts
    <2> QED
      BY <2>1, <2>2, ConcatProperties DEF PushCond
  <1>3. ASSUME NEW info \in Seq(Int), CanPop(info)
        PROVE  /\ PoppedId(info) \in Int
               /\ PoppedCnt(info) \in Int
               /\ PopCond(info) \in Seq(Int)
    <2> DEFINE n == Len(info)
    <2>1. n \in Nat /\ n >= 6
      BY <1>3, LenProperties DEF CanPop
    <2>2. \A i \in 1..n : info[i] \in Int
      BY ElementOfSeq
    <2>3. PoppedCnt(info) \in Int
      BY <2>1, <2>2 DEF PoppedCnt
    <2>4. PopCond(info) \in Seq(Int)
      BY <2>1, <2>2, SubSeqProperties DEF PopCond
    <2> DEFINE d == SubSeq(info, n - 4, n)
    <2>5. \A i \in 1..5 : d[i] \in Int
      <3> DEFINE m == n - 4
      <3>1. m \in Int /\ n \in Int /\ n - m + 1 = 5 /\ m <= n
        BY <2>1
      <3>2. \A i \in m..n : info[i] \in Int
        BY <2>1, <2>2
      <3>3. d \in Seq(Int) /\ Len(d) = 5
        BY <3>1, <3>2, SubSeqProperties
      <3> QED
        BY <3>3, ElementOfSeq
    <2>6. Number(d) \in Int
      <3> HIDE DEF d
      <3>1. d[1] \in Int /\ d[2] \in Int /\ d[3] \in Int /\ d[4] \in Int
            /\ d[5] \in Int
        BY <2>5
      <3>2. PICK a, b, c, e, f \in Int :
              a = d[1] /\ b = d[2] /\ c = d[3] /\ e = d[4] /\ f = d[5]
        BY <3>1
      <3>3. Number(d) = 10000 * (a - 48) + 1000 * (b - 48) + 100 * (c - 48)
                          + 10 * (e - 48) + (f - 48)
        BY <3>2 DEF Number
      <3> QED
        BY <3>3
    <2> QED
      BY <2>3, <2>4, <2>6 DEF PoppedId
  <1> QED
    BY <1>1, <1>2, <1>3

(* A scope that is no function's is pushed.                                *)
LEMMA PushTyped ==
  ASSUME NEW ss \in Seq(Frames), NEW type \in ScopeTypes, NEW uid \in Nat
  PROVE  /\ SS_Push(ss, type, uid, NoName) \in Seq(Frames)
         /\ SS_Push(ss, type, uid, NoName) # <<>>
  <1> DEFINE frame == [type |-> type, uid |-> uid, fun |-> NoName, table |-> {}]
             pushed == Append(ss, frame)
  <1>1. frame \in Frames
    BY DEF Frames
  <1> HIDE DEF frame
  <1>2. pushed \in Seq(Frames) /\ Len(pushed) = Len(ss) + 1
    BY <1>1, AppendFacts
  <1>3. pushed # <<>>
    BY <1>2, EmptySeq, LenProperties
  <1> QED
    BY <1>2, <1>3 DEF SS_Push, frame

(* The outermost loop is forgotten or not.                                 *)
LEMMA ForgetFacts ==
  ASSUME LoopsOK, ForgetOuterLoop \/ UNCHANGED <<in_loop, outer_loop_id>>
  PROVE  in_loop' \in BOOLEAN /\ outer_loop_id' \in Nat
  <1>1. CASE in_loop' = FALSE /\ outer_loop_id' = 0
    BY <1>1
  <1>2. CASE UNCHANGED <<in_loop, outer_loop_id>>
    BY <1>2 DEF LoopsOK
  <1> QED
    BY <1>1, <1>2 DEF ForgetOuterLoop

(* A new activation.                                                       *)
LEMMA ActivationFacts ==
  ASSUME CondsOK, NEW p \in Procs, NEW x \in Names \union {NoName}
  PROVE  /\ Activation(p, x) \in Activations
         /\ Activation(p, x).proc = p
         /\ Activation(p, x).id = x
  BY DEF CondsOK, Activation, Activations

(* What a failing expression sets is an error code.                        *)
LEMMA ExprErrorsFacts ==
  ASSUME ControlOK
  PROVE  /\ ExprErrors \subseteq ErrorCodes
         /\ {LEXICAL, SYNTAX, DEFINITION, TYPE_MISSMATCH, SEMANTICS_OTHER,
             INTERNAL} \subseteq ErrorCodes
  BY DEF ControlOK, ExprErrors, ErrorCodes

(* One signature of one function changes.                                  *)
LEMMA FunctionsFacts ==
  ASSUME FunctionsOK, NEW f
  PROVE  /\ [functions EXCEPT ![f].is_defined = TRUE] \in [Names -> Semantics]
         /\ \A sig \in Signatures :
              [functions EXCEPT ![f].is_declared = TRUE,
                                ![f].declaration = AddTypes(@, sig)]
                \in [Names -> Semantics]
         /\ \A t \in Types :
              [functions EXCEPT ![f].definition.params = Append(@, t)]
                \in [Names -> Semantics]
         /\ \A rets \in Seq(Types) :
              [functions EXCEPT ![f].definition.returns = @ \o rets]
                \in [Names -> Semantics]
  <1>1. [functions EXCEPT ![f].is_defined = TRUE] \in [Names -> Semantics]
    BY DEF FunctionsOK, Semantics
  <1>2. ASSUME NEW sig \in Signatures
        PROVE  [functions EXCEPT ![f].is_declared = TRUE,
                                 ![f].declaration = AddTypes(@, sig)]
                 \in [Names -> Semantics]
    <2>1. \A decl \in Signatures : AddTypes(decl, sig) \in Signatures
      BY ConcatProperties DEF AddTypes, Signatures
    <2> QED
      BY <2>1 DEF FunctionsOK, Semantics
  <1>3. ASSUME NEW t \in Types
        PROVE  [functions EXCEPT ![f].definition.params = Append(@, t)]
                 \in [Names -> Semantics]
    <2>1. \A ps \in Seq(Types) : Append(ps, t) \in Seq(Types)
      BY AppendFacts
    <2> QED
      BY <2>1 DEF FunctionsOK, Semantics, Signatures
  <1>4. ASSUME NEW rets \in Seq(Types)
        PROVE  [functions EXCEPT ![f].definition.returns = @ \o rets]
                 \in [Names -> Semantics]
    <2>1. \A rs \in Seq(Types) : rs \o rets \in Seq(Types)
      BY ConcatProperties
    <2> QED
      BY <2>1 DEF FunctionsOK, Semantics, Signatures
  <1> QED
    BY <1>1, <1>2, <1>3, <1>4

(***************************************************************************)
(* The inductive invariant.                                                *)
(***************************************************************************)
(* Before the program begins only the global scope is open.                *)
PrologOK ==
  phase = "prolog" => /\ calls = <<>>
                      /\ Len(symstack) = 1
                      /\ symstack[1].type = "global"
                      /\ nested_cycle_level = 0

Shape == PrologOK /\ ScopesMatchCalls /\ NestingCountsLoops

IInv == TypeOK /\ Shape

(* What the invariant says of a running parser.                            *)
LEMMA RunningFacts ==
  ASSUME IInv, phase = "running"
  PROVE  /\ calls \in Seq(Activations) /\ calls # <<>>
         /\ symstack \in Seq(Frames) /\ symstack # <<>>
         /\ ScopesMatch(calls, symstack)
         /\ Top \in Activations
         /\ SS_Head(symstack) \in Frames
         /\ SS_Head(symstack).type = ScopeOf(Top.proc)
         /\ nested_cycle_level = Cardinality(OpenLoops(symstack))
  <1>1. /\ calls \in Seq(Activations) /\ calls # <<>>
        /\ symstack \in Seq(Frames)
        /\ ScopesMatch(calls, symstack)
        /\ nested_cycle_level = Cardinality(OpenLoops(symstack))
    BY DEF IInv, TypeOK, ControlOK, ScopesOK, Shape, ScopesMatchCalls,
           NestingCountsLoops
  <1>2. Len(calls) \in Nat \ {0} /\ Len(symstack) = Len(calls)
    BY <1>1, EmptySeq DEF ScopesMatch
  <1>3. symstack # <<>>
    BY <1>1, <1>2, EmptySeq
  <1>4. Top \in Activations /\ SS_Head(symstack) \in Frames
    BY <1>1, <1>2, ElementOfSeq DEF Top, SS_Head
  <1>5. SS_Head(symstack).type = ScopeOf(Top.proc)
    BY <1>1, <1>2 DEF ScopesMatch, Top, SS_Head
  <1> QED
    BY <1>1, <1>3, <1>4, <1>5

(* A rejected program.                                                     *)
LEMMA RejectStep ==
  ASSUME NEW e \in ErrorCodes, Reject(e)
  PROVE  ControlOK' /\ Shape'
  BY EmptySeq DEF Reject, ControlOK, Shape, PrologOK, ScopesMatchCalls,
                  NestingCountsLoops

(* A step to activations and frames that correspond.                       *)
LEMMA ProceedStep ==
  ASSUME ControlOK, phase = "running", NEW c \in Seq(Activations), c # <<>>,
         Proceed(c), ScopesMatch(c, symstack'),
         nested_cycle_level' = Cardinality(OpenLoops(symstack'))
  PROVE  ControlOK' /\ Shape'
  BY DEF Proceed, ControlOK, Shape, PrologOK, ScopesMatchCalls,
         NestingCountsLoops

(* A step that leaves the stacks and the nesting level alone.              *)
LEMMA StayStep ==
  ASSUME IInv, phase = "running", Proceed(calls),
         UNCHANGED <<symstack, nested_cycle_level>>
  PROVE  ControlOK' /\ Shape'
  <1>1. ScopesMatch(calls, symstack')
    BY RunningFacts
  <1>2. nested_cycle_level' = Cardinality(OpenLoops(symstack'))
    BY RunningFacts
  <1> QED
    BY <1>1, <1>2, RunningFacts, ProceedStep DEF IInv, TypeOK

(* A statement that succeeds or is rejected and changes no scope.          *)
LEMMA StatementStep ==
  ASSUME IInv, phase = "running", ProceedOrReject(calls, ExprErrors),
         UNCHANGED <<symstack, nested_cycle_level>>
  PROVE  ControlOK' /\ Shape'
  <1>1. CASE Proceed(calls)
    BY <1>1, StayStep
  <1>2. CASE \E e \in ExprErrors : Reject(e)
    BY <1>2, ExprErrorsFacts, RejectStep DEF IInv, TypeOK
  <1> QED
    BY <1>1, <1>2 DEF ProceedOrReject

(* A name is put in the head's table.                                      *)
LEMMA PutStep ==
  ASSUME IInv, phase = "running", NEW x \in Names,
         symstack' = SS_Put_symbol(symstack, x), UNCHANGED nested_cycle_level,
         Proceed(calls)
  PROVE  ControlOK' /\ Shape'
  <1>1. ScopesMatch(calls, symstack')
    BY RunningFacts, MatchPut
  <1>2. nested_cycle_level' = Cardinality(OpenLoops(symstack'))
    BY RunningFacts, PutCount
  <1> QED
    BY <1>1, <1>2, RunningFacts, ProceedStep DEF IInv, TypeOK

(* A procedure that waits for a body is entered, under its new scope.      *)
LEMMA CallStep ==
  ASSUME IInv, phase = "running", NEW p \in Procs \ {"stmt_list"},
         NEW x \in Names \union {NoName}, NEW fun \in Names \union {NoName},
         ScopeOf(p) = "function" => fun = x,
         NEW ss \in Seq(Frames), ss # <<>>, ScopesMatch(calls, ss),
         OpenLoops(ss) = OpenLoops(symstack),
         symstack' = SS_Push(ss, ScopeOf(p), unique_id, fun),
         nested_cycle_level' = nested_cycle_level
                                 + (IF ScopeOf(p) \in LoopScopes THEN 1 ELSE 0),
         Proceed(Call(p, x))
  PROVE  ControlOK' /\ Shape'
  <1> DEFINE a == Activation(p, x)
  <1>1. a \in Activations /\ a.proc = p /\ a.id = x
    BY ActivationFacts DEF IInv, TypeOK
  <1>2. unique_id \in Nat /\ ControlOK
    BY DEF IInv, TypeOK, ScopesOK
  <1>3. ScopeOf(p) \in ScopeTypes
    BY ScopeOfFacts
  <1>4. Call(p, x) \in Seq(Activations)
    BY <1>1, RunningFacts, AppendFacts DEF Call
  <1>5. Call(p, x) # <<>> /\ ScopesMatch(Call(p, x), symstack')
    <2> HIDE DEF a
    <2>1. /\ Append(calls, a) # <<>>
          /\ ScopesMatch(Append(calls, a),
                         SS_Push(ss, ScopeOf(a.proc), unique_id, fun))
      BY <1>1, <1>2, RunningFacts, MatchCall
    <2> QED
      BY <1>1, <2>1 DEF Call, a
  <1>6. nested_cycle_level' = Cardinality(OpenLoops(symstack'))
    BY <1>2, <1>3, RunningFacts, PushCount
  <1> QED
    BY <1>2, <1>4, <1>5, <1>6, ProceedStep

(* A body ends, and its scope with it.                                     *)
LEMMA ReturnStep ==
  ASSUME IInv, phase = "running", Top.proc # "stmt_list", CloseScope,
         nested_cycle_level' = nested_cycle_level
                - (IF SS_Head(symstack).type \in LoopScopes THEN 1 ELSE 0),
         Proceed(Return)
  PROVE  ControlOK' /\ Shape' /\ ScopesOK' /\ nested_cycle_level' \in Nat
  <1>1. Return \in Seq(Activations)
    BY RunningFacts, FrontFacts DEF Return
  <1>2. Return # <<>> /\ ScopesMatch(Return, symstack')
    BY RunningFacts, MatchReturn DEF Return, CloseScope, Top
  <1>3. nested_cycle_level' = Cardinality(OpenLoops(symstack'))
    BY RunningFacts, PopCount DEF CloseScope
  <1>4. ScopesOK'
    BY RunningFacts, FrontFacts DEF CloseScope, SS_Pop, ScopesOK, IInv, TypeOK
  <1>5. nested_cycle_level' \in Nat
    BY <1>3, <1>4, OpenLoopsFinite, FS_CardinalityType DEF ScopesOK
  <1> QED
    BY <1>1, <1>2, <1>3, <1>4, <1>5, ProceedStep DEF IInv, TypeOK

(***************************************************************************)
(* The steps preserve the invariant.                                       *)
(***************************************************************************)
LEMMA InitIInv == Init => IInv
  <1> SUFFICES ASSUME Init PROVE IInv
    OBVIOUS
  <1>1. ControlOK
    BY EmptySeq DEF Init, ControlOK, ErrorCodes, NOERROR
  <1>2. ScopesOK
    <2> DEFINE frame == [type |-> "global", uid |-> 0, fun |-> NoName,
                         table |-> Builtins]
    <2>1. frame \in Frames
      BY BuiltinsAssumption DEF Frames, ScopeTypes
    <2> HIDE DEF frame
    <2>2. <<frame>> \in Seq(Frames)
      BY <2>1
    <2> QED
      BY <2>2 DEF Init, ScopesOK, frame
  <1>3. FunctionsOK
    <2>1. EmptySig \in Signatures
      BY EmptySeq DEF EmptySig, Signatures
    <2>2. \A f \in Names :
            (IF f \in Builtins THEN BuiltinSig[f] ELSE EmptySig) \in Signatures
      BY <2>1, BuiltinsAssumption
    <2> QED
      BY <2>2 DEF Init, FunctionsOK, Semantics
  <1>4. LoopsOK /\ CondsOK
    <2>1. <<>> \in Seq(Int)
      BY EmptySeq
    <2>2. LoopsOK
      BY DEF Init, LoopsOK
    <2>3. CondsOK
      BY <2>1 DEF Init, CondsOK
    <2> QED
      BY <2>2, <2>3
  <1>5. PrologOK
    BY DEF Init, PrologOK
  <1>6. ScopesMatchCalls /\ NestingCountsLoops
    BY DEF Init, ScopesMatchCalls, NestingCountsLoops
  <1> QED
    BY <1>1, <1>2, <1>3, <1>4, <1>5, <1>6 DEF IInv, TypeOK, Shape

(* The program, its end, and what is said outside functions.               *)
LEMMA GlobalStep ==
  ASSUME IInv,
         program \/ unexpected_token \/ GlobalStatement \/ Free_parser
           \/ Terminating
  PROVE  IInv'
  <1> USE DEF IInv, TypeOK
  <1>1. CASE program
    <2>1. ScopesOK' /\ FunctionsOK' /\ LoopsOK' /\ CondsOK'
      BY <1>1 DEF program, scopes, loops, conds, ScopesOK, FunctionsOK, LoopsOK,
                  CondsOK
    <2>2. CASE \E e \in {LEXICAL, SYNTAX, SEMANTICS_OTHER} : Reject(e)
      BY <2>1, <2>2, ExprErrorsFacts, RejectStep
    <2>3. CASE /\ phase' = "running" /\ calls' = Call("stmt_list", NoName)
               /\ UNCHANGED error
      <3> DEFINE a == Activation("stmt_list", NoName)
      <3>1. a \in Activations /\ a.proc = "stmt_list"
        BY ActivationFacts DEF Procs
      <3>2. calls' = <<a>>
        BY <1>1, <2>3 DEF program, Shape, PrologOK, Call
      <3> HIDE DEF a
      <3>3. ControlOK'
        <4>1. <<a>> \in Seq(Activations)
          BY <3>1
        <4> QED
          BY <2>3, <3>2, <4>1 DEF ControlOK
      <3>4. ScopeOf("stmt_list") = "global"
        BY ScopeOfEach
      <3>5. symstack' = symstack /\ Len(symstack) = 1 /\ symstack[1].type = "global"
            /\ nested_cycle_level' = 0
        BY <1>1 DEF program, scopes, loops, Shape, PrologOK
      <3>6. ScopesMatchCalls'
        BY <3>1, <3>2, <3>4, <3>5 DEF ScopesMatchCalls, ScopesMatch
      <3>7. NestingCountsLoops'
        <4>1. OpenLoops(symstack') = {}
          BY <3>5 DEF OpenLoops, LoopScopes
        <4> QED
          BY <3>5, <4>1, FS_EmptySet DEF NestingCountsLoops
      <3> QED
        BY <2>1, <2>3, <3>3, <3>6, <3>7 DEF Shape, PrologOK
    <2> QED
      BY <1>1, <2>2, <2>3 DEF program
  <1>2. CASE unexpected_token
    <2>1. ScopesOK' /\ FunctionsOK' /\ LoopsOK' /\ CondsOK'
      BY <1>2 DEF unexpected_token, scopes, loops, conds, ScopesOK, FunctionsOK,
                  LoopsOK, CondsOK
    <2> QED
      BY <1>2, <2>1, ExprErrorsFacts, RejectStep DEF unexpected_token
  <1>3. CASE global_expression
    <2>1. ScopesOK' /\ FunctionsOK' /\ LoopsOK' /\ CondsOK'
      BY <1>3 DEF global_expression, scopes, loops, conds, ScopesOK, FunctionsOK,
                  LoopsOK, CondsOK
    <2> QED
      BY <1>3, <2>1, StatementStep
         DEF global_expression, AtStatement, scopes, loops
  <1>4. CASE stmt_list_end
    <2>1. ScopesOK' /\ FunctionsOK' /\ LoopsOK' /\ CondsOK'
      BY <1>4 DEF stmt_list_end, scopes, loops, conds, ScopesOK, FunctionsOK,
                  LoopsOK, CondsOK
    <2>2. CASE Reject(DEFINITION)
      BY <2>1, <2>2, ExprErrorsFacts, RejectStep
    <2>3. CASE phase' = "accepted" /\ calls' = <<>> /\ UNCHANGED error
      BY <2>1, <2>3, EmptySeq DEF ControlOK, Shape, PrologOK, ScopesMatchCalls,
                                  NestingCountsLoops
    <2> QED
      BY <1>4, <2>2, <2>3 DEF stmt_list_end
  <1>5. ASSUME NEW f \in Names, function_definition(f) PROVE IInv'
    <2>1. LoopsOK' /\ CondsOK' /\ nested_cycle_level' = nested_cycle_level
          /\ phase = "running"
      BY <1>5 DEF function_definition, AtStatement, loops, conds, LoopsOK, CondsOK
    <2>2. CASE Reject(DEFINITION) /\ UNCHANGED <<scopes, functions>>
      BY <2>1, <2>2, ExprErrorsFacts, RejectStep
         DEF scopes, ScopesOK, FunctionsOK
    <2>3. CASE /\ OpenScope(SS_Put_symbol(symstack, f), "function", f)
               /\ functions' = [functions EXCEPT ![f].is_defined = TRUE]
               /\ Proceed(Call("funparam_def_list", f))
      <3> DEFINE put == SS_Put_symbol(symstack, f)
      <3>1. FunctionsOK'
        BY <2>3, FunctionsFacts DEF FunctionsOK
      <3>2. put \in Seq(Frames) /\ put # <<>>
        BY <2>1, RunningFacts, PutFacts, EmptySeq
      <3>3. ScopesMatch(calls, put) /\ OpenLoops(put) = OpenLoops(symstack)
        BY <2>1, RunningFacts, MatchPut, PutCount
      <3> HIDE DEF put
      <3>4. /\ symstack' = SS_Push(put, "function", unique_id, f)
            /\ unique_id' = unique_id + 1
        BY <2>3 DEF OpenScope, put
      <3>5. /\ ScopeOf("funparam_def_list") = "function"
            /\ "function" \in ScopeTypes \ LoopScopes
            /\ "funparam_def_list" \in Procs \ {"stmt_list"}
        BY ScopeOfEach DEF ScopeTypes, LoopScopes, HeaderProcs, Procs
      <3>6. ScopesOK'
        <4>1. unique_id \in Nat /\ f \in Names \union {NoName}
          BY DEF ScopesOK
        <4>2. symstack' \in Seq(Frames)
          BY <3>2, <3>4, <3>5, <4>1, PushFacts
        <4> QED
          BY <3>4, <4>1, <4>2 DEF ScopesOK
      <3>7. nested_cycle_level \in Nat
        BY DEF LoopsOK
      <3>8. ControlOK' /\ Shape'
        BY <2>1, <2>3, <3>2, <3>3, <3>4, <3>5, <3>7, CallStep
      <3> QED
        BY <2>1, <3>1, <3>6, <3>8
    <2> QED
      BY <1>5, <2>2, <2>3 DEF function_definition
  <1>6. ASSUME NEW f \in Names, NEW sig \in Signatures,
               function_declaration(f, sig)
        PROVE  IInv'
    <2>1. LoopsOK' /\ CondsOK' /\ nested_cycle_level' = nested_cycle_level
          /\ phase = "running"
      BY <1>6 DEF function_declaration, AtStatement, loops, conds, LoopsOK, CondsOK
    <2>2. CASE Reject(DEFINITION) /\ UNCHANGED <<scopes, functions>>
      BY <2>1, <2>2, ExprErrorsFacts, RejectStep
         DEF scopes, ScopesOK, FunctionsOK
    <2>3. CASE /\ symstack' = SS_Put_symbol(symstack, f)
               /\ functions' = [functions EXCEPT
                                  ![f].is_declared = TRUE,
                                  ![f].declaration = AddTypes(@, sig)]
               /\ Reject(DEFINITION) \/ Proceed(calls)
               /\ UNCHANGED unique_id
      <3>1. FunctionsOK'
        BY <2>3, FunctionsFacts DEF FunctionsOK
      <3>2. ScopesOK'
        BY <2>1, <2>3, RunningFacts, PutFacts DEF ScopesOK
      <3>3. CASE Reject(DEFINITION)
        BY <2>1, <3>1, <3>2, <3>3, ExprErrorsFacts, RejectStep
      <3>4. CASE Proceed(calls)
        BY <2>1, <2>3, <3>1, <3>2, <3>4, PutStep
      <3> QED
        BY <2>3, <3>3, <3>4
    <2> QED
      BY <1>6, <2>2, <2>3 DEF function_declaration
  <1>7. CASE Free_parser
    <2>1. ScopesOK'
      BY <1>7, EmptySeq DEF Free_parser, ScopesOK
    <2>2. FunctionsOK' /\ LoopsOK' /\ CondsOK'
      BY <1>7 DEF Free_parser, loops, conds, FunctionsOK, LoopsOK, CondsOK
    <2>3. ControlOK' /\ Shape'
      BY <1>7 DEF Free_parser, ControlOK, Shape, PrologOK, ScopesMatchCalls,
                  NestingCountsLoops
    <2> QED
      BY <2>1, <2>2, <2>3
  <1>8. CASE Terminating
    BY <1>8 DEF Terminating, vars, control, scopes, loops, conds, ControlOK,
       ScopesOK, FunctionsOK, LoopsOK, CondsOK, Shape, PrologOK,
       ScopesMatchCalls, NestingCountsLoops
  <1>9. \A ps, rs \in ShortSeqs : [params |-> ps, returns |-> rs] \in Signatures
    BY ShortSeqsFacts DEF Signatures
  <1> QED
    BY <1>1, <1>2, <1>3, <1>4, <1>5, <1>6, <1>7, <1>8, <1>9 DEF GlobalStatement

(* A function's header.                                                    *)
LEMMA HeaderStep ==
  ASSUME IInv, FunctionHeader
  PROVE  IInv'
  <1> USE DEF IInv, TypeOK
  <1>1. ASSUME NEW x \in Names, NEW t \in Types,
               funparam_def_list(x, t) \/ other_funparams(x, t)
        PROVE  IInv'
    <2>1. /\ phase = "running" /\ Top.proc \in HeaderProcs
          /\ LoopsOK' /\ CondsOK' /\ nested_cycle_level' = nested_cycle_level
      BY <1>1 DEF funparam_def_list, other_funparams, HeaderProcs, loops, conds,
                  LoopsOK, CondsOK
    <2>2. FunctionsOK'
      <3> DEFINE added == [functions EXCEPT
                             ![Top.id].definition.params = Append(@, t)]
      <3>1. added \in [Names -> Semantics]
        BY FunctionsFacts
      <3>2. functions' = added \/ functions' = functions
        BY <1>1 DEF funparam_def_list, other_funparams
      <3> HIDE DEF added
      <3> QED
        BY <3>1, <3>2 DEF FunctionsOK
    <2>3. CASE Reject(DEFINITION) /\ UNCHANGED scopes
      BY <2>1, <2>2, <2>3, ExprErrorsFacts, RejectStep DEF scopes, ScopesOK
    <2>4. CASE /\ symstack' = SS_Put_symbol(symstack, x)
               /\ UNCHANGED unique_id
               /\ Proceed(Become("other_funparams"))
      <3>1. ScopesOK'
        BY <2>1, <2>4, RunningFacts, PutFacts DEF ScopesOK
      <3>2. /\ "other_funparams" \in Procs
            /\ ScopeOf("other_funparams") = ScopeOf(Top.proc)
        BY <2>1, ScopeOfEach DEF HeaderProcs, Procs
      <3>3. /\ Become("other_funparams") \in Seq(Activations)
            /\ Become("other_funparams") # <<>>
            /\ ScopesMatch(Become("other_funparams"), symstack)
        BY <2>1, <3>2, RunningFacts, MatchBecome DEF Become, Top
      <3>4. ScopesMatch(Become("other_funparams"), symstack')
        BY <2>1, <2>4, <3>3, RunningFacts, MatchPut
      <3>5. nested_cycle_level' = Cardinality(OpenLoops(symstack'))
        BY <2>1, <2>4, RunningFacts, PutCount
      <3>6. ControlOK' /\ Shape'
        BY <2>1, <2>4, <3>3, <3>4, <3>5, ProceedStep
      <3> QED
        BY <2>1, <2>2, <3>1, <3>6
    <2>5. CASE /\ symstack' = SS_Put_symbol(symstack, x)
               /\ UNCHANGED unique_id
               /\ Proceed(calls)
      <3>1. ScopesOK'
        BY <2>1, <2>5, RunningFacts, PutFacts DEF ScopesOK
      <3> QED
        BY <2>1, <2>2, <2>5, <3>1, PutStep
    <2> QED
      BY <1>1, <2>3, <2>4, <2>5 DEF funparam_def_list, other_funparams
  <1>2. ASSUME NEW rets \in ShortSeqs, funretopt(rets) PROVE IInv'
    <2>1. /\ phase = "running" /\ Top.proc \in HeaderProcs
          /\ ScopesOK' /\ LoopsOK' /\ CondsOK'
          /\ UNCHANGED <<symstack, nested_cycle_level>>
      BY <1>2 DEF funretopt, scopes, loops, conds, ScopesOK, LoopsOK, CondsOK
    <2>2. FunctionsOK'
      BY <1>2, FunctionsFacts, ShortSeqsFacts DEF funretopt, FunctionsOK
    <2>3. CASE Reject(DEFINITION)
      BY <2>1, <2>2, <2>3, ExprErrorsFacts, RejectStep
    <2>4. CASE Proceed(Become("function_definition"))
      <3>1. /\ "function_definition" \in Procs
            /\ ScopeOf("function_definition") = ScopeOf(Top.proc)
        BY <2>1, ScopeOfEach DEF HeaderProcs, FunBodyCallers, BodyProcs, Procs
      <3>2. /\ Become("function_definition") \in Seq(Activations)
            /\ Become("function_definition") # <<>>
            /\ ScopesMatch(Become("function_definition"), symstack')
        BY <2>1, <3>1, RunningFacts, MatchBecome DEF Become, Top
      <3>3. nested_cycle_level' = Cardinality(OpenLoops(symstack'))
        BY <2>1, RunningFacts
      <3>4. ControlOK' /\ Shape'
        BY <2>1, <2>4, <3>2, <3>3, ProceedStep
      <3> QED
        BY <2>1, <2>2, <3>4
    <2> QED
      BY <1>2, <2>3, <2>4 DEF funretopt
  <1> QED
    BY <1>1, <1>2 DEF FunctionHeader

(* Statements without a body.                                              *)
LEMMA SimpleStatementStep ==
  ASSUME IInv,
         (\E x \in Names : var_definition(x)) \/ function_expression
           \/ return_stmt \/ break_
  PROVE  IInv'
  <1> USE DEF IInv, TypeOK
  <1>1. FunctionsOK' /\ LoopsOK' /\ CondsOK' /\ phase = "running"
        /\ UNCHANGED nested_cycle_level
    BY DEF var_definition, function_expression, return_stmt, break_, InBody,
           scopes, loops, conds, FunctionsOK, LoopsOK, CondsOK
  <1>2. ASSUME NEW x \in Names, var_definition(x) PROVE IInv'
    <2>1. CASE (\E e \in ExprErrors \union {TYPE_MISSMATCH} : Reject(e))
                 /\ UNCHANGED scopes
      BY <1>1, <2>1, ExprErrorsFacts, RejectStep DEF scopes, ScopesOK
    <2>2. CASE IsTaken(x) /\ Reject(DEFINITION) /\ UNCHANGED scopes
      BY <1>1, <2>2, ExprErrorsFacts, RejectStep DEF scopes, ScopesOK
    <2>3. CASE /\ ~IsTaken(x)
               /\ symstack' = SS_Put_symbol(symstack, x)
               /\ UNCHANGED unique_id
               /\ Proceed(calls)
      <3>1. ScopesOK'
        BY <1>1, <2>3, RunningFacts, PutFacts DEF ScopesOK
      <3> QED
        BY <1>1, <2>3, <3>1, PutStep
    <2> QED
      BY <1>2, <2>1, <2>2, <2>3 DEF var_definition
  <1>3. ASSUME UNCHANGED scopes,
               \/ ProceedOrReject(calls, ExprErrors)
               \/ Proceed(calls)
               \/ Reject(SYNTAX)
               \/ /\ error' \in {TYPE_MISSMATCH, SEMANTICS_OTHER}
                  /\ UNCHANGED <<phase, calls>>
        PROVE  IInv'
    <2>1. ScopesOK' /\ UNCHANGED symstack
      BY <1>3 DEF scopes, ScopesOK
    <2>2. CASE ProceedOrReject(calls, ExprErrors)
      BY <1>1, <2>1, <2>2, StatementStep
    <2>3. CASE Proceed(calls)
      BY <1>1, <2>1, <2>3, StayStep
    <2>4. CASE Reject(SYNTAX)
      BY <1>1, <2>1, <2>4, ExprErrorsFacts, RejectStep
    <2>5. CASE /\ error' \in {TYPE_MISSMATCH, SEMANTICS_OTHER}
               /\ UNCHANGED <<phase, calls>>
      <3>1. ControlOK'
        BY <2>5, ExprErrorsFacts DEF ControlOK
      <3>2. Shape'
        BY <1>1, <2>1, <2>5 DEF Shape, PrologOK, ScopesMatchCalls,
                                NestingCountsLoops
      <3> QED
        BY <1>1, <2>1, <3>1, <3>2
    <2> QED
      BY <1>3, <2>2, <2>3, <2>4, <2>5
  <1> QED
    BY <1>2, <1>3 DEF function_expression, return_stmt, break_

(* Cycles and branches.                                                    *)
LEMMA BodyStep ==
  ASSUME IInv,
         while_cycle \/ (\E x \in Names : for_cycle(x)) \/ repeat_until_cycle
           \/ repeat_until_end \/ if_statement \/ elseif_stmt \/ else_stmt
           \/ cond_body_end \/ fun_body_end
  PROVE  IInv'
  <1> USE DEF IInv, TypeOK
  <1>1. FunctionsOK' /\ phase = "running"
    BY DEF while_cycle, for_cycle, repeat_until_cycle, repeat_until_end,
           if_statement, elseif_stmt, else_stmt, cond_body_end, fun_body_end,
           InBody, FunctionsOK
  <1>2. unique_id \in Nat /\ nested_cycle_level \in Nat
    BY DEF ScopesOK, LoopsOK
  (* A new scope is pushed, by whatever statement.                         *)
  <1>3. ASSUME NEW type \in ScopeTypes,
               symstack' = SS_Push(symstack, type, unique_id, NoName),
               unique_id' = unique_id + 1
        PROVE  ScopesOK'
    BY <1>1, <1>2, <1>3, RunningFacts, PushTyped DEF ScopesOK
  <1>4. ASSUME NEW p \in {"while_cycle", "for_cycle", "repeat_body"},
               NEW x \in Names \union {NoName},
               symstack' = SS_Push(symstack, ScopeOf(p), unique_id, NoName),
               EnterLoop, Proceed(Call(p, x))
        PROVE  ControlOK' /\ Shape'
    <2>1. /\ p \in Procs \ {"stmt_list"}
          /\ ScopeOf(p) \in LoopScopes /\ ScopeOf(p) # "function"
      BY <1>4, ScopeOfEach DEF Procs, BodyProcs, FunBodyCallers, LoopScopes
    <2>2. nested_cycle_level' = nested_cycle_level
                                  + (IF ScopeOf(p) \in LoopScopes THEN 1 ELSE 0)
      BY <1>4, <2>1 DEF EnterLoop
    <2> QED
      BY <1>1, <1>4, <2>1, <2>2, RunningFacts, CallStep
  <1>5. EnterLoop => LoopsOK'
    BY <1>2 DEF EnterLoop, LoopsOK
  <1>6. CASE while_cycle
    <2>1. ScopesOK' /\ LoopsOK' /\ CondsOK'
      BY <1>3, <1>5, <1>6 DEF while_cycle, OpenScope, ScopeTypes, LoopScopes,
                              conds, CondsOK
    <2>2. CASE \E e \in ExprErrors : Reject(e)
      BY <1>1, <2>1, <2>2, ExprErrorsFacts, RejectStep
    <2>3. CASE Proceed(Call("while_cycle", NoName))
      BY <1>1, <1>4, <1>6, <2>1, <2>3, ScopeOfEach DEF while_cycle, OpenScope
    <2> QED
      BY <1>6, <2>2, <2>3 DEF while_cycle, ProceedOrReject
  <1>7. ASSUME NEW x \in Names, for_cycle(x) PROVE IInv'
    <2> DEFINE pushed == SS_Push(symstack, "for_cycle", unique_id, NoName)
    <2>1. LoopsOK' /\ CondsOK' /\ "for_cycle" \in ScopeTypes
      BY <1>5, <1>7 DEF for_cycle, conds, CondsOK, ScopeTypes, LoopScopes
    <2>2. pushed \in Seq(Frames) /\ pushed # <<>>
      BY <1>1, <1>2, <2>1, RunningFacts, PushTyped
    <2> HIDE DEF pushed
    <2>3. ScopesOK'
      BY <1>2, <1>7, <2>2, PutFacts DEF for_cycle, ScopesOK, pushed
    <2>4. CASE \E e \in ExprErrors \union {DEFINITION, TYPE_MISSMATCH} : Reject(e)
      BY <1>1, <2>1, <2>3, <2>4, ExprErrorsFacts, RejectStep
    <2>5. CASE /\ symstack' = SS_Put_symbol(pushed, x)
               /\ Proceed(Call("for_cycle", x))
      <3> DEFINE c == Call("for_cycle", x)
      <3>1. /\ Activation("for_cycle", x) \in Activations
            /\ Activation("for_cycle", x).proc = "for_cycle"
        BY ActivationFacts DEF Procs, BodyProcs, FunBodyCallers
      <3>2. c \in Seq(Activations)
        BY <1>1, <3>1, RunningFacts, AppendFacts DEF Call
      <3>3. c # <<>> /\ ScopesMatch(c, pushed)
        <4> DEFINE a == Activation("for_cycle", x)
        <4>1. a \in Activations /\ a.proc = "for_cycle"
              /\ NoName \in Names \union {NoName}
              /\ ScopeOf(a.proc) = "for_cycle"
          BY <3>1, ScopeOfEach
        <4> HIDE DEF a
        <4>2. /\ Append(calls, a) # <<>>
              /\ ScopesMatch(Append(calls, a),
                             SS_Push(symstack, ScopeOf(a.proc), unique_id, NoName))
          BY <1>1, <1>2, <4>1, RunningFacts, MatchCall
        <4> QED
          BY <4>1, <4>2 DEF Call, pushed, a
      <3>4. ScopesMatch(c, symstack')
        BY <2>2, <2>5, <3>2, <3>3, MatchPut
      <3>5. nested_cycle_level' = Cardinality(OpenLoops(symstack'))
        <4>1. Cardinality(OpenLoops(pushed)) = nested_cycle_level + 1
          BY <1>1, <1>2, <2>1, RunningFacts, PushCount DEF pushed, LoopScopes
        <4> QED
          BY <1>7, <2>2, <2>5, <4>1, PutCount DEF for_cycle, EnterLoop
      <3>6. ControlOK' /\ Shape'
        BY <1>1, <2>5, <3>2, <3>3, <3>4, <3>5, ProceedStep
      <3> QED
        BY <1>1, <2>1, <2>3, <3>6
    <2> QED
      BY <1>7, <2>4, <2>5 DEF for_cycle, ProceedOrReject, pushed
  <1>8. CASE repeat_until_cycle
    <2>1. ScopesOK' /\ LoopsOK' /\ CondsOK'
      BY <1>3, <1>5, <1>8 DEF repeat_until_cycle, OpenScope, ScopeTypes,
                              LoopScopes, conds, CondsOK
    <2> QED
      BY <1>1, <1>4, <1>8, <2>1, ScopeOfEach DEF repeat_until_cycle, OpenScope
  <1>9. CASE repeat_until_end
    <2>1. CondsOK' /\ Top.proc = "repeat_body"
      BY <1>9 DEF repeat_until_end, conds, CondsOK
    <2>2. CASE (\E e \in ExprErrors : Reject(e)) /\ UNCHANGED <<scopes, loops>>
      <3>1. ScopesOK' /\ LoopsOK'
        BY <2>2 DEF scopes, loops, ScopesOK, LoopsOK
      <3> QED
        BY <1>1, <2>1, <2>2, <3>1, ExprErrorsFacts, RejectStep
    <2>3. CASE /\ ForgetOuterLoop
               /\ CloseScope
               /\ nested_cycle_level' = nested_cycle_level - 1
               /\ Proceed(Return)
      <3>1. SS_Head(symstack).type \in LoopScopes
        BY <1>1, <2>1, RunningFacts, ScopeOfEach DEF LoopScopes
      <3>2. ControlOK' /\ Shape' /\ ScopesOK' /\ nested_cycle_level' \in Nat
        BY <1>1, <2>1, <2>3, <3>1, ReturnStep
      <3>3. LoopsOK'
        BY <2>3, <3>2, ForgetFacts DEF LoopsOK
      <3> QED
        BY <1>1, <2>1, <3>2, <3>3
    <2> QED
      BY <1>9, <2>2, <2>3 DEF repeat_until_end
  <1>10. CASE if_statement
    <2>1. LoopsOK' /\ UNCHANGED nested_cycle_level
      BY <1>10 DEF if_statement, loops, LoopsOK
    <2>2. ScopesOK'
      BY <1>3, <1>10 DEF if_statement, OpenScope, ScopeTypes
    <2>3. CondsOK'
      <3>1. cond_info' \in Seq(Int) /\ outer_cond_id' \in Int
        BY <1>2, <1>10, CondInfoFacts DEF if_statement, CondsOK
      <3>2. cond_cnt' \in Int
        BY <1>10, CondInfoFacts DEF if_statement
      <3> QED
        BY <3>1, <3>2 DEF CondsOK
    <2>4. CASE \E e \in ExprErrors : Reject(e)
      BY <1>1, <2>1, <2>2, <2>3, <2>4, ExprErrorsFacts, RejectStep
    <2>5. CASE Proceed(Call("cond_body", NoName))
      <3>1. /\ "cond_body" \in Procs \ {"stmt_list"}
            /\ ScopeOf("cond_body") = "condition"
            /\ "condition" \notin LoopScopes
            /\ nested_cycle_level' = nested_cycle_level + 0
        BY <1>2, <2>1, ScopeOfEach DEF Procs, BodyProcs, LoopScopes
      <3>2. symstack' = SS_Push(symstack, "condition", unique_id, NoName)
        BY <1>10 DEF if_statement, OpenScope
      <3>3. ControlOK' /\ Shape'
        BY <1>1, <2>5, <3>1, <3>2, RunningFacts, CallStep
      <3> QED
        BY <1>1, <2>1, <2>2, <2>3, <3>3
    <2> QED
      BY <1>10, <2>4, <2>5 DEF if_statement
  <1>11. CASE elseif_stmt \/ else_stmt
    <2> DEFINE rest == SS_Pop(symstack)
    <2>1. LoopsOK' /\ UNCHANGED nested_cycle_level /\ Top.proc = "cond_body"
      BY <1>11 DEF elseif_stmt, else_stmt, loops, LoopsOK
    <2>2. CondsOK'
      <3>1. cond_cnt + 1 \in Int
        BY DEF CondsOK
      <3>2. cond_cnt' \in Int
        BY <1>11, <3>1, CondInfoFacts DEF elseif_stmt, else_stmt, CondsOK
      <3> QED
        BY <1>11, <3>2 DEF elseif_stmt, else_stmt, CondsOK
    <2>3. rest \in Seq(Frames)
      BY <1>1, RunningFacts, FrontFacts DEF SS_Pop
    <2>4. /\ symstack' = SS_Push(rest, "condition", unique_id, NoName)
          /\ unique_id' = unique_id + 1
      BY <1>11 DEF elseif_stmt, else_stmt, OpenScope
    <2>5. /\ "condition" \in ScopeTypes \ LoopScopes
          /\ NoName \in Names \union {NoName}
          /\ "cond_body" \in CondProcs
      BY DEF ScopeTypes, LoopScopes, CondProcs
    <2>6. ScopesMatch(calls, symstack')
      BY <1>1, <1>2, <2>1, <2>4, <2>5, RunningFacts, MatchReopen DEF Top
    <2>7. nested_cycle_level' = Cardinality(OpenLoops(symstack'))
      <3>1. SS_Head(symstack).type \notin LoopScopes
        BY <1>1, <2>1, <2>5, RunningFacts, ScopeOfEach
      <3>2. Cardinality(OpenLoops(rest)) = nested_cycle_level - 0
        BY <1>1, <3>1, RunningFacts, PopCount
      <3> HIDE DEF rest
      <3>3. Cardinality(OpenLoops(symstack')) = Cardinality(OpenLoops(rest)) + 0
        BY <1>2, <2>3, <2>4, <2>5, PushCount
      <3> QED
        BY <1>2, <2>1, <3>2, <3>3
    <2>8. ScopesOK'
      <3> HIDE DEF rest
      <3> QED
        BY <1>2, <2>3, <2>4, <2>5, PushTyped DEF ScopesOK
    <2>9. CASE \E e \in ExprErrors : Reject(e)
      BY <1>1, <2>1, <2>2, <2>8, <2>9, ExprErrorsFacts, RejectStep
    <2>10. CASE Proceed(calls)
      <3>1. ControlOK' /\ Shape'
        BY <1>1, <2>6, <2>7, <2>10, RunningFacts, ProceedStep
      <3> QED
        BY <1>1, <2>1, <2>2, <2>8, <3>1
    <2>11. CASE Proceed(Become("else_stmt"))
      <3>1. "else_stmt" \in Procs /\ ScopeOf("else_stmt") = ScopeOf(Top.proc)
        BY <2>1, ScopeOfEach DEF Procs, BodyProcs, FunBodyCallers
      <3>2. symstack' \in Seq(Frames)
        BY <2>8 DEF ScopesOK
      <3>3. /\ Become("else_stmt") \in Seq(Activations)
            /\ Become("else_stmt") # <<>>
            /\ ScopesMatch(Become("else_stmt"), symstack')
        BY <1>1, <2>6, <3>1, <3>2, RunningFacts, MatchBecome DEF Become, Top
      <3>4. ControlOK' /\ Shape'
        BY <1>1, <2>7, <2>11, <3>3, ProceedStep
      <3> QED
        BY <1>1, <2>1, <2>2, <2>8, <3>4
    <2> QED
      BY <1>11, <2>9, <2>10, <2>11 DEF elseif_stmt, else_stmt
  <1>12. ASSUME SoftAssertFails PROVE IInv'
    <2>1. ControlOK' /\ Shape'
      BY <1>12, ExprErrorsFacts, EmptySeq
         DEF SoftAssertFails, ControlOK, Shape, PrologOK, ScopesMatchCalls,
             NestingCountsLoops
    <2>2. ScopesOK' /\ LoopsOK' /\ CondsOK'
      BY <1>12 DEF SoftAssertFails, scopes, loops, conds, ScopesOK, LoopsOK,
                   CondsOK
    <2> QED
      BY <1>1, <2>1, <2>2
  <1>13. ASSUME CanPop(cond_info), RestoreCond PROVE CondsOK'
    BY <1>13, CondInfoFacts DEF RestoreCond, CondsOK
  <1>14. CASE cond_body_end
    <2>1. Top.proc = "cond_body"
      BY <1>14 DEF cond_body_end
    <2>2. CASE CanPop(cond_info)
      <3>1. /\ CloseScope /\ RestoreCond /\ Proceed(Return) /\ UNCHANGED loops
        BY <1>14, <2>2 DEF cond_body_end
      <3>2. SS_Head(symstack).type \notin LoopScopes
        BY <1>1, <2>1, RunningFacts, ScopeOfEach DEF LoopScopes
      <3>3. nested_cycle_level' = nested_cycle_level - 0 /\ LoopsOK'
        BY <1>2, <3>1 DEF loops, LoopsOK
      <3>4. ControlOK' /\ Shape' /\ ScopesOK'
        BY <1>1, <2>1, <3>1, <3>2, <3>3, ReturnStep
      <3> QED
        BY <1>1, <1>13, <2>2, <3>1, <3>3, <3>4
    <2> QED
      BY <1>12, <1>14, <2>2 DEF cond_body_end
  <1>15. CASE fun_body_end
    <2>1. Top.proc \in FunBodyCallers
      BY <1>15 DEF fun_body_end
    <2>2. CASE EndScopeCode /\ CloseScope /\ LeaveBody /\ Proceed(Return)
               /\ ~(SS_Head(symstack).type = "condition" /\ ~CanPop(cond_info))
      <3>1. SS_Head(symstack).type \in LoopScopes
              <=> Top.proc \in {"while_cycle", "for_cycle"}
        BY <1>1, <2>1, RunningFacts, ScopeOfEach DEF FunBodyCallers, LoopScopes
      <3>2. nested_cycle_level' = nested_cycle_level
              - (IF SS_Head(symstack).type \in LoopScopes THEN 1 ELSE 0)
        BY <1>2, <2>2, <3>1 DEF LeaveBody
      <3>3. Top.proc # "stmt_list"
        BY <2>1 DEF FunBodyCallers
      <3>4. /\ ControlOK' /\ Shape' /\ ScopesOK'
            /\ nested_cycle_level' \in Nat
        BY <1>1, <2>2, <3>2, <3>3, ReturnStep
      <3>5. LoopsOK'
        BY <2>2, <3>4, ForgetFacts DEF EndScopeCode, LoopsOK
      <3>6. CondsOK'
        BY <1>13, <2>2 DEF EndScopeCode, conds, CondsOK
      <3> QED
        BY <1>1, <3>4, <3>5, <3>6
    <2> QED
      BY <1>12, <1>15, <2>2 DEF fun_body_end
  <1> QED
    BY <1>6, <1>7, <1>8, <1>9, <1>10, <1>11, <1>14, <1>15

(* The invariant is inductive.                                             *)
LEMMA StepIInv == IInv /\ [Next]_vars => IInv'
  <1> SUFFICES ASSUME IInv, [Next]_vars PROVE IInv'
    OBVIOUS
  <1>1. CASE UNCHANGED vars
    BY <1>1 DEF vars, control, scopes, loops, conds, IInv, TypeOK, ControlOK,
       ScopesOK, FunctionsOK, LoopsOK, CondsOK, Shape, PrologOK,
       ScopesMatchCalls, NestingCountsLoops
  <1>2. CASE FunctionStatement
    BY <1>2, SimpleStatementStep, BodyStep DEF FunctionStatement
  <1> QED
    BY <1>1, <1>2, GlobalStep, HeaderStep DEF Next

(***************************************************************************)
(* Theorems.                                                               *)
(***************************************************************************)
(* The inductive invariant holds in every reachable state.                 *)
THEOREM Invariant == Spec => []IInv
  BY InitIInv, StepIInv, PTL DEF Spec

(* Type correctness; in particular the nesting level (parser.c:153, 157)   *)
(* never goes below zero, where break_ (176) would take it for a cycle.    *)
THEOREM TypeCorrect == Spec => []TypeOK
  <1>1. IInv => TypeOK
    BY DEF IInv
  <1> QED
    BY Invariant, <1>1, PTL

(* The scopes are those of the waiting procedures, so `end' closes what    *)
(* its own statement opened, and no local scope outlives a function.       *)
THEOREM ScopesBalanced == Spec => []ScopesMatchCalls
  <1>1. IInv => ScopesMatchCalls
    BY DEF IInv, Shape
  <1> QED
    BY Invariant, <1>1, PTL

(* break_ is accepted exactly inside a cycle: the nesting level it reads   *)
(* is the number of open cycles.                                           *)
THEOREM NestingCorrect == Spec => []NestingCountsLoops
  <1>1. IInv => NestingCountsLoops
    BY DEF IInv, Shape
  <1> QED
    BY Invariant, <1>1, PTL

(***************************************************************************)
(* What the parser remembers: the names of functions and variables, the    *)
(* functions' signatures, the outermost cycle and the enclosing branches.  *)
(* A step of a running parser that is not its last one does one of ten     *)
(* things to the activations and the frames (StepCases); the invariants    *)
(* are shown for these ten.                                                *)
(***************************************************************************)

(***************************************************************************)
(* The ten things, frame by frame.                                         *)
(***************************************************************************)
Depth == Len(calls)

(* The frames and the activations up to k stay as they are.                *)
KeepsFrames(k) == \A i \in 1..k : symstack'[i] = symstack[i]
KeepsCalls(k)  == \A i \in 1..k : calls'[i] = calls[i]

(* The head's table gets x.                                                *)
Puts(x) ==
  /\ unique_id' = unique_id
  /\ Len(symstack') = Depth
  /\ KeepsFrames(Depth - 1)
  /\ symstack'[Depth].type = symstack[Depth].type
  /\ symstack'[Depth].uid = symstack[Depth].uid
  /\ symstack'[Depth].fun = symstack[Depth].fun
  /\ symstack'[Depth].table = symstack[Depth].table \union {x}

(* The activation at the top goes on as p.                                 *)
Becomes(p) ==
  /\ Len(calls') = Depth
  /\ KeepsCalls(Depth - 1)
  /\ calls'[Depth].proc = p
  /\ calls'[Depth].id = calls[Depth].id
  /\ calls'[Depth].saved = calls[Depth].saved

(* A new activation, and a frame with a fresh id and these names.          *)
Opens(p, x, fun, names) ==
  /\ unique_id < MaxScopes
  /\ unique_id' = unique_id + 1
  /\ Len(calls') = Depth + 1
  /\ KeepsCalls(Depth)
  /\ calls'[Depth + 1] = Activation(p, x)
  /\ Len(symstack') = Depth + 1
  /\ symstack'[Depth + 1] = [type |-> ScopeOf(p), uid |-> unique_id,
                             fun |-> fun, table |-> names]

Stays == UNCHANGED <<calls, symstack, unique_id, functions, loops, conds>>

Declares(f, sig) ==
  /\ Depth = 1 /\ Top.proc = "stmt_list"
  /\ ~IsDeclared(f)
  /\ functions' = [functions EXCEPT ![f].is_declared = TRUE,
                                    ![f].declaration = AddTypes(@, sig)]
  /\ functions[f].is_defined => ~SignaturesDiffer(functions'[f].declaration,
                                                  functions[f].definition)
  /\ Puts(f)
  /\ UNCHANGED <<calls, loops, conds>>

Defines(f) ==
  /\ Depth = 1 /\ Top.proc = "stmt_list"
  /\ ~IsDefined(f)
  /\ functions' = [functions EXCEPT ![f].is_defined = TRUE]
  /\ Opens("funparam_def_list", f, f, {})
  /\ symstack'[1].type = symstack[1].type
  /\ symstack'[1].uid = symstack[1].uid
  /\ symstack'[1].table = symstack[1].table \union {f}
  /\ UNCHANGED <<loops, conds>>

TakesParameter(x, t) ==
  /\ Depth >= 2 /\ Top.proc \in HeaderProcs
  /\ ~IsTaken(x)
  /\ functions' = [functions EXCEPT ![Top.id].definition.params = Append(@, t)]
  /\ Puts(x)
  /\ Becomes("other_funparams")
  /\ UNCHANGED <<loops, conds>>

EndsHeader(rets) ==
  /\ Depth >= 2 /\ Top.proc \in HeaderProcs
  /\ functions' = [functions EXCEPT ![Top.id].definition.returns = @ \o rets]
  /\ functions[Top.id].is_declared =>
       ~SignaturesDiffer(functions[Top.id].declaration,
                         functions'[Top.id].definition)
  /\ Becomes("function_definition")
  /\ UNCHANGED <<symstack, unique_id, loops, conds>>

AddsVariable(x) ==
  /\ Depth >= 2 /\ Top.proc \in BodyProcs
  /\ ~IsTaken(x)
  /\ Puts(x)
  /\ UNCHANGED <<calls, functions, loops, conds>>

LoopProcs == {"while_cycle", "for_cycle", "repeat_body"}

(* A for cycle's own variable is in its scope from the start.              *)
OpensLoop(p, x, names) ==
  /\ Depth >= 2 /\ Top.proc \in BodyProcs
  /\ names \subseteq Names /\ names \intersect GlobalTable = {}
  /\ names = IF p = "for_cycle" THEN {x} ELSE {}
  /\ Opens(p, x, NoName, names)
  /\ KeepsFrames(Depth)
  /\ EnterLoop
  /\ UNCHANGED <<functions, conds>>

OpensBranch ==
  /\ Depth >= 2 /\ Top.proc \in BodyProcs
  /\ Opens("cond_body", NoName, NoName, {})
  /\ KeepsFrames(Depth)
  /\ cond_info' = PushCond(cond_info, cond_cnt, outer_cond_id)
  /\ outer_cond_id' = unique_id
  /\ cond_cnt' = ToChar(2)
  /\ UNCHANGED <<functions, loops>>

NextBranch(p) ==
  /\ Depth >= 2 /\ Top.proc = "cond_body"
  /\ Becomes(p)
  /\ unique_id < MaxScopes
  /\ unique_id' = unique_id + 1
  /\ Len(symstack') = Depth
  /\ KeepsFrames(Depth - 1)
  /\ symstack'[Depth] = [type |-> "condition", uid |-> unique_id,
                         fun |-> NoName, table |-> {}]
  /\ cond_cnt' = ToChar(cond_cnt + 1)
  /\ UNCHANGED <<functions, loops, outer_cond_id, cond_info>>

Ends ==
  /\ Depth >= 2 /\ Top.proc \in BodyProcs
  /\ Len(calls') = Depth - 1
  /\ KeepsCalls(Depth - 1)
  /\ Len(symstack') = Depth - 1
  /\ KeepsFrames(Depth - 1)
  /\ IF Top.proc \in LoopProcs THEN ForgetOuterLoop
                               ELSE UNCHANGED <<in_loop, outer_loop_id>>
  /\ IF Top.proc \in CondProcs THEN CanPop(cond_info) /\ RestoreCond
                               ELSE UNCHANGED conds
  /\ UNCHANGED <<unique_id, functions>>

Moves ==
  \/ Stays
  \/ \E f \in Names, sig \in Signatures : Declares(f, sig)
  \/ \E f \in Names : Defines(f)
  \/ \E x \in Names, t \in Types : TakesParameter(x, t)
  \/ \E rets \in Seq(Types) : EndsHeader(rets)
  \/ \E x \in Names : AddsVariable(x)
  \/ \E p \in LoopProcs, x \in Names \union {NoName}, names \in SUBSET Names :
       OpensLoop(p, x, names)
  \/ OpensBranch
  \/ \E p \in CondProcs : NextBranch(p)
  \/ Ends

(***************************************************************************)
(* The steps do nothing else.                                              *)
(***************************************************************************)
(* Only the global statements are read with one scope open.                *)
LEMMA DepthFacts ==
  ASSUME IInv, phase = "running"
  PROVE  /\ Depth \in Nat \ {0} /\ Len(symstack) = Depth
         /\ \A i \in 1..Depth : calls[i] \in Activations /\ symstack[i] \in Frames
         /\ \A i \in 1..Depth : symstack[i].type = ScopeOf(calls[i].proc)
         /\ \A i \in 1..Depth : symstack[i].type = "function"
                                  => symstack[i].fun = calls[i].id
         /\ \A i \in 1..Depth : calls[i].proc = "stmt_list" <=> i = 1
         /\ Top = calls[Depth] /\ SS_Head(symstack) = symstack[Depth]
         /\ Top.proc # "stmt_list" => Depth >= 2
         /\ Top.proc = "stmt_list" => Depth = 1
  <1>1. Depth \in Nat \ {0} /\ Len(symstack) = Depth
    BY RunningFacts, EmptySeq DEF Depth, ScopesMatch
  <1>2. \A i \in 1..Depth : calls[i] \in Activations /\ symstack[i] \in Frames
    BY <1>1, RunningFacts, ElementOfSeq DEF Depth
  <1>3. \A i \in 1..Depth : /\ symstack[i].type = ScopeOf(calls[i].proc)
                            /\ symstack[i].type = "function"
                                 => symstack[i].fun = calls[i].id
                            /\ symstack[i].type = "global" <=> i = 1
    BY RunningFacts DEF Depth, ScopesMatch
  <1>4. \A i \in 1..Depth : calls[i].proc = "stmt_list" <=> i = 1
    BY <1>2, <1>3, ScopeOfFacts DEF Activations
  <1>5. Top = calls[Depth] /\ SS_Head(symstack) = symstack[Depth]
    BY <1>1 DEF Top, SS_Head, Depth
  <1> QED
    BY <1>1, <1>2, <1>3, <1>4, <1>5

(* A frame and an activation are pushed.                                   *)
LEMMA OpensFacts ==
  ASSUME IInv, phase = "running", NEW p \in Procs,
         NEW x \in Names \union {NoName}, NEW fun \in Names \union {NoName},
         NEW ss \in Seq(Frames), Len(ss) = Depth,
         unique_id < MaxScopes, unique_id' = unique_id + 1,
         symstack' = SS_Push(ss, ScopeOf(p), unique_id, fun),
         calls' = Call(p, x)
  PROVE  /\ Opens(p, x, fun, {})
         /\ \A i \in 1..Depth : symstack'[i] = ss[i]
  <1>1. unique_id \in Nat /\ ScopeOf(p) \in ScopeTypes
    BY ScopeOfFacts DEF IInv, TypeOK, ScopesOK
  <1>2. /\ Len(symstack') = Depth + 1
        /\ symstack'[Depth + 1] = [type |-> ScopeOf(p), uid |-> unique_id,
                                   fun |-> fun, table |-> {}]
        /\ \A i \in 1..Depth : symstack'[i] = ss[i]
    BY <1>1, PushFacts
  <1> DEFINE a == Activation(p, x)
  <1>3. a \in Activations
    BY ActivationFacts DEF IInv, TypeOK
  <1> HIDE DEF a
  <1>4. calls' = Append(calls, a)
    BY DEF Call, a
  <1>5. /\ Len(calls') = Depth + 1
        /\ \A i \in 1..Depth : calls'[i] = calls[i]
        /\ calls'[Depth + 1] = a
    BY <1>3, <1>4, RunningFacts, AppendFacts DEF Depth
  <1> QED
    BY <1>2, <1>5 DEF Opens, KeepsCalls, a

(* A name is put.                                                          *)
LEMMA PutsFacts ==
  ASSUME IInv, phase = "running", NEW x \in Names,
         symstack' = SS_Put_symbol(symstack, x), UNCHANGED unique_id
  PROVE  Puts(x)
  <1> DEFINE put == SS_Put_symbol(symstack, x)
  <1>1. symstack \in Seq(Frames) /\ symstack # <<>>
    BY RunningFacts
  <1>2. /\ Len(put) = Len(symstack)
        /\ \A i \in 1..Len(symstack) : /\ put[i].type = symstack[i].type
                                       /\ put[i].uid = symstack[i].uid
                                       /\ put[i].fun = symstack[i].fun
        /\ put[Len(symstack)].table = symstack[Len(symstack)].table \union {x}
        /\ \A i \in 1..(Len(symstack) - 1) : put[i] = symstack[i]
    BY <1>1, PutFacts
  <1>3. symstack' = put
    OBVIOUS
  <1> HIDE DEF put
  <1>4. Depth \in Nat \ {0} /\ Len(symstack) = Depth
    BY DepthFacts
  <1> QED
    BY <1>2, <1>3, <1>4 DEF Puts, KeepsFrames

(* The procedure at the top goes on.                                       *)
LEMMA BecomesFacts ==
  ASSUME IInv, phase = "running", NEW p \in Procs, calls' = Become(p)
  PROVE  Becomes(p)
  <1> DEFINE a == [calls[Depth] EXCEPT !.proc = p]
  <1>1. Depth \in 1..Depth /\ calls[Depth] \in Activations
    BY DepthFacts
  <1>2. /\ a \in Activations
        /\ a.proc = p /\ a.id = calls[Depth].id /\ a.saved = calls[Depth].saved
    BY <1>1 DEF Activations
  <1>3. calls' = [calls EXCEPT ![Depth] = a]
    BY DEF Become, Depth
  <1> HIDE DEF a
  <1>4. /\ Len(calls') = Depth
        /\ \A j \in 1..Depth : calls'[j] = IF j = Depth THEN a ELSE calls[j]
    BY <1>1, <1>2, <1>3, RunningFacts, ExceptSeq DEF Depth
  <1> QED
    BY <1>1, <1>2, <1>4 DEF Becomes, KeepsCalls

(* What the global statements do, if they go on.                           *)
LEMMA DeclarationMoves ==
  ASSUME IInv, phase = "running", phase' = "running",
         NEW f \in Names, NEW sig \in Signatures, function_declaration(f, sig)
  PROVE  Declares(f, sig)
  <1>1. /\ Depth = 1 /\ Top.proc = "stmt_list" /\ ~IsDeclared(f)
        /\ symstack' = SS_Put_symbol(symstack, f)
        /\ UNCHANGED <<unique_id, calls, loops, conds>>
        /\ functions' = [functions EXCEPT ![f].is_declared = TRUE,
                                          ![f].declaration = AddTypes(@, sig)]
        /\ functions[f].is_defined
             => ~SignaturesDiffer(functions'[f].declaration,
                                  functions[f].definition)
    BY DepthFacts DEF function_declaration, AtStatement, Proceed, Reject
  <1>2. Puts(f)
    BY <1>1, PutsFacts
  <1> QED
    BY <1>1, <1>2 DEF Declares

LEMMA DefinitionMoves ==
  ASSUME IInv, phase = "running", phase' = "running",
         NEW f \in Names, function_definition(f)
  PROVE  Defines(f)
  <1> DEFINE put == SS_Put_symbol(symstack, f)
  <1>1. /\ Depth = 1 /\ Top.proc = "stmt_list" /\ ~IsDefined(f)
        /\ unique_id < MaxScopes /\ unique_id' = unique_id + 1
        /\ symstack' = SS_Push(put, "function", unique_id, f)
        /\ calls' = Call("funparam_def_list", f)
        /\ UNCHANGED <<loops, conds>>
        /\ functions' = [functions EXCEPT ![f].is_defined = TRUE]
    BY DepthFacts DEF function_definition, AtStatement, Proceed, Reject,
                            OpenScope
  <1>2. /\ put \in Seq(Frames) /\ Len(put) = Depth
        /\ put[1].type = symstack[1].type
        /\ put[1].uid = symstack[1].uid
        /\ put[1].table = symstack[1].table \union {f}
    BY <1>1, RunningFacts, DepthFacts, PutFacts
  <1> HIDE DEF put
  <1>3. /\ ScopeOf("funparam_def_list") = "function"
        /\ "funparam_def_list" \in Procs
    BY ScopeOfEach DEF Procs, HeaderProcs
  <1>4. /\ Opens("funparam_def_list", f, f, {})
        /\ \A i \in 1..Depth : symstack'[i] = put[i]
    BY <1>1, <1>2, <1>3, OpensFacts
  <1> QED
    BY <1>1, <1>2, <1>4 DEF Defines

LEMMA GlobalMoves ==
  ASSUME IInv, phase = "running", phase' = "running", GlobalStatement
  PROVE  Moves
  <1>1. CASE global_expression
    <2>1. Stays
      BY <1>1 DEF global_expression, ProceedOrReject, Proceed, Reject, Stays,
                  scopes
    <2> QED
      BY <2>1 DEF Moves
  <1>2. ~stmt_list_end
    BY DEF stmt_list_end, Reject
  <1>3. \A ps, rs \in ShortSeqs : [params |-> ps, returns |-> rs] \in Signatures
    BY ShortSeqsFacts DEF Signatures
  <1> QED
    BY <1>1, <1>2, <1>3, DeclarationMoves, DefinitionMoves
       DEF GlobalStatement, Moves

(* What the steps of a header do, if they go on.                           *)
LEMMA HeaderProcsFacts == HeaderProcs \subseteq Procs \ {"stmt_list"}
  BY DEF HeaderProcs, Procs

LEMMA ParameterMoves ==
  ASSUME IInv, phase = "running", phase' = "running",
         NEW x \in Names, NEW t \in Types,
         funparam_def_list(x, t) \/ other_funparams(x, t)
  PROVE  TakesParameter(x, t)
  <1>1. /\ Top.proc \in HeaderProcs /\ ~IsTaken(x)
        /\ symstack' = SS_Put_symbol(symstack, x)
        /\ UNCHANGED <<unique_id, loops, conds>>
        /\ functions' = [functions EXCEPT
                           ![Top.id].definition.params = Append(@, t)]
    BY DEF funparam_def_list, other_funparams, Proceed, Reject,
                HeaderProcs
  <1>2. Becomes("other_funparams")
    <2>1. CASE funparam_def_list(x, t)
      BY HeaderProcsFacts, <2>1, BecomesFacts
         DEF funparam_def_list, Proceed, Reject, HeaderProcs
    <2>2. CASE other_funparams(x, t)
      <3>1. calls' = calls /\ calls[Depth].proc = "other_funparams"
        BY <2>2, DepthFacts DEF other_funparams, Proceed, Reject
      <3> QED
        BY <3>1 DEF Becomes, KeepsCalls, Depth
    <2> QED
      BY <2>1, <2>2
  <1> QED
    BY HeaderProcsFacts, <1>1, <1>2, PutsFacts, DepthFacts DEF TakesParameter

LEMMA ReturnTypesMoves ==
  ASSUME IInv, phase = "running", phase' = "running",
         NEW rets \in ShortSeqs, funretopt(rets)
  PROVE  EndsHeader(rets)
  <1>1. /\ Top.proc \in HeaderProcs
        /\ UNCHANGED <<symstack, unique_id, loops, conds>>
        /\ functions' = [functions EXCEPT
                           ![Top.id].definition.returns = @ \o rets]
        /\ functions[Top.id].is_declared =>
             ~SignaturesDiffer(functions[Top.id].declaration,
                               functions'[Top.id].definition)
        /\ calls' = Become("function_definition")
    BY DEF funretopt, scopes, Proceed, Reject
  <1>2. Becomes("function_definition")
    BY <1>1, BecomesFacts DEF Procs, BodyProcs, FunBodyCallers
  <1> QED
    BY HeaderProcsFacts, <1>1, <1>2, DepthFacts DEF EndsHeader

LEMMA HeaderMoves ==
  ASSUME IInv, phase = "running", phase' = "running", FunctionHeader
  PROVE  Moves
  BY ParameterMoves, ReturnTypesMoves, ShortSeqsFacts DEF FunctionHeader, Moves

(* What the statements of a function do, if they go on.                    *)
LEMMA BodyProcsFacts == BodyProcs \subseteq Procs \ {"stmt_list"}
  BY DEF BodyProcs, FunBodyCallers, Procs

LEMMA VariableMoves ==
  ASSUME IInv, phase = "running", phase' = "running",
         NEW x \in Names, var_definition(x)
  PROVE  AddsVariable(x)
  <1>1. /\ Top.proc \in BodyProcs /\ ~IsTaken(x)
        /\ symstack' = SS_Put_symbol(symstack, x)
        /\ UNCHANGED <<unique_id, calls, functions, loops, conds>>
    BY DEF var_definition, InBody, Proceed, Reject
  <1> QED
    BY BodyProcsFacts, <1>1, PutsFacts, DepthFacts DEF AddsVariable

LEMMA SimpleMoves ==
  ASSUME IInv, phase = "running", phase' = "running",
         function_expression \/ return_stmt \/ break_
  PROVE  Stays
  BY DEF function_expression, return_stmt, break_, ProceedOrReject,
         Proceed, Reject, Stays, scopes

LEMMA LoopMoves ==
  ASSUME IInv, phase = "running", phase' = "running",
         NEW p \in LoopProcs,
         \/ while_cycle /\ p = "while_cycle"
         \/ repeat_until_cycle /\ p = "repeat_body"
  PROVE  OpensLoop(p, NoName, {})
  <1>1. /\ Top.proc \in BodyProcs
        /\ unique_id < MaxScopes /\ unique_id' = unique_id + 1
        /\ symstack' = SS_Push(symstack, ScopeOf(p), unique_id, NoName)
        /\ calls' = Call(p, NoName)
        /\ EnterLoop /\ UNCHANGED <<functions, conds>>
    BY ScopeOfEach
       DEF while_cycle, repeat_until_cycle, InBody, OpenScope,
           ProceedOrReject, Proceed, Reject
  <1>2. p \in Procs /\ NoName \in Names \union {NoName}
    BY DEF LoopProcs, Procs, BodyProcs, FunBodyCallers
  <1>3. Opens(p, NoName, NoName, {}) /\ KeepsFrames(Depth)
    BY <1>1, <1>2, RunningFacts, DepthFacts, OpensFacts DEF KeepsFrames
  <1> QED
    BY BodyProcsFacts, <1>1, <1>3, DepthFacts DEF OpensLoop

LEMMA ForMoves ==
  ASSUME IInv, phase = "running", phase' = "running",
         NEW x \in Names, for_cycle(x)
  PROVE  OpensLoop("for_cycle", x, {x})
  <1> DEFINE pushed == SS_Push(symstack, "for_cycle", unique_id, NoName)
  <1>1. /\ Top.proc \in BodyProcs /\ x \notin GlobalTable
        /\ unique_id < MaxScopes /\ unique_id' = unique_id + 1
        /\ symstack' = SS_Put_symbol(pushed, x)
        /\ calls' = Call("for_cycle", x)
        /\ EnterLoop /\ UNCHANGED <<functions, conds>>
    BY DEF for_cycle, InBody, ProceedOrReject, Proceed, Reject
  <1>2. /\ "for_cycle" \in Procs \intersect ScopeTypes \intersect LoopProcs
        /\ ScopeOf("for_cycle") = "for_cycle"
        /\ unique_id \in Nat
    BY ScopeOfEach DEF LoopProcs, Procs, BodyProcs, FunBodyCallers, ScopeTypes,
                       LoopScopes, IInv, TypeOK, ScopesOK
  <1>3. /\ pushed \in Seq(Frames) /\ pushed # <<>>
        /\ Len(pushed) = Depth + 1
        /\ pushed[Depth + 1] = [type |-> "for_cycle", uid |-> unique_id,
                                fun |-> NoName, table |-> {}]
        /\ \A i \in 1..Depth : pushed[i] = symstack[i]
    <2>1. pushed \in Seq(Frames) /\ pushed # <<>>
      BY <1>2, RunningFacts, PushTyped
    <2> QED
      BY <1>2, <2>1, RunningFacts, DepthFacts, PushFacts
  <1> HIDE DEF pushed
  <1>4. /\ Len(symstack') = Depth + 1
        /\ symstack'[Depth + 1] = [type |-> "for_cycle", uid |-> unique_id,
                                   fun |-> NoName, table |-> {x}]
        /\ \A i \in 1..Depth : symstack'[i] = symstack[i]
    <2>1. Depth \in Nat
      BY DepthFacts
    <2>2. LET put == SS_Put_symbol(pushed, x) IN
          /\ put \in Seq(Frames)
          /\ Len(put) = Len(pushed)
          /\ \A i \in 1..Len(pushed) : /\ put[i].type = pushed[i].type
                                       /\ put[i].uid = pushed[i].uid
                                       /\ put[i].fun = pushed[i].fun
          /\ put[Len(pushed)].table = pushed[Len(pushed)].table \union {x}
          /\ \A i \in 1..(Len(pushed) - 1) : put[i] = pushed[i]
      BY <1>3, PutFacts
    <2>3. Depth + 1 \in 1..(Depth + 1) /\ Depth + 1 - 1 = Depth
      BY <2>1
    <2>4. symstack'[Depth + 1] \in Frames
      BY <1>1, <1>3, <2>2, <2>3, ElementOfSeq
    <2>5. symstack'[Depth + 1] = [type |-> "for_cycle", uid |-> unique_id,
                                  fun |-> NoName, table |-> {x}]
      <3>1. /\ symstack'[Depth + 1].type = "for_cycle"
            /\ symstack'[Depth + 1].uid = unique_id
            /\ symstack'[Depth + 1].fun = NoName
            /\ symstack'[Depth + 1].table = {x}
        BY <1>1, <1>3, <2>2, <2>3
      <3> QED
        BY <2>4, <3>1 DEF Frames
    <2>6. /\ Len(symstack') = Depth + 1
          /\ \A i \in 1..Depth : symstack'[i] = pushed[i]
      <3>1. Len(pushed) = Depth + 1 /\ Len(pushed) - 1 = Depth
        BY <1>3, <2>1
      <3>2. symstack' = SS_Put_symbol(pushed, x)
        BY <1>1
      <3> QED
        BY <2>2, <3>1, <3>2
    <2> QED
      BY <1>3, <2>5, <2>6
  <1>5. /\ Len(calls') = Depth + 1
        /\ KeepsCalls(Depth)
        /\ calls'[Depth + 1] = Activation("for_cycle", x)
    <2> DEFINE a == Activation("for_cycle", x)
    <2>1. a \in Activations
      BY <1>2, ActivationFacts DEF IInv, TypeOK
    <2> HIDE DEF a
    <2>2. calls' = Append(calls, a)
      BY <1>1 DEF Call, a
    <2> QED
      BY <2>1, <2>2, RunningFacts, AppendFacts DEF Depth, KeepsCalls, a
  <1> QED
    BY BodyProcsFacts, <1>1, <1>2, <1>4, <1>5, DepthFacts
       DEF OpensLoop, Opens, KeepsFrames

LEMMA IfMoves ==
  ASSUME IInv, phase = "running", phase' = "running", if_statement
  PROVE  OpensBranch
  <1>1. /\ Top.proc \in BodyProcs
        /\ unique_id < MaxScopes /\ unique_id' = unique_id + 1
        /\ symstack' = SS_Push(symstack, "condition", unique_id, NoName)
        /\ calls' = Call("cond_body", NoName)
        /\ cond_info' = PushCond(cond_info, cond_cnt, outer_cond_id)
        /\ outer_cond_id' = unique_id
        /\ cond_cnt' = ToChar(2)
        /\ UNCHANGED <<functions, loops>>
    BY DEF if_statement, InBody, OpenScope, Proceed, Reject
  <1>2. /\ "cond_body" \in Procs /\ NoName \in Names \union {NoName}
        /\ ScopeOf("cond_body") = "condition"
    BY ScopeOfEach DEF Procs, BodyProcs
  <1>3. Opens("cond_body", NoName, NoName, {}) /\ KeepsFrames(Depth)
    BY <1>1, <1>2, RunningFacts, DepthFacts, OpensFacts DEF KeepsFrames
  <1> QED
    BY BodyProcsFacts, <1>1, <1>3, DepthFacts DEF OpensBranch

LEMMA BranchMoves ==
  ASSUME IInv, phase = "running", phase' = "running",
         NEW p \in CondProcs,
         \/ elseif_stmt /\ p = "cond_body"
         \/ else_stmt /\ p = "else_stmt"
  PROVE  NextBranch(p)
  <1> DEFINE rest == SS_Pop(symstack)
  <1>1. /\ Top.proc = "cond_body"
        /\ unique_id < MaxScopes /\ unique_id' = unique_id + 1
        /\ symstack' = SS_Push(rest, "condition", unique_id, NoName)
        /\ cond_cnt' = ToChar(cond_cnt + 1)
        /\ UNCHANGED <<functions, loops, outer_cond_id, cond_info>>
    BY DEF elseif_stmt, else_stmt, OpenScope, Proceed, Reject
  <1>2. Becomes(p)
    <2>1. CASE elseif_stmt /\ p = "cond_body"
      <3>1. calls' = calls /\ calls[Depth].proc = "cond_body"
        BY <1>1, <2>1, DepthFacts DEF elseif_stmt, Proceed, Reject
      <3> QED
        BY <2>1, <3>1 DEF Becomes, KeepsCalls, Depth
    <2>2. CASE else_stmt /\ p = "else_stmt"
      BY <2>2, BecomesFacts DEF else_stmt, Proceed, Procs, BodyProcs,
                                FunBodyCallers
    <2> QED
      BY <2>1, <2>2
  <1>3. /\ rest \in Seq(Frames) /\ Len(rest) = Depth - 1
        /\ \A i \in 1..(Depth - 1) : rest[i] = symstack[i]
    BY RunningFacts, DepthFacts, FrontFacts DEF SS_Pop
  <1> HIDE DEF rest
  <1>4. /\ Len(symstack') = Depth
        /\ KeepsFrames(Depth - 1)
        /\ symstack'[Depth] = [type |-> "condition", uid |-> unique_id,
                               fun |-> NoName, table |-> {}]
    <2>1. /\ unique_id \in Nat /\ "condition" \in ScopeTypes
          /\ NoName \in Names \union {NoName}
          /\ Depth \in Nat \ {0} /\ Depth - 1 + 1 = Depth
      BY DepthFacts DEF IInv, TypeOK, ScopesOK, ScopeTypes
    <2>2. LET pushed == SS_Push(rest, "condition", unique_id, NoName) IN
          /\ Len(pushed) = Len(rest) + 1
          /\ pushed[Len(rest) + 1] = [type |-> "condition",
                    uid |-> unique_id, fun |-> NoName, table |-> {}]
          /\ \A i \in 1..Len(rest) : pushed[i] = rest[i]
      BY <1>3, <2>1, PushFacts
    <2> QED
      BY <1>1, <1>3, <2>1, <2>2 DEF KeepsFrames
  <1> QED
    BY <1>1, <1>2, <1>4, DepthFacts DEF NextBranch

LEMMA EndMoves ==
  ASSUME IInv, phase = "running", phase' = "running",
         repeat_until_end \/ cond_body_end \/ fun_body_end
  PROVE  Ends
  <1>1. /\ Top.proc \in BodyProcs
        /\ calls' = Return
        /\ symstack' = SS_Pop(symstack)
        /\ UNCHANGED <<unique_id, functions>>
    BY DEF repeat_until_end, cond_body_end, fun_body_end, Proceed,
                Reject, CloseScope, SoftAssertFails, BodyProcs
  <1>2. /\ Len(calls') = Depth - 1 /\ KeepsCalls(Depth - 1)
        /\ Len(symstack') = Depth - 1 /\ KeepsFrames(Depth - 1)
    BY <1>1, RunningFacts, DepthFacts, FrontFacts
       DEF SS_Pop, Return, Depth, KeepsCalls, KeepsFrames
  <1>3. /\ IF Top.proc \in LoopProcs THEN ForgetOuterLoop
                                     ELSE UNCHANGED <<in_loop, outer_loop_id>>
        /\ IF Top.proc \in CondProcs THEN CanPop(cond_info) /\ RestoreCond
                                     ELSE UNCHANGED conds
    <2>1. CASE repeat_until_end
      BY <2>1 DEF repeat_until_end, LoopProcs, CondProcs, Reject
    <2>2. CASE cond_body_end
      BY <2>2 DEF cond_body_end, LoopProcs, CondProcs, loops, SoftAssertFails
    <2>3. CASE fun_body_end
      <3>1. SS_Head(symstack).type = ScopeOf(Top.proc)
        BY RunningFacts
      <3>2. Top.proc \in FunBodyCallers /\ EndScopeCode
            /\ ~(SS_Head(symstack).type = "condition" /\ ~CanPop(cond_info))
        BY <2>3 DEF fun_body_end, SoftAssertFails
      <3> QED
        BY <3>1, <3>2, ScopeOfEach DEF EndScopeCode, FunBodyCallers, LoopProcs,
                                       CondProcs
    <2> QED
      BY <2>1, <2>2, <2>3
  <1> QED
    BY BodyProcsFacts, <1>1, <1>2, <1>3, DepthFacts DEF Ends

LEMMA StatementMoves ==
  ASSUME IInv, phase = "running", phase' = "running", FunctionStatement
  PROVE  Moves
  <1>1. LoopProcs = {"while_cycle", "for_cycle", "repeat_body"}
        /\ CondProcs = {"cond_body", "else_stmt"}
    BY DEF LoopProcs, CondProcs
  <1>2. ASSUME NEW x \in Names, var_definition(x) \/ for_cycle(x)
        PROVE  Moves
    BY <1>1, <1>2, VariableMoves, ForMoves DEF Moves
  <1>3. CASE function_expression \/ return_stmt \/ break_
    BY <1>3, SimpleMoves DEF Moves
  <1>4. CASE while_cycle \/ repeat_until_cycle
    BY <1>1, <1>4, LoopMoves DEF Moves
  <1>5. CASE if_statement
    BY <1>5, IfMoves DEF Moves
  <1>6. CASE elseif_stmt \/ else_stmt
    BY <1>1, <1>6, BranchMoves DEF Moves
  <1>7. CASE repeat_until_end \/ cond_body_end \/ fun_body_end
    BY <1>7, EndMoves DEF Moves
  <1> QED
    BY <1>2, <1>3, <1>4, <1>5, <1>6, <1>7 DEF FunctionStatement

(* A step of a running parser that goes on is one of the ten moves.        *)
LEMMA StepCases ==
  ASSUME IInv, [Next]_vars, phase = "running", phase' = "running"
  PROVE  Moves
  <1>1. ~unexpected_token /\ ~program /\ ~Free_parser /\ ~Terminating
    BY DEF unexpected_token, program, Free_parser, Terminating, Reject
  <1>2. CASE UNCHANGED vars
    BY <1>2 DEF vars, control, scopes, Moves, Stays
  <1> QED
    BY <1>1, <1>2, GlobalMoves, HeaderMoves, StatementMoves DEF Next

(* The program begins.                                                     *)
LEMMA BeginsFacts ==
  ASSUME IInv, [Next]_vars, phase # "running", phase' = "running"
  PROVE  /\ phase = "prolog"
         /\ Len(calls') = 1 /\ calls'[1].proc = "stmt_list"
         /\ Len(symstack) = 1
         /\ UNCHANGED <<symstack, unique_id, functions, loops, conds>>
  <1>1. ~UNCHANGED vars
    BY DEF vars, control
  <1>2. ~unexpected_token /\ ~Free_parser /\ ~Terminating
        /\ ~GlobalStatement /\ ~FunctionHeader /\ ~FunctionStatement
    <2>1. ~unexpected_token /\ ~Free_parser /\ ~Terminating
      BY DEF unexpected_token, Free_parser, Terminating, vars, control
    <2>2. ~GlobalStatement /\ ~FunctionHeader
      BY DEF GlobalStatement, global_expression, stmt_list_end,
             function_definition, function_declaration, AtStatement,
             FunctionHeader, funparam_def_list, other_funparams, funretopt
    <2>3. ~FunctionStatement
      BY DEF FunctionStatement, InBody, var_definition, function_expression,
             return_stmt, break_, while_cycle, for_cycle, repeat_until_cycle,
             repeat_until_end, if_statement, elseif_stmt, else_stmt,
             cond_body_end, fun_body_end
    <2> QED
      BY <2>1, <2>2, <2>3
  <1>3. program
    BY <1>1, <1>2 DEF Next
  <1>4. /\ phase = "prolog" /\ calls = <<>> /\ Len(symstack) = 1
        /\ calls' = Append(calls, Activation("stmt_list", NoName))
        /\ UNCHANGED <<symstack, unique_id, functions, loops, conds>>
    BY <1>3 DEF program, Reject, scopes, Call, IInv, Shape, PrologOK
  <1>5. Activation("stmt_list", NoName).proc = "stmt_list"
    BY DEF Activation
  <1> QED
    BY <1>4, <1>5

(***************************************************************************)
(* The names of variables and functions.                                   *)
(***************************************************************************)
(* A function's own frame is the second one, its header is the innermost   *)
(* activation while it is read, and its name is in the global table and    *)
(* defined.                                                                *)
FunctionAtBottom ==
  phase = "running" =>
    /\ \A i \in 2..Len(calls) :
         /\ calls[i].proc \in HeaderProcs \union {"function_definition"} <=> i = 2
         /\ calls[i].proc \in HeaderProcs => i = Len(calls)
    /\ Len(calls) >= 2 => /\ calls[2].id \in GlobalTable
                          /\ functions[calls[2].id].is_defined

(* The locals and the global names stay apart.                             *)
LEMMA LocalsStep ==
  ASSUME IInv, [Next]_vars, LocalsAreNotFunctions
  PROVE  LocalsAreNotFunctions'
  <1> SUFFICES ASSUME phase' = "running"
               PROVE  \A i \in 2..Len(symstack') :
                        symstack'[i].table \cap symstack'[1].table = {}
    BY DEF LocalsAreNotFunctions, GlobalTable
  <1>1. CASE phase # "running"
    BY <1>1, BeginsFacts
  <1>2. CASE phase = "running"
    <2>1. /\ Depth \in Nat \ {0} /\ Len(symstack) = Depth
          /\ Top = calls[Depth]
      BY <1>2, DepthFacts
    <2>2. \A i \in 2..Depth : symstack[i].table \cap symstack[1].table = {}
      BY <1>2, <2>1 DEF LocalsAreNotFunctions, GlobalTable
    <2>3. CASE Stays
      BY <2>1, <2>2, <2>3 DEF Stays
    <2>4. CASE \E f \in Names, sig \in Signatures : Declares(f, sig)
      BY <2>1, <2>4 DEF Declares, Puts
    <2>5. CASE \E f \in Names : Defines(f)
      BY <2>1, <2>5 DEF Defines, Opens
    <2>6. ASSUME NEW x \in Names, Depth >= 2, ~IsTaken(x), Puts(x)
          PROVE  \A i \in 2..Len(symstack') :
                   symstack'[i].table \cap symstack'[1].table = {}
      BY <2>1, <2>2, <2>6 DEF Puts, KeepsFrames, IsTaken, GlobalTable
    <2>7. CASE \E rets \in Seq(Types) : EndsHeader(rets)
      BY <2>1, <2>2, <2>7 DEF EndsHeader
    <2>8. CASE \E p \in LoopProcs, x \in Names \union {NoName},
                  names \in SUBSET Names : OpensLoop(p, x, names)
      BY <2>1, <2>2, <2>8 DEF OpensLoop, Opens, KeepsFrames, GlobalTable
    <2>9. CASE OpensBranch
      BY <2>1, <2>2, <2>9 DEF OpensBranch, Opens, KeepsFrames
    <2>10. CASE \E p \in CondProcs : NextBranch(p)
      BY <2>1, <2>2, <2>10 DEF NextBranch, KeepsFrames
    <2>11. CASE Ends
      BY <2>1, <2>2, <2>11 DEF Ends, KeepsFrames
    <2> QED
      BY <1>2, <2>3, <2>4, <2>5, <2>6, <2>7, <2>8, <2>9, <2>10, <2>11, StepCases
         DEF Moves, TakesParameter, AddsVariable
  <1> QED
    BY <1>1, <1>2

(* The function stays at the bottom of the activations.                   *)
LEMMA FunctionStep ==
  ASSUME IInv, [Next]_vars, FunctionAtBottom
  PROVE  FunctionAtBottom'
  <1> DEFINE FunctionProcs == HeaderProcs \union {"function_definition"}
             Innermost == \A i \in 2..Len(calls) :
               /\ calls[i].proc \in FunctionProcs <=> i = 2
               /\ calls[i].proc \in HeaderProcs => i = Len(calls)
             Known == Len(calls) >= 2 => /\ calls[2].id \in symstack[1].table
                                         /\ functions[calls[2].id].is_defined
  <1> SUFFICES ASSUME phase' = "running"
               PROVE  Innermost' /\ Known'
    BY DEF FunctionAtBottom, GlobalTable
  <1>1. CASE phase # "running"
    BY <1>1, BeginsFacts
  <1>2. CASE phase = "running"
    <2>1. /\ Depth \in Nat \ {0} /\ Len(symstack) = Depth
          /\ Top = calls[Depth] /\ Len(calls) = Depth
          /\ \A i \in 1..Depth : calls[i] \in Activations
      BY <1>2, DepthFacts DEF Depth
    <2>2. Innermost /\ Known
      BY <1>2 DEF FunctionAtBottom, GlobalTable
    <2>3. CASE Stays
      BY <2>1, <2>2, <2>3 DEF Stays
    <2>4. CASE \E f \in Names, sig \in Signatures : Declares(f, sig)
      BY <2>1, <2>4 DEF Declares
    <2>5. ASSUME NEW f \in Names, Defines(f)
          PROVE  Innermost' /\ Known'
      <3>1. /\ Len(calls') = 2 /\ calls'[2] = Activation("funparam_def_list", f)
            /\ f \in symstack'[1].table
            /\ functions' = [functions EXCEPT ![f].is_defined = TRUE]
        BY <2>1, <2>5 DEF Defines, Opens
      <3>2. /\ calls'[2].proc \in HeaderProcs /\ calls'[2].id = f
        BY <3>1 DEF Activation, HeaderProcs
      <3>3. functions'[f].is_defined
        BY <3>1 DEF IInv, TypeOK, FunctionsOK, Semantics
      <3> QED
        BY <3>1, <3>2, <3>3
    <2>6. ASSUME NEW x \in Names, NEW t \in Types, TakesParameter(x, t)
          PROVE  Innermost' /\ Known'
      <3>1. Depth = 2
        BY <2>1, <2>2, <2>6 DEF TakesParameter
      <3>2. Len(calls') = 2
        BY <2>6, <3>1 DEF TakesParameter, Becomes
      <3>3. calls'[2].proc \in HeaderProcs /\ calls'[2].id = calls[2].id
        BY <2>6, <3>1 DEF TakesParameter, Becomes, HeaderProcs
      <3>4. calls[2].id \in symstack'[1].table
        BY <2>1, <2>2, <2>6, <3>1 DEF TakesParameter, Puts, KeepsFrames
      <3>5. functions'[calls[2].id].is_defined
        BY <2>1, <2>2, <2>6, <3>1
           DEF TakesParameter, IInv, TypeOK, FunctionsOK, Semantics
      <3>6. Innermost'
        BY <3>2, <3>3
      <3>7. Known'
        BY <3>3, <3>4, <3>5
      <3> QED
        BY <3>6, <3>7
    <2>7. ASSUME NEW rets \in Seq(Types), EndsHeader(rets)
          PROVE  Innermost' /\ Known'
      <3>1. Depth = 2
        BY <2>1, <2>2, <2>7 DEF EndsHeader
      <3>2. Len(calls') = 2
        BY <2>7, <3>1 DEF EndsHeader, Becomes
      <3>3. /\ calls'[2].proc = "function_definition"
            /\ calls'[2].id = calls[2].id
        BY <2>7, <3>1 DEF EndsHeader, Becomes
      <3>4. /\ calls[2].id \in symstack'[1].table
            /\ functions'[calls[2].id].is_defined
        BY <2>1, <2>2, <2>7, <3>1
           DEF EndsHeader, IInv, TypeOK, FunctionsOK, Semantics
      <3>5. Innermost'
        BY <3>2, <3>3 DEF HeaderProcs
      <3>6. Known'
        BY <3>3, <3>4
      <3> QED
        BY <3>5, <3>6
    <2>8. CASE \E x \in Names : AddsVariable(x)
      BY <2>1, <2>2, <2>8 DEF AddsVariable, Puts, KeepsFrames
    <2>9. ASSUME NEW p \in BodyProcs \ {"function_definition"},
                 NEW x \in Names \union {NoName}, NEW names,
                 Depth >= 2, Top.proc \in BodyProcs,
                 Opens(p, x, NoName, names), KeepsFrames(Depth),
                 UNCHANGED functions
          PROVE  Innermost' /\ Known'
      <3>1. /\ Len(calls') = Depth + 1
            /\ calls'[Depth + 1].proc = p
            /\ \A i \in 1..Depth : calls'[i] = calls[i]
        BY <2>9 DEF Opens, Activation, KeepsCalls
      <3>2. p \notin FunctionProcs /\ calls[Depth].proc \notin HeaderProcs
        BY <2>1, <2>9 DEF HeaderProcs, BodyProcs, FunBodyCallers
      <3>3. Innermost'
        BY <2>1, <2>2, <2>9, <3>1, <3>2
      <3>4. symstack'[1] = symstack[1] /\ calls'[2] = calls[2]
        BY <2>1, <2>9, <3>1 DEF KeepsFrames
      <3> QED
        BY <2>1, <2>2, <2>9, <3>3, <3>4
    <2>10. ASSUME NEW p \in CondProcs, NextBranch(p)
           PROVE  Innermost' /\ Known'
      <3>1. /\ Len(calls') = Depth
            /\ calls'[Depth].proc = p
            /\ \A i \in 1..(Depth - 1) : calls'[i] = calls[i]
            /\ UNCHANGED functions
        BY <2>10 DEF NextBranch, Becomes, KeepsCalls
      <3>2. p \notin FunctionProcs
        BY DEF CondProcs, HeaderProcs
      <3>3. Depth > 2
        BY <2>1, <2>2, <2>10 DEF NextBranch, HeaderProcs
      <3>4. symstack'[1] = symstack[1] /\ calls'[2] = calls[2]
        BY <2>1, <2>10, <3>1, <3>3 DEF NextBranch, KeepsFrames
      <3>5. Innermost'
        <4>1. \A i \in 2..Depth : i # Depth => i \in 1..(Depth - 1)
          BY <2>1
        <4> QED
          BY <2>1, <2>2, <3>1, <3>2, <3>3, <4>1
      <3>6. Known'
        BY <2>1, <2>2, <3>1, <3>3, <3>4
      <3> QED
        BY <3>5, <3>6
    <2>11. CASE Ends
      <3>1. /\ Len(calls') = Depth - 1
            /\ \A i \in 1..(Depth - 1) : calls'[i] = calls[i]
            /\ calls[Depth].proc \notin HeaderProcs
            /\ symstack'[1] = symstack[1]
            /\ UNCHANGED functions
        BY <2>1, <2>11 DEF Ends, KeepsCalls, KeepsFrames, HeaderProcs, BodyProcs,
                           FunBodyCallers
      <3> QED
        BY <2>1, <2>2, <3>1
    <2>12. LoopProcs \union {"cond_body"} \subseteq BodyProcs \ {"function_definition"}
      BY DEF LoopProcs, BodyProcs, FunBodyCallers
    <2>13. CASE \E p \in LoopProcs, x \in Names \union {NoName},
                   names \in SUBSET Names : OpensLoop(p, x, names)
      BY <2>9, <2>12, <2>13 DEF OpensLoop
    <2>14. CASE OpensBranch
      BY <2>9, <2>12, <2>14 DEF OpensBranch
    <2> QED
      BY <1>2, <2>3, <2>4, <2>5, <2>6, <2>7, <2>8, <2>10, <2>11, <2>13, <2>14,
         StepCases DEF Moves
  <1> QED
    BY <1>1, <1>2

(***************************************************************************)
(* Signatures.                                                             *)
(***************************************************************************)
(* A function that is declared or defined is in the global table.          *)
FunctionsAreKnown ==
  phase \in {"prolog", "running"} =>
    \A f \in Names : functions[f].is_declared \/ functions[f].is_defined
                       => f \in GlobalTable

(* A declaration and a definition agree once both were read.               *)
SignaturesAgree ==
  phase \in {"prolog", "running"} =>
    \A f \in Names :
      functions[f].is_declared /\ functions[f].is_defined /\ ~ReadingHeader(f)
        => functions[f].declaration = functions[f].definition

(* Signatures that do not differ are equal.                                *)
LEMMA SameSignatures ==
  ASSUME NEW decl \in Signatures, NEW def \in Signatures,
         ~SignaturesDiffer(decl, def)
  PROVE  decl = def
  BY DEF Signatures, SignaturesDiffer

(* A declaration changes one function's.                                   *)
LEMMA DeclarationChange ==
  ASSUME FunctionsOK, NEW f \in Names, NEW sig \in Signatures,
         functions' = [functions EXCEPT ![f].is_declared = TRUE,
                                        ![f].declaration = AddTypes(@, sig)]
  PROVE  /\ functions'[f].is_declared
         /\ functions'[f].is_defined = functions[f].is_defined
         /\ functions'[f].definition = functions[f].definition
         /\ \A g \in Names \ {f} : functions'[g] = functions[g]
  BY DEF FunctionsOK, Semantics

(* A definition sets one function's flag.                                  *)
LEMMA DefinitionChange ==
  ASSUME FunctionsOK, NEW f \in Names,
         functions' = [functions EXCEPT ![f].is_defined = TRUE]
  PROVE  /\ functions'[f].is_declared = functions[f].is_declared
         /\ functions'[f].is_defined
         /\ functions'[f].declaration = functions[f].declaration
         /\ functions'[f].definition = functions[f].definition
         /\ \A g \in Names \ {f} : functions'[g] = functions[g]
  BY DEF FunctionsOK, Semantics

(* A header changes the definition of its function.                        *)
LEMMA HeaderChange ==
  ASSUME FunctionsOK, NEW f \in Names,
         \/ \E t \in Types :
              functions' = [functions EXCEPT ![f].definition.params = Append(@, t)]
         \/ \E rets \in Seq(Types) :
              functions' = [functions EXCEPT ![f].definition.returns = @ \o rets]
  PROVE  /\ functions'[f].is_declared = functions[f].is_declared
         /\ functions'[f].is_defined = functions[f].is_defined
         /\ functions'[f].declaration = functions[f].declaration
         /\ \A g \in Names \ {f} : functions'[g] = functions[g]
  BY DEF FunctionsOK, Semantics

(* The parser does not return to its prolog.                               *)
LEMMA PrologSteps ==
  ASSUME [Next]_vars, phase' = "prolog"
  PROVE  phase = "prolog" /\ UNCHANGED vars
  <1>1. ~(program \/ unexpected_token \/ Free_parser)
    BY DEF program, unexpected_token, Free_parser, Reject
  <1>2. ~GlobalStatement
    BY DEF GlobalStatement, global_expression, stmt_list_end,
           function_definition, function_declaration, AtStatement,
           ProceedOrReject, Proceed, Reject
  <1>3. ~FunctionHeader
    BY DEF FunctionHeader, funparam_def_list, other_funparams, funretopt,
           Proceed, Reject
  <1>4. ~FunctionStatement
    BY DEF FunctionStatement, InBody, var_definition, function_expression,
           return_stmt, break_, while_cycle, for_cycle, repeat_until_cycle,
           repeat_until_end, if_statement, elseif_stmt, else_stmt,
           cond_body_end, fun_body_end, ProceedOrReject, Proceed, Reject,
           SoftAssertFails
  <1> QED
    BY <1>1, <1>2, <1>3, <1>4 DEF Next, Terminating, vars, control

(* In a header the activation at the top is the function's, the second.    *)
LEMMA HeaderFacts ==
  ASSUME IInv, FunctionAtBottom, phase = "running", Top.proc \in HeaderProcs
  PROVE  /\ Depth = 2 /\ Top.id \in Names
         /\ Top.id \in GlobalTable /\ functions[Top.id].is_defined
         /\ ReadingHeader(Top.id)
  <1>1. /\ Depth \in Nat \ {0} /\ Top = calls[Depth] /\ Depth = Len(calls)
        /\ Len(symstack) = Depth /\ symstack[1] \in Frames
        /\ Depth >= 2
    BY DepthFacts DEF HeaderProcs, Depth
  <1>2. Depth = 2
    BY <1>1 DEF FunctionAtBottom
  <1>3. GlobalTable \subseteq Names
    BY <1>1 DEF GlobalTable, Frames
  <1> QED
    BY <1>1, <1>2, <1>3 DEF FunctionAtBottom, ReadingHeader

(* A name in the global table is found by Symstack.get_symbol.             *)
LEMMA GlobalIsFound ==
  ASSUME IInv, phase = "running", NEW f \in GlobalTable
  PROVE  SS_Get_symbol(symstack, f)
  BY DepthFacts DEF SS_Get_symbol, GlobalTable

(* The global table does not lose a name while the parser runs.            *)
LEMMA GlobalTableGrows ==
  ASSUME IInv, [Next]_vars, phase = "running", phase' = "running"
  PROVE  GlobalTable \subseteq GlobalTable'
  <1>1. Depth \in Nat \ {0} /\ Len(symstack) = Depth
    BY DepthFacts
  <1>2. ASSUME NEW x, Puts(x) PROVE symstack[1].table \subseteq symstack'[1].table
    BY <1>1, <1>2 DEF Puts, KeepsFrames
  <1>3. CASE Stays \/ (\E rets \in Seq(Types) : EndsHeader(rets))
    BY <1>3 DEF Stays, EndsHeader, GlobalTable
  <1>4. CASE \E f \in Names, sig \in Signatures : Declares(f, sig)
    BY <1>2, <1>4 DEF Declares, GlobalTable
  <1>5. CASE \E f \in Names : Defines(f)
    BY <1>5 DEF Defines, GlobalTable
  <1>6. CASE \/ \E x \in Names, t \in Types : TakesParameter(x, t)
             \/ \E x \in Names : AddsVariable(x)
    BY <1>2, <1>6 DEF TakesParameter, AddsVariable, GlobalTable
  <1>7. CASE \/ OpensBranch
             \/ \E p \in LoopProcs, x \in Names \union {NoName},
                   names \in SUBSET Names : OpensLoop(p, x, names)
    BY <1>1, <1>7 DEF OpensBranch, OpensLoop, KeepsFrames, GlobalTable
  <1>8. CASE (\E p \in CondProcs : NextBranch(p)) \/ Ends
    BY <1>1, <1>8 DEF NextBranch, Ends, KeepsFrames, GlobalTable
  <1> QED
    BY <1>3, <1>4, <1>5, <1>6, <1>7, <1>8, StepCases DEF Moves

(* Whatever a step does, it changes the functions in one of four ways, and *)
(* this also if the program is rejected in the same step.                  *)
LEMMA FunctionsCases ==
  ASSUME [Next]_vars
  PROVE  \/ UNCHANGED functions
         \/ \E f \in Names, sig \in Signatures :
              /\ AtStatement /\ ~IsDeclared(f)
              /\ functions' = [functions EXCEPT
                                 ![f].is_declared = TRUE,
                                 ![f].declaration = AddTypes(@, sig)]
         \/ \E f \in Names :
              /\ AtStatement /\ ~IsDefined(f)
              /\ functions' = [functions EXCEPT ![f].is_defined = TRUE]
         \/ /\ phase = "running" /\ Top.proc \in HeaderProcs
            /\ \/ \E t \in Types :
                    functions' = [functions EXCEPT
                                    ![Top.id].definition.params = Append(@, t)]
               \/ \E rets \in Seq(Types) :
                    functions' = [functions EXCEPT
                                    ![Top.id].definition.returns = @ \o rets]
  <1>1. CASE program \/ unexpected_token \/ Free_parser \/ Terminating
               \/ UNCHANGED vars \/ global_expression \/ stmt_list_end
    BY <1>1 DEF program, unexpected_token, Free_parser, Terminating, vars,
                global_expression, stmt_list_end
  <1>2. CASE FunctionStatement
    BY <1>2 DEF FunctionStatement, var_definition, function_expression,
           return_stmt, break_, while_cycle, for_cycle, repeat_until_cycle,
           repeat_until_end, if_statement, elseif_stmt, else_stmt,
           cond_body_end, fun_body_end
  <1>3. ASSUME NEW f \in Names, NEW sig \in Signatures,
               function_declaration(f, sig)
        PROVE  \/ UNCHANGED functions
               \/ /\ AtStatement /\ ~IsDeclared(f)
                  /\ functions' = [functions EXCEPT
                                     ![f].is_declared = TRUE,
                                     ![f].declaration = AddTypes(@, sig)]
    BY <1>3 DEF function_declaration
  <1>4. ASSUME NEW f \in Names, function_definition(f)
        PROVE  \/ UNCHANGED functions
               \/ /\ AtStatement /\ ~IsDefined(f)
                  /\ functions' = [functions EXCEPT ![f].is_defined = TRUE]
    BY <1>4 DEF function_definition
  <1>5. CASE FunctionHeader
    BY <1>5, ShortSeqsFacts DEF FunctionHeader, funparam_def_list,
                                other_funparams, funretopt, HeaderProcs
  <1>6. \A ps, rs \in ShortSeqs : [params |-> ps, returns |-> rs] \in Signatures
    BY ShortSeqsFacts DEF Signatures
  <1>7. CASE \E f \in Names, ps, rs \in ShortSeqs :
               function_declaration(f, [params |-> ps, returns |-> rs])
    BY <1>3, <1>6, <1>7
  <1>8. CASE \E f \in Names : function_definition(f)
    BY <1>4, <1>8
  <1> QED
    BY <1>1, <1>2, <1>5, <1>7, <1>8 DEF Next, GlobalStatement

(* Which functions are known, from one state to the next.                  *)
LEMMA KnownStep ==
  ASSUME IInv, [Next]_vars, FunctionAtBottom, FunctionsAreKnown
  PROVE  FunctionsAreKnown'
  <1> DEFINE Flagged(f) == functions[f].is_declared \/ functions[f].is_defined
  <1>1. CASE phase' = "prolog"
    BY <1>1, PrologSteps DEF FunctionsAreKnown, GlobalTable, vars, control, scopes
  <1>2. CASE phase' = "running" /\ phase # "running"
    BY <1>2, BeginsFacts DEF FunctionsAreKnown, GlobalTable
  <1>3. CASE phase = "running" /\ phase' = "running"
    <2>1. \A f \in Names : Flagged(f) => f \in GlobalTable'
      BY <1>3, GlobalTableGrows DEF FunctionsAreKnown
    <2>2. FunctionsOK
      BY DEF IInv, TypeOK
    <2>3. \A f \in Names : Flagged(f)' => Flagged(f) \/ f \in GlobalTable'
      <3>1. CASE UNCHANGED functions
        BY <3>1
      <3>2. ASSUME NEW f \in Names, NEW sig \in Signatures, Declares(f, sig)
            PROVE  \A g \in Names : Flagged(g)' => Flagged(g) \/ g \in GlobalTable'
        <4>1. f \in GlobalTable'
          BY <3>2 DEF Declares, Puts, GlobalTable
        <4> QED
          BY <2>2, <3>2, <4>1, DeclarationChange DEF Declares
      <3>3. ASSUME NEW f \in Names, Defines(f)
            PROVE  \A g \in Names : Flagged(g)' => Flagged(g) \/ g \in GlobalTable'
        <4>1. f \in GlobalTable'
          BY <3>3 DEF Defines, GlobalTable
        <4> QED
          BY <2>2, <3>3, <4>1, DefinitionChange DEF Defines
      <3>4. CASE \E x \in Names, t \in Types : TakesParameter(x, t)
        BY <1>3, <2>2, <3>4, HeaderFacts, HeaderChange DEF TakesParameter
      <3>5. CASE \E rets \in Seq(Types) : EndsHeader(rets)
        BY <1>3, <2>2, <3>5, HeaderFacts, HeaderChange DEF EndsHeader
      <3> QED
        BY <1>3, <3>1, <3>2, <3>3, <3>4, <3>5, StepCases
           DEF Moves, Stays, AddsVariable, OpensLoop, OpensBranch, NextBranch,
               Ends
    <2> QED
      BY <1>3, <2>1, <2>3 DEF FunctionsAreKnown
  <1> QED
    BY <1>1, <1>2, <1>3 DEF FunctionsAreKnown

(* A signature changes only while it is being read.                        *)
LEMMA FinalStep ==
  ASSUME IInv, [Next]_vars, FunctionAtBottom, FunctionsAreKnown
  PROVE  \A f \in Names :
           /\ functions[f].is_declared =>
                functions'[f].declaration = functions[f].declaration
           /\ (functions[f].is_defined /\ ~ReadingHeader(f))
                => functions'[f].definition = functions[f].definition
  <1>1. FunctionsOK
    BY DEF IInv, TypeOK
  <1>2. CASE UNCHANGED functions
    BY <1>2
  <1>3. ASSUME NEW f \in Names, NEW sig \in Signatures,
               AtStatement, ~IsDeclared(f),
               functions' = [functions EXCEPT ![f].is_declared = TRUE,
                                              ![f].declaration = AddTypes(@, sig)]
        PROVE  /\ ~functions[f].is_declared
               /\ functions'[f].definition = functions[f].definition
               /\ \A g \in Names \ {f} : functions'[g] = functions[g]
    <2>1. ~functions[f].is_declared
      BY <1>3, GlobalIsFound DEF AtStatement, IsDeclared, FunctionsAreKnown
    <2> QED
      BY <1>1, <1>3, <2>1, DeclarationChange
  <1>4. CASE \E f \in Names :
               functions' = [functions EXCEPT ![f].is_defined = TRUE]
    BY <1>1, <1>4, DefinitionChange
  <1>5. ASSUME phase = "running", Top.proc \in HeaderProcs,
               \/ \E t \in Types :
                    functions' = [functions EXCEPT
                                    ![Top.id].definition.params = Append(@, t)]
               \/ \E rets \in Seq(Types) :
                    functions' = [functions EXCEPT
                                    ![Top.id].definition.returns = @ \o rets]
        PROVE  /\ functions'[Top.id].declaration = functions[Top.id].declaration
               /\ \A g \in Names \ {Top.id} : functions'[g] = functions[g]
               /\ ReadingHeader(Top.id)
    BY <1>1, <1>5, HeaderFacts, HeaderChange
  <1> QED
    BY <1>2, <1>3, <1>4, <1>5, FunctionsCases

(* Declarations and definitions agree from one state to the next.          *)
LEMMA AgreeStep ==
  ASSUME IInv, IInv', [Next]_vars, FunctionAtBottom, SignaturesAgree
  PROVE  SignaturesAgree'
  <1> DEFINE Agrees(f) ==
        functions[f].is_declared /\ functions[f].is_defined
          => functions[f].declaration = functions[f].definition
  <1>1. CASE phase' = "prolog"
    BY <1>1, PrologSteps
       DEF SignaturesAgree, ReadingHeader, vars, control
  <1>2. CASE phase' = "running" /\ phase # "running"
    BY <1>2, BeginsFacts DEF SignaturesAgree, ReadingHeader
  <1>3. CASE phase = "running" /\ phase' = "running"
    <2> SUFFICES ASSUME NEW g \in Names, ~ReadingHeader(g)'
                 PROVE  Agrees(g)'
      BY <1>3 DEF SignaturesAgree
    <2>1. /\ FunctionsOK
          /\ functions'[g].declaration \in Signatures
          /\ functions'[g].definition \in Signatures
          /\ ~ReadingHeader(g) => Agrees(g)
      BY <1>3 DEF IInv, TypeOK, FunctionsOK, Semantics, SignaturesAgree
    <2>2. ~(HeaderProcs \intersect (BodyProcs \union {"stmt_list"}) # {})
      BY DEF HeaderProcs, BodyProcs, FunBodyCallers
    <2>3. CASE Top.proc \in BodyProcs /\ UNCHANGED functions
      BY <2>1, <2>2, <2>3 DEF ReadingHeader
    <2>4. CASE Stays
      <3>1. ReadingHeader(g)' <=> ReadingHeader(g)
        BY <1>3, <2>4 DEF ReadingHeader, Stays, Top
      <3> QED
        BY <2>1, <2>4, <3>1 DEF Stays
    <2>5. ASSUME NEW f \in Names, NEW sig \in Signatures, Declares(f, sig)
          PROVE  Agrees(g)'
      <3>1. Agrees(g)
        BY <2>1, <2>2, <2>5 DEF ReadingHeader, Declares
      <3>2. /\ functions'[f].is_defined = functions[f].is_defined
            /\ functions'[f].definition = functions[f].definition
            /\ \A h \in Names \ {f} : functions'[h] = functions[h]
            /\ functions[f].is_defined =>
                 ~SignaturesDiffer(functions'[f].declaration,
                                   functions[f].definition)
        BY <2>1, <2>5, DeclarationChange DEF Declares
      <3>3. CASE g = f
        BY <2>1, <3>2, <3>3, SameSignatures
      <3> QED
        BY <3>1, <3>2, <3>3
    <2>6. ASSUME NEW f \in Names, Defines(f)
          PROVE  Agrees(g)'
      <3>1. Agrees(g)
        BY <2>1, <2>2, <2>6 DEF ReadingHeader, Defines
      <3>2. ReadingHeader(f)'
        <4>1. Len(calls') = 2 /\ calls'[2] = Activation("funparam_def_list", f)
          BY <2>6 DEF Defines, Opens
        <4> QED
          BY <1>3, <4>1 DEF ReadingHeader, Top, Activation, HeaderProcs
      <3>3. functions'[g] = functions[g]
        BY <2>1, <2>6, <3>2, DefinitionChange DEF Defines
      <3> QED
        BY <3>1, <3>3
    <2>7. ASSUME NEW x \in Names, NEW t \in Types, TakesParameter(x, t)
          PROVE  Agrees(g)'
      <3>1. /\ Top.proc \in HeaderProcs /\ Depth = 2 /\ Top = calls[2]
            /\ Top.id \in Names
        BY <1>3, <2>7, HeaderFacts, DepthFacts DEF TakesParameter
      <3>2. PICK f \in Names : f = Top.id
        BY <3>1
      <3>3. ReadingHeader(f)'
        <4>1. /\ Len(calls') = 2 /\ calls'[2].id = f
              /\ calls'[2].proc = "other_funparams"
          BY <2>7, <3>1, <3>2 DEF TakesParameter, Becomes
        <4> QED
          BY <1>3, <4>1 DEF ReadingHeader, Top, HeaderProcs
      <3>4. functions'[g] = functions[g]
        BY <2>1, <2>7, <3>1, <3>2, <3>3, HeaderChange DEF TakesParameter
      <3>5. ~ReadingHeader(g)
        BY <3>2, <3>3 DEF ReadingHeader
      <3> QED
        BY <2>1, <3>4, <3>5
    <2>8. ASSUME NEW rets \in Seq(Types), EndsHeader(rets)
          PROVE  Agrees(g)'
      <3>1. Top.proc \in HeaderProcs /\ Top.id \in Names
        BY <1>3, <2>8, HeaderFacts DEF EndsHeader
      <3>2. /\ functions'[Top.id].is_declared = functions[Top.id].is_declared
            /\ functions'[Top.id].declaration = functions[Top.id].declaration
            /\ \A h \in Names \ {Top.id} : functions'[h] = functions[h]
            /\ functions[Top.id].is_declared =>
                 ~SignaturesDiffer(functions[Top.id].declaration,
                                   functions'[Top.id].definition)
        BY <2>1, <2>8, <3>1, HeaderChange DEF EndsHeader
      <3>3. CASE g = Top.id
        BY <2>1, <3>2, <3>3, SameSignatures
      <3>4. CASE g # Top.id
        BY <2>1, <3>2, <3>4 DEF ReadingHeader
      <3> QED
        BY <3>3, <3>4
    <2>9. "cond_body" \in BodyProcs
      BY DEF BodyProcs
    <2> QED
      BY <1>3, <2>3, <2>4, <2>5, <2>6, <2>7, <2>8, <2>9, StepCases
         DEF Moves, AddsVariable, OpensLoop, OpensBranch, NextBranch, Ends
  <1> QED
    BY <1>1, <1>2, <1>3 DEF SignaturesAgree

(* The program is accepted between two functions.                          *)
LEMMA AcceptedStep ==
  ASSUME [Next]_vars, SignaturesAgree, AcceptedFunctionsAgree
  PROVE  AcceptedFunctionsAgree'
  <1> SUFFICES ASSUME phase' = "accepted" PROVE AcceptedFunctionsAgree'
    BY DEF AcceptedFunctionsAgree
  <1>1. CASE UNCHANGED vars
    BY <1>1 DEF vars, control, AcceptedFunctionsAgree
  <1>2. CASE stmt_list_end
    <2>1. /\ phase = "running" /\ Top.proc = "stmt_list" /\ UNCHANGED functions
          /\ \A f \in Names : functions[f].is_declared => functions[f].is_defined
      BY <1>2 DEF stmt_list_end, AtStatement, Reject
    <2>2. \A f \in Names : ~ReadingHeader(f)
      BY <2>1 DEF ReadingHeader, HeaderProcs
    <2> QED
      BY <2>1, <2>2 DEF SignaturesAgree, AcceptedFunctionsAgree
  <1>3. ~(program \/ unexpected_token \/ Free_parser \/ FunctionHeader)
    BY DEF program, unexpected_token, Free_parser, FunctionHeader,
           funparam_def_list, other_funparams, funretopt, Proceed, Reject
  <1>4. ~FunctionStatement
    BY DEF FunctionStatement, InBody, var_definition, function_expression,
           return_stmt, break_, while_cycle, for_cycle, repeat_until_cycle,
           repeat_until_end, if_statement, elseif_stmt, else_stmt,
           cond_body_end, fun_body_end, ProceedOrReject, Proceed, Reject,
           SoftAssertFails
  <1>5. GlobalStatement => stmt_list_end
    BY DEF GlobalStatement, global_expression, function_definition,
           function_declaration, AtStatement, ProceedOrReject, Proceed, Reject
  <1> QED
    BY <1>1, <1>2, <1>3, <1>4, <1>5 DEF Next, Terminating

(***************************************************************************)
(* Cycles.                                                                 *)
(***************************************************************************)
(* The ids of the open scopes increase, so no two of them are the same.    *)
IdsIncrease ==
  phase \in {"prolog", "running"} =>
    \A i \in 1..Len(symstack) :
      /\ symstack[i].uid < unique_id
      /\ \A j \in 1..(i - 1) : symstack[j].uid < symstack[i].uid

(* The program begins outside cycles.                                      *)
PrologOutsideLoops == phase = "prolog" => ~in_loop

(* A scope gets an id greater than those of the open ones.                *)
LEMMA IdsStep ==
  ASSUME IInv, [Next]_vars, IdsIncrease
  PROVE  IdsIncrease'
  <1> DEFINE Increase == \A i \in 1..Len(symstack) :
               /\ symstack[i].uid < unique_id
               /\ \A j \in 1..(i - 1) : symstack[j].uid < symstack[i].uid
  <1>1. CASE phase' = "prolog"
    BY <1>1, PrologSteps DEF IdsIncrease, vars, control, scopes
  <1>2. CASE phase' = "running" /\ phase # "running"
    BY <1>2, BeginsFacts DEF IdsIncrease
  <1>3. CASE phase = "running" /\ phase' = "running"
    <2> SUFFICES Increase'
      BY <1>3 DEF IdsIncrease
    <2>1. /\ Depth \in Nat \ {0} /\ Len(symstack) = Depth
          /\ \A i \in 1..Depth : symstack[i].uid \in Nat
          /\ unique_id \in Nat
      BY <1>3, DepthFacts DEF Frames, IInv, TypeOK, ScopesOK
    <2>2. Increase
      BY <1>3 DEF IdsIncrease
    <2>3. ASSUME NEW x, Puts(x) PROVE Increase'
      BY <2>1, <2>2, <2>3 DEF Puts, KeepsFrames
    <2>4. CASE Stays \/ (\E rets \in Seq(Types) : EndsHeader(rets))
      BY <2>2, <2>4 DEF Stays, EndsHeader
    <2>5. CASE \E f \in Names : Defines(f)
      BY <2>1, <2>2, <2>5 DEF Defines, Opens
    <2>6. CASE \/ OpensBranch
               \/ \E p \in LoopProcs, x \in Names \union {NoName},
                     names \in SUBSET Names : OpensLoop(p, x, names)
      <3>1. /\ Len(symstack') = Depth + 1
            /\ symstack'[Depth + 1].uid = unique_id
            /\ unique_id' = unique_id + 1
            /\ \A i \in 1..Depth : symstack'[i] = symstack[i]
        <4>1. CASE OpensBranch
          BY <4>1 DEF OpensBranch, Opens, KeepsFrames
        <4>2. ASSUME NEW p, NEW x, NEW names, OpensLoop(p, x, names)
              PROVE  /\ Len(symstack') = Depth + 1
                     /\ symstack'[Depth + 1].uid = unique_id
                     /\ unique_id' = unique_id + 1
                     /\ \A i \in 1..Depth : symstack'[i] = symstack[i]
          BY <4>2 DEF OpensLoop, Opens, KeepsFrames
        <4> QED
          BY <2>6, <4>1, <4>2
      <3> QED
        BY <2>1, <2>2, <3>1
    <2>7. CASE \E p \in CondProcs : NextBranch(p)
      <3>1. /\ Len(symstack') = Depth
            /\ symstack'[Depth].uid = unique_id
            /\ unique_id' = unique_id + 1
            /\ \A i \in 1..(Depth - 1) : symstack'[i] = symstack[i]
        BY <2>7 DEF NextBranch, KeepsFrames
      <3> QED
        BY <2>1, <2>2, <3>1
    <2>8. CASE Ends
      <3>1. /\ Len(symstack') = Depth - 1
            /\ unique_id' = unique_id
            /\ \A i \in 1..(Depth - 1) : symstack'[i] = symstack[i]
        BY <2>8 DEF Ends, KeepsFrames
      <3> QED
        BY <2>1, <2>2, <3>1
    <2>9. CASE \/ \E f \in Names, sig \in Signatures : Declares(f, sig)
               \/ \E x \in Names, t \in Types : TakesParameter(x, t)
               \/ \E x \in Names : AddsVariable(x)
      <3>1. \E x : Puts(x)
        BY <2>9 DEF Declares, TakesParameter, AddsVariable
      <3> QED
        BY <2>3, <3>1
    <2>10. Moves
      BY <1>3, StepCases
    <2> HIDE DEF Increase
    <2> QED
      BY <2>4, <2>5, <2>6, <2>7, <2>8, <2>9, <2>10 DEF Moves
  <1> QED
    BY <1>1, <1>2, <1>3 DEF IdsIncrease

(* Where the outermost cycle is remembered, frame by frame.                *)
LEMMA RememberedEach ==
  ASSUME IInv, phase = "running"
  PROVE  OuterLoopIsRemembered <=>
           /\ in_loop <=> \E i \in 1..Depth : symstack[i].type \in LoopScopes
           /\ in_loop => \E i \in 1..Depth :
                /\ symstack[i].type \in LoopScopes
                /\ symstack[i].uid = outer_loop_id
                /\ \A j \in 1..(i - 1) : symstack[j].type \notin LoopScopes
  <1>1. /\ OpenLoops(symstack) = {i \in 1..Depth : symstack[i].type \in LoopScopes}
        /\ Depth \in Nat
    BY DepthFacts DEF OpenLoops
  <1> QED
    BY <1>1 DEF OuterLoopIsRemembered

(* The outermost cycle is the one remembered, from state to state.         *)
LEMMA LoopStep ==
  ASSUME IInv, [Next]_vars, IdsIncrease, PrologOutsideLoops,
         OuterLoopIsRemembered
  PROVE  OuterLoopIsRemembered'
  <1> DEFINE Outermost(i) == /\ symstack[i].type \in LoopScopes
                             /\ symstack[i].uid = outer_loop_id
                             /\ \A j \in 1..(i - 1) :
                                  symstack[j].type \notin LoopScopes
             Remembered ==
               /\ in_loop <=> \E i \in 1..Len(symstack) :
                                symstack[i].type \in LoopScopes
               /\ in_loop => \E i \in 1..Len(symstack) : Outermost(i)
  <1>1. OuterLoopIsRemembered => (phase = "running" => Remembered)
    <2> SUFFICES ASSUME OuterLoopIsRemembered, phase = "running"
                 PROVE  Remembered
      OBVIOUS
    <2>1. Len(symstack) = Depth
      BY DepthFacts
    <2> QED
      BY <2>1, RememberedEach
  <1>2. ASSUME phase' = "running" => Remembered', symstack' \in Seq(Frames)
        PROVE  OuterLoopIsRemembered'
    <2> SUFFICES ASSUME phase' = "running" PROVE OuterLoopIsRemembered'
      BY DEF OuterLoopIsRemembered
    <2>1. Len(symstack') \in Nat
      BY <1>2, LenProperties
    <2>2. OpenLoops(symstack') =
            {i \in 1..Len(symstack') : symstack'[i].type \in LoopScopes}
      BY DEF OpenLoops
    <2> QED
      BY <1>2, <2>1, <2>2 DEF OuterLoopIsRemembered
  <1>3. symstack' \in Seq(Frames)
    BY StepIInv DEF IInv, TypeOK, ScopesOK
  <1> SUFFICES ASSUME phase' = "running" PROVE Remembered'
    BY <1>2, <1>3
  <1>4. CASE phase # "running"
    <2>1. in_loop' = FALSE
      BY <1>4, BeginsFacts DEF PrologOutsideLoops, loops, IInv, TypeOK, LoopsOK
    <2>2. /\ symstack' = symstack /\ Len(symstack) = 1
          /\ symstack[1].type = "global"
      BY <1>4, BeginsFacts DEF IInv, Shape, PrologOK
    <2>3. \A i \in 1..Len(symstack') : symstack'[i].type \notin LoopScopes
      BY <2>2 DEF LoopScopes
    <2> QED
      BY <2>1, <2>3
  <1>5. CASE phase = "running"
    <2>1. /\ Depth \in Nat \ {0} /\ Len(symstack) = Depth
          /\ Top = calls[Depth] /\ SS_Head(symstack) = symstack[Depth]
          /\ symstack[Depth].type = ScopeOf(Top.proc)
          /\ in_loop \in BOOLEAN
      BY <1>5, DepthFacts DEF IInv, TypeOK, LoopsOK
    <2>2. Remembered
      BY <1>1, <1>5
    <2>3. ASSUME UNCHANGED loops, Len(symstack') = Depth,
                 \A i \in 1..Depth : /\ symstack'[i].type = symstack[i].type
                                     /\ symstack'[i].uid = symstack[i].uid
          PROVE  Remembered'
      BY <2>1, <2>2, <2>3 DEF loops
    <2>4. CASE Stays \/ (\E rets \in Seq(Types) : EndsHeader(rets))
      BY <2>1, <2>3, <2>4 DEF Stays, EndsHeader
    <2>5. ASSUME NEW x, Puts(x), UNCHANGED loops PROVE Remembered'
      BY <2>1, <2>3, <2>5 DEF Puts, KeepsFrames
    <2>6. ASSUME UNCHANGED loops, Len(symstack') = Depth + 1,
                 symstack'[Depth + 1].type \notin LoopScopes,
                 \A i \in 1..Depth : /\ symstack'[i].type = symstack[i].type
                                     /\ symstack'[i].uid = symstack[i].uid
          PROVE  Remembered'
      <3>1. 1..(Depth + 1) = (1..Depth) \union {Depth + 1}
        BY <2>1
      <3>2. \A i \in 1..Depth : Outermost(i) => Outermost(i)'
        BY <2>1, <2>6 DEF loops
      <3> QED
        BY <2>1, <2>2, <2>6, <3>1, <3>2 DEF loops
    <2>7. CASE \E f \in Names : Defines(f)
      <3>1. ScopeOf("funparam_def_list") \notin LoopScopes
        BY ScopeOfEach DEF LoopScopes
      <3> QED
        BY <2>1, <2>6, <2>7, <3>1 DEF Defines, Opens
    <2>8. CASE OpensBranch
      <3>1. ScopeOf("cond_body") \notin LoopScopes
        BY ScopeOfEach DEF LoopScopes
      <3> QED
        BY <2>1, <2>6, <2>8, <3>1 DEF OpensBranch, Opens, KeepsFrames
    <2>9. ASSUME NEW p \in LoopProcs, NEW x, NEW names, OpensLoop(p, x, names)
          PROVE  Remembered'
      <3>1. /\ Len(symstack') = Depth + 1
            /\ symstack'[Depth + 1].type = ScopeOf(p)
            /\ symstack'[Depth + 1].uid = unique_id
            /\ \A i \in 1..Depth : symstack'[i] = symstack[i]
            /\ in_loop' = TRUE
            /\ outer_loop_id' = IF in_loop THEN outer_loop_id ELSE unique_id
        BY <2>9 DEF OpensLoop, Opens, KeepsFrames, EnterLoop
      <3>2. ScopeOf(p) \in LoopScopes
        BY ScopeOfEach DEF LoopProcs, LoopScopes
      <3>3. Depth + 1 \in 1..Len(symstack') /\ 1..Depth \subseteq 1..Len(symstack')
        BY <2>1, <3>1
      <3>4. CASE in_loop
        <4>1. PICK i \in 1..Depth : Outermost(i)
          BY <2>1, <2>2, <3>4
        <4>2. Outermost(i)'
          BY <2>1, <3>1, <3>4, <4>1
        <4> QED
          BY <3>1, <3>2, <3>3, <4>2
      <3>5. CASE ~in_loop
        <4>1. \A i \in 1..Depth : symstack'[i].type \notin LoopScopes
          BY <2>1, <2>2, <3>1, <3>5
        <4>2. PICK n \in 1..Len(symstack') : n = Depth + 1
          BY <3>3
        <4>3. \A j \in 1..(n - 1) : symstack'[j].type \notin LoopScopes
          BY <2>1, <4>1, <4>2
        <4>4. Outermost(n)' /\ in_loop' = TRUE
          BY <3>1, <3>2, <3>5, <4>2, <4>3
        <4> QED
          BY <4>4
      <3> QED
        BY <3>4, <3>5
    <2>10. CASE \E p \in CondProcs : NextBranch(p)
      <3>1. /\ UNCHANGED loops /\ Len(symstack') = Depth
            /\ symstack'[Depth].type = "condition"
            /\ \A i \in 1..(Depth - 1) : symstack'[i] = symstack[i]
            /\ symstack[Depth].type = "condition"
        BY <2>1, <2>10, ScopeOfEach DEF NextBranch, KeepsFrames
      <3>2. "condition" \notin LoopScopes
        BY DEF LoopScopes
      <3>3. \A i \in 1..Depth : symstack'[i].type = symstack[i].type
        BY <2>1, <3>1
      <3>4. ASSUME NEW i \in 1..Depth, Outermost(i) PROVE Outermost(i)'
        BY <2>1, <3>1, <3>2, <3>3, <3>4 DEF loops
      <3> QED
        BY <2>1, <2>2, <3>1, <3>3, <3>4 DEF loops
    <2>11. CASE Ends
      <3>1. /\ Len(symstack') = Depth - 1
            /\ \A i \in 1..(Depth - 1) : symstack'[i] = symstack[i]
            /\ 1..Depth = (1..(Depth - 1)) \union {Depth}
        BY <2>1, <2>11 DEF Ends, KeepsFrames
      <3>2. \A i \in 1..(Depth - 1) : symstack[i].uid < symstack[Depth].uid
                                      /\ symstack[i].uid \in Nat
        BY <1>5, <2>1, DepthFacts DEF IdsIncrease, Frames
      <3>3. Top.proc \in LoopProcs <=> symstack[Depth].type \in LoopScopes
        <4>1. Top.proc \in BodyProcs
          BY <2>11 DEF Ends
        <4> QED
          BY <2>1, <4>1, ScopeOfEach DEF LoopProcs, LoopScopes, BodyProcs,
                                         FunBodyCallers
      <3>4. CASE Top.proc \in LoopProcs /\ outer_loop_id = symstack[Depth].uid
        <4>1. in_loop' = FALSE
          BY <2>1, <2>11, <3>4 DEF Ends, ForgetOuterLoop
        <4>2. PICK i \in 1..Depth : Outermost(i)
          BY <2>1, <2>2, <3>3, <3>4
        <4>3. i = Depth
          BY <2>1, <3>1, <3>2, <3>4, <4>2
        <4>4. \A j \in 1..(Depth - 1) : symstack[j].type \notin LoopScopes
          BY <4>2, <4>3
        <4> QED
          BY <3>1, <4>1, <4>4
      <3>5. CASE ~(Top.proc \in LoopProcs /\ outer_loop_id = symstack[Depth].uid)
        <4>1. UNCHANGED <<in_loop, outer_loop_id>>
          BY <2>1, <2>11, <3>5 DEF Ends, ForgetOuterLoop
        <4>2. CASE in_loop
          <5>1. PICK i \in 1..Depth : Outermost(i)
            BY <2>1, <2>2, <4>2
          <5>2. i # Depth
            BY <3>3, <3>5, <5>1
          <5>3. i \in 1..(Depth - 1)
            BY <2>1, <3>1, <5>2
          <5>4. Outermost(i)'
            BY <2>1, <3>1, <4>1, <5>1, <5>3
          <5> QED
            BY <2>1, <3>1, <4>1, <4>2, <5>3, <5>4
        <4>3. CASE ~in_loop
          BY <2>1, <2>2, <3>1, <4>1, <4>3
        <4> QED
          BY <4>2, <4>3
      <3> QED
        BY <3>4, <3>5
    <2> QED
      BY <1>5, <2>4, <2>5, <2>7, <2>8, <2>9, <2>10, <2>11, StepCases
         DEF Moves, Declares, TakesParameter, AddsVariable
  <1> QED
    BY <1>4, <1>5

(***************************************************************************)
(* Branches.                                                               *)
(***************************************************************************)
IsCond(a) == a.proc \in CondProcs

(* How many if statements are open among the first i activations of cs.    *)
CondDepth(cs, i) == Cardinality({j \in 1..i : IsCond(cs[j])})

(* The counts of the prefixes.                                             *)
LEMMA CondDepthFacts ==
  ASSUME NEW cs, NEW n \in Nat
  PROVE  /\ CondDepth(cs, n) \in Nat
         /\ CondDepth(cs, 0) = 0
         /\ CondDepth(cs, n + 1) =
              CondDepth(cs, n) + (IF IsCond(cs[n + 1]) THEN 1 ELSE 0)
         /\ \A i \in 0..n : CondDepth(cs, i) \in Nat
                            /\ CondDepth(cs, i) <= CondDepth(cs, n)
  <1> DEFINE C(i) == {j \in 1..i : IsCond(cs[j])}
  <1>1. ASSUME NEW i \in Nat PROVE IsFiniteSet(C(i)) /\ Cardinality(C(i)) \in Nat
    <2>1. IsFiniteSet(1..i)
      BY FS_Interval
    <2> QED
      BY <2>1, FS_Subset, FS_CardinalityType
  <1>2. C(0) = {}
    OBVIOUS
  <1>3. ASSUME NEW i \in 0..n PROVE Cardinality(C(i)) <= Cardinality(C(n))
    <2>1. C(i) \subseteq C(n)
      OBVIOUS
    <2> QED
      BY <1>1, <2>1, FS_Subset
  <1>4. CASE IsCond(cs[n + 1])
    <2>1. C(n + 1) = C(n) \union {n + 1} /\ n + 1 \notin C(n)
      BY <1>4
    <2>2. Cardinality(C(n + 1)) = Cardinality(C(n)) + 1
      BY <1>1, <2>1, FS_AddElement
    <2> QED
      BY <1>1, <1>2, <1>3, <1>4, <2>2, FS_EmptySet DEF CondDepth
  <1>5. CASE ~IsCond(cs[n + 1])
    <2>1. C(n + 1) = C(n)
      BY <1>5
    <2> QED
      BY <1>1, <1>2, <1>3, <1>5, <2>1, FS_EmptySet DEF CondDepth
  <1> QED
    BY <1>4, <1>5

(* Activations that agree on which of them are branches have equal counts. *)
LEMMA CondDepthSame ==
  ASSUME NEW cs, NEW ds, NEW n \in Nat,
         \A i \in 1..n : IsCond(ds[i]) <=> IsCond(cs[i])
  PROVE  \A i \in 0..n : CondDepth(ds, i) = CondDepth(cs, i)
  <1> SUFFICES ASSUME NEW i \in 0..n
               PROVE  CondDepth(ds, i) = CondDepth(cs, i)
    OBVIOUS
  <1>1. {j \in 1..i : IsCond(ds[j])} = {j \in 1..i : IsCond(cs[j])}
    OBVIOUS
  <1> QED
    BY <1>1 DEF CondDepth

(* The digits of a number, from the last one to the first.                 *)
LEMMA DecimalDigits ==
  ASSUME NEW p \in Int, NEW q \in Int, NEW r \in Int, NEW s \in Int, NEW t \in Int,
         NEW b \in Int, NEW c \in Int, NEW d \in Int, NEW n \in Int,
         n = 10 * d + t, d = 10 * c + s, c = 10 * b + r, b = 10 * p + q
  PROVE  n = 10000 * p + 1000 * q + 100 * r + 10 * s + t
  OBVIOUS

(* The quotients by the powers of ten.                                     *)
LEMMA DecimalQuotients ==
  ASSUME NEW n \in Nat
  PROVE  /\ n % 10 \in 0..9 /\ n = 10 * (n \div 10) + (n % 10)
         /\ n \div 10 \in Nat
         /\ n \div 100 \in Nat
         /\ n \div 1000 \in Nat
         /\ n \div 100 = (n \div 10) \div 10
         /\ n \div 1000 = (n \div 100) \div 10
         /\ n \div 10000 = (n \div 1000) \div 10
         /\ n <= 99999 => n \div 10000 \in 0..9
  <1>1. n % 10 \in 0..9 /\ n = 10 * (n \div 10) + (n % 10)
    OBVIOUS
  <1>2. n \div 10 \in Nat
    OBVIOUS
  <1>3. n \div 100 \in Nat
    OBVIOUS
  <1>4. n \div 1000 \in Nat
    OBVIOUS
  <1>5. n \div 100 = (n \div 10) \div 10
    OBVIOUS
  <1>6. n \div 1000 = (n \div 100) \div 10
    OBVIOUS
  <1>7. n \div 10000 = (n \div 1000) \div 10
    OBVIOUS
  <1>8. n <= 99999 => n \div 10000 \in 0..9
    OBVIOUS
  <1> QED
    BY <1>1, <1>2, <1>3, <1>4, <1>5, <1>6, <1>7, <1>8

(* strtoul undoes sprintf on numbers of at most five digits.               *)
LEMMA NumberOfDigits ==
  ASSUME NEW id \in Nat, id <= 99999
  PROVE  Number(Digits(id)) = id
  <1>1. PICK b, c, d \in Nat : /\ d = id \div 10
                              /\ c = id \div 100
                              /\ b = id \div 1000
    BY DecimalQuotients
  <1>2. \A n \in Nat : n % 10 \in 0..9
    BY DecimalQuotients
  <1>3. PICK p \in 0..9 : p = id \div 10000
    BY DecimalQuotients
  <1>4. PICK q \in 0..9 : q = b % 10
    BY <1>2
  <1>5. PICK r \in 0..9 : r = c % 10
    BY <1>2
  <1>6. PICK s \in 0..9 : s = d % 10
    BY <1>2
  <1>7. PICK t \in 0..9 : t = id % 10
    BY <1>2
  <1>8. /\ id = 10 * d + t
        /\ d = 10 * c + s
        /\ c = 10 * b + r
        /\ b = 10 * p + q
    BY <1>1, <1>3, <1>4, <1>5, <1>6, <1>7, DecimalQuotients
  <1>9. id = 10000 * p + 1000 * q + 100 * r + 10 * s + t
    BY <1>8, DecimalDigits
  <1>10. p % 10 = p
    OBVIOUS
  <1>11. Digits(id) = <<48 + p, 48 + q, 48 + r, 48 + s, 48 + t>>
    BY <1>1, <1>3, <1>4, <1>5, <1>6, <1>7, <1>10 DEF Digits
  <1>12. Number(Digits(id)) = 10000 * p + 1000 * q + 100 * r + 10 * s + t
    BY <1>11 DEF Number
  <1> QED
    BY <1>9, <1>12

(* info holds what the branch counters were when the if statement of the   *)
(* i-th activation began.                                                  *)
Saved(info, cs, i) ==
  LET at == 6 * CondDepth(cs, i) - 5 IN
  /\ cs[i].saved[1] \in Nat /\ cs[i].saved[1] <= 99999
  /\ info[at] = cs[i].saved[2]
  /\ \A k \in 1..5 : info[at + k] = Digits(cs[i].saved[1])[k]

(* It holds them for every open if statement, and nothing else.            *)
AllSaved(info, cs) ==
  /\ Len(info) = 6 * CondDepth(cs, Len(cs))
  /\ \A i \in 1..Len(cs) : IsCond(cs[i]) => Saved(info, cs, i)

(* Where an if statement's six characters are.                             *)
LEMMA PlaceFacts ==
  ASSUME NEW cs, NEW n \in Nat, NEW i \in 1..n, IsCond(cs[i])
  PROVE  6 * CondDepth(cs, i) - 5 \in 1..(6 * CondDepth(cs, n) - 5)
  <1>1. i - 1 \in Nat /\ i - 1 + 1 = i /\ i \in 0..n
    OBVIOUS
  <1>2. CondDepth(cs, i) = CondDepth(cs, i - 1) + 1
    <2>1. PICK m \in Nat : m = i - 1
      BY <1>1
    <2>2. CondDepth(cs, m + 1) =
            CondDepth(cs, m) + (IF IsCond(cs[m + 1]) THEN 1 ELSE 0)
      BY CondDepthFacts
    <2> QED
      BY <1>1, <2>1, <2>2
  <1>3. CondDepth(cs, i - 1) \in Nat
    BY <1>1, CondDepthFacts
  <1>4. CondDepth(cs, i) <= CondDepth(cs, n) /\ CondDepth(cs, n) \in Nat
    BY <1>1, CondDepthFacts
  <1> QED
    BY <1>2, <1>3, <1>4

(* What is saved for the first m activations stays saved while these and   *)
(* the characters that stand for them stay.                                *)
LEMMA SavedKept ==
  ASSUME NEW cs, NEW ds, NEW info, NEW other, NEW m \in Nat,
         \A i \in 1..m : /\ IsCond(ds[i]) <=> IsCond(cs[i])
                         /\ ds[i].saved = cs[i].saved,
         \A j \in 1..(6 * CondDepth(cs, m)) : other[j] = info[j],
         NEW i \in 1..m, IsCond(cs[i]), Saved(info, cs, i)
  PROVE  Saved(other, ds, i)
  <1>1. CondDepth(ds, i) = CondDepth(cs, i)
    BY CondDepthSame
  <1>2. CondDepth(cs, m) \in Nat /\ CondDepth(cs, i) \in Nat
    BY CondDepthFacts
  <1> DEFINE at == 6 * CondDepth(cs, i) - 5
  <1>3. at \in 1..(6 * CondDepth(cs, m) - 5)
    BY PlaceFacts
  <1>4. /\ at \in 1..(6 * CondDepth(cs, m))
        /\ \A k \in 1..5 : at + k \in 1..(6 * CondDepth(cs, m))
    BY <1>2, <1>3
  <1>5. other[at] = info[at] /\ \A k \in 1..5 : other[at + k] = info[at + k]
    BY <1>4
  <1>6. ds[i].saved = cs[i].saved
    OBVIOUS
  <1> QED
    BY <1>1, <1>5, <1>6 DEF Saved

(* An activation that is no branch is called.                              *)
LEMMA SavedCall ==
  ASSUME NEW cs, NEW ds, NEW info, NEW n \in Nat, Len(cs) = n,
         AllSaved(info, cs),
         Len(ds) = n + 1, \A i \in 1..n : ds[i] = cs[i], ~IsCond(ds[n + 1])
  PROVE  AllSaved(info, ds)
  <1>1. \A i \in 1..n : /\ IsCond(ds[i]) <=> IsCond(cs[i])
                        /\ ds[i].saved = cs[i].saved
    OBVIOUS
  <1>2. n \in 0..n /\ CondDepth(ds, n) \in Nat
    BY CondDepthFacts
  <1>3. CondDepth(ds, n) = CondDepth(cs, n)
    BY <1>1, <1>2, CondDepthSame
  <1>4. CondDepth(ds, n + 1) =
          CondDepth(ds, n) + (IF IsCond(ds[n + 1]) THEN 1 ELSE 0)
    BY CondDepthFacts
  <1>5. Len(info) = 6 * CondDepth(ds, n + 1)
    BY <1>2, <1>3, <1>4 DEF AllSaved
  <1>6. ASSUME NEW i \in 1..(n + 1), IsCond(ds[i])
        PROVE  Saved(info, ds, i)
    <2>1. i \in 1..n
      BY <1>6
    <2>2. IsCond(cs[i]) /\ Saved(info, cs, i)
      BY <1>1, <1>6, <2>1 DEF AllSaved
    <2> QED
      BY <1>1, <2>1, <2>2, SavedKept
  <1> QED
    BY <1>5, <1>6 DEF AllSaved

(* An activation that is no branch returns.                                *)
LEMMA SavedReturn ==
  ASSUME NEW cs, NEW ds, NEW info, NEW n \in Nat, Len(cs) = n + 1,
         AllSaved(info, cs),
         Len(ds) = n, \A i \in 1..n : ds[i] = cs[i], ~IsCond(cs[n + 1])
  PROVE  AllSaved(info, ds)
  <1>1. \A i \in 1..n : /\ IsCond(ds[i]) <=> IsCond(cs[i])
                        /\ ds[i].saved = cs[i].saved
    OBVIOUS
  <1>2. n \in 0..n /\ CondDepth(cs, n) \in Nat
    BY CondDepthFacts
  <1>3. CondDepth(ds, n) = CondDepth(cs, n)
    BY <1>1, <1>2, CondDepthSame
  <1>4. CondDepth(cs, n + 1) =
          CondDepth(cs, n) + (IF IsCond(cs[n + 1]) THEN 1 ELSE 0)
    BY CondDepthFacts
  <1>5. Len(info) = 6 * CondDepth(ds, n)
    BY <1>2, <1>3, <1>4 DEF AllSaved
  <1>6. ASSUME NEW i \in 1..n, IsCond(ds[i])
        PROVE  Saved(info, ds, i)
    <2>1. IsCond(cs[i]) /\ i \in 1..(n + 1)
      BY <1>1, <1>6
    <2>2. Saved(info, cs, i)
      BY <2>1 DEF AllSaved
    <2> QED
      BY <1>1, <2>1, <2>2, SavedKept
  <1> QED
    BY <1>5, <1>6 DEF AllSaved

(* The activation at the top goes on as another procedure of its kind.     *)
LEMMA SavedBecome ==
  ASSUME NEW cs, NEW ds, NEW info, NEW n \in Nat \ {0}, Len(cs) = n,
         AllSaved(info, cs),
         Len(ds) = n, \A i \in 1..(n - 1) : ds[i] = cs[i],
         IsCond(ds[n]) <=> IsCond(cs[n]), ds[n].saved = cs[n].saved
  PROVE  AllSaved(info, ds)
  <1>1. ASSUME NEW i \in 1..n
        PROVE  /\ IsCond(ds[i]) <=> IsCond(cs[i])
               /\ ds[i].saved = cs[i].saved
    <2>1. i = n \/ i \in 1..(n - 1)
      OBVIOUS
    <2> QED
      BY <2>1
  <1>2. n \in 0..n /\ n \in Nat
    OBVIOUS
  <1>3. CondDepth(ds, n) = CondDepth(cs, n)
    BY <1>1, <1>2, CondDepthSame
  <1>4. Len(info) = 6 * CondDepth(ds, n)
    BY <1>3 DEF AllSaved
  <1>5. ASSUME NEW i \in 1..n, IsCond(ds[i])
        PROVE  Saved(info, ds, i)
    <2>1. IsCond(cs[i]) /\ Saved(info, cs, i)
      BY <1>1, <1>5 DEF AllSaved
    <2> QED
      BY <1>1, <1>2, <2>1, SavedKept
  <1> QED
    BY <1>4, <1>5 DEF AllSaved

(* How many if statements are open with one activation more.               *)
LEMMA CondDepthCall ==
  ASSUME NEW cs, NEW ds, NEW n \in Nat, \A i \in 1..n : ds[i] = cs[i]
  PROVE  /\ CondDepth(cs, n) \in Nat
         /\ CondDepth(ds, n + 1) =
              CondDepth(cs, n) + (IF IsCond(ds[n + 1]) THEN 1 ELSE 0)
  <1>1. CondDepth(ds, n) = CondDepth(cs, n)
    <2>1. \A i \in 1..n : IsCond(ds[i]) <=> IsCond(cs[i])
      OBVIOUS
    <2>2. n \in 0..n
      OBVIOUS
    <2> QED
      BY <2>1, <2>2, CondDepthSame
  <1>2. CondDepth(ds, n + 1) =
          CondDepth(ds, n) + (IF IsCond(ds[n + 1]) THEN 1 ELSE 0)
    BY CondDepthFacts
  <1> QED
    BY <1>1, <1>2, CondDepthFacts

(* Six characters are appended to cond_info.                               *)
LEMMA PushedFacts ==
  ASSUME NEW info \in Seq(Int), NEW cnt \in Int, cnt # 0, NEW id \in Nat,
         NEW n \in Nat, Len(info) = n
  PROVE  /\ Len(PushCond(info, cnt, id)) = n + 6
         /\ \A j \in 1..n : PushCond(info, cnt, id)[j] = info[j]
         /\ PushCond(info, cnt, id)[n + 1] = cnt
         /\ \A k \in 1..5 :
              PushCond(info, cnt, id)[n + 1 + k] = Digits(id)[k]
  <1> DEFINE t == Append(info, cnt)
             d == Digits(id)
             other == PushCond(info, cnt, id)
  <1>1. d \in Seq(Int) /\ Len(d) = 5
    BY DEF Digits
  <1>2. /\ t \in Seq(Int) /\ Len(t) = n + 1 /\ t[n + 1] = cnt
        /\ \A j \in 1..n : t[j] = info[j]
    BY AppendFacts
  <1>3. other = t \o d
    BY DEF PushCond
  <1> HIDE DEF t, d, other
  <1>4. /\ Len(t \o d) = Len(t) + Len(d)
        /\ \A i \in 1..(Len(t) + Len(d)) :
             (t \o d)[i] = IF i <= Len(t) THEN t[i] ELSE d[i - Len(t)]
    BY <1>1, <1>2, ConcatProperties
  <1>5. /\ Len(other) = n + 6
        /\ \A i \in 1..(n + 6) :
             other[i] = IF i <= n + 1 THEN t[i] ELSE d[i - (n + 1)]
    BY <1>1, <1>2, <1>3, <1>4
  <1>6. \A j \in 1..n : other[j] = info[j]
    BY <1>2, <1>5
  <1>7. other[n + 1] = cnt
    BY <1>2, <1>5
  <1>8. ASSUME NEW k \in 1..5 PROVE other[n + 1 + k] = d[k]
    <2>1. PICK i \in 1..(n + 6) : i = n + 1 + k
      OBVIOUS
    <2>2. ~(i <= n + 1) /\ i - (n + 1) = k
      BY <2>1
    <2>3. other[i] = d[k]
      BY <1>5, <2>2
    <2> QED
      BY <2>1, <2>3
  <1> QED
    BY <1>5, <1>6, <1>7, <1>8 DEF other, d

(* ds is cs with one activation more.                                      *)
Longer(cs, ds, n) ==
  Len(cs) = n /\ Len(ds) = n + 1 /\ \A i \in 1..n : ds[i] = cs[i]

(* other is info, of l characters, with the six of activation a.           *)
SixMore(info, other, l, a) ==
  /\ Len(info) = l /\ Len(other) = l + 6
  /\ \A j \in 1..l : other[j] = info[j]
  /\ a.saved[1] \in Nat /\ a.saved[1] <= 99999
  /\ other[l + 1] = a.saved[2]
  /\ \A k \in 1..5 : other[l + 1 + k] = Digits(a.saved[1])[k]

(* The activations and the counts of if statements below the new one.      *)
LEMMA LongerFacts ==
  ASSUME NEW cs, NEW ds, NEW n \in Nat, Longer(cs, ds, n), IsCond(ds[n + 1])
  PROVE  /\ \A j \in 1..n : /\ IsCond(ds[j]) <=> IsCond(cs[j])
                            /\ IsCond(cs[j]) <=> IsCond(ds[j])
                            /\ ds[j].saved = cs[j].saved
                            /\ cs[j].saved = ds[j].saved
         /\ \E m \in Nat : /\ CondDepth(cs, n) = m
                           /\ CondDepth(ds, n) = m
                           /\ CondDepth(ds, n + 1) = m + 1
  <1>1. \A i \in 1..n : ds[i] = cs[i]
    BY DEF Longer
  <1>2. CondDepth(ds, n) = CondDepth(cs, n)
    <2>1. n \in 0..n
      OBVIOUS
    <2> QED
      BY <1>1, <2>1, CondDepthSame
  <1>3. /\ CondDepth(cs, n) \in Nat
        /\ CondDepth(ds, n + 1) =
             CondDepth(cs, n) + (IF IsCond(ds[n + 1]) THEN 1 ELSE 0)
    BY <1>1, CondDepthCall
  <1> QED
    BY <1>1, <1>2, <1>3

(* An if statement begins: its enclosing branch's six characters are       *)
(* appended.                                                               *)
LEMMA SavedBegin ==
  ASSUME NEW cs, NEW ds, NEW info, NEW other, NEW n \in Nat, NEW l \in Nat,
         AllSaved(info, cs), Longer(cs, ds, n), IsCond(ds[n + 1]),
         SixMore(info, other, l, ds[n + 1])
  PROVE  AllSaved(other, ds)
  <1>1. /\ \A j \in 1..n : /\ IsCond(ds[j]) <=> IsCond(cs[j])
                           /\ ds[j].saved = cs[j].saved
        /\ \E m \in Nat : /\ CondDepth(cs, n) = m
                          /\ CondDepth(ds, n + 1) = m + 1
    BY LongerFacts
  <1>2. PICK m \in Nat : CondDepth(cs, n) = m /\ CondDepth(ds, n + 1) = m + 1
    BY <1>1
  <1>3. Len(cs) = n /\ Len(ds) = n + 1 /\ Len(info) = l /\ Len(other) = l + 6
    BY DEF Longer, SixMore
  <1>4. l = 6 * m
    BY <1>2, <1>3 DEF AllSaved
  <1>5. Len(other) = 6 * CondDepth(ds, Len(ds))
    BY <1>2, <1>3, <1>4
  <1>6. Saved(other, ds, n + 1)
    <2>1. 6 * CondDepth(ds, n + 1) - 5 = l + 1
      BY <1>2, <1>4
    <2> DEFINE b == ds[n + 1].saved
    <2>2. /\ b[1] \in Nat /\ b[1] <= 99999
          /\ other[l + 1] = b[2]
          /\ \A k \in 1..5 : other[l + 1 + k] = Digits(b[1])[k]
      BY ONLY SixMore(info, other, l, ds[n + 1]) DEF SixMore
    <2> HIDE DEF b
    <2>3. /\ b[1] \in Nat /\ b[1] <= 99999
          /\ other[6 * CondDepth(ds, n + 1) - 5] = b[2]
          /\ \A k \in 1..5 :
                other[6 * CondDepth(ds, n + 1) - 5 + k] = Digits(b[1])[k]
      BY ONLY <2>1, <2>2
    <2> QED
      BY ONLY <2>3 DEF Saved, b
  <1>7. ASSUME NEW i \in 1..n, IsCond(ds[i])
        PROVE  Saved(other, ds, i)
    <2>1. IsCond(cs[i]) /\ Saved(info, cs, i)
      BY <1>1, <1>3, <1>7 DEF AllSaved
    <2>2. \A j \in 1..(6 * CondDepth(cs, n)) : other[j] = info[j]
      BY <1>2, <1>4 DEF SixMore
    <2> QED
      BY <1>1, <2>1, <2>2, SavedKept
  <1>8. \A i \in 1..(n + 1) : i = n + 1 \/ i \in 1..n
    OBVIOUS
  <1>9. \A i \in 1..Len(ds) : IsCond(ds[i]) => Saved(other, ds, i)
    BY <1>3, <1>6, <1>7, <1>8
  <1> QED
    BY <1>5, <1>9 DEF AllSaved

(* An if statement ends: its six characters are the last ones, and all     *)
(* that is saved before them stays.                                        *)
LEMMA SavedEnd ==
  ASSUME NEW cs, NEW ds, NEW info, NEW n \in Nat, AllSaved(info, ds),
         Longer(cs, ds, n), IsCond(ds[n + 1])
  PROVE  \E l \in Nat :
           /\ Len(info) = l + 6
           /\ \A other : /\ Len(other) = l
                         /\ \A j \in 1..l : other[j] = info[j]
                         => /\ SixMore(other, info, l, ds[n + 1])
                            /\ AllSaved(other, cs)
  <1>1. /\ \A j \in 1..n : /\ IsCond(cs[j]) <=> IsCond(ds[j])
                           /\ cs[j].saved = ds[j].saved
        /\ \E m \in Nat : /\ CondDepth(cs, n) = m
                          /\ CondDepth(ds, n) = m
                          /\ CondDepth(ds, n + 1) = m + 1
    BY LongerFacts
  <1>2. PICK m \in Nat : /\ CondDepth(cs, n) = m
                         /\ CondDepth(ds, n) = m
                         /\ CondDepth(ds, n + 1) = m + 1
    BY <1>1
  <1>3. Len(cs) = n /\ Len(ds) = n + 1
    BY DEF Longer
  <1>4. PICK l \in Nat : l = 6 * m
    OBVIOUS
  <1>5. Len(info) = l + 6
    BY <1>2, <1>3, <1>4 DEF AllSaved
  <1>6. ASSUME NEW other, Len(other) = l, \A j \in 1..l : other[j] = info[j]
        PROVE  /\ SixMore(other, info, l, ds[n + 1])
               /\ AllSaved(other, cs)
    <2>1. Saved(info, ds, n + 1)
      BY <1>3 DEF AllSaved
    <2>2. 6 * CondDepth(ds, n + 1) - 5 = l + 1
      BY <1>2, <1>4
    <2>3. SixMore(other, info, l, ds[n + 1])
      BY <1>5, <1>6, <2>1, <2>2 DEF Saved, SixMore
    <2>4. ASSUME NEW i \in 1..n, IsCond(cs[i])
          PROVE  Saved(other, cs, i)
      <3>1. IsCond(ds[i]) /\ i \in 1..(n + 1)
        BY <1>1, <2>4
      <3>2. Saved(info, ds, i)
        BY <1>3, <3>1 DEF AllSaved
      <3>3. \A j \in 1..(6 * CondDepth(ds, n)) : other[j] = info[j]
        BY <1>2, <1>4, <1>6
      <3> QED
        BY <1>1, <3>1, <3>2, <3>3, SavedKept
    <2> QED
      BY <1>2, <1>3, <1>4, <1>6, <2>3, <2>4 DEF AllSaved
  <1> QED
    BY <1>5, <1>6

(* The last six characters are cut off.                                    *)
LEMMA CutFacts ==
  ASSUME NEW info \in Seq(Int), NEW l \in Nat, Len(info) = l + 6
  PROVE  /\ CanPop(info)
         /\ Len(PopCond(info)) = l
         /\ \A j \in 1..l : PopCond(info)[j] = info[j]
         /\ PoppedCnt(info) = info[l + 1]
  <1>1. \A i \in 1..(l + 6) : info[i] \in Int
    BY ElementOfSeq
  <1>2. CanPop(info) /\ PoppedCnt(info) = info[l + 1]
    BY DEF CanPop, PoppedCnt
  <1>3. PopCond(info) = SubSeq(info, 1, l)
    BY DEF PopCond
  <1>4. \A i \in 1..l : info[i] \in Int
    BY <1>1
  <1> DEFINE s == SubSeq(info, 1, l)
  <1>5. /\ Len(s) = IF 1 <= l THEN l - 1 + 1 ELSE 0
        /\ \A i \in 1..(l - 1 + 1) : s[i] = info[1 + i - 1]
    BY <1>4, SubSeqProperties
  <1> HIDE DEF s
  <1>6. Len(s) = l
    BY <1>5
  <1>7. ASSUME NEW i \in 1..l PROVE s[i] = info[i]
    <2>1. i \in 1..(l - 1 + 1) /\ 1 + i - 1 = i
      OBVIOUS
    <2> QED
      BY <1>5, <2>1
  <1> QED
    BY <1>2, <1>3, <1>6, <1>7 DEF s

(* The last five of them are read as a number.                             *)
LEMMA PoppedIdFacts ==
  ASSUME NEW info \in Seq(Int), NEW l \in Nat, Len(info) = l + 6
  PROVE  PoppedId(info) = Number(<<info[l + 2], info[l + 3], info[l + 4],
                                   info[l + 5], info[l + 6]>>)
  <1>1. \A i \in 1..(l + 6) : info[i] \in Int
    BY ElementOfSeq
  <1> DEFINE m == l + 2
             n == l + 6
             s == SubSeq(info, m, n)
  <1>2. PoppedId(info) = Number(s)
    BY DEF PoppedId
  <1>3. /\ m \in Int /\ n \in Int /\ m <= n /\ n - m + 1 = 5
        /\ \A i \in m..n : info[i] \in Int
    BY <1>1
  <1>4. \A i \in 1..5 : s[i] = info[m + i - 1]
    <2> HIDE DEF m, n
    <2>1. \A i \in 1..(n - m + 1) : s[i] = info[m + i - 1]
      BY <1>3, SubSeqProperties
    <2> QED
      BY <1>3, <2>1
  <1> HIDE DEF s
  <1>5. /\ s[1] = info[l + 2] /\ s[2] = info[l + 3] /\ s[3] = info[l + 4]
        /\ s[4] = info[l + 5] /\ s[5] = info[l + 6]
    BY <1>4
  <1> QED
    BY <1>2, <1>5 DEF Number

(* An if statement's six characters, once cut off, give its counters back. *)
LEMMA SixRestored ==
  ASSUME NEW info, NEW other \in Seq(Int), NEW l \in Nat, NEW a,
         SixMore(info, other, l, a)
  PROVE  PoppedId(other) = a.saved[1] /\ PoppedCnt(other) = a.saved[2]
  <1>1. /\ Len(other) = l + 6
        /\ other[l + 1] = a.saved[2]
        /\ \A k \in 1..5 : other[l + 1 + k] = Digits(a.saved[1])[k]
    BY DEF SixMore
  <1>2. PICK id \in Nat : id = a.saved[1] /\ id <= 99999
    <2>1. a.saved[1] \in Nat /\ a.saved[1] <= 99999
      BY DEF SixMore
    <2> DEFINE first == a.saved[1]
    <2> HIDE DEF first
    <2>2. first \in Nat /\ first = first /\ first <= 99999
      BY <2>1 DEF first
    <2>3. \E id \in Nat : id = first /\ id <= 99999
      BY ONLY <2>2
    <2> QED
      BY <2>3 DEF first
  <1>3. /\ l + 1 + 1 = l + 2 /\ l + 1 + 2 = l + 3 /\ l + 1 + 3 = l + 4
        /\ l + 1 + 4 = l + 5 /\ l + 1 + 5 = l + 6
    OBVIOUS
  <1>4. /\ other[l + 2] = Digits(id)[1] /\ other[l + 3] = Digits(id)[2]
        /\ other[l + 4] = Digits(id)[3] /\ other[l + 5] = Digits(id)[4]
        /\ other[l + 6] = Digits(id)[5]
    BY <1>1, <1>2, <1>3
  <1>5. PoppedId(other) = Number(<<other[l + 2], other[l + 3], other[l + 4],
                                   other[l + 5], other[l + 6]>>)
    BY <1>1, PoppedIdFacts
  <1>6. PoppedId(other) = Number(Digits(id))
    BY <1>4, <1>5 DEF Number
  <1>7. Number(Digits(id)) = id
    BY <1>2, NumberOfDigits
  <1>8. PoppedCnt(other) = other[l + 1]
    BY <1>1, CutFacts
  <1> QED
    BY <1>1, <1>2, <1>6, <1>7, <1>8

(* While a program is parsed, cond_info holds the counters of all its open *)
(* if statements.                                                          *)
CondsSaved ==
  phase \in {"prolog", "running"} =>
    /\ outer_cond_id \in Nat /\ outer_cond_id <= 99999
    /\ AllSaved(cond_info, calls)

(* In a branch, the last six characters are those of its if statement.     *)
LEMMA TopIsSaved ==
  ASSUME IInv, phase = "running", CondsSaved, Top.proc \in CondProcs
  PROVE  /\ CanPop(cond_info)
         /\ PoppedId(cond_info) = Top.saved[1]
         /\ PoppedCnt(cond_info) = Top.saved[2]
         /\ Top.saved[1] \in Nat /\ Top.saved[1] <= 99999
         /\ \A cs : Longer(cs, calls, Depth - 1)
                      => AllSaved(PopCond(cond_info), cs)
  <1>1. /\ cond_info \in Seq(Int) /\ AllSaved(cond_info, calls)
        /\ Depth \in Nat \ {0} /\ Top = calls[Depth] /\ Depth = Len(calls)
    BY DepthFacts DEF IInv, TypeOK, CondsOK, CondsSaved, Depth
  <1>2. PICK n \in Nat : n = Depth - 1
    BY <1>1
  <1>3. IsCond(calls[n + 1]) /\ Top = calls[n + 1]
    BY <1>1, <1>2 DEF IsCond
  <1>4. ASSUME NEW cs, Longer(cs, calls, n)
        PROVE  /\ CanPop(cond_info)
               /\ PoppedId(cond_info) = Top.saved[1]
               /\ PoppedCnt(cond_info) = Top.saved[2]
               /\ Top.saved[1] \in Nat /\ Top.saved[1] <= 99999
               /\ AllSaved(PopCond(cond_info), cs)
    <2>1. PICK l \in Nat :
            /\ Len(cond_info) = l + 6
            /\ \A other : /\ Len(other) = l
                          /\ \A j \in 1..l : other[j] = cond_info[j]
                          => /\ SixMore(other, cond_info, l, calls[n + 1])
                             /\ AllSaved(other, cs)
      BY <1>1, <1>3, <1>4, SavedEnd
    <2>2. /\ CanPop(cond_info)
          /\ Len(PopCond(cond_info)) = l
          /\ \A j \in 1..l : PopCond(cond_info)[j] = cond_info[j]
      BY <1>1, <2>1, CutFacts
    <2>3. /\ SixMore(PopCond(cond_info), cond_info, l, Top)
          /\ AllSaved(PopCond(cond_info), cs)
      BY <1>3, <2>1, <2>2
    <2>4. /\ PoppedId(cond_info) = Top.saved[1]
          /\ PoppedCnt(cond_info) = Top.saved[2]
      BY <1>1, <2>3, SixRestored
    <2> QED
      BY <2>2, <2>3, <2>4 DEF SixMore
  <1>5. Longer(Front(calls), calls, n)
    BY <1>1, <1>2, RunningFacts, FrontFacts DEF Longer
  <1> QED
    BY <1>2, <1>4, <1>5

(* An if statement's counters are six characters more, unless its counter  *)
(* is the NUL at which the string ends.                                    *)
LEMMA TopIsPushed ==
  ASSUME CondsOK, cond_cnt # 0, outer_cond_id \in Nat, outer_cond_id <= 99999,
         NEW a, a.saved = <<outer_cond_id, cond_cnt>>
  PROVE  \E l \in Nat :
           SixMore(cond_info, PushCond(cond_info, cond_cnt, outer_cond_id), l, a)
  <1>1. cond_info \in Seq(Int) /\ cond_cnt \in Int
    BY DEF CondsOK
  <1>2. PICK l \in Nat : l = Len(cond_info)
    BY <1>1, LenProperties
  <1> DEFINE other == PushCond(cond_info, cond_cnt, outer_cond_id)
  <1>3. /\ Len(other) = l + 6
        /\ \A j \in 1..l : other[j] = cond_info[j]
        /\ other[l + 1] = cond_cnt
        /\ \A k \in 1..5 : other[l + 1 + k] = Digits(outer_cond_id)[k]
    <2>1. /\ cond_info \in Seq(Int) /\ cond_cnt \in Int /\ cond_cnt # 0
          /\ outer_cond_id \in Nat /\ l \in Nat /\ Len(cond_info) = l
      BY <1>1, <1>2
    <2> QED
      BY ONLY <2>1, PushedFacts
  <1>4. a.saved[1] = outer_cond_id /\ a.saved[2] = cond_cnt
    OBVIOUS
  <1> HIDE DEF other
  <1>5. SixMore(cond_info, other, l, a)
    BY <1>2, <1>3, <1>4 DEF SixMore
  <1> QED
    BY <1>5 DEF other

(* The string of saved counters, from one state to the next.               *)
LEMMA CondsStep ==
  ASSUME IInv, [Next]_vars, cond_cnt # 0, CondsSaved
  PROVE  CondsSaved'
  <1> DEFINE IdOK == outer_cond_id \in Nat /\ outer_cond_id <= 99999
             Goal == IdOK /\ AllSaved(cond_info, calls)
  <1>1. CASE phase' = "prolog"
    <2>1. phase = "prolog" /\ UNCHANGED <<calls, cond_info, outer_cond_id>>
      BY <1>1, PrologSteps DEF vars, control, conds
    <2> QED
      BY <2>1 DEF CondsSaved
  <1>2. CASE phase' = "running" /\ phase # "running"
    <2>1. /\ phase = "prolog" /\ calls = <<>>
          /\ Len(calls') = 1 /\ calls'[1].proc = "stmt_list"
          /\ UNCHANGED <<cond_info, outer_cond_id>>
      BY <1>2, BeginsFacts DEF conds, IInv, Shape, PrologOK
    <2>2. AllSaved(cond_info, calls) /\ IdOK
      BY <2>1 DEF CondsSaved
    <2>3. PICK n \in Nat : n = 0
      OBVIOUS
    <2>4. /\ Len(calls) = n /\ Len(calls') = n + 1
          /\ \A i \in 1..n : calls'[i] = calls[i]
          /\ ~IsCond(calls'[n + 1])
      BY <2>1, <2>3 DEF IsCond, CondProcs
    <2>5. AllSaved(cond_info, calls')
      BY <2>2, <2>4, SavedCall
    <2> QED
      BY <2>1, <2>2, <2>5 DEF CondsSaved
  <1>3. CASE phase = "running" /\ phase' = "running"
    <2> SUFFICES Goal'
      BY <1>3 DEF CondsSaved
    <2>1. /\ Depth \in Nat \ {0} /\ Depth = Len(calls) /\ Top = calls[Depth]
          /\ AllSaved(cond_info, calls) /\ IdOK
          /\ CondsOK
      BY <1>3, DepthFacts DEF CondsSaved, Depth, IInv, TypeOK
    <2>2. PICK n \in Nat : Depth = n + 1
      <3>1. Depth - 1 \in Nat /\ Depth = (Depth - 1) + 1
        BY <2>1
      <3> QED
        BY <3>1
    <2>3. ASSUME UNCHANGED <<calls, cond_info, outer_cond_id>> PROVE Goal'
      BY <2>1, <2>3
    <2>4. ASSUME NEW p, NEW x, NEW fun, NEW names, Opens(p, x, fun, names),
                 p \notin CondProcs, UNCHANGED <<cond_info, outer_cond_id>>
          PROVE  Goal'
      <3>1. /\ Len(calls') = Depth + 1
            /\ \A i \in 1..Depth : calls'[i] = calls[i]
            /\ ~IsCond(calls'[Depth + 1])
        BY <2>4 DEF Opens, KeepsCalls, Activation, IsCond
      <3>2. AllSaved(cond_info, calls')
        BY <2>1, <3>1, SavedCall
      <3> QED
        BY <2>1, <2>4, <3>2
    <2>5. ASSUME NEW p, Becomes(p), p \in CondProcs <=> Top.proc \in CondProcs,
                 UNCHANGED <<cond_info, outer_cond_id>>
          PROVE  Goal'
      <3>1. /\ Len(calls') = Depth
            /\ \A i \in 1..(Depth - 1) : calls'[i] = calls[i]
            /\ calls'[Depth].saved = calls[Depth].saved
            /\ IsCond(calls'[Depth]) <=> IsCond(calls[Depth])
        BY <2>1, <2>5 DEF Becomes, KeepsCalls, IsCond
      <3>2. AllSaved(cond_info, calls')
        BY <2>1, <3>1, SavedBecome
      <3> QED
        BY <2>1, <2>5, <3>2
    <2>6. "funparam_def_list" \notin CondProcs
          /\ \A p \in LoopProcs : p \notin CondProcs
      BY DEF LoopProcs, CondProcs
    <2>7. CASE \E f \in Names : Defines(f)
      BY <2>4, <2>6, <2>7 DEF Defines, conds
    <2>8. CASE \E p \in LoopProcs, x \in Names \union {NoName},
                  names \in SUBSET Names : OpensLoop(p, x, names)
      BY <2>4, <2>6, <2>8 DEF OpensLoop, conds
    <2>9. CASE \/ \E x \in Names, t \in Types : TakesParameter(x, t)
               \/ \E rets \in Seq(Types) : EndsHeader(rets)
      <3>1. /\ Top.proc \notin CondProcs
            /\ "other_funparams" \notin CondProcs
            /\ "function_definition" \notin CondProcs
        BY <2>9 DEF TakesParameter, EndsHeader, HeaderProcs, CondProcs
      <3>2. UNCHANGED <<cond_info, outer_cond_id>>
        BY <2>9 DEF TakesParameter, EndsHeader, conds
      <3>3. Becomes("other_funparams") \/ Becomes("function_definition")
        BY <2>9 DEF TakesParameter, EndsHeader
      <3> QED
        BY <2>5, <3>1, <3>2, <3>3
    <2>10. CASE \E p \in CondProcs : NextBranch(p)
      <3>1. "cond_body" \in CondProcs
        BY DEF CondProcs
      <3> QED
        BY <2>5, <2>10, <3>1 DEF NextBranch
    <2>11. CASE OpensBranch
      <3> DEFINE a == Activation("cond_body", NoName)
      <3>1. /\ unique_id < MaxScopes
            /\ Len(calls') = Depth + 1
            /\ \A i \in 1..Depth : calls'[i] = calls[i]
            /\ calls'[Depth + 1] = a
            /\ cond_info' = PushCond(cond_info, cond_cnt, outer_cond_id)
            /\ outer_cond_id' = unique_id
        BY <2>11 DEF OpensBranch, Opens, KeepsCalls
      <3>2. a.proc \in CondProcs /\ a.saved = <<outer_cond_id, cond_cnt>>
        BY DEF Activation, CondProcs
      <3>3. IsCond(calls'[Depth + 1])
        BY <3>1, <3>2 DEF IsCond
      <3>4. Longer(calls, calls', Depth)
        BY <2>1, <3>1 DEF Longer
      <3>5. PICK l \in Nat : SixMore(cond_info, cond_info', l, calls'[Depth + 1])
        <4> HIDE DEF a
        <4> QED
          BY <2>1, <3>1, <3>2, TopIsPushed
      <3>6. AllSaved(cond_info', calls')
        BY <2>1, <3>3, <3>4, <3>5, SavedBegin
      <3>7. IdOK'
        <4>1. MaxScopes \in Nat /\ MaxScopes <= 100000 /\ unique_id \in Nat
          BY BoundsAssumption DEF IInv, TypeOK, ScopesOK
        <4> QED
          BY <3>1, <4>1
      <3> QED
        BY <3>6, <3>7
    <2>12. CASE Ends
      <3>1. /\ Len(calls') = n
            /\ \A i \in 1..n : calls'[i] = calls[i]
            /\ Len(calls) = n + 1
            /\ Top = calls[n + 1]
        <4>1. Depth - 1 = n
          BY <2>2
        <4> QED
          BY <2>1, <2>2, <2>12, <4>1 DEF Ends, KeepsCalls
      <3>2. CASE Top.proc \notin CondProcs
        <4>1. UNCHANGED <<cond_info, outer_cond_id>>
          BY <2>12, <3>2 DEF Ends, conds
        <4>2. AllSaved(cond_info, calls')
          BY <2>1, <3>1, <3>2, SavedReturn DEF IsCond
        <4> QED
          BY <2>1, <4>1, <4>2
      <3>3. CASE Top.proc \in CondProcs
        <4>1. /\ outer_cond_id' = PoppedId(cond_info)
              /\ cond_info' = PopCond(cond_info)
          BY <2>12, <3>3 DEF Ends, RestoreCond
        <4>2. Longer(calls', calls, Depth - 1)
          <5>1. Depth - 1 = n
            BY <2>2
          <5> QED
            BY <3>1, <5>1 DEF Longer
        <4>3. /\ PoppedId(cond_info) = Top.saved[1]
              /\ Top.saved[1] \in Nat /\ Top.saved[1] <= 99999
              /\ AllSaved(PopCond(cond_info), calls')
          BY <1>3, <3>3, <4>2, TopIsSaved
        <4> QED
          BY <4>1, <4>3
      <3> QED
        BY <3>2, <3>3
    <2>13. CASE \/ Stays
                \/ \E f \in Names, sig \in Signatures : Declares(f, sig)
                \/ \E x \in Names : AddsVariable(x)
      <3>1. UNCHANGED <<calls, conds>>
        BY <2>13 DEF Stays, Declares, AddsVariable
      <3> QED
        BY <2>3, <3>1 DEF conds
    <2> QED
      BY <1>3, <2>7, <2>8, <2>9, <2>10, <2>11, <2>12, <2>13, StepCases DEF Moves
  <1> QED
    BY <1>1, <1>2, <1>3 DEF CondsSaved

(* A step that returns from a branch restores what was saved.              *)
LEMMA RestoredStep ==
  ASSUME IInv, [Next]_vars, CondsSaved,
         phase = "running", phase' = "running",
         Top.proc \in CondProcs, calls' = Return
  PROVE  <<outer_cond_id', cond_cnt'>> = Top.saved
  <1>1. /\ Depth \in Nat \ {0} /\ Depth = Len(calls) /\ Top \in Activations
    BY DepthFacts, RunningFacts DEF Depth
  <1>2. Len(calls') = Depth - 1
    BY <1>1, RunningFacts, FrontFacts DEF Return
  <1>3. ASSUME NEW d, d = Len(calls'), d = Depth \/ d = Depth + 1
        PROVE  FALSE
    BY <1>1, <1>2, <1>3
  <1>4. Ends
    <2>1. ~Stays /\ ~(\E f \in Names, sig \in Signatures : Declares(f, sig))
          /\ ~(\E x \in Names : AddsVariable(x))
      BY <1>1, <1>3 DEF Stays, Declares, AddsVariable
    <2>2. ~(\E f \in Names : Defines(f)) /\ ~OpensBranch
      BY <1>3 DEF Defines, OpensBranch, Opens
    <2>3. ~(\E p \in LoopProcs, x \in Names \union {NoName},
               names \in SUBSET Names : OpensLoop(p, x, names))
      BY <1>3 DEF OpensLoop, Opens
    <2>4. /\ ~(\E x \in Names, t \in Types : TakesParameter(x, t))
          /\ ~(\E rets \in Seq(Types) : EndsHeader(rets))
          /\ ~(\E p \in CondProcs : NextBranch(p))
      BY <1>3 DEF TakesParameter, EndsHeader, NextBranch, Becomes
    <2> QED
      BY <2>1, <2>2, <2>3, <2>4, StepCases DEF Moves
  <1>5. /\ outer_cond_id' = PoppedId(cond_info)
        /\ cond_cnt' = PoppedCnt(cond_info)
    BY <1>4 DEF Ends, RestoreCond
  <1>6. /\ PoppedId(cond_info) = Top.saved[1]
        /\ PoppedCnt(cond_info) = Top.saved[2]
    BY TopIsSaved
  <1>7. Top.saved = <<Top.saved[1], Top.saved[2]>>
    BY <1>1 DEF Activations
  <1> QED
    BY <1>5, <1>6, <1>7

(* A char holds a small number.                                            *)
LEMMA SmallChar ==
  ASSUME NEW n \in Nat, n <= SCHAR_MAX
  PROVE  ToChar(n) = n
  <1>1. \A a \in Nat, b \in Nat \ {0} : a < b => a % b = a
    OBVIOUS
  <1>2. SCHAR_MAX \in Nat
    BY SCHAR_MAXAssumption
  <1>3. PICK a, b \in Nat : a = n + SCHAR_MAX + 1 /\ b = 2 * SCHAR_MAX + 2
    BY <1>2
  <1>4. a < b /\ b # 0
    BY <1>2, <1>3
  <1>5. a % b = a
    BY <1>1, <1>4
  <1>6. ToChar(n) = (a % b) - SCHAR_MAX - 1
    BY <1>3 DEF ToChar
  <1> QED
    BY <1>2, <1>3, <1>5, <1>6

(* The branch counters are positive, and no greater than the number of     *)
(* scopes opened.                                                          *)
CountersAreSmall ==
  /\ 1 <= cond_cnt /\ cond_cnt <= unique_id
  /\ phase = "running" =>
       \A i \in 1..Len(calls) : IsCond(calls[i]) =>
         1 <= calls[i].saved[2] /\ calls[i].saved[2] <= unique_id

(* What a program's last step does to the counter.                         *)
LEMMA LastConds ==
  ASSUME [Next]_vars, phase' # "running"
  PROVE  /\ cond_cnt' = cond_cnt \/ cond_cnt' = 1
         /\ unique_id' = unique_id \/ unique_id' = unique_id + 1
  <1>1. CASE program \/ unexpected_token \/ Free_parser \/ Terminating
               \/ UNCHANGED vars
    BY <1>1 DEF program, unexpected_token, Free_parser, Terminating, vars,
                conds, scopes
  <1>2. CASE GlobalStatement
    BY <1>2 DEF GlobalStatement, global_expression, stmt_list_end,
           function_definition, function_declaration, OpenScope, conds, scopes
  <1>3. CASE FunctionHeader
    BY <1>3 DEF FunctionHeader, funparam_def_list, other_funparams, funretopt,
           conds, scopes
  <1>4. CASE FunctionStatement
    <2>1. CASE \/ \E x \in Names : var_definition(x)
               \/ function_expression \/ return_stmt \/ break_
               \/ while_cycle \/ \E x \in Names : for_cycle(x)
               \/ repeat_until_cycle \/ repeat_until_end
      BY <2>1 DEF var_definition, function_expression, return_stmt, break_,
             while_cycle, for_cycle, repeat_until_cycle, repeat_until_end,
             OpenScope, CloseScope, conds, scopes
    <2>2. CASE if_statement \/ elseif_stmt \/ else_stmt
      BY <2>2 DEF if_statement, elseif_stmt, else_stmt, OpenScope, Proceed,
             InBody
    <2>3. CASE cond_body_end \/ fun_body_end
      BY <2>3 DEF cond_body_end, fun_body_end, SoftAssertFails, Proceed, conds,
             scopes
    <2> QED
      BY <1>4, <2>1, <2>2, <2>3 DEF FunctionStatement
  <1> QED
    BY <1>1, <1>2, <1>3, <1>4 DEF Next

(* The counters stay small if few scopes are opened.                       *)
LEMMA SmallStep ==
  ASSUME MaxScopes <= SCHAR_MAX, IInv, IInv', [Next]_vars, CondsSaved,
         CountersAreSmall
  PROVE  CountersAreSmall'
  <1> DEFINE Small(n) == 1 <= n /\ n <= unique_id
             AllSmall == \A i \in 1..Len(calls) :
                           IsCond(calls[i]) => Small(calls[i].saved[2])
  <1>1. /\ cond_cnt \in Int /\ unique_id \in Nat
        /\ cond_cnt' \in Int /\ unique_id' \in Nat
        /\ MaxScopes \in Nat /\ SCHAR_MAX \in Nat
    BY BoundsAssumption, SCHAR_MAXAssumption
       DEF IInv, TypeOK, CondsOK, ScopesOK
  <1>2. Small(cond_cnt)
    BY DEF CountersAreSmall
  <1>3. CASE phase' # "running"
    <2>1. /\ cond_cnt' = cond_cnt \/ cond_cnt' = 1
          /\ unique_id' = unique_id \/ unique_id' = unique_id + 1
      BY <1>3, LastConds
    <2> QED
      BY <1>1, <1>2, <1>3, <2>1 DEF CountersAreSmall
  <1>4. CASE phase' = "running" /\ phase # "running"
    <2>1. /\ UNCHANGED <<unique_id, cond_cnt>>
          /\ Len(calls') = 1 /\ calls'[1].proc = "stmt_list"
      BY <1>4, BeginsFacts DEF conds
    <2>2. ASSUME NEW i \in 1..Len(calls') PROVE ~IsCond(calls'[i])
      <3>1. i = 1
        BY <2>1
      <3> QED
        BY <2>1, <3>1 DEF IsCond, CondProcs
    <2> QED
      BY <1>2, <2>1, <2>2 DEF CountersAreSmall
  <1>5. CASE phase = "running" /\ phase' = "running"
    <2> SUFFICES Small(cond_cnt)' /\ AllSmall'
      BY <1>5 DEF CountersAreSmall
    <2>1. /\ Depth \in Nat \ {0} /\ Depth = Len(calls) /\ Top = calls[Depth]
          /\ AllSmall
          /\ \A i \in 1..Depth : calls[i].saved[2] \in Int
      BY <1>5, DepthFacts DEF CountersAreSmall, Depth, Activations
    <2>2. \A n \in Int : Small(n) /\ (\/ unique_id' = unique_id
                                      \/ unique_id' = unique_id + 1)
                           => 1 <= n /\ n <= unique_id'
      BY <1>1
    <2>3. ASSUME UNCHANGED <<calls, unique_id, conds>>
          PROVE  Small(cond_cnt)' /\ AllSmall'
      BY <1>2, <2>1, <2>3 DEF conds
    <2>4. ASSUME NEW p, Becomes(p), p \in CondProcs <=> Top.proc \in CondProcs,
                 unique_id' = unique_id \/ unique_id' = unique_id + 1
          PROVE  AllSmall'
      <3>1. /\ Len(calls') = Depth
            /\ \A i \in 1..(Depth - 1) : calls'[i] = calls[i]
            /\ calls'[Depth].saved = calls[Depth].saved
            /\ IsCond(calls'[Depth]) <=> IsCond(calls[Depth])
        BY <2>1, <2>4 DEF Becomes, KeepsCalls, IsCond
      <3>2. ASSUME NEW i \in 1..Depth, IsCond(calls'[i])
            PROVE  IsCond(calls[i]) /\ calls'[i].saved = calls[i].saved
        <4>1. i = Depth \/ i \in 1..(Depth - 1)
          BY <2>1
        <4> QED
          BY <3>1, <3>2, <4>1
      <3> QED
        BY <2>1, <2>2, <2>4, <3>1, <3>2
    <2>5. ASSUME NEW p, NEW x, NEW fun, NEW names, Opens(p, x, fun, names)
          PROVE  AllSmall'
      <3>1. /\ Len(calls') = Depth + 1
            /\ \A i \in 1..Depth : calls'[i] = calls[i]
            /\ calls'[Depth + 1].saved[2] = cond_cnt
            /\ unique_id' = unique_id + 1
        BY <2>5 DEF Opens, KeepsCalls, Activation
      <3>2. ASSUME NEW i \in 1..(Depth + 1), IsCond(calls'[i])
            PROVE  calls'[i].saved[2] \in Int /\ Small(calls'[i].saved[2])
        <4>1. i = Depth + 1 \/ i \in 1..Depth
          BY <2>1
        <4> QED
          BY <1>1, <1>2, <2>1, <3>1, <3>2, <4>1
      <3> QED
        BY <2>2, <3>1, <3>2
    <2>6. ASSUME NEW n \in Nat, n <= unique_id', n # 0, unique_id' <= MaxScopes,
                 cond_cnt' = ToChar(n)
          PROVE  Small(cond_cnt)'
      <3>1. n <= SCHAR_MAX
        BY <1>1, <2>6
      <3>2. cond_cnt' = n
        BY <2>6, <3>1, SmallChar
      <3> QED
        BY <2>6, <3>2
    <2>7. CASE OpensBranch
      <3>1. /\ unique_id < MaxScopes /\ unique_id' = unique_id + 1
            /\ cond_cnt' = ToChar(2)
            /\ Opens("cond_body", NoName, NoName, {})
        BY <2>7 DEF OpensBranch, Opens
      <3>2. 2 <= unique_id' /\ unique_id' <= MaxScopes
        BY <1>1, <1>2, <3>1
      <3> QED
        BY <2>5, <2>6, <3>1, <3>2
    <2>8. ASSUME NEW p \in CondProcs, NextBranch(p)
          PROVE  Small(cond_cnt)' /\ AllSmall'
      <3>1. /\ unique_id < MaxScopes /\ unique_id' = unique_id + 1
            /\ cond_cnt' = ToChar(cond_cnt + 1)
            /\ Becomes(p) /\ Top.proc \in CondProcs
        BY <2>8 DEF NextBranch, CondProcs
      <3>2. /\ cond_cnt + 1 \in Nat /\ cond_cnt + 1 # 0
            /\ cond_cnt + 1 <= unique_id' /\ unique_id' <= MaxScopes
        BY <1>1, <1>2, <3>1
      <3> QED
        BY <2>4, <2>6, <3>1, <3>2
    <2>9. CASE Ends
      <3>1. /\ Len(calls') = Depth - 1
            /\ \A i \in 1..(Depth - 1) : calls'[i] = calls[i]
            /\ unique_id' = unique_id
        BY <2>9 DEF Ends, KeepsCalls
      <3>2. AllSmall'
        BY <2>1, <3>1
      <3>3. CASE Top.proc \in CondProcs
        <4>1. cond_cnt' = PoppedCnt(cond_info)
          BY <2>9, <3>3 DEF Ends, RestoreCond
        <4>2. PoppedCnt(cond_info) = Top.saved[2]
          BY <1>5, <3>3, TopIsSaved
        <4>3. IsCond(calls[Depth]) /\ Depth \in 1..Len(calls)
          BY <2>1, <3>3 DEF IsCond
        <4> QED
          BY <2>1, <3>1, <3>2, <4>1, <4>2, <4>3
      <3>4. CASE Top.proc \notin CondProcs
        <4>1. cond_cnt' = cond_cnt
          BY <2>9, <3>4 DEF Ends, conds
        <4> QED
          BY <1>2, <3>1, <3>2, <4>1
      <3> QED
        BY <3>3, <3>4
    <2>10. CASE \/ Stays
                \/ \E f \in Names, sig \in Signatures : Declares(f, sig)
                \/ \E x \in Names : AddsVariable(x)
      <3>1. UNCHANGED <<calls, unique_id, conds>>
        BY <2>10 DEF Stays, Declares, AddsVariable, Puts
      <3> QED
        BY <2>3, <3>1
    <2>11. CASE \/ \E f \in Names : Defines(f)
                \/ \E p \in LoopProcs, x \in Names \union {NoName},
                      names \in SUBSET Names : OpensLoop(p, x, names)
      <3>1. /\ cond_cnt' = cond_cnt /\ unique_id' = unique_id + 1
        BY <2>11 DEF Defines, OpensLoop, Opens, conds
      <3>2. AllSmall'
        BY <2>5, <2>11 DEF Defines, OpensLoop
      <3> QED
        BY <1>1, <1>2, <2>2, <3>1, <3>2
    <2>12. CASE \/ \E x \in Names, t \in Types : TakesParameter(x, t)
                \/ \E rets \in Seq(Types) : EndsHeader(rets)
      <3>1. /\ Top.proc \notin CondProcs
            /\ "other_funparams" \notin CondProcs
            /\ "function_definition" \notin CondProcs
            /\ cond_cnt' = cond_cnt /\ unique_id' = unique_id
        BY <2>12 DEF TakesParameter, EndsHeader, HeaderProcs, CondProcs, Puts,
                     conds
      <3>2. Becomes("other_funparams") \/ Becomes("function_definition")
        BY <2>12 DEF TakesParameter, EndsHeader
      <3> QED
        BY <1>2, <2>4, <3>1, <3>2
    <2> QED
      BY <1>5, <2>7, <2>8, <2>9, <2>10, <2>11, <2>12, StepCases DEF Moves
  <1> QED
    BY <1>3, <1>4, <1>5

(***************************************************************************)
(* Theorems.                                                               *)
(***************************************************************************)
(* What is remembered, in one inductive invariant.                         *)
NamesInv == IInv /\ LocalsAreNotFunctions /\ FunctionAtBottom

SignaturesInv ==
  NamesInv /\ FunctionsAreKnown /\ SignaturesAgree /\ AcceptedFunctionsAgree

LoopsInv == IInv /\ IdsIncrease /\ PrologOutsideLoops /\ OuterLoopIsRemembered

(* The initial states.                                                     *)
LEMMA InitBookkeeping ==
  ASSUME Init
  PROVE  SignaturesInv /\ LoopsInv /\ CondsSaved /\ CountersAreSmall
  <1>1. IInv
    BY InitIInv
  <1>2. /\ phase = "prolog" /\ calls = <<>>
        /\ unique_id = 1 /\ in_loop = FALSE
        /\ outer_cond_id = 0 /\ cond_cnt = 1 /\ cond_info = <<>>
    BY DEF Init
  <1>3. Len(symstack) = 1 /\ symstack[1].uid = 0 /\ GlobalTable = Builtins
    BY DEF Init, GlobalTable
  <1>4. \A f \in Names :
          /\ functions[f].is_declared <=> f \in Builtins
          /\ functions[f].is_defined <=> f \in Builtins
          /\ functions[f].declaration = functions[f].definition
    BY DEF Init
  <1>5. NamesInv
    BY <1>1, <1>2 DEF NamesInv, LocalsAreNotFunctions, FunctionAtBottom
  <1>6. FunctionsAreKnown /\ SignaturesAgree /\ AcceptedFunctionsAgree
    BY <1>2, <1>3, <1>4
       DEF FunctionsAreKnown, SignaturesAgree, AcceptedFunctionsAgree
  <1>7. LoopsInv
    BY <1>1, <1>2, <1>3
       DEF LoopsInv, IdsIncrease, PrologOutsideLoops, OuterLoopIsRemembered
  <1>8. AllSaved(<<>>, <<>>)
    <2>1. Len(<<>>) = 0 /\ 0 \in Nat
      OBVIOUS
    <2>2. CondDepth(<<>>, 0) = 0
      BY <2>1, CondDepthFacts
    <2>3. \A i \in 1..Len(<<>>) : FALSE
      BY <2>1
    <2> QED
      BY <2>1, <2>2, <2>3 DEF AllSaved
  <1>9. CondsSaved
    BY <1>2, <1>8 DEF CondsSaved
  <1>10. CountersAreSmall
    BY <1>2 DEF CountersAreSmall
  <1> QED
    BY <1>5, <1>6, <1>7, <1>9, <1>10 DEF SignaturesInv

(* The steps.                                                              *)
LEMMA StepBookkeeping ==
  ASSUME [Next]_vars
  PROVE  /\ NamesInv => NamesInv'
         /\ SignaturesInv => SignaturesInv'
         /\ LoopsInv => LoopsInv'
  <1>1. IInv => IInv'
    BY StepIInv
  <1>2. NamesInv => NamesInv'
    BY <1>1, LocalsStep, FunctionStep DEF NamesInv
  <1>3. SignaturesInv => SignaturesInv'
    BY <1>1, <1>2, KnownStep, AgreeStep, AcceptedStep
       DEF SignaturesInv, NamesInv
  <1>4. PrologOutsideLoops => PrologOutsideLoops'
    BY PrologSteps DEF PrologOutsideLoops, vars, loops
  <1>5. LoopsInv => LoopsInv'
    BY <1>1, <1>4, IdsStep, LoopStep DEF LoopsInv
  <1> QED
    BY <1>2, <1>3, <1>5

(* In a body, the frame of the function being defined is the second one.   *)
LEMMA ReturnFacts ==
  ASSUME NamesInv
  PROVE  ReturnReadsOwnFunction
  <1> SUFFICES ASSUME InBody
               PROVE  /\ calls[2].proc = "function_definition"
                      /\ functions[calls[2].id].is_defined
                      /\ SS_Get_parent_func(symstack, calls[2].id, 1)
    BY DEF ReturnReadsOwnFunction
  <1>1. phase = "running" /\ Top.proc \in BodyProcs /\ IInv
    BY DEF InBody, NamesInv
  <1>2. /\ Depth \in Nat /\ Depth >= 2 /\ Len(symstack) = Depth
        /\ Depth = Len(calls) /\ Top = calls[Depth]
        /\ \A i \in 1..Depth : /\ calls[i].proc \in Procs
                               /\ symstack[i].type = ScopeOf(calls[i].proc)
                               /\ symstack[i].type = "function"
                                    => symstack[i].fun = calls[i].id
                               /\ calls[i].proc = "stmt_list" <=> i = 1
    BY <1>1, DepthFacts DEF Depth, Activations, BodyProcs, FunBodyCallers
  <1>3. /\ \A i \in 2..Depth :
             /\ calls[i].proc \in HeaderProcs \union {"function_definition"}
                  <=> i = 2
             /\ calls[i].proc \in HeaderProcs => i = Depth
        /\ calls[2].id \in GlobalTable
        /\ functions[calls[2].id].is_defined
    BY <1>1, <1>2 DEF NamesInv, FunctionAtBottom
  <1>4. \A i \in 1..Depth : symstack[i].type = "function" <=> i = 2
    <2>1. "stmt_list" \notin HeaderProcs \union {"function_definition"}
      BY DEF HeaderProcs
    <2> QED
      BY <1>2, <1>3, <2>1, ScopeOfFacts
  <1>5. calls[2].proc = "function_definition"
    <2>1. HeaderProcs \intersect BodyProcs = {}
      BY DEF HeaderProcs, BodyProcs, FunBodyCallers
    <2> QED
      BY <1>1, <1>2, <1>3, <2>1
  <1>6. IsParentFrame(symstack, 2) /\ symstack[2].fun = calls[2].id
    BY <1>2, <1>4 DEF IsParentFrame
  <1>7. IsFoundAt(symstack, calls[2].id, 1)
    BY <1>1, <1>2, <1>3
       DEF NamesInv, LocalsAreNotFunctions, GlobalTable, IsFoundAt
  <1>8. SS_Get_parent_func(symstack, calls[2].id, 1)
    BY <1>2, <1>6, <1>7 DEF SS_Get_parent_func
  <1> QED
    BY <1>3, <1>5, <1>8

(* No local variable has the name of a function, before or after the       *)
(* function is read: SEMANTICS_SYMTABLE_CHECK_AND_PUT (parser.c) looks in  *)
(* the local and in the global table only, and this is enough.             *)
THEOREM LocalsDistinct == Spec => []LocalsAreNotFunctions
  <1>1. Init => NamesInv
    BY InitBookkeeping DEF SignaturesInv
  <1>2. NamesInv /\ [Next]_vars => NamesInv'
    BY StepBookkeeping
  <1>3. NamesInv => LocalsAreNotFunctions
    BY DEF NamesInv
  <1> QED
    BY <1>1, <1>2, <1>3, PTL DEF Spec

(* A return statement's types are checked against those of the function it *)
(* stands in (parser.c:674, symstack.c:249).                               *)
THEOREM ReturnCorrect == Spec => []ReturnReadsOwnFunction
  <1>1. Init => NamesInv
    BY InitBookkeeping DEF SignaturesInv
  <1>2. NamesInv /\ [Next]_vars => NamesInv'
    BY StepBookkeeping
  <1>3. NamesInv => ReturnReadsOwnFunction
    BY ReturnFacts
  <1> QED
    BY <1>1, <1>2, <1>3, PTL DEF Spec

(* A signature does not change once calls were checked against it.         *)
THEOREM SignaturesFinal == Spec => SignaturesAreFinal
  <1> DEFINE Final ==
        \A f \in Names :
          /\ functions[f].is_declared =>
               functions'[f].declaration = functions[f].declaration
          /\ (functions[f].is_defined /\ ~ReadingHeader(f))
               => functions'[f].definition = functions[f].definition
  <1>1. Init => SignaturesInv
    BY InitBookkeeping
  <1>2. SignaturesInv /\ [Next]_vars => SignaturesInv'
    BY StepBookkeeping
  <1>3. SignaturesInv /\ [Next]_vars => [Final]_vars
    BY FinalStep DEF SignaturesInv, NamesInv
  <1>4. Spec => [][Final]_vars
    <2> HIDE DEF Final
    <2> QED
      BY <1>1, <1>2, <1>3, PTL DEF Spec
  <1> QED
    BY <1>4 DEF SignaturesAreFinal

(* What an accepted program declares, it defines with that signature.      *)
THEOREM AcceptedCorrect == Spec => []AcceptedFunctionsAgree
  <1>1. Init => SignaturesInv
    BY InitBookkeeping
  <1>2. SignaturesInv /\ [Next]_vars => SignaturesInv'
    BY StepBookkeeping
  <1>3. SignaturesInv => AcceptedFunctionsAgree
    BY DEF SignaturesInv
  <1> QED
    BY <1>1, <1>2, <1>3, PTL DEF Spec

(* Definitions are hoisted inside cycles, out of the outermost one.        *)
THEOREM OuterLoopCorrect == Spec => []OuterLoopIsRemembered
  <1>1. Init => LoopsInv
    BY InitBookkeeping
  <1>2. LoopsInv /\ [Next]_vars => LoopsInv'
    BY StepBookkeeping
  <1>3. LoopsInv => OuterLoopIsRemembered
    BY DEF LoopsInv
  <1> QED
    BY <1>1, <1>2, <1>3, PTL DEF Spec

(* The end of an if statement restores the counters of the enclosing one,  *)
(* as long as the counter, a char, does not wrap to 0: pushed as a NUL, it *)
(* would be overwritten (code_generator.c:886).                            *)
THEOREM BranchesRestored == Spec /\ [](cond_cnt # 0) => CondInfoRestored
  <1> DEFINE Restored ==
        (/\ phase = "running" /\ phase' = "running"
         /\ Top.proc \in CondProcs /\ calls' = Return)
        => <<outer_cond_id', cond_cnt'>> = Top.saved
  <1>1. Init => IInv /\ CondsSaved
    BY InitBookkeeping DEF LoopsInv
  <1>2. IInv /\ CondsSaved /\ cond_cnt # 0 /\ [Next]_vars
          => (IInv /\ CondsSaved)'
    BY StepIInv, CondsStep
  <1>3. IInv /\ CondsSaved /\ [Next]_vars => [Restored]_vars
    BY RestoredStep
  <1>4. Spec /\ [](cond_cnt # 0) => [][Restored]_vars
    <2> HIDE DEF Restored
    <2> QED
      BY <1>1, <1>2, <1>3, PTL DEF Spec
  <1> QED
    BY <1>4 DEF CondInfoRestored

(* Under the same condition no if statement is ended by the soft assertion *)
(* of Dynstring.trunc_to_len: its six characters are there.                *)
THEOREM BranchesCanEnd ==
  Spec /\ [](cond_cnt # 0)
    => [](phase = "running" /\ Top.proc \in CondProcs => CanPop(cond_info))
  <1>1. Init => IInv /\ CondsSaved
    BY InitBookkeeping DEF LoopsInv
  <1>2. IInv /\ CondsSaved /\ cond_cnt # 0 /\ [Next]_vars
          => (IInv /\ CondsSaved)'
    BY StepIInv, CondsStep
  <1>3. IInv /\ CondsSaved
          => (phase = "running" /\ Top.proc \in CondProcs => CanPop(cond_info))
    BY TopIsSaved
  <1> QED
    BY <1>1, <1>2, <1>3, PTL DEF Spec

(* With no more scopes than a char can count, the counter does not wrap.   *)
THEOREM FewBranchesRestored ==
  ASSUME MaxScopes <= SCHAR_MAX
  PROVE  Spec => CondInfoRestored
  <1> DEFINE Inv == IInv /\ CondsSaved /\ CountersAreSmall
  <1>1. Init => Inv
    BY InitBookkeeping DEF LoopsInv
  <1>2. Inv => cond_cnt # 0
    BY DEF CountersAreSmall, IInv, TypeOK, CondsOK
  <1>3. Inv /\ [Next]_vars => Inv'
    <2> SUFFICES ASSUME Inv, [Next]_vars PROVE Inv'
      OBVIOUS
    <2>1. IInv'
      BY StepIInv
    <2>2. CondsSaved'
      BY <1>2, CondsStep
    <2>3. CountersAreSmall'
      BY <2>1, SmallStep
    <2> QED
      BY <2>1, <2>2, <2>3
  <1>4. Spec => [](cond_cnt # 0)
    <2> HIDE DEF Inv
    <2> QED
      BY <1>1, <1>2, <1>3, PTL DEF Spec
  <1> QED
    BY <1>4, BranchesRestored, PTL
=============================================================================
