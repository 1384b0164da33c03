---------------------------- MODULE Builtins_proofs ----------------------------
(***************************************************************************)
(* The loop of substr, for all strings and positions.                      *)
(***************************************************************************)
EXTENDS Builtins, SequenceTheorems, TLAPS

String == Seq(0..255)

OrdOK == label = "ord" =>
  /\ params = <<params[1], params[2]>>
  /\ params[1] \in String \union {nil} /\ params[2] \in Int \union {nil}

SubstrOK == label = "substr" =>
  /\ params = <<params[1], params[2], params[3]>>
  /\ params[1] \in String \union {nil}
  /\ params[2] \in Int \union {nil} /\ params[3] \in Int \union {nil}
  /\ call.args[2] = params[2] /\ call.args[3] = params[3]

(* return0 is the part of the string from the first position to the one    *)
(* that LF@%1 has come to.                                                 *)
LoopOK == label \in {"LOOP", "$substr$end"} =>
  /\ params = <<params[1], params[2], params[3]>>
  /\ params[1] \in String /\ params[2] \in Int /\ params[3] \in Int
  /\ call.args[2] \in Int /\ call.args[3] = params[3]
  /\ 1 <= call.args[2] /\ call.args[2] <= params[3] /\ params[3] <= Len(params[1])
  /\ call.args[2] - 1 <= params[2]
  /\ return0 = SubSeq(params[1], call.args[2], params[2])
  /\ IF label = "LOOP" THEN params[2] < params[3] ELSE params[2] = params[3]

ExitOK == label # "stopped" => exit = 0

LibraryInv == OrdOK /\ SubstrOK /\ LoopOK /\ ExitOK /\ StopsForNilOnly

(***************************************************************************)
(* The interpreter gives a string, if it accepts the literal.              *)
(***************************************************************************)
LEMMA OperandIsString ==
  ASSUME NEW s \in Values("s"), ~ Malformed(s)
  PROVE  Operand(s) \in String \union {nil}
  BY DEF Operand, Malformed, Accepted, String

LEMMA ValuesFacts ==
  /\ Values("i") \subseteq Int \union {nil}
  /\ String \subseteq Seq(0..255) /\ nil \notin String /\ nil \notin Int
  BY ValuesAssumption DEF Values, String

LEMMA InitInv == Init => LibraryInv
  BY DEF Init, LibraryInv, OrdOK, SubstrOK, LoopOK, ExitOK, StopsForNilOnly

LEMMA PassPreserves ==
  ASSUME LibraryInv,
         call_read \/ call_write \/ call_tointeger \/ call_chr \/ call_ord \/ call_substr
  PROVE  LibraryInv'
<1>1. CASE call_ord
  <2>1. PICK s \in Values("s"), i \in Values("i") :
          Pass("ord", <<s, i>>, <<Operand(s), i>>, Malformed(s))
    BY <1>1 DEF call_ord
  <2>2. ~ Malformed(s) => Operand(s) \in String \union {nil}
    BY OperandIsString
  <2>3. i \in Int \union {nil}
    BY ValuesFacts
  <2>4. OrdOK'
    BY <2>1, <2>2, <2>3 DEF Pass, OrdOK
  <2> QED  BY <2>1, <2>4 DEF Pass, LibraryInv, SubstrOK, LoopOK, ExitOK, StopsForNilOnly,
                             ERROR_TEXT
<1>2. CASE call_substr
  <2>1. PICK s \in Values("s"), i \in Values("i"), j \in Values("i") :
          Pass("substr", <<s, i, j>>, <<Operand(s), i, j>>, Malformed(s))
    BY <1>2 DEF call_substr
  <2>2. ~ Malformed(s) => Operand(s) \in String \union {nil}
    BY OperandIsString
  <2>3. i \in Int \union {nil} /\ j \in Int \union {nil}
    BY ValuesFacts
  <2>4. SubstrOK'
    BY <2>1, <2>2, <2>3 DEF Pass, SubstrOK, Call
  <2> QED  BY <2>1, <2>4 DEF Pass, LibraryInv, OrdOK, LoopOK, ExitOK, StopsForNilOnly,
                             ERROR_TEXT
<1>3. CASE call_read \/ call_write \/ call_tointeger \/ call_chr
  <2>1. /\ label' \in {"reads", "readi", "readn", "write", "tointeger", "chr", "stopped"}
        /\ exit' \in {0, ERROR_TEXT} /\ (label' # "stopped" => exit' = 0)
    BY <1>3 DEF call_read, call_write, call_tointeger, call_chr, Pass
  <2> QED  BY <2>1 DEF LibraryInv, OrdOK, SubstrOK, LoopOK, ExitOK, StopsForNilOnly
<1> QED  BY <1>1, <1>2, <1>3

(* The actions that return or stop at once.                                *)
LEMMA ReturnPreserves ==
  ASSUME LibraryInv, label # "stopped", NEW v, Return(v)
  PROVE  LibraryInv'
  BY DEF Return, LibraryInv, OrdOK, SubstrOK, LoopOK, ExitOK, StopsForNilOnly

LEMMA NilPreserves ==
  ASSUME LibraryInv, nil_argument
  PROVE  LibraryInv'
  BY DEF nil_argument, HasNil, Stop, LibraryInv, OrdOK, SubstrOK, LoopOK, ExitOK,
         StopsForNilOnly, ERROR_NIL

LEMMA SimplePreserves ==
  ASSUME LibraryInv, reads \/ readi \/ readn \/ write \/ tointeger \/ chr \/ substr_end
  PROVE  LibraryInv'
<1>1. CASE write
  BY <1>1 DEF write, LibraryInv, OrdOK, SubstrOK, LoopOK, ExitOK, StopsForNilOnly
<1>2. CASE reads \/ readi \/ readn \/ tointeger \/ chr \/ substr_end
  <2>1. label # "stopped" /\ \E v : Return(v)
    BY <1>2 DEF reads, readi, readn, tointeger, chr, substr_end
  <2> QED  BY <2>1, ReturnPreserves
<1> QED  BY <1>1, <1>2

LEMMA OrdPreserves ==
  ASSUME LibraryInv, ord
  PROVE  LibraryInv'
<1>1. label = "ord" /\ params = <<params[1], params[2]>>
        /\ params[1] # nil /\ params[2] # nil
  BY DEF LibraryInv, OrdOK, ord, HasNil
<1>2. params[1] \in String /\ params[2] \in Int /\ Len(params[1]) \in Nat
  BY <1>1 DEF LibraryInv, OrdOK, String
<1>3. \E v : Return(v)
  BY <1>2 DEF ord, Outside, Exists
<1> QED  BY <1>1, <1>3, ReturnPreserves

LEMMA SubstrFacts ==
  ASSUME LibraryInv, substr
  PROVE  /\ params[1] \in String /\ params[2] \in Int /\ params[3] \in Int
         /\ params = <<params[1], params[2], params[3]>> /\ Len(params[1]) \in Nat
         /\ call.args[2] = params[2] /\ call.args[3] = params[3]
<1>1. label = "substr" /\ params = <<params[1], params[2], params[3]>>
        /\ params[1] # nil /\ params[2] # nil /\ params[3] # nil
  BY DEF LibraryInv, SubstrOK, substr, HasNil
<1> QED  BY <1>1 DEF LibraryInv, SubstrOK, String

LEMMA EmptyPart ==
  ASSUME NEW s \in String, NEW i \in Int
  PROVE  SubSeq(s, i, i - 1) = <<>>
  BY DEF String

LEMMA SubstrPreserves ==
  ASSUME LibraryInv, substr
  PROVE  LibraryInv'
<1> DEFINE refused == \/ Outside(params[1], params[2]) \/ Outside(params[1], params[3])
                      \/ params[3] < params[2]
<1>0. label = "substr"
  BY DEF substr
<1>1. CASE refused
  BY <1>0, <1>1, ReturnPreserves DEF substr
<1>2. CASE ~ refused
  <2>1. /\ params' = [params EXCEPT ![2] = @ - 1] /\ return0' = <<>> /\ label' = "LOOP"
        /\ UNCHANGED <<call, exit>>
    BY <1>2 DEF substr
  <2>2. params' = <<params[1], params[2] - 1, params[3]>>
    BY <2>1, SubstrFacts
  <2>3. /\ 1 <= params[2] /\ params[2] <= params[3] /\ params[3] <= Len(params[1])
    BY <1>2, SubstrFacts DEF Outside
  <2>4. SubSeq(params[1], params[2], params[2] - 1) = <<>>
    BY SubstrFacts, EmptyPart
  <2>5. LoopOK'
    BY <2>1, <2>2, <2>3, <2>4, SubstrFacts DEF LoopOK
  <2> QED  BY <1>0, <2>1, <2>5 DEF LibraryInv, OrdOK, SubstrOK, ExitOK, StopsForNilOnly
<1> QED  BY <1>1, <1>2

(* A character behind a part of a string makes it longer by one.           *)
LEMMA LongerPart ==
  ASSUME NEW S, NEW s \in Seq(S), NEW i \in Int, NEW j \in Int,
         1 <= i, i - 1 <= j, j < Len(s)
  PROVE  Append(SubSeq(s, i, j), s[j + 1]) = SubSeq(s, i, j + 1)
<1> DEFINE a == SubSeq(s, i, j)
           b == SubSeq(s, i, j + 1)
<1>1. /\ a \in Seq(S) /\ Len(a) = j - i + 1 /\ \A k \in 1..j - i + 1 : a[k] = s[i + k - 1]
      /\ b \in Seq(S) /\ Len(b) = j - i + 2 /\ \A k \in 1..j - i + 2 : b[k] = s[i + k - 1]
      /\ s[j + 1] \in S
  <2>1. Len(s) \in Nat /\ \A k \in 1..Len(s) : s[k] \in S
    OBVIOUS
  <2>2. (\A k \in i..j : s[k] \in S) /\ \A k \in i..j + 1 : s[k] \in S
    BY <2>1
  <2>3. /\ a \in Seq(S) /\ Len(a) = IF i <= j THEN j - i + 1 ELSE 0
        /\ \A k \in 1..j - i + 1 : a[k] = s[i + k - 1]
    BY <2>2, SubSeqProperties
  <2>4. /\ b \in Seq(S) /\ Len(b) = IF i <= j + 1 THEN (j + 1) - i + 1 ELSE 0
        /\ \A k \in 1..(j + 1) - i + 1 : b[k] = s[i + k - 1]
    <3>1. j + 1 \in Int
      OBVIOUS
    <3> QED  BY <2>2, <3>1, SubSeqProperties
  <2> HIDE DEF a, b
  <2> QED  BY <2>1, <2>3, <2>4
<1> HIDE DEF a, b
<1>2. Append(a, s[j + 1]) \in Seq(S) /\ Len(Append(a, s[j + 1])) = Len(b)
  BY <1>1
<1>3. \A k \in 1..Len(b) : Append(a, s[j + 1])[k] = b[k]
  BY <1>1
<1>4. Append(a, s[j + 1]) = b
  BY <1>1, <1>2, <1>3
<1> QED  BY <1>4 DEF a, b

LEMMA LoopPreserves ==
  ASSUME LibraryInv, LOOP
  PROVE  LibraryInv'
<1>1. /\ label = "LOOP" /\ params = <<params[1], params[2], params[3]>>
      /\ params[1] \in String /\ params[2] \in Int /\ params[3] \in Int
      /\ Len(params[1]) \in Nat
      /\ call.args[2] \in Int /\ call.args[3] = params[3]
      /\ 1 <= call.args[2] /\ call.args[2] <= params[3] /\ params[3] <= Len(params[1])
      /\ call.args[2] - 1 <= params[2] /\ params[2] < params[3]
      /\ return0 = SubSeq(params[1], call.args[2], params[2])
  BY DEF LOOP, LibraryInv, LoopOK, String
<1>2. Exists(params[1], params[2])
  BY <1>1 DEF Exists
<1>3. /\ return0' = Append(return0, params[1][params[2] + 1])
      /\ params' = [params EXCEPT ![2] = @ + 1]
      /\ label' = IF params[2] + 1 < params[3] THEN "LOOP" ELSE "$substr$end"
      /\ UNCHANGED <<call, exit>>
  BY <1>2 DEF LOOP
<1>4. params' = <<params[1], params[2] + 1, params[3]>>
  BY <1>1, <1>3
<1>5. return0' = SubSeq(params[1], call.args[2], params[2] + 1)
  <2>1. params[2] < Len(params[1])
    BY <1>1
  <2>2. Append(SubSeq(params[1], call.args[2], params[2]), params[1][params[2] + 1])
          = SubSeq(params[1], call.args[2], params[2] + 1)
    BY <1>1, <2>1, LongerPart DEF String
  <2> QED  BY <1>1, <1>3, <2>2
<1>6. LoopOK'
  <2>1. /\ params' = <<params'[1], params'[2], params'[3]>> /\ params'[1] = params[1]
        /\ params'[2] = params[2] + 1 /\ params'[3] = params[3]
    BY <1>4
  <2>2. IF label' = "LOOP" THEN params'[2] < params'[3] ELSE params'[2] = params'[3]
    BY <1>1, <1>3, <2>1
  <2>3. /\ params'[1] \in String /\ params'[2] \in Int /\ params'[3] \in Int
        /\ call'.args[2] \in Int /\ call'.args[3] = params'[3]
        /\ 1 <= call'.args[2] /\ call'.args[2] <= params'[3]
        /\ params'[3] <= Len(params'[1]) /\ call'.args[2] - 1 <= params'[2]
        /\ return0' = SubSeq(params'[1], call'.args[2], params'[2])
    <3>1. call' = call
      BY ONLY <1>3
    <3>2. /\ params'[1] \in String /\ params'[2] \in Int /\ params'[3] \in Int
          /\ params'[3] <= Len(params'[1])
      BY ONLY <1>1, <2>1
    <3>3. /\ call'.args[2] \in Int /\ call'.args[3] = params'[3]
          /\ 1 <= call'.args[2] /\ call'.args[2] <= params'[3]
      BY ONLY <1>1, <2>1, <3>1
    <3>4. call'.args[2] - 1 <= params'[2]
      BY ONLY <1>1, <2>1, <3>1
    <3>5. return0' = SubSeq(params'[1], call'.args[2], params'[2])
      BY ONLY <1>5, <2>1, <3>1
    <3> QED  BY ONLY <3>2, <3>3, <3>4, <3>5
  <2> QED  BY <2>1, <2>2, <2>3 DEF LoopOK
<1> QED  BY <1>1, <1>3, <1>6 DEF LibraryInv, OrdOK, SubstrOK, ExitOK, StopsForNilOnly

LEMMA LibraryPreserves == LibraryInv /\ [Next]_vars => LibraryInv'
<1> SUFFICES ASSUME LibraryInv, [Next]_vars PROVE LibraryInv'
  OBVIOUS
<1>1. CASE Terminating \/ UNCHANGED vars
  BY <1>1 DEF Terminating, vars, LibraryInv, OrdOK, SubstrOK, LoopOK, ExitOK, StopsForNilOnly
<1> QED  BY <1>1, PassPreserves, SimplePreserves, NilPreserves, OrdPreserves,
            SubstrPreserves, LoopPreserves DEF Next, Run

LEMMA LibraryInvariant == Init /\ [][Next]_vars => []LibraryInv
  BY InitInv, LibraryPreserves, PTL

(* For all strings and numbers: a call stops the program for nil only, and *)
(* takes no character that a string does not have.                         *)
THEOREM CallsStopForNilOnly == Spec => []StopsForNilOnly
<1>1. LibraryInv => StopsForNilOnly
  BY DEF LibraryInv
<1> QED  BY <1>1, LibraryInvariant, PTL DEF Spec

-----------------------------------------------------------------------------
(***************************************************************************)
(* The code implements the library, if escaped literals are read back as   *)
(* they were written.                                                      *)
(***************************************************************************)
LiteralsSurvive ==
  \A s \in Values("s") : Malformed(s) = FALSE /\ Operand(s) = s

CallOK ==
  /\ label = "caller" => call = NoCall /\ exit = 0
  /\ label \in {"reads", "readi", "readn"} => call = Call(label, <<>>)
  /\ label \in {"write", "tointeger", "chr", "ord", "substr"} => call = Call(label, params)
  /\ label \in {"write", "tointeger", "chr"} => params = <<params[1]>>
  /\ label = "chr" => params[1] \in Int \union {nil}
  /\ label \in {"LOOP", "$substr$end"} =>
       call = Call("substr", <<params[1], call.args[2], call.args[3]>>)

LEMMA PassCall ==
  ASSUME LiteralsSurvive,
         call_read \/ call_write \/ call_tointeger \/ call_chr \/ call_ord \/ call_substr
  PROVE  CallOK'
<1>1. CASE call_read
  BY <1>1 DEF call_read, Pass, CallOK
<1>2. CASE call_write
  <2>1. \E s \in Values("s") : Pass("write", <<s>>, <<s>>, FALSE)
    BY <1>2 DEF call_write, LiteralsSurvive
  <2> QED  BY <2>1 DEF Pass, CallOK
<1>3. CASE call_tointeger
  BY <1>3 DEF call_tointeger, Pass, CallOK
<1>4. CASE call_chr
  BY <1>4, ValuesFacts DEF call_chr, Pass, CallOK
<1>5. CASE call_ord
  <2>1. \E s \in Values("s"), i \in Values("i") : Pass("ord", <<s, i>>, <<s, i>>, FALSE)
    BY <1>5 DEF call_ord, LiteralsSurvive
  <2> QED  BY <2>1 DEF Pass, CallOK
<1>6. CASE call_substr
  <2>1. \E s \in Values("s"), i, j \in Values("i") :
          Pass("substr", <<s, i, j>>, <<s, i, j>>, FALSE)
    BY <1>6 DEF call_substr, LiteralsSurvive
  <2> QED  BY <2>1 DEF Pass, CallOK
<1> QED  BY <1>1, <1>2, <1>3, <1>4, <1>5, <1>6

LEMMA ReturnCall ==
  ASSUME LibraryInv, label # "stopped", NEW v, Return(v)
  PROVE  CallOK'
  BY DEF Return, CallOK, LibraryInv, ExitOK

LEMMA SubstrCall ==
  ASSUME LibraryInv, CallOK, substr
  PROVE  CallOK'
<1>1. label = "substr" /\ call = Call("substr", params)
  BY DEF substr, CallOK
<1>2. CASE \E v : Return(v)
  BY <1>1, <1>2, ReturnCall
<1>3. CASE ~ \E v : Return(v)
  <2>1. params' = [params EXCEPT ![2] = @ - 1] /\ label' = "LOOP" /\ call' = call
    BY <1>3 DEF substr
  <2>2. params' = <<params[1], params[2] - 1, params[3]>>
    BY <2>1, SubstrFacts
  <2>3. call = Call("substr", <<params[1], call.args[2], call.args[3]>>)
    BY <1>1, SubstrFacts DEF Call
  <2>4. call' = Call("substr", <<params'[1], call'.args[2], call'.args[3]>>)
    BY <2>1, <2>2, <2>3
  <2> QED  BY <2>1, <2>4 DEF CallOK
<1> QED  BY <1>2, <1>3

LEMMA LoopCall ==
  ASSUME LibraryInv, CallOK, LOOP
  PROVE  CallOK'
<1>1. /\ label = "LOOP" /\ params = <<params[1], params[2], params[3]>>
      /\ call = Call("substr", <<params[1], call.args[2], call.args[3]>>)
  BY DEF LOOP, LibraryInv, LoopOK, CallOK
<1>2. CASE Exists(params[1], params[2])
  <2>1. /\ params' = [params EXCEPT ![2] = @ + 1] /\ call' = call
        /\ label' \in {"LOOP", "$substr$end"}
    BY <1>2 DEF LOOP
  <2>2. params' = <<params[1], params[2] + 1, params[3]>>
    BY <1>1, <2>1
  <2>3. call' = Call("substr", <<params'[1], call'.args[2], call'.args[3]>>)
    BY <1>1, <2>1, <2>2
  <2> QED  BY <2>1, <2>3 DEF CallOK
<1>3. CASE ~ Exists(params[1], params[2])
  BY <1>3 DEF LOOP, Stop, CallOK
<1> QED  BY <1>2, <1>3

LEMMA CallPreserved ==
  ASSUME LiteralsSurvive, LibraryInv, CallOK, [Next]_vars
  PROVE  CallOK'
<1>1. CASE Terminating \/ UNCHANGED vars
  BY <1>1 DEF Terminating, vars, CallOK
<1>2. CASE nil_argument
  BY <1>2 DEF nil_argument, Stop, CallOK
<1>3. CASE write
  BY <1>3 DEF write, CallOK, LibraryInv, ExitOK
<1>4. CASE reads \/ readi \/ readn \/ tointeger \/ chr \/ substr_end
  <2>1. label # "stopped" /\ \E v : Return(v)
    BY <1>4 DEF reads, readi, readn, tointeger, chr, substr_end
  <2> QED  BY <2>1, ReturnCall
<1>5. CASE ord
  <2>1. CASE \E v : Return(v)
    BY <1>5, <2>1, ReturnCall DEF ord
  <2>2. CASE Stop(ERROR_INDEX)
    BY <2>2 DEF Stop, CallOK
  <2> QED  BY <1>5, <2>1, <2>2 DEF ord
<1> QED  BY <1>1, <1>2, <1>3, <1>4, <1>5, PassCall, SubstrCall, LoopCall DEF Next, Run

LEMMA SameValues ==
  /\ Promise!NoCall = NoCall /\ \A f, args : Promise!Call(f, args) = Call(f, args)
  /\ \A k : Promise!Values(k) = Values(k)
  /\ Promise!NIL_STRING = NIL_STRING
  /\ \A x : Promise!Truncated(x) = FLOAT2INT(x)
  BY DEF Promise!NoCall, Promise!Call, Promise!Values, Promise!NIL_STRING,
         Promise!Truncated, NoCall, Call, Values, NIL_STRING, FLOAT2INT

LEMMA PassAsks ==
  ASSUME CallOK, NEW f, NEW args, NEW values, NEW kinds, Pass(f, args, values, FALSE),
         DOMAIN args = DOMAIN kinds, \A k \in DOMAIN kinds : args[k] \in Values(kinds[k])
  PROVE  Promise!Ask(f, kinds)
<1>1. /\ call = NoCall /\ exit = 0 /\ exit' = 0 /\ answer' = nil /\ written' = nil
      /\ call' = Call(f, args)
  BY DEF Pass, CallOK
<1>2. call'.args = args /\ call' = Promise!Call(f, call'.args)
  BY <1>1, SameValues DEF Call
<1>3. \A k \in DOMAIN kinds : call'.args[k] \in Promise!Values(kinds[k])
  BY <1>2, SameValues
<1> QED  BY <1>1, <1>2, <1>3, SameValues DEF Promise!Ask

LEMMA PassRefines ==
  ASSUME LiteralsSurvive, CallOK,
         call_read \/ call_write \/ call_tointeger \/ call_chr \/ call_ord \/ call_substr
  PROVE  Promise!AskAny
<1>2. CASE call_read
  <2>1. PICK f \in {"reads", "readi", "readn"} : Pass(f, <<>>, <<>>, FALSE)
    BY <1>2 DEF call_read
  <2>2. Promise!Ask(f, <<>>)
    <3> DEFINE args == <<>>
               kinds == <<>>
    <3>1. /\ DOMAIN args = DOMAIN kinds
          /\ \A k \in DOMAIN kinds : args[k] \in Values(kinds[k])
      OBVIOUS
    <3>2. Pass(f, args, args, FALSE)
      BY <2>1
    <3> HIDE DEF args, kinds
    <3>3. Promise!Ask(f, kinds)
      BY <3>1, <3>2, PassAsks
    <3> QED  BY <3>3 DEF kinds
  <2> QED  BY <2>2 DEF Promise!AskAny
<1>3. CASE call_write
  <2>1. PICK s \in Values("s") : Pass("write", <<s>>, <<s>>, FALSE)
    BY <1>3 DEF call_write, LiteralsSurvive
  <2>2. Promise!Ask("write", <<"s">>)
    <3> DEFINE args == <<s>>
               kinds == <<"s">>
    <3>1. /\ DOMAIN args = DOMAIN kinds
          /\ \A k \in DOMAIN kinds : args[k] \in Values(kinds[k])
      OBVIOUS
    <3>2. Pass("write", args, args, FALSE)
      BY <2>1
    <3> HIDE DEF args, kinds
    <3>3. Promise!Ask("write", kinds)
      BY <3>1, <3>2, PassAsks
    <3> QED  BY <3>3 DEF kinds
  <2> QED  BY <2>2 DEF Promise!AskAny
<1>4. CASE call_tointeger
  <2>1. PICK x \in Values("f") : Pass("tointeger", <<x>>, <<x>>, FALSE)
    BY <1>4 DEF call_tointeger
  <2>2. Promise!Ask("tointeger", <<"f">>)
    <3> DEFINE args == <<x>>
               kinds == <<"f">>
    <3>1. /\ DOMAIN args = DOMAIN kinds
          /\ \A k \in DOMAIN kinds : args[k] \in Values(kinds[k])
      OBVIOUS
    <3>2. Pass("tointeger", args, args, FALSE)
      BY <2>1
    <3> HIDE DEF args, kinds
    <3>3. Promise!Ask("tointeger", kinds)
      BY <3>1, <3>2, PassAsks
    <3> QED  BY <3>3 DEF kinds
  <2> QED  BY <2>2 DEF Promise!AskAny
<1>5. CASE call_chr
  <2>1. PICK i \in Values("i") : Pass("chr", <<i>>, <<i>>, FALSE)
    BY <1>5 DEF call_chr
  <2>2. Promise!Ask("chr", <<"i">>)
    <3> DEFINE args == <<i>>
               kinds == <<"i">>
    <3>1. /\ DOMAIN args = DOMAIN kinds
          /\ \A k \in DOMAIN kinds : args[k] \in Values(kinds[k])
      OBVIOUS
    <3>2. Pass("chr", args, args, FALSE)
      BY <2>1
    <3> HIDE DEF args, kinds
    <3>3. Promise!Ask("chr", kinds)
      BY <3>1, <3>2, PassAsks
    <3> QED  BY <3>3 DEF kinds
  <2> QED  BY <2>2 DEF Promise!AskAny
<1>6. CASE call_ord
  <2>1. PICK s \in Values("s"), i \in Values("i") : Pass("ord", <<s, i>>, <<s, i>>, FALSE)
    BY <1>6 DEF call_ord, LiteralsSurvive
  <2>2. Promise!Ask("ord", <<"s", "i">>)
    <3> DEFINE args == <<s, i>>
               kinds == <<"s", "i">>
    <3>1. /\ DOMAIN args = DOMAIN kinds
          /\ \A k \in DOMAIN kinds : args[k] \in Values(kinds[k])
      OBVIOUS
    <3>2. Pass("ord", args, args, FALSE)
      BY <2>1
    <3> HIDE DEF args, kinds
    <3>3. Promise!Ask("ord", kinds)
      BY <3>1, <3>2, PassAsks
    <3> QED  BY <3>3 DEF kinds
  <2> QED  BY <2>2 DEF Promise!AskAny
<1>7. CASE call_substr
  <2>1. PICK s \in Values("s"), i \in Values("i"), j \in Values("i") :
          Pass("substr", <<s, i, j>>, <<s, i, j>>, FALSE)
    BY <1>7 DEF call_substr, LiteralsSurvive
  <2>2. Promise!Ask("substr", <<"s", "i", "i">>)
    <3> DEFINE args == <<s, i, j>>
               kinds == <<"s", "i", "i">>
    <3>1. /\ DOMAIN args = DOMAIN kinds
          /\ \A k \in DOMAIN kinds : args[k] \in Values(kinds[k])
      OBVIOUS
    <3>2. Pass("substr", args, args, FALSE)
      BY <2>1
    <3> HIDE DEF args, kinds
    <3>3. Promise!Ask("substr", kinds)
      BY <3>1, <3>2, PassAsks
    <3> QED  BY <3>3 DEF kinds
  <2> QED  BY <2>2 DEF Promise!AskAny
<1> QED  BY <1>2, <1>3, <1>4, <1>5, <1>6, <1>7

LEMMA ReturnAnswers ==
  ASSUME NEW v, Return(v)
  PROVE  Promise!Answer(v)
  BY SameValues DEF Return, Promise!Answer

LEMMA SimpleRefines ==
  ASSUME CallOK, reads \/ readi \/ readn \/ write \/ tointeger
  PROVE  Promise!Serve
<1>1. CASE reads \/ readi \/ readn
  <2>1. call.f = label
    BY <1>1 DEF reads, readi, readn, CallOK, Call
  <2>2. \E k \in {"s", "i", "f"} :
          /\ call.f = (CASE k = "s" -> "reads" [] k = "i" -> "readi" [] k = "f" -> "readn")
          /\ \E v \in Promise!Values(k) : Promise!Answer(v)
    BY <1>1, <2>1, ReturnAnswers, SameValues DEF reads, readi, readn
  <2> QED  BY <2>2 DEF Promise!Serve, Promise!Read
<1>2. CASE write
  <2>1. /\ call.f = "write" /\ call.args[1] = params[1] /\ call' = NoCall
        /\ written' = IF params[1] = nil THEN NIL_STRING ELSE params[1]
        /\ UNCHANGED <<answer, exit>>
    BY <1>2 DEF write, CallOK, Call
  <2> QED  BY <2>1, SameValues DEF Promise!Serve, Promise!Write, Promise!Arg
<1>3. CASE tointeger
  <2>1. call.f = "tointeger" /\ call.args[1] = params[1]
    BY <1>3 DEF tointeger, CallOK, Call
  <2>2. Promise!Answer(IF params[1] = nil THEN nil ELSE FLOAT2INT(params[1]))
    BY <1>3, ReturnAnswers DEF tointeger
  <2> QED  BY <2>1, <2>2, SameValues DEF Promise!Serve, Promise!Convert, Promise!Arg
<1> QED  BY <1>1, <1>2, <1>3

LEMMA NilRefines ==
  ASSUME CallOK, nil_argument
  PROVE  Promise!Serve
<1>1. /\ call.f \in {"chr", "ord", "substr"} /\ call.args = params
      /\ HasNil /\ Stop(ERROR_NIL)
  BY DEF nil_argument, CallOK, Call
<1>2. Promise!HasNil
  BY <1>1 DEF HasNil, Promise!HasNil, Promise!Arg
<1> QED  BY <1>1, <1>2, SameValues DEF Stop, ERROR_NIL, Promise!Serve, Promise!Refuse

LEMMA ChrRefines ==
  ASSUME CallOK, chr
  PROVE  Promise!Serve
<1>1. /\ call.f = "chr" /\ call.args = params /\ params = <<params[1]>> /\ ~ HasNil
      /\ params[1] \in Int \union {nil}
  BY DEF chr, CallOK, Call
<1>2. params[1] \in Int
  BY <1>1 DEF HasNil
<1>3. ~ Promise!HasNil
  BY <1>1 DEF HasNil, Promise!HasNil, Promise!Arg
<1>4. \E v : Promise!Answer(v)
        /\ v = IF params[1] < 0 \/ params[1] > 255 THEN nil ELSE <<params[1]>>
  BY ReturnAnswers DEF chr
<1>5. (params[1] < 0 \/ params[1] > 255) <=> params[1] \notin 0..255
  BY <1>2
<1>6. Promise!Answer(IF params[1] \in 0..255 THEN <<params[1]>> ELSE nil)
  BY <1>4, <1>5
<1> QED  BY <1>1, <1>3, <1>6 DEF Promise!Serve, Promise!Compute, Promise!Arg

LEMMA OrdRefines ==
  ASSUME LibraryInv, CallOK, ord
  PROVE  Promise!Serve
<1>1. /\ label = "ord" /\ call.f = "ord" /\ call.args = params /\ ~ HasNil
      /\ params = <<params[1], params[2]>>
  BY DEF ord, CallOK, Call, LibraryInv, OrdOK
<1>2. params[1] \in String /\ params[2] \in Int /\ Len(params[1]) \in Nat
  BY <1>1 DEF HasNil, LibraryInv, OrdOK, String
<1>3. ~ Promise!HasNil
  BY <1>1 DEF HasNil, Promise!HasNil, Promise!Arg
<1>4. Return(IF params[2] \in 1..Len(params[1]) THEN params[1][params[2]] ELSE nil)
  <2>1. CASE Outside(params[1], params[2])
    BY <1>2, <2>1 DEF ord, Outside
  <2>2. CASE ~ Outside(params[1], params[2])
    <3>1. params[2] \in 1..Len(params[1]) /\ Exists(params[1], params[2] - 1)
      BY <1>2, <2>2 DEF Outside, Exists
    <3>2. Return(params[1][params[2] - 1 + 1])
      BY <2>2, <3>1 DEF ord
    <3>3. params[2] - 1 + 1 = params[2]
      BY <1>2
    <3> QED  BY <3>1, <3>2, <3>3
  <2> QED  BY <2>1, <2>2
<1>5. Promise!Answer(IF params[2] \in 1..Len(params[1]) THEN params[1][params[2]] ELSE nil)
  BY <1>4, ReturnAnswers
<1> QED  BY <1>1, <1>3, <1>5 DEF Promise!Serve, Promise!Compute, Promise!Arg

(* Only the first and the last step of substr can answer.                  *)
LEMMA SubstrRefines ==
  ASSUME LibraryInv, CallOK, substr
  PROVE  Promise!Serve \/ UNCHANGED <<call, answer, written, exit>>
<1> DEFINE refused == \/ Outside(params[1], params[2]) \/ Outside(params[1], params[3])
                      \/ params[3] < params[2]
<1>1. CASE ~ refused
  BY <1>1 DEF substr
<1>2. CASE refused
  <2>1. /\ call.f = "substr" /\ call.args = params /\ ~ HasNil
        /\ call.args[1] = params[1] /\ call.args[2] = params[2] /\ call.args[3] = params[3]
    BY DEF substr, CallOK, Call
  <2>2. ~ Promise!HasNil
    BY <2>1 DEF HasNil, Promise!HasNil, Promise!Arg
  <2>3. ~ (1 <= params[2] /\ params[2] <= params[3] /\ params[3] <= Len(params[1]))
    BY <1>2, SubstrFacts DEF Outside
  <2>4. Promise!Answer(<<>>)
    BY <1>2, ReturnAnswers DEF substr
  <2> QED  BY <2>1, <2>2, <2>3, <2>4 DEF Promise!Serve, Promise!Compute, Promise!Arg
<1> QED  BY <1>1, <1>2

LEMMA LoopRefines ==
  ASSUME LibraryInv, LOOP
  PROVE  UNCHANGED <<call, answer, written, exit>>
<1>1. Exists(params[1], params[2])
  BY DEF LOOP, LibraryInv, LoopOK, Exists, String
<1> QED  BY <1>1 DEF LOOP

LEMMA EndRefines ==
  ASSUME LibraryInv, CallOK, substr_end
  PROVE  Promise!Serve
<1>1. /\ call = Call("substr", <<params[1], call.args[2], call.args[3]>>)
      /\ params[1] \in String /\ call.args[2] \in Int /\ call.args[3] \in Int
      /\ 1 <= call.args[2] /\ call.args[2] <= call.args[3]
      /\ call.args[3] <= Len(params[1])
      /\ return0 = SubSeq(params[1], call.args[2], call.args[3])
  BY DEF substr_end, CallOK, LibraryInv, LoopOK
<1>2. /\ call.f = "substr" /\ call.args = <<params[1], call.args[2], call.args[3]>>
      /\ call.args[1] = params[1] /\ DOMAIN call.args = 1..3
  BY <1>1 DEF Call
<1>3. ~ Promise!HasNil
  <2>1. call.args[1] # nil /\ call.args[2] # nil /\ call.args[3] # nil
    BY <1>1, <1>2, ValuesFacts
  <2>2. \A k \in 1..3 : k = 1 \/ k = 2 \/ k = 3
    OBVIOUS
  <2> QED  BY <1>2, <2>1, <2>2 DEF Promise!HasNil, Promise!Arg
<1>4. Promise!Answer(SubSeq(call.args[1], call.args[2], call.args[3]))
  BY <1>1, <1>2, ReturnAnswers DEF substr_end
<1> QED  BY <1>1, <1>2, <1>3, <1>4 DEF Promise!Serve, Promise!Compute, Promise!Arg

(* For all strings and numbers: if each literal of the source text is read *)
(* back as it was written, a call of a built-in function changes nothing   *)
(* that can be seen until it answers, once, as the function promises.      *)
THEOREM LibraryImplemented == ASSUME LiteralsSurvive PROVE Spec => Promise!LibrarySafety
<1>1. Init => CallOK /\ Promise!LibraryInit
  BY SameValues DEF Init, CallOK, Promise!LibraryInit
<1>2. LibraryInv /\ CallOK /\ [Next]_vars => CallOK'
  BY CallPreserved
<1>3. LibraryInv /\ CallOK /\ [Next]_vars
        => [Promise!AskAny \/ Promise!Serve]_(Promise!libraryVars)
  <2> SUFFICES ASSUME LibraryInv, CallOK, [Next]_vars
               PROVE  Promise!AskAny \/ Promise!Serve \/ UNCHANGED <<call, answer, written, exit>>
    BY DEF Promise!libraryVars
  <2>1. CASE Terminating \/ UNCHANGED vars
    BY <2>1 DEF Terminating, vars
  <2> QED  BY <2>1, PassRefines, SimpleRefines, NilRefines, ChrRefines, OrdRefines,
              SubstrRefines, LoopRefines, EndRefines DEF Next, Run
<1> QED  BY <1>1, <1>2, <1>3, LibraryInvariant, PTL DEF Spec, Promise!LibrarySafety
==============================================================================
