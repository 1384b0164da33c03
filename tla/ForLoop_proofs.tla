---------------------------- MODULE ForLoop_proofs ----------------------------
(***************************************************************************)
(* The for cycle's invariants, and that it implements CountingLoop, for    *)
(* all expressions, all bodies and any number of entries.                  *)
(***************************************************************************)
EXTENDS ForLoop, TLAPS

(* No step lies strictly between 0 and 1, where the code takes it for a    *)
(* negative one.                                                           *)
WholeSteps == \A s \in Steps : s.n \in Int => s.n <= 0 \/ s.n >= One

InHeader == pc \in {"limit", "step", "cond"}
InLoop   == pc \in {"test", "body", "end"}

(***************************************************************************)
(* The inductive invariant: how far the header has come, and in the loop   *)
(* the hidden copy as a function of the iterations.                        *)
(***************************************************************************)
AskedOK ==
  /\ asked[1] \in Value \union {Unset} /\ asked[2] \in Value \union {Unset}
  /\ asked[3] \in Value \union {NoStep}
  /\ pc # "over" => asked[1] \in Value /\ asked[2] \in Value

HeaderOK ==
  /\ InHeader => visited = <<>> /\ lf.var = asked[1]
  /\ pc \in {"step", "cond"} \/ InLoop =>
        asked[2].n \in Int /\ lf.limit = Float(asked[2].n)
  /\ pc = "cond" \/ InLoop =>
        asked[3].n \in Int /\ lf.step = Float(asked[3].n)

LoopOK ==
  /\ InLoop => asked[1].n \in Int
  /\ pc = "test" =>
        lf.copy = Float(asked[1].n + Len(visited) * asked[3].n)
  /\ pc \in {"body", "end"} =>
        /\ lf.copy = Float(asked[1].n + (Len(visited) - 1) * asked[3].n)
        /\ visited # <<>>

StackOK ==
  /\ entries = 0 => data = <<>> /\ pc = "over"
  /\ entries = 1 /\ pc # "over" => Len(data) = Len(visited)

CycleInv == TypeOK /\ OnlyNilStops /\ LeftOnStack
              /\ AskedOK /\ HeaderOK /\ LoopOK /\ StackOK

(* A value is a nil or has a number.                                       *)
LEMMA ValueFacts ==
  /\ \A v \in Value : /\ v.type = "nil" <=> v.n = NIL
                      /\ v.type # "nil" <=> v.n \in Int
                      /\ v.type \in {"int", "float", "nil"}
                      /\ v.n \in Int \union {NIL}
  /\ \A x \in Int : Float(x) \in Value
  /\ NoStep.n \in Int /\ NoStep \notin Value /\ Unset \notin Value
  BY NilAssumption, OneAssumption DEF Value, Float, NoStep, Unset

(* $$recast_to_float_second makes a float of a number.                     *)
LEMMA RecastFacts ==
  ASSUME NEW v \in Value
  PROVE  /\ recast_to_float(v) \in Value
         /\ v.n \in Int => recast_to_float(v) = Float(v.n)
         /\ recast_to_float(v).type = "nil" <=> v.type = "nil"
  BY NilAssumption DEF recast_to_float, Value, Float

(* One step more.                                                          *)
LEMMA OneMore ==
  ASSUME NEW a \in Int, NEW s \in Int, NEW k \in Int
  PROVE  /\ (a + (k - 1) * s) + s = a + k * s
         /\ a + k * s \in Int /\ k * s \in Int
  OBVIOUS

LEMMA CycleInit == Init => CycleInv
  BY OneAssumption, EntriesAssumption, ValueFacts, NilAssumption
     DEF Init, CycleInv, TypeOK, OnlyNilStops, LeftOnStack, AskedOK, HeaderOK,
         LoopOK, StackOK, Codes, FrameTypes, InHeader, InLoop

(* A value more on the stack.                                              *)
LEMMA Pushed ==
  ASSUME NEW S, NEW seq \in Seq(S), NEW x \in S
  PROVE  Append(seq, x) \in Seq(S) /\ Len(Append(seq, x)) = Len(seq) + 1
  OBVIOUS

(***************************************************************************)
(* One lemma for each group of actions.                                    *)
(***************************************************************************)
LEMMA EnterPreserves ==
  ASSUME CycleInv, for_cycle
  PROVE  CycleInv'
<1>1. /\ asked'[1] \in Value /\ asked'[2] \in Value
      /\ asked'[3] \in Value \union {NoStep}
  BY ValuesAssumption DEF for_cycle
<1>2. /\ lf' = [lf EXCEPT !.var = asked'[1]] /\ lf \in FrameTypes
      /\ pc = "over" /\ pc' = "limit" /\ visited' = <<>>
      /\ entries' = entries + 1 /\ entries < MaxEntries /\ entries \in 0..MaxEntries
      /\ UNCHANGED <<data, exit>>
  BY DEF for_cycle, CycleInv, TypeOK
<1>3. lf' \in FrameTypes /\ lf'.var = asked'[1]
  BY <1>1, <1>2 DEF FrameTypes
<1>4. TypeOK'
  BY <1>2, <1>3, EntriesAssumption DEF CycleInv, TypeOK, Codes
<1>5. OnlyNilStops' /\ AskedOK' /\ HeaderOK' /\ LoopOK'
  BY <1>1, <1>2, <1>3
     DEF CycleInv, OnlyNilStops, AskedOK, HeaderOK, LoopOK, InHeader, InLoop
<1>6. entries' = 1 => data' = <<>>
  BY <1>2 DEF CycleInv, StackOK
<1>7. LeftOnStack' /\ StackOK'
  BY <1>2, <1>6 DEF LeftOnStack, StackOK
<1> QED  BY <1>4, <1>5, <1>7 DEF CycleInv

(* What stops the program in the header, or leads on in it.                *)
LEMMA HeaderPreserves ==
  ASSUME CycleInv,
         terminating_cond \/ for_default_step \/ for_increment \/ for_copy
  PROVE  CycleInv'
<1> USE DEF CycleInv, InHeader, InLoop
<1>1. /\ asked[1] \in Value /\ asked[2] \in Value
      /\ asked[3] \in Value \union {NoStep}
      /\ UNCHANGED <<asked, data, entries, visited>>
      /\ visited = <<>> /\ lf.var = asked[1] /\ pc \in {"limit", "step", "cond"}
      /\ exit = 0 /\ exit' \in {0, ERROR_NIL}
      /\ lf \in FrameTypes
  BY DEF terminating_cond, for_default_step, for_increment, for_copy, NilCheck,
         AskedOK, HeaderOK, OnlyNilStops, TypeOK
<1>2. LeftOnStack' /\ StackOK'
  BY <1>1 DEF LeftOnStack, StackOK
<1>3. CASE terminating_cond
  <2> DEFINE limit == recast_to_float(asked[2])
  <2>1. lf' = [lf EXCEPT !.limit = limit] /\ pc = "limit" /\ limit \in Value
    BY <1>1, <1>3, RecastFacts DEF terminating_cond
  <2>2. lf' \in FrameTypes /\ lf'.limit = limit /\ lf'.var = lf.var
    BY <2>1, <1>1 DEF FrameTypes
  <2>3. CASE asked[2].type = "nil"
    <3>1. pc' = "stopped" /\ exit' = ERROR_NIL /\ asked[2].n = NIL
      BY <1>1, <1>3, <2>2, <2>3, RecastFacts, ValueFacts
         DEF terminating_cond, NilCheck
    <3> QED  BY <1>1, <1>2, <2>2, <3>1
                DEF TypeOK, OnlyNilStops, AskedOK, HeaderOK, LoopOK, Codes,
                    ERROR_NIL
  <2>4. CASE asked[2].type # "nil"
    <3>1. pc' = "step" /\ exit' = exit /\ asked[2].n \in Int
          /\ limit = Float(asked[2].n)
      BY <1>1, <1>3, <2>2, <2>4, RecastFacts, ValueFacts
         DEF terminating_cond, NilCheck
    <3> QED  BY <1>1, <1>2, <2>2, <3>1
                DEF TypeOK, OnlyNilStops, AskedOK, HeaderOK, LoopOK, Codes
  <2> QED  BY <2>3, <2>4
<1>4. CASE for_default_step
  <2>1. /\ lf' = [lf EXCEPT !.step = Float(One)] /\ Float(One) \in Value
        /\ asked[3].n = One /\ asked[3].n \in Int
    BY <1>4, OneAssumption, ValueFacts DEF for_default_step, NoStep
  <2>2. /\ lf' \in FrameTypes /\ lf'.step = Float(asked[3].n)
        /\ lf'.var = lf.var /\ lf'.limit = lf.limit
    BY <2>1, <1>1 DEF FrameTypes
  <2> QED  BY <1>1, <1>2, <1>4, <2>1, <2>2
              DEF for_default_step, TypeOK, OnlyNilStops, AskedOK, HeaderOK,
                  LoopOK, Codes
<1>5. CASE for_increment
  <2> DEFINE step == recast_to_float(asked[3])
  <2>1. /\ lf' = [lf EXCEPT !.step = step] /\ pc = "step" /\ step \in Value
        /\ asked[3] \in Value
    BY <1>1, <1>5, RecastFacts DEF for_increment
  <2>2. /\ lf' \in FrameTypes /\ lf'.step = step
        /\ lf'.var = lf.var /\ lf'.limit = lf.limit
    BY <2>1, <1>1 DEF FrameTypes
  <2>3. CASE asked[3].type = "nil"
    <3>1. pc' = "stopped" /\ exit' = ERROR_NIL /\ asked[3].n = NIL
      BY <2>1, <1>5, <2>2, <2>3, RecastFacts, ValueFacts
         DEF for_increment, NilCheck
    <3> QED  BY <1>1, <1>2, <2>2, <3>1
                DEF TypeOK, OnlyNilStops, AskedOK, HeaderOK, LoopOK, Codes,
                    ERROR_NIL
  <2>4. CASE asked[3].type # "nil"
    <3>1. pc' = "cond" /\ exit' = exit /\ asked[3].n \in Int
          /\ step = Float(asked[3].n)
      BY <2>1, <1>5, <2>2, <2>4, RecastFacts, ValueFacts
         DEF for_increment, NilCheck
    <3> QED  BY <1>1, <1>2, <2>1, <2>2, <3>1
                DEF TypeOK, OnlyNilStops, AskedOK, HeaderOK, LoopOK, Codes
  <2> QED  BY <2>3, <2>4
<1>6. CASE for_copy
  <2> DEFINE copy == recast_to_float(lf.var)
  <2>1. lf' = [lf EXCEPT !.copy = copy] /\ pc = "cond" /\ copy \in Value
    BY <1>1, <1>6, RecastFacts DEF for_copy
  <2>2. /\ lf' \in FrameTypes /\ lf'.copy = copy /\ lf'.step = lf.step
        /\ lf'.var = lf.var /\ lf'.limit = lf.limit
    BY <2>1, <1>1 DEF FrameTypes
  <2>3. CASE asked[1].type = "nil"
    <3>1. pc' = "stopped" /\ exit' = ERROR_NIL /\ asked[1].n = NIL
      BY <1>1, <1>6, <2>3, ValueFacts DEF for_copy, NilCheck
    <3> QED  BY <1>1, <1>2, <2>2, <3>1
                DEF TypeOK, OnlyNilStops, AskedOK, HeaderOK, LoopOK, Codes,
                    ERROR_NIL
  <2>4. CASE asked[1].type # "nil"
    <3>1. pc' = "test" /\ exit' = exit /\ asked[1].n \in Int
          /\ copy = Float(asked[1].n)
      BY <1>1, <1>6, <2>4, RecastFacts, ValueFacts DEF for_copy, NilCheck
    <3>2. asked[3].n \in Int /\ Len(visited) = 0
      BY <1>1, <2>1 DEF HeaderOK
    <3>3. asked[1].n + Len(visited) * asked[3].n = asked[1].n
      BY <3>1, <3>2
    <3> QED  BY <1>1, <1>2, <2>1, <2>2, <3>1, <3>3
                DEF TypeOK, OnlyNilStops, AskedOK, HeaderOK, LoopOK, Codes
  <2> QED  BY <2>3, <2>4
<1> QED  BY <1>3, <1>4, <1>5, <1>6

(* What the loop's actions find.                                           *)
LEMMA LoopFacts ==
  ASSUME CycleInv, InLoop
  PROVE  /\ asked[1].n \in Int /\ asked[2].n \in Int /\ asked[3].n \in Int
         /\ lf.limit = Float(asked[2].n) /\ lf.step = Float(asked[3].n)
         /\ lf \in FrameTypes /\ visited \in Seq(Int) /\ exit = 0
         /\ asked[1] \in Value /\ asked[2] \in Value /\ pc # "over"
         /\ entries \in 0..MaxEntries /\ data \in Seq({Bool(TRUE), Bool(FALSE)})
  BY DEF CycleInv, InLoop, TypeOK, AskedOK, HeaderOK, LoopOK, OnlyNilStops

(* The outcome of the test.                                                *)
Goes == Holds(~ Negative(lf.step), lf.copy, lf.limit)

(* The test: what it reads is floats, and where it leads.                  *)
LEMMA TestFacts ==
  ASSUME CycleInv, for_test
  PROVE  LET v == asked[1].n + Len(visited) * asked[3].n
         IN  /\ v \in Int
             /\ Goes \in BOOLEAN
             /\ Goes <=> IF asked[3].n < One THEN v >= asked[2].n
                                             ELSE v <= asked[2].n
             /\ lf' = [lf EXCEPT !.var = Float(v)] /\ lf.copy = Float(v)
             /\ data' = Append(data, Bool(Goes))
             /\ pc = "test" /\ pc' = IF Goes THEN "body" ELSE "over"
             /\ visited' = IF Goes THEN Append(visited, v) ELSE visited
             /\ UNCHANGED <<exit, asked, entries>>
<1>1. pc = "test" /\ InLoop
  BY DEF for_test, InLoop
<1> DEFINE v == asked[1].n + Len(visited) * asked[3].n
<1>2. lf.copy = Float(v) /\ v \in Int
  BY <1>1, LoopFacts, OneMore DEF CycleInv, LoopOK
<1>3. {lf.step.type, lf.limit.type, lf.copy.type} = {"float"}
  BY <1>1, <1>2, LoopFacts DEF Float
<1> HIDE DEF v
<1>4. /\ lf.copy.n = v /\ lf.step.n = asked[3].n /\ lf.limit.n = asked[2].n
      /\ asked[2].n \in Int /\ asked[3].n \in Int /\ One \in Int
  BY <1>1, <1>2, LoopFacts, OneAssumption DEF Float
<1>5. /\ Goes \in BOOLEAN
      /\ Goes <=> IF asked[3].n < One THEN v >= asked[2].n ELSE v <= asked[2].n
  <2>1. CASE asked[3].n < One
    <3>1. Goes = (v >= asked[2].n)
      BY <1>4, <2>1 DEF Goes, Holds, Negative
    <3>2. (v >= asked[2].n) \in BOOLEAN
      OBVIOUS
    <3> QED  BY <2>1, <3>1, <3>2
  <2>2. CASE ~ (asked[3].n < One)
    <3>1. Goes = (v <= asked[2].n)
      BY <1>4, <2>2 DEF Goes, Holds, Negative
    <3>2. (v <= asked[2].n) \in BOOLEAN
      OBVIOUS
    <3> QED  BY <2>2, <3>1, <3>2
  <2> QED  BY <2>1, <2>2
<1>6. /\ lf' = [lf EXCEPT !.var = lf.copy]
      /\ data' = Append(data, Bool(Goes))
      /\ pc' = IF Goes THEN "body" ELSE "over"
      /\ visited' = IF Goes THEN Append(visited, lf.copy.n) ELSE visited
      /\ UNCHANGED <<exit, asked, entries>>
  BY <1>3 DEF for_test, Goes, AfterTest
<1> QED  BY <1>1, <1>2, <1>4, <1>5, <1>6 DEF v

LEMMA TestPreserves ==
  ASSUME CycleInv, for_test
  PROVE  CycleInv'
<1> DEFINE v == asked[1].n + Len(visited) * asked[3].n
<1>1. /\ v \in Int /\ Goes \in BOOLEAN /\ pc = "test"
      /\ lf' = [lf EXCEPT !.var = Float(v)] /\ lf.copy = Float(v)
      /\ data' = Append(data, Bool(Goes))
      /\ pc' = IF Goes THEN "body" ELSE "over"
      /\ visited' = IF Goes THEN Append(visited, v) ELSE visited
      /\ UNCHANGED <<exit, asked, entries>>
  BY TestFacts
<1>2. /\ asked[1].n \in Int /\ asked[2].n \in Int /\ asked[3].n \in Int
      /\ lf.limit = Float(asked[2].n) /\ lf.step = Float(asked[3].n)
      /\ lf \in FrameTypes /\ visited \in Seq(Int) /\ exit = 0
      /\ asked[1] \in Value /\ asked[2] \in Value
      /\ entries \in 0..MaxEntries /\ data \in Seq({Bool(TRUE), Bool(FALSE)})
  BY <1>1, LoopFacts DEF InLoop
<1>3. /\ lf' \in FrameTypes /\ lf'.copy = Float(v)
      /\ lf'.limit = lf.limit /\ lf'.step = lf.step
  BY <1>1, <1>2, ValueFacts DEF FrameTypes
<1>4. visited' \in Seq(Int)
  BY <1>1, <1>2
<1>5. data' \in Seq({Bool(TRUE), Bool(FALSE)}) /\ Len(data') = Len(data) + 1
  <2>1. Bool(Goes) \in {Bool(TRUE), Bool(FALSE)}
    BY <1>1
  <2>2. data' = Append(data, Bool(Goes)) /\ data \in Seq({Bool(TRUE), Bool(FALSE)})
    BY <1>1, <1>2
  <2> HIDE DEF v
  <2> QED  BY <2>1, <2>2, Pushed
<1>6. TypeOK'
  <2>1. pc' \in Codes /\ exit' = 0 /\ entries' \in 0..MaxEntries
    BY <1>1, <1>2 DEF Codes
  <2> QED  BY <2>1, <1>3, <1>4, <1>5 DEF TypeOK
<1>7. OnlyNilStops' /\ AskedOK'
  BY <1>1, <1>2 DEF CycleInv, OnlyNilStops, AskedOK
<1>8. HeaderOK'
  BY <1>1, <1>2, <1>3 DEF HeaderOK, InHeader, InLoop
<1>9. LoopOK'
  <2>1. CASE Goes
    <3>1. Len(visited') = Len(visited) + 1 /\ visited' # <<>>
      BY <1>1, <1>2, <2>1
    <3>2. v = asked[1].n + (Len(visited') - 1) * asked[3].n
      BY <3>1, <1>2
    <3> QED  BY <1>1, <1>2, <1>3, <2>1, <3>1, <3>2 DEF LoopOK, InLoop
  <2>2. CASE ~ Goes
    BY <1>1, <2>2 DEF LoopOK, InLoop
  <2> QED  BY <2>1, <2>2
<1>10. entries # 0 /\ (entries = 1 => Len(data) = Len(visited))
  BY <1>1 DEF CycleInv, StackOK
<1>11. /\ entries' # 0
       /\ entries' = 1 => Len(data') - Len(visited') = IF Goes THEN 0 ELSE 1
  BY <1>1, <1>2, <1>5, <1>10
<1>12. LeftOnStack' /\ StackOK'
  BY <1>1, <1>4, <1>5, <1>11 DEF LeftOnStack, StackOK
<1> QED  BY <1>6, <1>7, <1>8, <1>9, <1>12 DEF CycleInv

LEMMA BodyPreserves ==
  ASSUME CycleInv, body \/ break_cycle \/ for_end
  PROVE  CycleInv'
<1>1. /\ pc \in {"body", "end"} /\ InLoop
      /\ UNCHANGED <<asked, data, entries, visited>>
  BY DEF body, break_cycle, for_end, InLoop
<1>2. /\ asked[1].n \in Int /\ asked[2].n \in Int /\ asked[3].n \in Int
      /\ lf.limit = Float(asked[2].n) /\ lf.step = Float(asked[3].n)
      /\ lf \in FrameTypes /\ visited \in Seq(Int) /\ exit = 0
      /\ asked[1] \in Value /\ asked[2] \in Value
  BY <1>1, LoopFacts
<1>3. lf.copy = Float(asked[1].n + (Len(visited) - 1) * asked[3].n)
  BY <1>1 DEF CycleInv, LoopOK
<1>4. LeftOnStack' /\ StackOK'
  BY <1>1 DEF CycleInv, LeftOnStack, StackOK, body, break_cycle, for_end
<1>5. CASE body
  <2>1. PICK w \in Assigned \union {lf.var} : lf' = [lf EXCEPT !.var = w]
    BY <1>5 DEF body
  <2>2. w \in Value \union {Unset}
    BY <2>1, <1>2, ValuesAssumption DEF FrameTypes
  <2>3. /\ lf' \in FrameTypes /\ lf'.copy = lf.copy
        /\ lf'.limit = lf.limit /\ lf'.step = lf.step
    BY <2>1, <2>2, <1>2 DEF FrameTypes
  <2>4. pc' = "end" /\ pc = "body" /\ exit' = exit
    BY <1>5 DEF body
  <2> QED  BY <1>1, <1>2, <1>4, <2>3, <2>4
              DEF CycleInv, TypeOK, OnlyNilStops, AskedOK, HeaderOK, LoopOK,
                  InHeader, InLoop, Codes
<1>6. CASE break_cycle
  BY <1>1, <1>2, <1>4, <1>6
     DEF break_cycle, CycleInv, TypeOK, OnlyNilStops, AskedOK, HeaderOK, LoopOK,
         InHeader, InLoop, Codes
<1>7. CASE for_end
  <2>1. lf.copy.type = lf.step.type /\ pc = "end"
    BY <1>2, <1>3, <1>7 DEF Float, for_end
  <2> DEFINE n == asked[1].n + Len(visited) * asked[3].n
  <2>2. lf.copy.n + lf.step.n = n /\ n \in Int
    <3>1. /\ lf.copy.n = asked[1].n + (Len(visited) - 1) * asked[3].n
          /\ lf.step.n = asked[3].n
      BY <1>2, <1>3 DEF Float
    <3>2. Len(visited) \in Int
      BY <1>2
    <3>3. /\ (asked[1].n + (Len(visited) - 1) * asked[3].n) + asked[3].n = n
          /\ n \in Int
      <4> DEFINE a == asked[1].n
                 s == asked[3].n
                 k == Len(visited)
      <4>1. a \in Int /\ s \in Int /\ k \in Int
        BY <3>2, <1>2
      <4> HIDE DEF a, s, k
      <4>2. (a + (k - 1) * s) + s = a + k * s /\ a + k * s \in Int
        BY <4>1, OneMore
      <4> QED  BY <4>2, Zenon DEF a, s, k
    <3> HIDE DEF n
    <3> QED  BY <3>1, <3>3, Zenon
  <2> HIDE DEF n
  <2>3. lf' = [lf EXCEPT !.copy.n = n] /\ pc' = "test" /\ exit' = exit
    <3>1. lf' = [lf EXCEPT !.copy.n = @ + lf.step.n] /\ pc' = "test" /\ exit' = exit
      BY <1>7, <2>1 DEF for_end
    <3> QED  BY <3>1, <2>2
  <2> USE DEF n
  <2>4. [lf.copy EXCEPT !.n = n] = Float(n)
    BY <1>3 DEF Float
  <2>5. /\ lf' = [lf EXCEPT !.copy = Float(n)]
    BY <2>3, <2>4, <1>2 DEF FrameTypes
  <2>6. /\ lf' \in FrameTypes /\ lf'.copy = Float(n)
        /\ lf'.limit = lf.limit /\ lf'.step = lf.step
    BY <2>2, <2>5, <1>2, ValueFacts DEF FrameTypes
  <2> QED  BY <1>1, <1>2, <1>4, <2>3, <2>6
              DEF CycleInv, TypeOK, OnlyNilStops, AskedOK, HeaderOK, LoopOK,
                  InHeader, InLoop, Codes
<1> QED  BY <1>5, <1>6, <1>7

LEMMA CyclePreserves ==
  ASSUME CycleInv, [Next]_vars
  PROVE  CycleInv'
<1>1. CASE UNCHANGED vars \/ Terminating
  BY <1>1 DEF Terminating, vars, CycleInv, TypeOK, OnlyNilStops, LeftOnStack,
              AskedOK, HeaderOK, LoopOK, StackOK, InHeader, InLoop
<1> QED  BY <1>1, EnterPreserves, HeaderPreserves, TestPreserves, BodyPreserves
            DEF Next, Cycle

LEMMA CycleInvariant == Init /\ [][Next]_vars => []CycleInv
<1>1. CycleInv /\ [Next]_vars => CycleInv'
  BY CyclePreserves
<1> QED  BY CycleInit, <1>1, PTL

(* For all values of the expressions: the variables of the cycle, its      *)
(* counters and its exit codes have their types.                           *)
THEOREM ForLoopTypes == Spec => []TypeOK
<1>1. CycleInv => TypeOK
  BY DEF CycleInv
<1> QED  BY <1>1, CycleInvariant, PTL DEF Spec

(* For all values of the expressions and all assignments of the body, the  *)
(* cycle stops the program for a nil among the expressions and for nothing *)
(* else.                                                                   *)
THEOREM ForLoopStops == Spec => []OnlyNilStops
<1>1. CycleInv => OnlyNilStops
  BY DEF CycleInv
<1> QED  BY <1>1, CycleInvariant, PTL DEF Spec

(* For all values of the expressions, a cycle's first entry takes nothing  *)
(* from the data stack and leaves one value per test.                      *)
THEOREM ForLoopStack == Spec => []LeftOnStack
<1>1. CycleInv => LeftOnStack
  BY DEF CycleInv
<1> QED  BY <1>1, CycleInvariant, PTL DEF Spec

(* For all values of the expressions: an entry whose step is zero, or      *)
(* between 0 and 1, and whose first value is not below the limit goes on   *)
(* after every test, whatever the body assigns; only a break ends it.      *)
THEOREM ForLoopGoesOn == Spec => SmallStepsGoOn
<1>1. CycleInv /\ [Next]_vars => [NeverEnds /\ pc = "test" => pc' = "body"]_vars
  <2> SUFFICES ASSUME CycleInv, [Next]_vars, NeverEnds, pc = "test", vars' # vars
               PROVE  pc' = "body"
    OBVIOUS
  <2>1. for_test
    BY DEF Next, Cycle, vars, for_cycle, terminating_cond, for_default_step,
           for_increment, for_copy, body, break_cycle, for_end, Terminating
  <2> DEFINE v == asked[1].n + Len(visited) * asked[3].n
  <2>2. Goes <=> v >= asked[2].n
    BY <2>1, TestFacts, OneAssumption DEF NeverEnds
  <2>3. v >= asked[1].n
    <3>1. PICK k, s : k = Len(visited) /\ s = asked[3].n
      OBVIOUS
    <3>2. k \in Nat /\ s \in Nat /\ asked[1].n \in Int
      BY <3>1, LoopFacts, OneAssumption DEF InLoop, NeverEnds
    <3>3. k * s >= 0
      BY <3>2
    <3> QED  BY <3>1, <3>2, <3>3
  <2>4. v >= asked[2].n
    BY <2>1, <2>3, LoopFacts, TestFacts DEF InLoop, NeverEnds
  <2> QED  BY <2>1, <2>2, <2>4, TestFacts
<1> QED  BY <1>1, CycleInvariant, PTL DEF Spec, SmallStepsGoOn

(***************************************************************************)
(* The refinement.  A step of the generated code is a step of the counting *)
(* loop or leaves it as it is.                                             *)
(***************************************************************************)
StepAsked == asked[3] \in Steps \union {NoStep}

LEMMA StepAskedInvariant == Init /\ [][Next]_vars => []StepAsked
<1>1. Init => StepAsked
  BY DEF Init, StepAsked
<1>2. StepAsked /\ [Next]_vars => StepAsked'
  BY DEF StepAsked, Next, Cycle, vars, for_cycle, terminating_cond,
         for_default_step, for_increment, for_copy, for_test, body, break_cycle,
         for_end, Terminating
<1> QED  BY <1>1, <1>2, PTL

(* The numbers of the three expressions are numbers or nil.                *)
LEMMA NumbersFacts ==
  ASSUME NEW a, \A k \in 1..3 : a[k] \in Value \union {Unset, NoStep}
  PROVE  /\ \A k \in 1..3 : Numbers(a)[k] = a[k].n
         /\ Numbers(a) \in Promise!Number \X Promise!Number \X Promise!Number
<1>1. /\ a[1].n \in Int \union {NIL} /\ a[2].n \in Int \union {NIL}
      /\ a[3].n \in Int \union {NIL}
  <2>1. Unset.n \in Int
    BY DEF Unset
  <2> QED  BY <2>1, ValueFacts
<1> QED  BY <1>1 DEF Numbers, Promise!Number

LEMMA EnterRefines ==
  ASSUME CycleInv', for_cycle
  PROVE  Promise!Enter
<1>1. \A k \in 1..3 : asked'[k] \in Value \union {Unset, NoStep}
  BY DEF CycleInv, AskedOK
<1>2. /\ \A k \in 1..3 : Numbers(asked')[k] = asked'[k].n
      /\ Numbers(asked') \in Promise!Number \X Promise!Number \X Promise!Number
  BY <1>1, NumbersFacts
<1> QED  BY <1>2 DEF for_cycle, Promise!Enter

LEMMA TestRefines ==
  ASSUME WholeSteps, StepAsked, CycleInv, for_test
  PROVE  Promise!Iterate \/ Promise!Exhausted
<1> DEFINE v == asked[1].n + Len(visited) * asked[3].n
<1>1. /\ v \in Int /\ pc = "test"
      /\ Goes <=> IF asked[3].n < One THEN v >= asked[2].n ELSE v <= asked[2].n
      /\ Goes \in BOOLEAN
      /\ pc' = IF Goes THEN "body" ELSE "over"
      /\ visited' = IF Goes THEN Append(visited, v) ELSE visited
      /\ UNCHANGED asked
  BY TestFacts
<1>2. /\ asked[1].n \in Int /\ asked[2].n \in Int /\ asked[3].n \in Int
  BY <1>1, LoopFacts DEF InLoop
<1>3. Promise!Nth(Len(visited)) = v
  BY DEF Promise!Nth, Numbers
<1>4. asked[3].n > 0 <=> ~ (asked[3].n < One)
  <2>1. asked[3].n <= 0 \/ asked[3].n >= One
    BY <1>2, OneAssumption DEF WholeSteps, StepAsked, NoStep
  <2> QED  BY <2>1, <1>2, OneAssumption
<1>5. NIL \notin {asked[k].n : k \in 1..3}
  BY <1>2, NilAssumption
<1>6. Numbers(asked)[3] = asked[3].n /\ Numbers(asked)[2] = asked[2].n
  BY DEF Numbers
<1> HIDE DEF v
<1>7. Promise!Within(v) <=> Goes
  BY <1>1, <1>4, <1>6 DEF Promise!Within
<1>8. Numbers(asked)' = Numbers(asked)
  BY <1>1 DEF Numbers
<1>9. CASE Goes
  BY <1>1, <1>3, <1>5, <1>7, <1>8, <1>9 DEF Promise!Iterate
<1>10. CASE ~ Goes
  BY <1>1, <1>3, <1>5, <1>7, <1>8, <1>10 DEF Promise!Exhausted
<1> QED  BY <1>1, <1>9, <1>10

LEMMA StepRefines ==
  ASSUME WholeSteps, StepAsked, CycleInv, CycleInv', [Next]_vars
  PROVE  [Promise!LoopNext]_(Promise!loopVars)
<1>1. CASE for_cycle
  BY <1>1, EnterRefines DEF Promise!LoopNext
<1>2. CASE terminating_cond \/ for_default_step \/ for_increment \/ for_copy
  <2>1. pc # "over" /\ pc' # "over" /\ UNCHANGED <<asked, visited>>
    BY <1>2 DEF terminating_cond, for_default_step, for_increment, for_copy,
                NilCheck
  <2> QED  BY <2>1 DEF Promise!loopVars, Numbers
<1>3. CASE for_test
  BY <1>3, TestRefines DEF Promise!LoopNext
<1>4. CASE body \/ for_end
  <2>1. pc # "over" /\ pc' # "over" /\ UNCHANGED <<asked, visited>>
    BY <1>4 DEF body, for_end
  <2> QED  BY <2>1 DEF Promise!loopVars, Numbers
<1>5. CASE break_cycle
  <2>1. /\ pc = "body" /\ pc' = "over" /\ visited # <<>>
        /\ UNCHANGED <<asked, visited>>
    BY <1>5 DEF break_cycle, CycleInv, LoopOK
  <2>2. NIL \notin {asked[k].n : k \in 1..3}
    BY <2>1, LoopFacts, NilAssumption DEF InLoop
  <2> QED  BY <2>1, <2>2 DEF Promise!LoopNext, Promise!Leave, Numbers
<1>6. CASE Terminating \/ UNCHANGED vars
  BY <1>6 DEF Terminating, vars, Promise!loopVars, Numbers
<1> QED  BY <1>1, <1>2, <1>3, <1>4, <1>5, <1>6 DEF Next, Cycle

(* The generated cycle implements the counting loop's safety: for every    *)
(* choice of expressions whose steps do not lie strictly between 0 and 1,  *)
(* every assignment of the body and every number of entries.               *)
THEOREM ForLoopCounts == ASSUME WholeSteps PROVE Spec => Promise!LoopSafety
<1>1. Init => Promise!LoopInit
  <2>1. Init => \A k \in 1..3 : asked[k] \in Value \union {Unset, NoStep}
    BY DEF Init
  <2>2. Init => Numbers(asked)
                  \in Promise!Number \X Promise!Number \X Promise!Number
    BY <2>1, NumbersFacts
  <2> QED  BY <2>2 DEF Init, Promise!LoopInit
<1>2. StepAsked /\ CycleInv /\ CycleInv' /\ [Next]_vars
        => [Promise!LoopNext]_(Promise!loopVars)
  BY StepRefines
<1> QED  BY <1>1, <1>2, CycleInvariant, StepAskedInvariant, PTL
            DEF Spec, Promise!LoopSafety
===============================================================================
