------------------------------- MODULE ForLoop -------------------------------
(***************************************************************************)
(* The run time of one generated for cycle (for_cycle and for_increment in *)
(* parser.c; generate_for_cond, generate_for_end and the generators of its *)
(* variables in code_generator.c), which an enclosing cycle may enter      *)
(* again.  Its variables keep their values from one entry to the next.     *)
(***************************************************************************)
EXTENDS Integers, Sequences

CONSTANTS NIL,        \* nil@nil, as a number
          One,        \* float@0x1.0p+0, in the unit of all numbers
          Initials, Limits, Steps,   \* what the expressions may evaluate to
          Assigned,   \* what the body may assign to the control variable
          MaxEntries, \* bound: entries into the cycle
          MaxIterations \* bound: iterations of one entry

Value == [type : {"int", "float"}, n : Int] \union [type : {"nil"}, n : {NIL}]

(* for_increment without an expression.                                    *)
NoStep == [type |-> "none", n |-> One]

ASSUME OneAssumption    == One \in Nat \ {0}
ASSUME NilAssumption    == NIL \notin Int
ASSUME ValuesAssumption ==
  /\ Initials \subseteq Value /\ Limits \subseteq Value
  /\ Steps \subseteq Value \union {NoStep} /\ Assigned \subseteq Value
ASSUME EntriesAssumption == MaxEntries \in Nat
ASSUME IterationsAssumption == MaxIterations \in Nat

VARIABLES pc,       \* the next piece of code
          asked,    \* what the three expressions evaluate to
          lf,       \* variables of the frame: i, its hidden copy, limit, step
          data,     \* the data stack
          result,   \* GF@%expr_result
          entries,  \* entries into the cycle so far
          visited,  \* history: i at LABEL $for$id$body
          exit      \* exit code, 0 until an instruction stops the program

vars == <<pc, asked, lf, data, result, entries, visited, exit>>

Float(x) == [type |-> "float", n |-> x]
Bool(b)  == [type |-> "bool", n |-> b]
Unset    == [type |-> "unset", n |-> 0]

ERROR_NIL  == 8
WRONG_TYPE == 53

Init ==
  /\ pc = "over"
  /\ asked = <<Unset, Unset, NoStep>>
  /\ lf = [var |-> Unset, copy |-> Unset, limit |-> Unset, step |-> Unset]
  /\ data = <<>> /\ result = Unset
  /\ entries = 0 /\ visited = <<>> /\ exit = 0

(* Fault: nil is converted like an integer.                                *)
recast_nil(v) == IF v.type = "float" THEN v ELSE Float(v.n)

(* Fault: the call of the conversion is missing.                           *)
recast_nothing(v) == v

(* $$recast_to_float_second leaves nil and floats as they are.             *)
recast_to_float(v) == IF v.type = "int" THEN Float(v.n) ELSE v

(* Fault: for nil the program goes back instead of stopping.               *)
NilCheckAgain(v, next) ==
  IF v.type = "nil" THEN UNCHANGED <<pc, exit>> ELSE pc' = next /\ UNCHANGED exit

(* JUMPIFEQ $$ERROR_NIL, then the next piece of code.                      *)
NilCheck(v, next) ==
  IF v.type = "nil" THEN pc' = "stopped" /\ exit' = ERROR_NIL
                    ELSE pc' = next /\ UNCHANGED exit

(***************************************************************************)
(* The header.  The first expression's value is moved to the control       *)
(* variable as it is; the other two are recast and checked.                *)
(***************************************************************************)
for_cycle ==
  /\ pc = "over" /\ entries < MaxEntries
  /\ asked' \in Initials \X Limits \X Steps
  /\ lf' = [lf EXCEPT !.var = asked'[1]]
  /\ result' = asked'[1]
  /\ pc' = "limit"
  /\ entries' = entries + 1
  /\ visited' = <<>>
  /\ UNCHANGED <<data, exit>>

terminating_cond ==
  /\ pc = "limit"
  /\ lf' = [lf EXCEPT !.limit = recast_to_float(asked[2])]
  /\ result' = recast_to_float(asked[2])
  /\ NilCheck(lf'.limit, "step")
  /\ UNCHANGED <<asked, data, entries, visited>>

for_default_step ==
  /\ pc = "step" /\ asked[3] = NoStep
  /\ lf' = [lf EXCEPT !.step = Float(One)]
  /\ pc' = "cond"
  /\ UNCHANGED <<asked, data, result, entries, visited, exit>>

for_increment ==
  /\ pc = "step" /\ asked[3] # NoStep
  /\ lf' = [lf EXCEPT !.step = recast_to_float(asked[3])]
  /\ result' = recast_to_float(asked[3])
  /\ NilCheck(lf'.step, "cond")
  /\ UNCHANGED <<asked, data, entries, visited>>

(* generate_for_cond up to LABEL $for$id: the hidden copy.                 *)
for_copy ==
  /\ pc = "cond"
  /\ lf' = [lf EXCEPT !.copy = recast_to_float(lf.var)]
  /\ result' = recast_to_float(lf.var)
  /\ NilCheck(lf.var, "test")
  /\ UNCHANGED <<asked, data, entries, visited>>

(***************************************************************************)
(* The test, from LABEL $for$id to LABEL $for$id$body.  The copy overwrites*)
(* what the body did to the control variable.  LT and GT need operands of  *)
(* one type.                                                               *)
(***************************************************************************)
Negative(step) == step.n < One

(* Fault: the limit itself is left out.                                    *)
HoldsStrictly(lt, v, w) == IF lt THEN v.n < w.n ELSE v.n > w.n

Holds(lt, v, w) == IF lt THEN v.n <= w.n ELSE v.n >= w.n

(* Fault: another comparison leaves its outcome, too.                      *)
TwoPushed(goes) == data \o <<Bool(goes), Bool(goes)>>

(* PUSHS of the outcome, which nobody pops.                                *)
AfterTest(goes) == Append(data, Bool(goes))

for_test ==
  LET up   == ~ Negative(lf.step)
      v    == lf.copy
      goes == Holds(up, v, lf.limit)
  IN  /\ pc = "test"
      /\ lf' = [lf EXCEPT !.var = v]
      /\ IF {lf.step.type, lf.limit.type, v.type} = {"float"}
         THEN /\ result' = Bool(goes)
              /\ data' = AfterTest(goes)
              /\ pc' = IF goes THEN "body" ELSE "over"
              /\ visited' = IF goes THEN Append(visited, v.n) ELSE visited
              /\ UNCHANGED exit
         ELSE /\ pc' = "stopped" /\ exit' = WRONG_TYPE
              /\ UNCHANGED <<result, data, visited>>
      /\ UNCHANGED <<asked, entries>>

(***************************************************************************)
(* The body assigns to the control variable, or not, or leaves the cycle   *)
(* by a break of its own, which is all it can do in the last iteration the *)
(* bound allows.  Then ADD and JUMP of generate_for_end.                   *)
(***************************************************************************)
body ==
  /\ pc = "body" /\ Len(visited) < MaxIterations
  /\ \E v \in Assigned \union {lf.var} : lf' = [lf EXCEPT !.var = v]
  /\ pc' = "end"
  /\ UNCHANGED <<asked, data, result, entries, visited, exit>>

break_cycle ==
  /\ pc = "body"
  /\ pc' = "over"
  /\ UNCHANGED <<asked, lf, data, result, entries, visited, exit>>

for_end ==
  /\ pc = "end"
  /\ IF lf.copy.type = lf.step.type
     THEN /\ lf' = [lf EXCEPT !.copy.n = @ + lf.step.n]
          /\ pc' = "test" /\ UNCHANGED exit
     ELSE pc' = "stopped" /\ exit' = WRONG_TYPE /\ UNCHANGED lf
  /\ UNCHANGED <<asked, data, result, entries, visited>>

(* The code around the cycle goes on, or the program has stopped.          *)
Terminating ==
  /\ pc = "stopped" \/ (pc = "over" /\ entries = MaxEntries)
  /\ UNCHANGED vars

Cycle == \/ terminating_cond \/ for_default_step \/ for_increment \/ for_copy
         \/ for_test \/ body \/ for_end

Next == for_cycle \/ Cycle \/ break_cycle \/ Terminating

(* A step that is not negative but less than one is taken for a negative   *)
(* one; adding it never leads below the limit.                             *)
NeverEnds ==
  /\ NIL \notin {asked[k].n : k \in 1..3}
  /\ asked[3].n \in 0..(One - 1) /\ asked[1].n >= asked[2].n

(* The interpreter executes the next instruction, and bodies come to their *)
(* end.  No body has to break, but for the bound, which must not stop the  *)
(* cycles that go on for ever; an ending one that met it would be stuck.   *)
Spec == /\ Init /\ [][Next]_vars
        /\ WF_vars(Cycle)
        /\ WF_vars(NeverEnds /\ Len(visited) = MaxIterations /\ break_cycle)
-----------------------------------------------------------------------------
(***************************************************************************)
(* Properties.                                                             *)
(***************************************************************************)
FrameTypes == [var   : Value \union {Unset}, copy : Value \union {Unset},
               limit : Value \union {Unset}, step : Value \union {Unset}]

Codes == {"over", "limit", "step", "cond", "test", "body", "end", "stopped"}

(* The type invariant.                                                     *)
TypeOK ==
  /\ pc \in Codes
  /\ lf \in FrameTypes
  /\ entries \in 0..MaxEntries
  /\ data \in Seq({Bool(TRUE), Bool(FALSE)})
  /\ visited \in Seq(Int)
  /\ exit \in {0, ERROR_NIL, WRONG_TYPE}

Numbers(a) == <<a[1].n, a[2].n, a[3].n>>

(* The cycle implements the counting loop: the body runs for the first     *)
(* value and every step after it up to the limit, computed from the values *)
(* the expressions had at the start, whatever the body assigns to i and    *)
(* whatever an earlier entry left in the cycle's variables; and it goes on.*)
Promise == INSTANCE CountingLoop WITH
  NotANumber <- NIL,
  asked      <- Numbers(asked),
  status     <- IF pc = "over" THEN "over"
                ELSE IF NIL \in {asked[k].n : k \in 1..3} THEN "error"
                ELSE "running"

CountingLoopSpec == Promise!LoopSpec

(* Whichever of the three expressions are integers, and whatever the body  *)
(* stores in i, the instructions of the test and of the end find floats:   *)
(* the cycle stops the program for a nil among the expressions only, and   *)
(* with the exit code for it.                                              *)
OnlyNilStops ==
  /\ pc = "stopped" <=> exit # 0
  /\ exit # 0 => exit = ERROR_NIL /\ NIL \in {asked[k].n : k \in 1..3}

(* With a step of zero (or between 0 and 1) and a first value that is not  *)
(* below the limit, every test leads into the body: only a break ends the  *)
(* cycle.                                                                  *)
SmallStepsGoOn == [][NeverEnds /\ pc = "test" => pc' = "body"]_vars

(* Every entry comes to an end, the cycle's or the program's, without a    *)
(* break, except those with such a step and first value, which do not.     *)
EntriesEnd ==
  /\ (pc = "limit" /\ ~ NeverEnds) ~> pc \in {"over", "stopped"}
  /\ SmallStepsGoOn

(* The cycle takes nothing from the data stack, where an expression that   *)
(* called the function keeps its operands, and leaves there one value per  *)
(* iteration and one for the test that ends it, in its first entry.        *)
LeftOnStack == entries = 1 => Len(data) - Len(visited) \in {0, 1}

(* "check if step is < 0": a cycle with a positive step counts up, so its  *)
(* body runs at least once if the first value is below the limit.          *)
PositiveStepCountsUp ==
  pc = "over" /\ entries > 0 /\ asked[3].n > 0 /\ asked[1].n <= asked[2].n
    => visited # <<>>
=============================================================================
