------------------------------ MODULE Codegen -------------------------------
(***************************************************************************)
(* The parser together with the control flow and the variables of the code *)
(* it generates for functions (code_generator.c, the list of instructions  *)
(* instrListFunctions).  Every action is one of Parser's, with the         *)
(* instructions the same rule appends to the list, or inserts in it.       *)
(*                                                                         *)
(* An instruction is a label, a jump, the creation of a variable or a      *)
(* write to one; whatever else a rule emits is one OTHER.  The code of     *)
(* global statements goes to another list and is not kept here.            *)
(***************************************************************************)
EXTENDS Parser, List

CONSTANT MaxSimple   \* bound: simple statements in the functions' code

ASSUME MaxSimpleAssumption == MaxSimple \in Nat

VARIABLES
  instrListFunctions,  \* instructions.instrListFunctions
  before_loop_start,   \* instructions.before_loop_start: a position in it
  tmp_instr            \* the instructions in the text that is not added yet

gen   == <<instrListFunctions, before_loop_start, tmp_instr>>
cgvars == <<vars, gen>>

NULL == 0
EmptyList == [items |-> <<>>, tail |-> 0]

(***************************************************************************)
(* Instructions.  A label is a kind, an id and a number or a function; a   *)
(* variable of the local frame is a kind, a scope's id and a name.         *)
(***************************************************************************)
Ops == {"LABEL", "JUMP", "BREAK", "RETURN", "DEFVAR", "MOVE", "USE", "OTHER"}

Instr(op, arg) == [op |-> op, arg |-> arg, hoist |-> FALSE]

Other    == Instr("OTHER", <<>>)
Label(l) == Instr("LABEL", l)
Jump(l)  == Instr("JUMP", l)

End(uid)      == <<"end", uid, 0>>
If(uid, n)    == <<"if", uid, n>>
IfEnd(uid)    == <<"ifend", uid, 0>>
Func(f)       == <<"func", 0, f>>
FuncEnd(f)    == <<"funcend", 0, f>>
Loop(k, uid)  == <<k, uid, 0>>   \* k: while, repeat, for, step_le, body

Var(uid, x)   == <<"var", uid, x>>

(* Fault: a variable's creation is never moved in front of the loop.       *)
DefvarInPlace(v) == Instr("DEFVAR", v)

(* generate_defvar: ADD_INSTR_WHILE inside a loop, ADD_INSTR_TMP elsewhere.*)
Defvar(v) == [Instr("DEFVAR", v) EXCEPT !.hoist = in_loop']

(* ADD_INSTR_TMP, or ADD_INSTR_WHILE with the position b.                  *)
Emit(l, b, instr) == IF instr.hoist THEN LInsert_after(l, b, instr)
                                    ELSE LAppend(l, instr)

EmitAll(l, b, code) ==
  LET after[i \in 0..Len(code)] ==
        IF i = 0 THEN l ELSE Emit(after[i-1], b, code[i])
  IN  after[Len(code)]

(* What a rule left in tmp_instr is added with the next rule's first       *)
(* instruction, in one text: if that one is moved in front of the loop,    *)
(* where the last one added is the first, so is the rest.                  *)
Moved(text) == [i \in 1..Len(text) |-> [text[i] EXCEPT !.hoist = TRUE]]

WithText(code) ==
  IF tmp_instr = <<>> \/ code = <<>> THEN code
  ELSE IF Head(code).hoist
       THEN <<Head(code)>> \o Moved(Reverse(tmp_instr)) \o Tail(code)
       ELSE tmp_instr \o code

(* The code is added to list l, b becomes before_loop_start, and the text  *)
(* is what is left in tmp_instr.  A rejected program's code is freed       *)
(* unread, an accepted one's when it was printed (ifj21.c).                *)
Generate(l, b, code, text) ==
  IF phase' \in {"running", "accepted"}
  THEN /\ instrListFunctions' = EmitAll(l, b, code)
       /\ before_loop_start' = b
       /\ tmp_instr' = text
  ELSE /\ instrListFunctions' = EmptyList
       /\ before_loop_start' = NULL
       /\ tmp_instr' = <<>>

(* A rule's code, from the next position before a loop on.                 *)
GenerateFrom(b, code) == Generate(instrListFunctions, b, WithText(code), <<>>)
GenerateHere(code)    == GenerateFrom(before_loop_start, code)

GenerateNothing ==
  Generate(instrListFunctions, before_loop_start, <<>>, tmp_instr)

(* A cycle's first lines: the outermost one remembers the tail.            *)
LoopStart(l) == IF in_loop THEN before_loop_start ELSE l.tail

(* Fault: the end of an inner cycle forgets the position, too.             *)
ForgetAlways == NULL

(* A cycle's last lines: the outermost one forgets it.                     *)
LoopStartAfter ==
  IF outer_loop_id = SS_Head(symstack).uid THEN NULL ELSE before_loop_start

(* Fault: the name belongs to the scope at the head.                       *)
HeadVariable(x) == Var(SS_Head(symstack).uid, x)

(* generate_var_name of a variable that exists, found by                   *)
(* Symstack.get_local_symbol.                                              *)
Variable(x) ==
  Var(symstack[CHOOSE k \in 2..Len(symstack) : IsFoundAt(symstack, x, k)].uid, x)

IsVariable(x) == \E k \in 2..Len(symstack) : IsFoundAt(symstack, x, k)

(***************************************************************************)
(* Headers and the statements without a body.                              *)
(***************************************************************************)
gen_function_definition(f) ==
  function_definition(f) /\ GenerateHere(<<Label(Func(f)), Other>>)

(* generate_func_start_param, which never hoists.                          *)
Param(x) == <<Instr("DEFVAR", Var(SS_Head(symstack).uid, x)),
              Instr("MOVE", Var(SS_Head(symstack).uid, x))>>

gen_funparam_def_list(x, t) == funparam_def_list(x, t) /\ GenerateHere(Param(x))
gen_other_funparams(x, t)   == other_funparams(x, t) /\ GenerateHere(Param(x))

(* generate_return_defvars, one for each type in definition.returns.       *)
gen_funretopt(rets) ==
  /\ funretopt(rets)
  /\ LET n == Len(functions'[Top.id].definition.returns)
         defvars == [i \in 1..n |-> Instr("DEFVAR", <<"return", i, NoName>>)]
     IN  GenerateHere(defvars \o <<Other>>)

SimpleStatements(l) ==
  SelectSeq(l.items, LAMBDA i : i.op \in {"MOVE", "BREAK", "RETURN"})

RoomForStatement == Len(SimpleStatements(instrListFunctions)) < MaxSimple

(* The variable is created and set in the scope at the head, and nothing   *)
(* comes first if its value is nil (generate_var_declaration).             *)
gen_var_definition(x) ==
  /\ RoomForStatement
  /\ var_definition(x)
  /\ LET v == Var(SS_Head(symstack).uid, x)
     IN  \/ GenerateHere(<<Other, Defvar(v), Instr("MOVE", v)>>)
         \/ GenerateHere(<<Defvar(v), Instr("MOVE", v)>>)

(* An assignment; calls and their frames are abstracted.                   *)
gen_function_expression(x) ==
  /\ RoomForStatement
  /\ InBody /\ IsVariable(x)
  /\ function_expression
  /\ GenerateHere(<<Other, Instr("MOVE", Variable(x))>>)

(* SS_Get_parent_func_name: the innermost function frame's fun_name.       *)
ParentFuncName ==
  symstack[CHOOSE i \in 1..Len(symstack) : IsParentFrame(symstack, i)].fun

gen_return_stmt ==
  /\ RoomForStatement
  /\ return_stmt
  /\ GenerateHere(<<Other, Instr("RETURN", FuncEnd(ParentFuncName))>>)

gen_break ==
  /\ RoomForStatement
  /\ break_
  /\ GenerateHere(<<Instr("BREAK", End(SS_Head(symstack).uid))>>)

(***************************************************************************)
(* Cycles.  Until the body begins, the new scope's id is unique_id.        *)
(***************************************************************************)
gen_while_cycle ==
  /\ while_cycle
  /\ GenerateFrom(LoopStart(instrListFunctions),
       <<Label(Loop("while", unique_id)), Other, Jump(End(unique_id))>>)

gen_repeat_until_cycle ==
  /\ repeat_until_cycle
  /\ GenerateFrom(LoopStart(instrListFunctions),
       <<Other, Label(Loop("repeat", unique_id))>>)

gen_repeat_until_end ==
  /\ repeat_until_end
  /\ LET uid == SS_Head(symstack).uid
     IN  GenerateFrom(LoopStartAfter,
           <<Other, Jump(Loop("repeat", uid)), Label(End(uid))>>)

(* A variable of a for cycle: created, then set.                           *)
ForVar(v) == <<Defvar(v), Instr("USE", v)>>

(* The three expressions with their variables, and the hidden copy of the  *)
(* control variable.                                                       *)
ForHeader(uid, x) ==
  <<Other>> \o ForVar(Var(uid, x))
    \o <<Other>> \o ForVar(<<"terminating_cond", uid, NoName>>)
    \o <<Other>> \o ForVar(<<"step", uid, NoName>>)
    \o <<Defvar(<<"for", uid, x>>)>>

(* The rest of generate_for_cond, which adds it to no list.                *)
ForText(uid, x) ==
  <<Instr("USE", <<"for", uid, x>>), Label(Loop("for", uid)),
    Jump(Loop("step_le", uid)), Jump(End(uid)), Jump(Loop("body", uid)),
    Label(Loop("step_le", uid)), Jump(End(uid)), Label(Loop("body", uid))>>

(* The comment comes before the tail is remembered.                        *)
gen_for_cycle(x) ==
  /\ for_cycle(x)
  /\ LET l == EmitAll(instrListFunctions, before_loop_start, WithText(<<Other>>))
     IN  Generate(l, LoopStart(l), ForHeader(unique_id, x), ForText(unique_id, x))

(***************************************************************************)
(* Branches.  The numbers are size_t values a char is converted to, so the *)
(* `- 1' of generate_cond_else is not a char's.                            *)
(***************************************************************************)
gen_if_statement ==
  if_statement /\ GenerateHere(<<Other, Jump(If(unique_id, cond_cnt'))>>)

gen_elseif_stmt ==
  /\ elseif_stmt
  /\ GenerateHere(<<Jump(IfEnd(outer_cond_id)), Label(If(outer_cond_id, cond_cnt)),
                    Other, Jump(If(outer_cond_id, cond_cnt'))>>)

(* Fault: the label of an else is the counter's new value.                 *)
ElseLabelNext(n) == n

(* generate_cond_else's cond_num - 1.                                      *)
ElseLabel(n) == n - 1

gen_else_stmt ==
  /\ else_stmt
  /\ GenerateHere(<<Jump(IfEnd(outer_cond_id)),
                    Label(If(outer_cond_id, ElseLabel(cond_cnt')))>>)

(* generate_cond_end.                                                      *)
CondEnd == <<Label(IfEnd(outer_cond_id)), Label(If(outer_cond_id, cond_cnt))>>

gen_cond_body_end == cond_body_end /\ GenerateHere(CondEnd)

(* `end' in fun_body: the code is chosen by the scope at the head.         *)
LoopEnd(k, uid) == <<Jump(Loop(k, uid)), Label(End(uid))>>

gen_fun_body_end ==
  /\ fun_body_end
  /\ LET head == SS_Head(symstack)
     IN CASE head.type = "while_cycle" ->
               GenerateFrom(LoopStartAfter, LoopEnd("while", head.uid))
          [] head.type = "for_cycle" ->
               GenerateFrom(LoopStartAfter,
                        <<Instr("USE", <<"for", Variable(Top.id)[2], Top.id>>)>>
                          \o LoopEnd("for", head.uid))
          [] head.type = "condition" -> GenerateHere(CondEnd)
          [] head.type = "function" ->
               GenerateHere(<<Label(FuncEnd(head.fun)), Other>>)
          [] OTHER -> GenerateNothing

(***************************************************************************)
(* The specification.                                                      *)
(***************************************************************************)
(* The built-in functions' code is there from the start, so the list is    *)
(* not empty.                                                              *)
CodegenInit ==
  /\ Init
  /\ instrListFunctions = [items |-> <<Other>>, tail |-> 1]
  /\ before_loop_start = NULL
  /\ tmp_instr = <<>>

(* What emits nothing in this list.                                        *)
Silent ==
  \/ program
  \/ unexpected_token
  \/ global_expression
  \/ stmt_list_end
  \/ \E f \in Names, ps, rs \in ShortSeqs :
       function_declaration(f, [params |-> ps, returns |-> rs])
  \/ Free_parser
  \/ Terminating

GenHeader ==
  \/ \E f \in Names : gen_function_definition(f)
  \/ \E x \in Names, t \in Types : gen_funparam_def_list(x, t)
  \/ \E x \in Names, t \in Types : gen_other_funparams(x, t)
  \/ \E rs \in ShortSeqs : gen_funretopt(rs)

GenStatement ==
  \/ \E x \in Names : gen_var_definition(x)
  \/ \E x \in Names : gen_function_expression(x)
  \/ gen_return_stmt
  \/ gen_break
  \/ gen_while_cycle
  \/ \E x \in Names : gen_for_cycle(x)
  \/ gen_repeat_until_cycle
  \/ gen_repeat_until_end
  \/ gen_if_statement
  \/ gen_elseif_stmt
  \/ gen_else_stmt
  \/ gen_cond_body_end
  \/ gen_fun_body_end

CodegenNext == \/ Silent /\ GenerateNothing
               \/ GenHeader
               \/ GenStatement

CodegenSpec == CodegenInit /\ [][CodegenNext]_cgvars

(***************************************************************************)
(* Properties.                                                             *)
(***************************************************************************)
Code   == instrListFunctions.items
Places == 1..Len(Code)

PlacesOf(ops)  == {i \in Places : Code[i].op \in ops}
FunctionStarts == {i \in PlacesOf({"LABEL"}) : Code[i].arg[1] = "func"}

(* Every function's code begins with its label.                            *)
SameFunction(i, j) == \A h \in FunctionStarts : h <= i <=> h <= j

(* The jump at place i has one target, in its own function's code.         *)
Resolves(i, labels) ==
  LET targets == {j \in labels : Code[j].arg = Code[i].arg}
  IN  \E j \in targets : targets = {j} /\ SameFunction(i, j)

(* In the code of an accepted program every jump of a loop, of a branch    *)
(* (code_generator.c:912-975) and of a return statement, however they are  *)
(* nested, leads to exactly one label, inside the same function.           *)
JumpsResolve ==
  phase = "accepted" =>
    LET labels == PlacesOf({"LABEL"})
    IN  \A i \in PlacesOf({"JUMP", "RETURN"}) : Resolves(i, labels)

(* tests/testgen.c:1202 expects the program with "Break inside if          *)
(* statement" (line 1213) to run: a break's target exists, too.            *)
BreaksResolve ==
  phase = "accepted" =>
    \A i \in PlacesOf({"BREAK"}) : Resolves(i, PlacesOf({"LABEL"}))

(* What lies between a label and a later jump to it is run again and again.*)
BackwardJumps ==
  {b \in PlacesOf({"LABEL"}) \X PlacesOf({"JUMP"}) :
     b[1] < b[2] /\ Code[b[1]].arg = Code[b[2]].arg}

(* What generate_defvar moves in front of a loop is what it "generates:    *)
(* DEFVAR LF@%var" (code_generator.c:605), and nothing else.               *)
OnlyDefvarsAreMoved == \A i \in Places : Code[i].hoist => Code[i].op = "DEFVAR"

(* No variable of a frame is created twice: no DEFVAR is in a loop's code, *)
(* from which even the definitions in nested loops' bodies are moved out   *)
(* (the purpose of before_loop_start, code_generator.c:56), and a function *)
(* has no two DEFVARs of a name.  Where a for cycle's header was moved     *)
(* with a definition, neither this nor the next property holds.            *)
VariablesCreatedOnce ==
  OnlyDefvarsAreMoved =>
    LET defvars == PlacesOf({"DEFVAR"}) IN
    /\ \A k \in defvars, m \in defvars :
         (Code[m].arg = Code[k].arg /\ SameFunction(k, m)) => m = k
    /\ \A b \in BackwardJumps : \A k \in defvars : k \notin b[1]..b[2]

(* A write to a variable, wherever the name was found on the stack of      *)
(* scopes, comes after the variable's creation in the same function.       *)
VariablesCreatedBeforeUse ==
  OnlyDefvarsAreMoved =>
    LET defvars == PlacesOf({"DEFVAR"}) IN
    \A k \in PlacesOf({"MOVE", "USE"}) :
      \E m \in defvars : /\ m < k
                         /\ Code[m].arg = Code[k].arg
                         /\ SameFunction(m, k)

(* Between two rules tail is the list's last item, so that appending drops *)
(* nothing (list.c:63), and inside a cycle, and only there,                *)
(* before_loop_start is an item before it, so that inserting a variable's  *)
(* creation there neither fails (list.c:70) nor leaves tail behind         *)
(* (list.c:79).                                                            *)
InsertionIsSafe ==
  phase = "running" =>
    /\ instrListFunctions.tail = Len(Code)
    /\ in_loop <=> before_loop_start # NULL
    /\ before_loop_start < instrListFunctions.tail
=============================================================================
