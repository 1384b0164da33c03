------------------------------- MODULE Parser -------------------------------
(***************************************************************************)
(* The recursive-descent parser (parser.c) with the state its semantic     *)
(* checks and the code generator's bookkeeping live in: the stack of       *)
(* symbol tables, the global functions, the loop counters and the branch   *)
(* counters.                                                               *)
(*                                                                         *)
(* The C call stack is the variable `calls': one activation per procedure  *)
(* that is waiting for the statements of a body.  A step is one rule of    *)
(* the grammar, from one choice of the next token to the following one.    *)
(* The source text is not a variable: the next token is chosen by \E, so   *)
(* the behaviours are those of every source text within the bounds.        *)
(* Expressions (expressions.c) are nondeterministic here: they succeed, or *)
(* fail with one of the errors they can set, or fail without setting any.  *)
(***************************************************************************)
EXTENDS Symstack, CondInfo, Integers, FiniteSets

CONSTANTS
  Types,       \* the types a parameter or a return value can have
  Builtins,    \* names of the built-in functions
  BuiltinSig,  \* their signatures
  MaxParams,   \* bound: parameters, and return values, of a function
  MaxScopes    \* bound: scopes opened in one run, the global one included;
               \* ids of five digits, which is all cond_info has room for

Signatures == [params : Seq(Types), returns : Seq(Types)]
EmptySig   == [params |-> <<>>, returns |-> <<>>]

ASSUME BuiltinsAssumption == /\ Builtins \subseteq Names
                             /\ BuiltinSig \in [Builtins -> Signatures]
ASSUME BoundsAssumption   == MaxParams \in Nat /\ MaxScopes \in 0..100000

VARIABLES
  phase,               \* where Analyse is; "done" when the process exits
  error,               \* the error register (errors.c)
  calls,               \* activations of the parser's procedures
  symstack,            \* the stack of symbol tables
  unique_id,           \* __unique__id, the id the next scope gets
  functions,           \* function_semantics of the global table's symbols
  nested_cycle_level,
  in_loop,             \* instructions.in_loop
  outer_loop_id,       \* instructions.outer_loop_id
  outer_cond_id,       \* instructions.outer_cond_id
  cond_cnt,            \* instructions.cond_cnt
  cond_info            \* instructions.cond_info

control == <<phase, error, calls>>
scopes  == <<symstack, unique_id>>
loops   == <<nested_cycle_level, in_loop, outer_loop_id>>
conds   == <<outer_cond_id, cond_cnt, cond_info>>
vars    == <<control, scopes, functions, loops, conds>>

(***************************************************************************)
(* Error codes.                                                            *)
(***************************************************************************)
NOERROR == 0
LEXICAL == 1
SYNTAX == 2
DEFINITION == 3
TYPE_MISSMATCH == 4
FUNCTION_SEMANTICS == 5
EXPRESSIONS_TYPE_INCOMPATIBILITY == 6
SEMANTICS_OTHER == 7
INTERNAL == 99

ErrorCodes == {NOERROR, LEXICAL, SYNTAX, DEFINITION, TYPE_MISSMATCH,
               FUNCTION_SEMANTICS, EXPRESSIONS_TYPE_INCOMPATIBILITY,
               SEMANTICS_OTHER, INTERNAL}

(* A failing expression sets one of these, or leaves the register alone.   *)
ExprErrors == {LEXICAL, SYNTAX, DEFINITION, FUNCTION_SEMANTICS,
               EXPRESSIONS_TYPE_INCOMPATIBILITY, error}

(***************************************************************************)
(* Activations.  `id' is the C local id_name of a function definition or   *)
(* of a for cycle; `saved' remembers, for the properties, what the branch  *)
(* counters were when an if statement began.                               *)
(***************************************************************************)
FunBodyCallers == {"function_definition", "while_cycle", "for_cycle",
                   "else_stmt"}
BodyProcs   == FunBodyCallers \union {"cond_body", "repeat_body"}
HeaderProcs == {"funparam_def_list", "other_funparams"}
CondProcs   == {"cond_body", "else_stmt"}
Procs       == {"stmt_list"} \union BodyProcs \union HeaderProcs

Activations == [proc : Procs, id : Names \union {NoName}, saved : Int \X Int]

Activation(p, x) == [proc |-> p, id |-> x, saved |-> <<outer_cond_id, cond_cnt>>]

Top         == calls[Len(calls)]
AtStatement == phase = "running" /\ Top.proc = "stmt_list"
InBody      == phase = "running" /\ Top.proc \in BodyProcs

Call(p, x)   == Append(calls, Activation(p, x))
Become(p)    == [calls EXCEPT ![Len(calls)].proc = p]
Return       == Front(calls)

(* The statement went well: the parser goes on with the activations c.     *)
Proceed(c) == calls' = c /\ UNCHANGED <<phase, error>>

(* Every procedure on the C stack returns false.                           *)
Reject(e) == phase' = "rejected" /\ error' = e /\ calls' = <<>>

ProceedOrReject(c, codes) == Proceed(c) \/ \E e \in codes : Reject(e)

(***************************************************************************)
(* Macros of parser.c.                                                     *)
(***************************************************************************)
LocalTable  == SS_Head(symstack).table
GlobalTable == symstack[1].table

(* SYMSTACK_PUSH onto ss.                                                  *)
OpenScope(ss, type, fun) ==
  /\ unique_id < MaxScopes
  /\ symstack' = SS_Push(ss, type, unique_id, fun)
  /\ unique_id' = unique_id + 1

(* Fault: SYMSTACK_POP left out.                                           *)
CloseScopeForgotten == UNCHANGED <<symstack, unique_id>>

CloseScope == symstack' = SS_Pop(symstack) /\ UNCHANGED unique_id

(* Fault: only the local scope is searched.                                *)
IsTakenLocally(x) == x \in LocalTable

(* SEMANTICS_SYMTABLE_CHECK_AND_PUT's two lookups.                         *)
IsTaken(x) == x \in LocalTable \/ x \in GlobalTable

(* Fault: an inner cycle becomes the remembered one.                       *)
EnterLoopAlways ==
  /\ nested_cycle_level' = nested_cycle_level + 1
  /\ in_loop' = TRUE
  /\ outer_loop_id' = unique_id

(* The first lines of every cycle: the outermost one is remembered.        *)
EnterLoop ==
  /\ nested_cycle_level' = nested_cycle_level + 1
  /\ in_loop' = TRUE
  /\ outer_loop_id' = IF in_loop THEN outer_loop_id ELSE unique_id

(* The end of a cycle's code, under the scope at the head.                 *)
ForgetOuterLoop ==
  IF outer_loop_id = SS_Head(symstack).uid
  THEN in_loop' = FALSE /\ outer_loop_id' = 0
  ELSE UNCHANGED <<in_loop, outer_loop_id>>

(* Fault: the function's and the branch's end decrease the nesting too.    *)
LeaveBodyAlways == nested_cycle_level' = nested_cycle_level - 1

(* Fault: the end of a for cycle leaves the nesting level as it is.        *)
LeaveWhileOnly ==
  nested_cycle_level' = IF Top.proc = "while_cycle"
                        THEN nested_cycle_level - 1
                        ELSE nested_cycle_level

(* What while_cycle and for_cycle undo after their fun_body.               *)
LeaveBody ==
  nested_cycle_level' = IF Top.proc \in {"while_cycle", "for_cycle"}
                        THEN nested_cycle_level - 1
                        ELSE nested_cycle_level

(* Fault: the branch counter is not restored.                              *)
RestoreCondId ==
  /\ outer_cond_id' = PoppedId(cond_info)
  /\ cond_info' = PopCond(cond_info)
  /\ UNCHANGED cond_cnt

(* Generator.pop_cond_info.                                                *)
RestoreCond ==
  /\ outer_cond_id' = PoppedId(cond_info)
  /\ cond_cnt' = PoppedCnt(cond_info)
  /\ cond_info' = PopCond(cond_info)

(***************************************************************************)
(* The program and its global statements.                                  *)
(***************************************************************************)
program ==
  /\ phase = "prolog"
  /\ \/ phase' = "running" /\ calls' = Call("stmt_list", NoName)
        /\ UNCHANGED error
     \/ \E e \in {LEXICAL, SYNTAX, SEMANTICS_OTHER} : Reject(e)
  /\ UNCHANGED <<scopes, functions, loops, conds>>

(* The next token fits no rule.                                            *)
unexpected_token ==
  /\ phase = "running"
  /\ \E e \in {LEXICAL, SYNTAX} : Reject(e)
  /\ UNCHANGED <<scopes, functions, loops, conds>>

(* Fault: a second declaration is refused only after the definition.       *)
IsDeclaredAndDefined(f) ==
  /\ SS_Get_symbol(symstack, f)
  /\ functions[f].is_declared /\ functions[f].is_defined

(* Symstack.get_symbol finds the name and its flag is set.                 *)
IsDefined(f)  == SS_Get_symbol(symstack, f) /\ functions[f].is_defined
IsDeclared(f) == SS_Get_symbol(symstack, f) /\ functions[f].is_declared

(* Fault: return types are not compared.                                   *)
ParamsDiffer(decl, def) == decl.params # def.params

(* Semantics.check_signatures, negated.                                    *)
SignaturesDiffer(decl, def) ==
  decl.params # def.params \/ decl.returns # def.returns

AddTypes(sig, other) == [params  |-> sig.params \o other.params,
                         returns |-> sig.returns \o other.returns]

function_declaration(f, sig) ==
  /\ AtStatement
  /\ IF IsDeclared(f)
     THEN Reject(DEFINITION) /\ UNCHANGED <<scopes, functions>>
     ELSE /\ symstack' = SS_Put_symbol(symstack, f)
          /\ functions' = [functions EXCEPT
                             ![f].is_declared = TRUE,
                             ![f].declaration = AddTypes(@, sig)]
          /\ IF functions[f].is_defined
                /\ SignaturesDiffer(functions'[f].declaration,
                                    functions[f].definition)
             THEN Reject(DEFINITION)
             ELSE Proceed(calls)
          /\ UNCHANGED unique_id
  /\ UNCHANGED <<loops, conds>>

(* `function id (': the name is put in the global table, then the          *)
(* function's own scope is opened.                                         *)
function_definition(f) ==
  /\ AtStatement
  /\ IF IsDefined(f)
     THEN Reject(DEFINITION) /\ UNCHANGED <<scopes, functions>>
     ELSE /\ OpenScope(SS_Put_symbol(symstack, f), "function", f)
          /\ functions' = [functions EXCEPT ![f].is_defined = TRUE]
          /\ Proceed(Call("funparam_def_list", f))
  /\ UNCHANGED <<loops, conds>>

(* The first parameter: its type is added before its name is checked.      *)
funparam_def_list(x, t) ==
  LET f == Top.id IN
  /\ phase = "running" /\ Top.proc = "funparam_def_list"
  /\ Len(functions[f].definition.params) < MaxParams
  /\ functions' = [functions EXCEPT ![f].definition.params = Append(@, t)]
  /\ IF IsTaken(x)
     THEN Reject(DEFINITION) /\ UNCHANGED scopes
     ELSE /\ symstack' = SS_Put_symbol(symstack, x)
          /\ UNCHANGED unique_id
          /\ Proceed(Become("other_funparams"))
  /\ UNCHANGED <<loops, conds>>

(* Every further one: the name is checked first.                           *)
other_funparams(x, t) ==
  LET f == Top.id IN
  /\ phase = "running" /\ Top.proc = "other_funparams"
  /\ Len(functions[f].definition.params) < MaxParams
  /\ IF IsTaken(x)
     THEN Reject(DEFINITION) /\ UNCHANGED <<scopes, functions>>
     ELSE /\ symstack' = SS_Put_symbol(symstack, x)
          /\ functions' = [functions EXCEPT
                             ![f].definition.params = Append(@, t)]
          /\ UNCHANGED unique_id
          /\ Proceed(calls)
  /\ UNCHANGED <<loops, conds>>

(* `)' and the return types end the header; a declaration must agree.      *)
funretopt(rets) ==
  LET f == Top.id IN
  /\ phase = "running" /\ Top.proc \in HeaderProcs
  /\ functions' = [functions EXCEPT ![f].definition.returns = @ \o rets]
  /\ IF functions[f].is_declared
        /\ SignaturesDiffer(functions[f].declaration,
                            functions'[f].definition)
     THEN Reject(DEFINITION)
     ELSE Proceed(Become("function_definition"))
  /\ UNCHANGED <<scopes, loops, conds>>

global_expression ==
  /\ AtStatement
  /\ ProceedOrReject(calls, ExprErrors)
  /\ UNCHANGED <<scopes, functions, loops, conds>>

(* The end of the file: every declared function must be defined.           *)
stmt_list_end ==
  /\ AtStatement
  /\ IF \A f \in Names : functions[f].is_declared => functions[f].is_defined
     THEN phase' = "accepted" /\ calls' = <<>> /\ UNCHANGED error
     ELSE Reject(DEFINITION)
  /\ UNCHANGED <<scopes, functions, loops, conds>>

(***************************************************************************)
(* Statements of a function.                                               *)
(***************************************************************************)
(* `local id : type [= expr]': the expression comes before the name is     *)
(* checked and put.                                                        *)
var_definition(x) ==
  /\ InBody
  /\ \/ \E e \in ExprErrors \union {TYPE_MISSMATCH} : Reject(e) /\ UNCHANGED scopes
     \/ IsTaken(x) /\ Reject(DEFINITION) /\ UNCHANGED scopes
     \/ /\ ~IsTaken(x)
        /\ symstack' = SS_Put_symbol(symstack, x)
        /\ UNCHANGED unique_id
        /\ Proceed(calls)
  /\ UNCHANGED <<functions, loops, conds>>

(* An assignment or a call.  a_other_id drops the result of                *)
(* check_multiple_assignment, so an assignment may set the error register  *)
(* and go on.                                                              *)
function_expression ==
  /\ InBody
  /\ \/ ProceedOrReject(calls, ExprErrors)
     \/ /\ error' \in {TYPE_MISSMATCH, SEMANTICS_OTHER}
        /\ UNCHANGED <<phase, calls>>
  /\ UNCHANGED <<scopes, functions, loops, conds>>

(* The expected types are those of SS_Get_parent_func's symbol.            *)
return_stmt ==
  /\ InBody
  /\ ProceedOrReject(calls, ExprErrors)
  /\ UNCHANGED <<scopes, functions, loops, conds>>

break_ ==
  /\ InBody
  /\ IF nested_cycle_level = 0 THEN Reject(SYNTAX) ELSE Proceed(calls)
  /\ UNCHANGED <<scopes, functions, loops, conds>>

while_cycle ==
  /\ InBody
  /\ OpenScope(symstack, "while_cycle", NoName)
  /\ EnterLoop
  /\ ProceedOrReject(Call("while_cycle", NoName), ExprErrors)
  /\ UNCHANGED <<functions, conds>>

(* The control variable is put before the cycle's expressions are parsed.  *)
for_cycle(x) ==
  /\ InBody
  /\ unique_id < MaxScopes
  /\ unique_id' = unique_id + 1
  /\ EnterLoop
  /\ LET pushed == SS_Push(symstack, "for_cycle", unique_id, NoName) IN
     IF x \in GlobalTable
     THEN symstack' = pushed /\ Reject(DEFINITION)
     ELSE /\ symstack' = SS_Put_symbol(pushed, x)
          /\ ProceedOrReject(Call("for_cycle", x),
                             ExprErrors \union {TYPE_MISSMATCH})
  /\ UNCHANGED <<functions, conds>>

repeat_until_cycle ==
  /\ InBody
  /\ OpenScope(symstack, "do_cycle", NoName)
  /\ EnterLoop
  /\ Proceed(Call("repeat_body", NoName))
  /\ UNCHANGED <<functions, conds>>

(* `until expr' ends the innermost repeat cycle.                           *)
repeat_until_end ==
  /\ phase = "running" /\ Top.proc = "repeat_body"
  /\ \/ /\ \E e \in ExprErrors : Reject(e)
        /\ UNCHANGED <<scopes, loops>>
     \/ /\ ForgetOuterLoop
        /\ CloseScope
        /\ nested_cycle_level' = nested_cycle_level - 1
        /\ Proceed(Return)
  /\ UNCHANGED <<functions, conds>>

(* if_statement and its cond_stmt, up to `then'.                           *)
if_statement ==
  /\ InBody
  /\ OpenScope(symstack, "condition", NoName)
  /\ cond_info' = PushCond(cond_info, cond_cnt, outer_cond_id)
  /\ outer_cond_id' = unique_id
  /\ \/ cond_cnt' = 1 /\ \E e \in ExprErrors : Reject(e)
     \/ cond_cnt' = ToChar(2) /\ Proceed(Call("cond_body", NoName))
  /\ UNCHANGED <<functions, loops>>

(* elseif_stmt and its cond_stmt: a fresh scope replaces the branch's one. *)
elseif_stmt ==
  /\ phase = "running" /\ Top.proc = "cond_body"
  /\ OpenScope(SS_Pop(symstack), "condition", NoName)
  /\ \/ UNCHANGED cond_cnt /\ \E e \in ExprErrors : Reject(e)
     \/ cond_cnt' = ToChar(cond_cnt + 1) /\ Proceed(calls)
  /\ UNCHANGED <<functions, loops, outer_cond_id, cond_info>>

else_stmt ==
  /\ phase = "running" /\ Top.proc = "cond_body"
  /\ OpenScope(SS_Pop(symstack), "condition", NoName)
  /\ cond_cnt' = ToChar(cond_cnt + 1)
  /\ Proceed(Become("else_stmt"))
  /\ UNCHANGED <<functions, loops, outer_cond_id, cond_info>>

(* pop_cond_info on a string that is too short: the soft_assert in         *)
(* Dynstring.trunc_to_len ends the process.                                *)
SoftAssertFails ==
  /\ phase' = "done" /\ error' = INTERNAL /\ calls' = <<>>
  /\ UNCHANGED <<scopes, loops, conds>>

(* `end' in cond_body: the if statement had no else.                       *)
cond_body_end ==
  /\ phase = "running" /\ Top.proc = "cond_body"
  /\ IF CanPop(cond_info)
     THEN CloseScope /\ RestoreCond /\ Proceed(Return) /\ UNCHANGED loops
     ELSE SoftAssertFails
  /\ UNCHANGED functions

(* `end' in fun_body.  What is closed in the generated code is chosen by   *)
(* the scope at the head; what the caller then undoes, by the caller.      *)
EndScopeCode ==
  LET scope == SS_Head(symstack).type IN
  /\ IF scope \in {"while_cycle", "for_cycle"}
     THEN ForgetOuterLoop
     ELSE UNCHANGED <<in_loop, outer_loop_id>>
  /\ IF scope = "condition" THEN RestoreCond ELSE UNCHANGED conds

fun_body_end ==
  /\ phase = "running" /\ Top.proc \in FunBodyCallers
  /\ IF SS_Head(symstack).type = "condition" /\ ~CanPop(cond_info)
     THEN SoftAssertFails
     ELSE EndScopeCode /\ CloseScope /\ LeaveBody /\ Proceed(Return)
  /\ UNCHANGED functions

(***************************************************************************)
(* Analyse.                                                                *)
(***************************************************************************)
(* Init_parser: one global frame with the built-in functions, declared and *)
(* defined with the same signature.                                        *)
Init ==
  /\ phase = "prolog"
  /\ error = NOERROR
  /\ calls = <<>>
  /\ symstack = << [type |-> "global", uid |-> 0, fun |-> NoName,
                    table |-> Builtins] >>
  /\ unique_id = 1
  /\ functions = [f \in Names |->
       LET sig == IF f \in Builtins THEN BuiltinSig[f] ELSE EmptySig
       IN  [is_declared |-> f \in Builtins, is_defined |-> f \in Builtins,
            declaration |-> sig, definition |-> sig]]
  /\ nested_cycle_level = 0
  /\ in_loop = FALSE
  /\ outer_loop_id = 0
  /\ outer_cond_id = 0
  /\ cond_cnt = 1
  /\ cond_info = <<>>

(* Free_parser, and the process exits with the error register.             *)
Free_parser ==
  /\ phase \in {"accepted", "rejected"}
  /\ phase' = "done"
  /\ symstack' = <<>>
  /\ UNCHANGED <<error, calls, unique_id, functions, loops, conds>>

Terminating == phase = "done" /\ UNCHANGED vars

ShortSeqs == SeqOf(Types, MaxParams)

GlobalStatement ==
  \/ global_expression
  \/ stmt_list_end
  \/ \E f \in Names : function_definition(f)
  \/ \E f \in Names, ps, rs \in ShortSeqs :
       function_declaration(f, [params |-> ps, returns |-> rs])

FunctionHeader ==
  \/ \E x \in Names, t \in Types : funparam_def_list(x, t)
  \/ \E x \in Names, t \in Types : other_funparams(x, t)
  \/ \E rs \in ShortSeqs : funretopt(rs)

FunctionStatement ==
  \/ \E x \in Names : var_definition(x)
  \/ function_expression
  \/ return_stmt
  \/ break_
  \/ while_cycle
  \/ \E x \in Names : for_cycle(x)
  \/ repeat_until_cycle
  \/ repeat_until_end
  \/ if_statement
  \/ elseif_stmt
  \/ else_stmt
  \/ cond_body_end
  \/ fun_body_end

Next == \/ program
        \/ unexpected_token
        \/ GlobalStatement
        \/ FunctionHeader
        \/ FunctionStatement
        \/ Free_parser
        \/ Terminating

Spec == Init /\ [][Next]_vars

(***************************************************************************)
(* Properties.                                                             *)
(***************************************************************************)
Semantics == [is_declared : BOOLEAN, is_defined : BOOLEAN,
              declaration : Signatures, definition : Signatures]

ControlOK == /\ phase \in {"prolog", "running", "accepted", "rejected", "done"}
             /\ error \in ErrorCodes
             /\ calls \in Seq(Activations)
ScopesOK  == symstack \in Seq(Frames) /\ unique_id \in Nat
FunctionsOK == functions \in [Names -> Semantics]
LoopsOK   == /\ nested_cycle_level \in Nat
             /\ in_loop \in BOOLEAN
             /\ outer_loop_id \in Nat
CondsOK   == outer_cond_id \in Int /\ cond_cnt \in Int /\ cond_info \in Seq(Int)

(* Every variable holds what its C counterpart should: in particular the   *)
(* nesting level, an int, is never decreased below zero, where it would    *)
(* count as a cycle.                                                       *)
TypeOK == ControlOK /\ ScopesOK /\ FunctionsOK /\ LoopsOK /\ CondsOK

(* The scope type a procedure's body runs under.                           *)
ScopeOf(p) ==
  CASE p = "stmt_list" -> "global"
    [] p \in HeaderProcs \union {"function_definition"} -> "function"
    [] p \in CondProcs -> "condition"
    [] p = "repeat_body" -> "do_cycle"
    [] OTHER -> p

(* Activations cs and frames ss correspond.                                *)
ScopesMatch(cs, ss) ==
  /\ Len(ss) = Len(cs)
  /\ \A i \in 1..Len(cs) :
       /\ ss[i].type = ScopeOf(cs[i].proc)
       /\ ss[i].type = "function" => ss[i].fun = cs[i].id
       /\ ss[i].type = "global" <=> i = 1

(* The two stacks grow and shrink together: frame by frame, the scope is   *)
(* the one the waiting procedure opened.  fun_body (parser.c:815) chooses  *)
(* the code that closes a body by the scope at the head, not by its        *)
(* caller, and function_definition asserts that no local scope is left     *)
(* open between two global statements (parser.c:1139).                     *)
ScopesMatchCalls ==
  phase = "running" => calls # <<>> /\ ScopesMatch(calls, symstack)

(* No local variable has the name of a function: neither of one known when *)
(* the variable was put nor of one put later.                              *)
LocalsAreNotFunctions ==
  phase = "running" =>
    \A i \in 2..Len(symstack) : symstack[i].table \cap GlobalTable = {}

(* Wherever a return statement can stand, SS_Get_parent_func (symstack.c:  *)
(* 249), which looks the function's name up through all the local scopes,  *)
(* returns the global symbol of the function being defined, so that        *)
(* return_stmt (parser.c:674) does not follow a variable's NULL            *)
(* function_semantics.                                                     *)
ReturnReadsOwnFunction ==
  InBody =>
    /\ calls[2].proc = "function_definition"
    /\ functions[calls[2].id].is_defined
    /\ SS_Get_parent_func(symstack, calls[2].id, 1)

(* The nesting level that break_ (parser.c:176) consults is the number of  *)
(* cycles open around the statement, whatever other scopes are among them. *)
NestingCountsLoops ==
  phase = "running" => nested_cycle_level = Cardinality(OpenLoops(symstack))

(* Inside a cycle, and only there, variable definitions are hoisted, and   *)
(* they are hoisted out of the outermost one: its end, and no inner        *)
(* cycle's, forgets it (parser.c:829, 844, 726).                           *)
OuterLoopIsRemembered ==
  phase = "running" =>
    LET open == OpenLoops(symstack) IN
    /\ in_loop <=> open # {}
    /\ in_loop => \E i \in open : /\ symstack[i].uid = outer_loop_id
                                  /\ \A j \in open : i <= j

(* The end of an if statement, whichever of its three ways of ending it    *)
(* takes and whatever was nested in its branches, gives the enclosing if   *)
(* its id and its branch counter back (code_generator.c:886-907).          *)
CondInfoRestored ==
  [][ (/\ phase = "running" /\ phase' = "running"
       /\ Top.proc \in CondProcs /\ calls' = Return)
      => <<outer_cond_id', cond_cnt'>> = Top.saved ]_vars

ReadingHeader(f) ==
  phase = "running" /\ Top.proc \in HeaderProcs /\ Top.id = f

(* A signature other calls were checked against never changes: the         *)
(* declaration once made, the definition once its header is read.          *)
SignaturesAreFinal ==
  [][ \A f \in Names :
        /\ functions[f].is_declared =>
             functions'[f].declaration = functions[f].declaration
        /\ (functions[f].is_defined /\ ~ReadingHeader(f))
             => functions'[f].definition = functions[f].definition ]_vars

(* An accepted program defines every function it declares, and with the    *)
(* declared signature, whichever of the two came first.                    *)
AcceptedFunctionsAgree ==
  phase = "accepted" =>
    \A f \in Names : functions[f].is_declared =>
      /\ functions[f].is_defined
      /\ functions[f].declaration = functions[f].definition
=============================================================================
