# A TLA+ model of the ifj21 compiler

`src/` is a compiler from IFJ21 (a small, typed Lua) to IFJcode21, written in C: one
process reads a source text from stdin, parses it by recursive descent with a precedence
parser for expressions, checks it, collects instructions in three lists and prints them.
There are no threads and nothing is persisted. What is hard to test in it is the state that
several components share while the parser recurses: a stack of scopes, counters of cycles
and branches packed and unpacked around every nested construct, and lists in whose *middle*
the code generator inserts; and what the generated code does at run time, where nothing but
the tests' few programs looks. This project models that state and that code, checks them on
every source text within small bounds, and proves the central facts for all source texts.

## Inventory

| component | state | operations | modelled |
|---|---|---|---|
| parser (`parser.c`) | the C call stack, `nested_cycle_level`, `local_table`, `global_table` | one procedure per rule | `Parser` |
| scopes (`symstack.c`) | frames: type, unique id, function name, table | push, pop, put, get, get_local, get_parent_func, traverse | `Symstack` |
| symbol table (`symtable.c`) | a binary search tree per scope | get, put, traverse, destroy, add_builtin_function | `Symtable`; in `Symstack` a set of names per scope |
| function semantics (`semantics.c`) | flags and signatures of a function | declare, define, add_param, add_return, check_signatures; type checks of operators, assignments, calls and returns | the first group in `Parser`, the second in `Types` |
| branch bookkeeping (`code_generator.c:886-907`) | `outer_cond_id`, `cond_cnt` (a `char`), `cond_info` (a string) | push_cond_info, pop_cond_info | `CondInfo`, `Parser` |
| loop bookkeeping (`parser.c`, `code_generator.h:23-26`) | `in_loop`, `outer_loop_id`, `before_loop_start` | at every cycle's start and end | `Parser`, `Codegen` |
| code generator (`code_generator.c`) | three lists of instructions, the instruction being built | one procedure per construct | control flow and variables of functions in `Codegen`; operands, operators, calls, assignments in `Machine`, with conversions and nil checks in `Types`; `for` cycles at run time in `ForLoop`; built-in functions and string literals in `Builtins` |
| list (`list.c`) | head, tail | append, insert_after; prepend, delete_first, ... | the first two, `List` |
| dynamic strings (`dynstring.c`) | length, size, characters | append, cat, trunc_to_len, ... | what they do to `cond_info`; as sequences of bytes in `Scanner` |
| expressions (`expressions.c`) | precedence stack, signatures | parse, shift, reduce, calls, assignments, returns | `Expressions`, with types counted only; types in `Types`; in `Parser` an expression is its outcome |
| stack (`stack.c`) | a list | push, pop, peek | as sequences, `Expressions` |
| scanner (`scanner.c`) | previous and current token, the strings they own, an automaton's state and buffer | get_next_token and an automaton for each of identifiers, numbers, strings, comments, relational operators | `Scanner`, against `Tokenizer` |
| tape (`progfile.c`) | text, position, lines | getc, ungetc, peek_at | `Scanner` |
| error register (`errors.c`) | last error set | set_error, soft_assert | `error` in `Parser`, `register` in `Types` |
| driver (`ifj21.c`) | - | analyse, print unless rejected, exit with the register | the end of `Parser`, `Generate` |

How they interact. The parser calls the scanner for every token, opens and closes scopes,
looks names up and puts them, and calls the generator at fixed places in each rule. The
generator reads two things the parser maintains: the scope at the head of the stack (its id
is in every label and variable name) and the loop and branch counters, which the *parser*
sets although they are fields of the generator's structure. `fun_body`, the rule that reads
the `end` of five different constructs, chooses what to close by the type of the scope at
the head; what to undo afterwards is chosen by the rule that called it. Expressions look up
names and functions in the same scopes. Errors go to one register; a procedure that returns
`false` unwinds the whole recursion, mostly but not always after setting it.

What makes the parts correct:

* scopes and calls stay in step; names of locals and of functions are disjoint, so that
  lookups by name find what the caller assumes;
* a function's declaration and definition agree, in either order, and nothing changes a
  signature that was already used;
* the counters of cycles and branches describe the nesting, after any sequence of opened
  and closed constructs;
* generated code is well formed: every jump has exactly one target, in its own function; no
  variable of a frame is created twice, even in cycles; none is written before it is
  created; no instruction is lost from the list;
* an expression's code computes what priorities, associativity and parentheses say; every
  call finds its arguments, every return value and variable gets the value it should, and
  the data stack at run time mirrors the precedence stack at compile time;
* the types derived at compile time are those of the values at run time, so that no
  instruction meets an operand it stops for;
* a `for` cycle's body runs for the values its three expressions promise, and the cycle ends
  unless a step of zero, or one between zero and one, keeps it inside its bound;
* a built-in function gives what its arguments determine, and stops the program for nil only;
* a symbol table finds what was put, whatever the order of the names;
* the scanner delivers the longest lexemes, comes to an end on every text, and owns exactly
  the strings of the tokens in use;
* a rejected source text gets an error code that says why.

`PROJECT.json` lists the hazards at their lines with the properties that cover them.

## Modules

| module | models |
|---|---|
| `Symstack` | `symstack.c` as operators on a sequence of frames; the last frame is the C list's head |
| `CondInfo` | the string `cond_info`: a counter of one character and five digits per open `if`, with what `strcat` makes of a NUL, and `char` arithmetic |
| `Parser` | the parser's rules as actions over the two above |
| `List` | a list as its reachable items and the position of `tail`, which `Insert_after` does not move |
| `Codegen` | `Parser` with `instrListFunctions` and the text in `tmp_instr`; each action is the parser's action and the instructions the same rule emits |
| `Machine` | the interpreter's data stack and frames, with an operator for every procedure of the generator that emits code for expressions, calls, returns and assignments |
| `Expressions` | `expressions.c` for one statement, every emitted instruction executed on a `Machine` |
| `Reference` | what a statement means according to the assignment, without a stack; for properties only |
| `Types` | the type checks of `semantics.c` and the kinds of values in the code they lead to: a body of `main`, a function it calls, conversions, nil, the error register |
| `ForLoop` | the code of one `for` cycle, executed, entered again by an enclosing cycle |
| `CountingLoop` | what a `for` cycle promises; `ForLoop` is shown to implement it |
| `Bytes` | bytes, keywords, and what the C library makes of the text of a number |
| `Scanner` | `scanner.c` on a tape (`progfile.c`): its automata, what it gives back, the strings it allocates |
| `Tokenizer` | the tokens of a text without an automaton; `Scanner` is shown to implement it |
| `Symtable` | `symtable.c`: the search tree of one scope, its walks and its destructor |
| `NameTable` | a symbol table as its callers see it; `Symtable` is shown to implement it |
| `Builtins` | the hand-written code of the built-in functions, executed, and the string literals passed to it |
| `Library` | the built-in functions as a program sees them; `Builtins` is shown to implement it |
| `Parser_proofs`, `Codegen_proofs`, `Expressions_proofs`, `Types_proofs`, `ForLoop_proofs`, `Scanner_proofs`, `Symtable_proofs`, `Builtins_proofs` | lemmas and theorems |
| `MCParser`, `MCCodegen`, `MCExpressions`, `MCTypes`, `MCForLoop`, `MCScanner`, `MCBuiltins` | instances for TLC; `MCCodegen` and `MCExpressions` restrict the source texts |

### State and actions

`calls` is the C stack: one activation for every procedure that waits for the statements of
a body, with the procedure's name, the local `id_name` and (for a property only) the branch
counters at its start. `fun_body`, `cond_body` and `repeat_body` recurse once per statement;
those frames are not kept, since they do nothing when they return. The procedures are
`stmt_list`, then per open construct `function_definition` (`funparam_def_list` and
`other_funparams` while its header is read), `while_cycle`, `for_cycle`, `repeat_body`,
`cond_body` (an `if` or `elseif` branch), `else_stmt`.

An action is a rule from one choice of the next token to the following one, named like the
procedure: `while_cycle` is everything up to `do`, `fun_body_end` is `end` in `fun_body`
with all that the callers do after it, and so on. The source text is not a variable: each
step chooses the next token, so TLC explores every text. `unexpected_token` is a token that
fits nowhere, which may also come in the middle of a rule: what the rule had done by then
cannot be seen, because a rejected text's scopes and code are freed unread. (Where an action
rejects, it leaves the state as the code has it at that point all the same.) An expression
succeeds, or fails with any error code it can set, or fails and leaves the register alone:
`check_rule` and `reduce` in `expressions.c` do that.

`phase` follows `Analyse` and `main`: `prolog`, `running`, `accepted` or `rejected`, `done`.

In `Codegen` an instruction is a label, a jump, `DEFVAR` of a variable, a write to one, or
`OTHER`. A label is `<<kind, id, number>>` in place of its text, and a variable is a kind, a
scope's id and a name, in place of `LF@%id%name`; both keep exactly what makes two texts
equal. `DEFVAR`s inside a cycle are inserted after `before_loop_start`, the tail of the list
when the outermost cycle began (`Emit`). An instruction is built in `tmp_instr` and added when it is complete, with one
exception: `generate_for_cond` returns with most of a `for` cycle's header there, so that it is added together with the
first instruction of the next rule that emits one, wherever that goes (`WithText`, `ForText`). `JUMPIFEQ` and `JUMP` are both `JUMP`. Expressions
and calls are one `OTHER`; global statements go to another list and emit nothing here.

`Expressions` is the rest: a behaviour is one statement, entered through `Default_expression`,
`Return_expressions`, `Function_expression` or `Global_expression`. `text` is what was read of it,
and `contexts` the C stack of `expressions.c`: one context for the statement, one per open
`func_call`, one per `parse_init` with its precedence stack. `parse` calls itself last, so an
iteration is a step: `shift`, `reduce`, one of their failures, a parenthesis or a call that
begins, or the end (`parse_parents_end`, `parse_init_end`). A list of expressions is parsed by a
procedure that calls itself last too; its arguments are `cnt` (values passed so far) and `last`
(values of the last expression). The items of the precedence stack keep the class `get_op`
gives a token, its position, and an expression's number of values. Types are not kept: where
the code compares types, the model goes on or rejects.

Code emitted for a statement has no jumps other than calls, so it is executed as soon as it
is emitted: `machine` is the state of the interpreter after all code so far. A value is the
term that computes it (`Binary("-", Literal(1), Literal(3))`, `Result("two", 0, <<>>)`), which
distinguishes any two orders of evaluation or of arguments. Executing an impossible instruction
leaves the interpreter's exit code in `fault`. `Body` is the code around a user's function:
the temporary frame becomes the local one, parameters are read from it, return variables are
created in it, and it is given back. `$$modulo` and `$$power` do with frames what their texts do.

`Reference` gives the meaning the properties compare with: an expression is split at its
weakest operator outside parentheses, by the priorities of section 5.2 of `assignmet/ifj2021.pdf`
and, for the operators that are the program's own, the comment at `expressions.c:142`. It is the
only module with recursive operators.

`Types` keeps of every value of an expression its static type (`items`) and, side by side, the
kind of the value the emitted code leaves for it (`data`); both change in the same action,
since code is executed as soon as it is emitted. An action is an operand, an operation, or the
statement that ends with the expression; `func_call` saves what the caller waits with in
`frames` and starts the callee's body, `return_expressions` or `function_end` gives it back.
Jumps are not taken: a nil check that fails, a division by zero or an instruction with operands
it does not accept ends the run with its exit code. What an operator computes is its kind.
`register` is what the program remembers of failed checks; no property reads it, since a failed check is one that sets it.

`ForLoop` executes the instructions between the labels of one `for` cycle in one action each:
the header (`for_cycle`, `terminating_cond`, `for_increment` or `for_default_step`), the hidden
copy of the control variable (`for_copy`), the test, the body, the addition. The body assigns
anything to the control variable or leaves the cycle. Numbers are integers in a unit `One` of
which is 1.0, since halves matter and digits do not. `data` is the part of the data stack the
cycle adds to; an entry does not reset `lf`, because the cycle's variables are created once.

`Scanner` has one action per iteration of an automaton. `NumMoves`, `StrMoves` and `CommentMoves`
are the tables of the automata, from a state and a set of bytes to a state. `heap` holds one
element per string allocated (the position where its buffer was created), and `out` and `end`
are histories for the refinement. `get_next_token` moves the current token to the previous one
and frees the one before; `Free_scanner` is the parser's end, which may come between any two tokens.

`Symtable` is the tree behind each scope. A node is known by the path that leads to it from the root, so
that a null pointer is a path outside the domain of `tree`. `call_get`, `call_put`, `call_traverse` and
`call_dtor` are the callers; each recursive call of `_st_get`, `_traverse` and `_st_dtor`, and each iteration
of `ST_Put`, is a step. `walk` holds the nodes whose calls are pending. `Add_builtin_function` is two puts and a get.
The symbol keeps the three fields that puts write again; the type of what the parser puts into one table,
variables or functions, is chosen once, since the global table holds functions only and no other one does.

`Builtins` executes the text of the built-in functions' code. A block without a jump back is one
action, named like the function, an iteration of `substr`'s `LOOP` is one, and so is a call, which writes the
arguments: a string literal is escaped by `generate_var_value`, byte by byte, and read back as the interpreter
reads it (`Literal`). A malformed literal, a position that does not exist and a nil stop the program with three
different exit codes. Numbers are in halves. `write` is given strings and nil, since it does the same for all values but nil.

## Runs

| run | module, cfg | question | result |
|---|---|---|---|
| `parser` | `MCParser` | is the bookkeeping consistent with the nesting, do declarations and definitions agree? | holds |
| `codegen` | `MCCodegen` | is the code well formed, and does the list keep all instructions? | holds |
| `expressions` | `MCExpressions` | does the code compute what priorities, associativity and parentheses say, and do variables, return values and parameters get their values in order? | holds |
| `types` | `MCTypes` | are values at run time of the types derived for them? | holds |
| `for_loop` | `MCForLoop` | does a `for` cycle's code count as it should, and end? | holds |
| `scanner` | `MCScanner` | are the tokens the longest lexemes, does scanning end, are strings owned once? | holds |
| `symtable` | `Symtable` | is the tree a map, and does every call on it return? | holds |
| `builtins` | `MCBuiltins` | does every call of a built-in function give what its arguments determine, and end? | holds |
| `break` | `MCCodegen`, `MCBreak.cfg` | does every `break` have a target? | violated |
| `nested_calls` | `MCExpressions`, `MCNestedCalls.cfg` | can a call be an argument of a call? | violated |
| `leftover` | `MCTypes`, `MCLeftover.cfg` | does a body that defines variables leave the data stack as it was? | violated |
| `for_direction` | `MCForLoop`, `MCForDirection.cfg` | does a positive step count up? | violated |

Properties of `parser`: `TypeOK`; `ScopesMatchCalls` (scopes and activations are the same
nesting); `LocalsAreNotFunctions` and `ReturnReadsOwnFunction` (`return` checks its types
against the function it stands in, though that function is looked up by name through the
local scopes); `NestingCountsLoops` and `OuterLoopIsRemembered` (the loop counters);
`CondInfoRestored` (an `if` statement leaves the branch counters of the enclosing one as they
were); `SignaturesAreFinal` and `AcceptedFunctionsAgree` (a signature that was given, by a
declaration or a definition, never changes, and of an accepted text both are there and equal). Of `codegen`:
`JumpsResolve`, `VariablesCreatedOnce`, `VariablesCreatedBeforeUse`, and `InsertionIsSafe` (the
list's tail is its last item, so nothing is dropped by `Append`, and the insertion point
lies strictly before it inside cycles). The two properties of variables leave out the programs of which more than
`DEFVAR`s was moved in front of a cycle (`OnlyDefvarsAreMoved`), which is the fifth finding below.

Of `expressions`: `ValueOfExpression` (the value the code leaves is the reference's,
nothing else is left, nothing faults), `ReturnedInOrder`, `AssignedInOrder`, `CalledWithArguments`
(the same for lists of expressions, where the last one gives all its values and the others
their first), and `StackIsTheParse`: in every state, on the way to any outcome, the data stack
holds exactly the values that the precedence stacks and lists of expressions account for.
`OperandsAsTyped`, `VariablesAsTyped`, `NoTypeFault` (of `types`): whatever conversions, calls and
assignments came before, each value is of the kind derived for it, or nil, and no
instruction stops the program for its operands' types, though nothing of types is left at run time.

Of `for_loop`: `CountingLoopSpec` (the refinement: the body runs for e1, e1 + e3, ... within e2, and for
nothing else, whatever it assigns to the control variable and whatever an earlier entry left
behind, and the cycle goes on), `OnlyNilStops`, `LeftOnStack` and `EntriesEnd`: every entry ends, also without a `break`, except those with a step of
zero and a first value that is not below the limit. Those do not, which is checked too (`SmallStepsGoOn`).

Of `scanner`: `TokenizerSpec` (the refinement: tokens, attributes and positions are those of the
longest lexemes, errors come where there is none, and the scanner goes on), `EventuallyFreed`
and `TokenStringsAreOwned`.

Of `symtable`: `SearchTree` (names are on the right side of *every* node above them, and nothing hangs on
a null pointer) and `TableSpec` (the refinement: whatever was put in whatever order, a call finds what was put under
the name and nothing else, a second put changes the symbol the first one created, a traversal leaves
out no symbol, the destructor no node, and every call returns).

Of `builtins`: `StopsForNilOnly` (whatever the arguments, `GETCHAR` and `STRI2INT` are only given positions that
exist) and `LibrarySpec` (the refinement: each call is answered by the function of its arguments as they stand in
the source text, before escaping, and every call ends).

Because findings on expressions would hide everything behind them, the constant `Readable` gives
`Expressions` the beginnings of texts to consider, for each kind of statement, and `MCExpressions` defines two: `AnyText`, every
text, for the finding; and `StatementText`, which is `OperatorText` for an expression alone and
`CallText` for the other statements. These two are `WellPlaced` (no operand directly before
a parenthesis), have `OnePower`, or are `Undisturbed` (no call inside another's arguments, except in
those of `write`, which has no frame while they are parsed). Each of these three excludes one finding below.
For the same reason bodies of functions have no definitions in `types` (in `leftover` they have), and all
steps in `for_loop` lie outside the open interval from 0 to 1 (in `for_direction` one is a half).

### Bounds

* `Names`: a built-in function and two names (`parser`), or three names, the third only for a variable beside a `for` cycle's own one (`codegen`). Every other name can be a
  function, a parameter and a variable, so shadowing, redefinition and a local with a
  function's name all occur.
* `MaxScopes`: scopes opened per text, the global one included: 6 in `parser`, 5 in `codegen`. Three scopes under a function hold a cycle in a branch in a
  cycle, and siblings; no property distinguishes more, and the theorems below do not depend on
  it. `WideScopes` is how many of these a text may have whose signatures are not of the simplest kind: 3 in `parser`, two
  functions; 4 in `codegen`, two functions with a construct each.
* `MaxParams`: two parameters or return values, of two types in `parser`: signatures can differ in
  number, type, order, and in either part. One in `codegen`, where only their variables count.
* `MaxSimple`: two statements without a body (definition, assignment, break, return) in the
  code; a definition and a use are what the properties relate.
* `SCHAR_MAX` is 127, the real width; the theorems hold for every width.
* `MaxTokens`: tokens of a statement and the one after it. Operators: 7, enough for any two binary
  operators of the 7 levels with a unary one, and 8 with `-` and `..` alone, for parentheses around
  either of two operations and for three in a row; a precedence parser decides by pairs. A text as
  long as the bound ends there or with a parenthesis.
  Calls: 11, and 10 in a return statement, for two variables and two expressions, a call of none or two values among
  them, and for two arguments, of which, if the call is of `write`, one adds to a call's first value; `..` is the only operator there.
* `Functions` of `expressions` give no, one or two values, so that there are too few and too many.
* `types`: two values that wait for an operator, two statements, one call deep: every binary operator on every
  pair of types, a conversion and a use of the converted, a call in an operation. All operators occur, all types but
  those two that behave alike (`-` as `+`, `>` as `<`), and the variables are one of each type that differs.
* `for_loop`: `MaxEntries` is 2, so that a second entry finds what the first left. The unit is a half; limits
  and steps lie below, at, between and above the values, are integers and floats of either sign, zero, or nil. `MaxIterations` is 8: an entry that
  ends has at most 7, and one that needed more would be stuck at the bound and violate `EntriesEnd`; with a step of zero the body breaks in the eighth.
* `scanner`: all texts of up to six bytes over the bytes that the number automaton tells apart, of up to six for
  strings and seven for comments, of four for words, and of three over the others. No automaton needs more to
  come back to a state. `UINT64_MAX` is 100, less than the longest number here.
* `symtable`: four names, which occur in every order of puts, so that all trees of up to four nodes do.
* `builtins`: all texts of up to three bytes over a newline, `#`, a digit, the backslash and DEL, one of each class that
  escaping tells apart, with digits behind a backslash; all positions in and next to a text, and for `chr` both sides of 255.
* Scope ids have at most five digits (`MaxScopes <= 100000`), all that `cond_info` has room for.

Every behaviour may go on stuttering when the process is `done`; there is no other deadlock.

### Fairness

* `ForLoop`: weak fairness of `Cycle`, all code of the cycle: the interpreter executes the next instruction, and
  the body, like the expressions before it, comes to its end. No body has to `break`, except at the bound in a cycle that would go on for ever
  (`NeverEnds`): that stands for the iterations the bound cuts off, and no other entry gets there. Nothing obliges an enclosing cycle to enter again.
* `Scanner`: weak fairness of `Next`: its loops are C loops that go on until they return, and between two calls the
  parser either asks for the next token or frees the scanner. It may do either forever as far as the model goes;
  texts are finite, so every behaviour ends.

* `Symtable`: weak fairness of `Serve`: a procedure that was called runs until it returns. Nothing obliges the parser to call.
* `Builtins`: weak fairness of `Run`: the interpreter executes the next instruction. Nothing obliges the program to call.

In the other modules no liveness is stated: the source text is an environment that may be
arbitrarily long, and between two tokens the parser is a terminating procedure.

## Findings

* **`break` inside a branch** (`code_generator.c:983`). The target is the end label of the scope
  at the head of the stack, which inside an `if` is the branch's; there is no such label.
  `tests/testgen.c:1202` expects such a program to run; the interpreter ends with 52. (Run `break`.)
* **A call in a call's arguments** (`expressions.c:1225`). The outer call's frame is created before
  its arguments are parsed; an inner call creates another one. `tests/testgen.c:3331`,
  `chr(tointeger(k))`, is expected to run; the interpreter ends with 52. (Run `nested_calls`.)
  `$$modulo` creates a frame too, so `f(1, 5 % 3)` fails in the same way.
* **A conversion in a definition leaves a value behind** (`parser.c:413`). The popped value is pushed for
  `$$recast_to_float_second`, which pushes its result too, and nobody pops it. After `local n : number = 5` in a
  function, the caller's `1 + f()` takes 5.0 for its left operand: the sum is wrong, or the interpreter ends with 53. (Run `leftover`.)
* **A step between 0 and 1 counts down** (`code_generator.c:1116`). Under "check if step is < 0" the code compares with
  `0x1.0p+0`, which is 1: `for i = 1, 3, 0.5 do` never runs its body. (Run `for_direction`.)
  The other side of it: zero takes the same branch, so with a step of zero or between 0 and 1 and a first value that is not below the limit, every test
  succeeds, and `for i = 1, 1, 0 do end` never ends. `EntriesEnd` leaves these entries out and says that they go on. (Theorem `ForLoopGoesOn`.)

* **A definition without a value at the beginning of a `for` cycle's body** (`code_generator.c:1083`). `generate_for_cond` adds
  the `DEFVAR` of the hidden copy and leaves the rest of the header, up to the label of the body, in `tmp_instr`.
  The next addition is that of the body's first instruction, and if the body begins with `local x : integer`, that is the `DEFVAR` that
  `ADD_INSTR_WHILE` inserts in front of the outermost cycle: the header goes there with it, in front of the `DEFVAR`s of its own
  variables, and the interpreter ends with 54. `code_generator.c:605` says that `generate_defvar` "Generates DEFVAR LF@%var", and
  TLC finds `OnlyDefvarsAreMoved` violated in a text of three scopes (`MCBreak.cfg` with this invariant). No run of its own: the two properties it
  restricts are checked for all other programs.

All were reproduced with the compiler and the interpreter in `src/tests`. Met while modelling,
and without a run of their own:

* 126 conditions and an `else` (`code_generator.h:28`, `code_generator.c:955-963`): the counter is 127 and becomes -128, and the
  `else` label is made from -129, not from the 127 the last condition jumps to; the interpreter ends with 52;
* 255 conditions and a nested `if` (`code_generator.c:886`): the counter is 0, its character ends the string, and the matching
  pop is left with too few characters: exit code 99, which `errors.c:74` calls "not affected by program input";
* `1 + (2) (3)` is accepted (`expressions.c:750`) and is 3, with 1 + 2 never computed;
* `* 3` is rejected without an error (`expressions.c:669`): the process prints no code and exits with 0;
* `$$power` (`code_generator.c:336`) creates its variables in its caller's local frame, so the second
  power computed in one frame ends with 52, in one expression or in a cycle;
* `i, j, k = bar(4)` with too few values is error 7 (`expressions.c:1376`), where `tests/testgen.c:4311` expects 5;
* operands are evaluated from the left to the right, and `and` and `or` evaluate both, contrary to the assignment;
* a `for` cycle leaves a truth value on the data stack per test (`code_generator.c:1137`): `1 + f()` ends with 53 if `f` has one;
* its control variable is typed integer but is a float in the body: `i // 2` ends with 53;
* after a multiple assignment of wrong types (`expressions.c:1513`) parsing goes on: a later error replaces its code;
* a string literal with a byte above 127, any text that is not ASCII, is written with a negative escape sequence
  (`code_generator.c:522-535`, `%03d` of a signed `char`): the interpreter ends with 51;
* a number too large for a double, `1e999`, is written as `float@inf`, which the interpreter refuses with 51;
* an integer literal above 2^63 - 1 is written unsigned (`%lu`), and the interpreter takes it for 2^63 - 1;
* `substr` takes integers only (`parser.c:1346`): a number for an index is error 5, where the comment at its code
  (`code_generator.c:209`) says `i : number, j : number`;
* `"\000"` is accepted (the check at `scanner.c:252` is of the last digit's state);
  `\x0` and a digit is accepted and stands for no byte at all;
* a number at the very end of the file is a lexical error, and a byte 255 ends the text as EOF would;
* a line that ends in a comment is counted twice, and so is one that ends in CR LF.

## Theorems

Under the named assumptions of the modules, about nothing but the sorts of the constants:

`Parser_proofs` proves, for all names, types, built-in functions with any signatures and all
bounds (assumptions in `Symstack`, `CondInfo` and `Parser`):

* `TypeCorrect == Spec => []TypeOK`. Not a formality: `nested_cycle_level` is an `int`
  that `break_` compares with zero, so that -1 would pass for a cycle, and that it is never decreased below zero needs the whole invariant.
* `ScopesBalanced == Spec => []ScopesMatchCalls`.
* `NestingCorrect == Spec => []NestingCountsLoops`.
* `Invariant == Spec => []IInv`, which they follow from.

The inductive invariant `IInv` is `TypeOK`, `PrologOK`, `ScopesMatchCalls`,
`NestingCountsLoops` and `Shape`. None of the three properties is inductive alone. The
counter is decremented by the *activation* that ends and counts the *scopes* of cycles, so
that it stays exact, and non-negative, only if the two stacks match. They stay matched,
when an action replaces the top activation or the head frame, only if one knows where the
bottom of the stacks is and which activations can lie there: `Shape` says that the first
activation is `stmt_list` and no other one is, and `PrologOK` that nothing is open before the first token.
Each of `Parser`'s actions preserves `IInv` in a lemma or a named step. Three kinds of steps cover
nearly all of them: a statement that leaves both stacks alone, one that pushes on both, and
one that pops both (`StatementStep`, `CallStep`, `ReturnStep`). The first part of the module holds the facts
about stacks these rest on: what pushing, popping and putting do to the frames, and to the number of open cycles.

Its second part proves, from the same assumptions and on top of `IInv`, the other properties of `Parser`:

* `LocalsDistinct == Spec => []LocalsAreNotFunctions`, `ReturnCorrect == Spec => []ReturnReadsOwnFunction`;
* `SignaturesFinal == Spec => SignaturesAreFinal`, `AcceptedCorrect == Spec => []AcceptedFunctionsAgree`;
* `OuterLoopCorrect == Spec => []OuterLoopIsRemembered`;
* `BranchesRestored == Spec /\ [](cond_cnt # 0) => CondInfoRestored`, `BranchesCanEnd` (under the same hypothesis the soft assertion
  of `pop_cond_info` never fails), and `FewBranchesRestored`, without the hypothesis if `MaxScopes <= SCHAR_MAX`.

A step of a running parser does one of ten things to the two stacks (`StepCases`), and the invariants are shown for these ten.
`NamesInv` adds to `LocalsAreNotFunctions` where a function can be open, `FunctionAtBottom`: its activation is the second one and its name is a
global one, so that a local of this name would have been refused. `SignaturesInv` adds that a name with a signature is in the
global table (`FunctionsAreKnown`), without which a local could take the name of a declared function, and that the two signatures agree
except while a header is read (`SignaturesAgree`). `LoopsInv` adds that ids grow from frame to frame (`IdsIncrease`): `outer_loop_id` is
compared with the head's id, and only an order of ids makes that comparison true for the outermost cycle alone.
`CondsSaved` says that `cond_info` consists of six characters per open branch, which hold what the branch's activation
was started with, up to the top. It needs `cond_cnt # 0`: `push_cond_info` writes the counter as a character, and a
NUL, after 255 conditions, is where the next `strcat` begins to write (`code_generator.c:886`). This is the finding above, and a
text with fewer scopes does not lead to it: `CountersAreSmall` bounds every counter by the number of scopes.

`Codegen_proofs` proves, for all names, types and bounds, of code of any length:

* `ParserImplemented == CodegenSpec => Spec`: every step of `Codegen` is a step of `Parser`, so that its theorems hold here;
* `InsertionSafe == CodegenSpec => []InsertionIsSafe`;
* `VariablesCreated == CodegenSpec => []VariablesCreatedBeforeUse`;
* `JumpsCorrect == CodegenSpec /\ [](cond_cnt >= 1) => []JumpsResolve`, and `FewBranchesLinked`, without the hypothesis if
  `MaxScopes <= SCHAR_MAX`. The hypothesis says that the counter of branches, a `char` (`code_generator.h:28`), has not wrapped. Without it
  the theorem is false: a counter that has wrapped gives a second branch the label of an earlier one.
* `VariablesOnce == CodegenSpec /\ [](cond_cnt >= 1) => []VariablesCreatedOnce` and `FewBranchesOnce`, in the same way. Here the hypothesis
  is needed for the second half of the property only: a branch with an earlier branch's label makes a jump forwards one that goes back.

What one rule does to the list is brought into a closed form first: one instruction is inserted behind the position `b` or
appended (`Inserted`), and for a whole rule an old instruction at `i` is afterwards at `i` or at `i` plus the number of insertions,
whether it is before `b` or after it. That is an induction on the length of the rule's code, with sets of numbers in place of
predicates (`LeastNumber`). Of each action only its code is needed then. `ListIsSafe` is `InsertionIsSafe` from the prolog on, where the list already has an item,
and with `TextIsHeader`: text waits in `tmp_instr` only while a `for` cycle is the innermost construct, and it creates nothing.
`LiveAreCreated` is the invariant behind the second theorem. The variables that code can still be generated for, those
of the frames on the stack (`Live`), are created in the function that is read, and `before_loop_start` is in that function's
code too, so that what is inserted there is created in the right frame, and before everything in the cycle. `ForVarsKnown`
says that the control variable is in its own cycle's frame, so that the end of the cycle, which looks it up by name, finds this one.
`TextComesFirst` is the only place for the antecedent `OnlyDefvarsAreMoved`: if only `DEFVAR`s are moved, waiting text was added before the rule's own code.

`LinksInv` is the invariant behind `JumpsCorrect`. `Linked(Code, Due)` says that no label is put twice and that every jump leads to a label of its own
function or to one of `Due`: what the open constructs still owe (`Owed`: a cycle its `end`, an `if` its `ifend` and the label of its
next branch, a function its end) and the labels of waiting text. When nothing is open nothing is due, and that is `JumpsResolve`. Three things are needed to
keep it. What is put must not be there already: `Past` says of every label that is there why it cannot come again, the function
was defined, the scope's id was given, the branch's number is below the counter. The jump back at a cycle's end needs the cycle's first
label (`Back`). And the counters an `if` returns to after a nested one must be those it was left with: `BranchesInv` reads them
from `cond_info` for every frame of the stack (`CondsSaved`, `CountersAreSaved`), with ids that grow inwards
(`CondIdsIncrease`) and counts that fit in a `char` (`CountsFit`), the only place for the hypothesis.

`OnceInv` is the invariant behind `VariablesOnce`. `Single` and `Apart` are the property's two halves, on any list. While cycles are open, `Outside`
adds that no creation comes after the label of one of their bodies, so that the jump back, when it comes, encloses none; and `InFront` that
`before_loop_start` is in the code of the function that is read, before the labels of all open cycles and inside no finished one, so that
what is inserted there keeps both. `VarPast` says of every variable of that function why it cannot be created once more: the function's header is over, the
id of its scope was given, and an open scope with this id has the name in its table, where a second definition of it is refused. `LinksInv` is used twice:
the label of a new cycle is not there yet, and the jumps of branches and of `break` lead to labels that are still to come, so that cycles alone jump back.

`Expressions_proofs` proves, for all functions with any numbers of parameters and values, all variables, operators and statements, and for
texts of any length,

* `StackCorrect == Spec /\ []Separated(text) => []StackIsTheParse`.

`Separated` says that no `)` is directly followed by a `(`. Such a text is never a statement of the language, and the theorem is false without it:
`1 + (2) (3)` is accepted, the finding above, and its first values are left over. The texts of the runs are separated
too (`WellPlaced`). Of the constants it is assumed that they have the sorts they are used with, and that names are identifiers, not symbols or keywords (`NamesAssumption`).

`StackIsTheParse` gives a number only, and one context's surplus could be another one's lack. `Good`, the inductive invariant, has what a reduction needs
to find the values its code takes. `ContextsOK` gives the shape of every precedence stack: which item can lie on which, and that
an expression under another item has exactly one value, since only a call at the top may have given none or several (`ItemsOK`);
when it is accepted or covered by an operator, only `$` or a token is left under it (`Rested`). It also says who can wait below whom (`Waits`):
a parser that waits for a call has no expression on top, so the arguments' values, which the call takes away, lie above all of its own.
`TokOK` is what is known of the current token. A forced reduction happens only at a name, and a call or parentheses
that were just parsed ended with `)`. After a reduction neither a name nor a `(` is shifted, because every operator that is reduced binds
less than those (`precedence_functions`), so no second operand can come to lie on a first one. This is where `Separated` is used, for the
one case in which the code reads on after `)`. The data stack enters by `Runs(m, n, d)`, "n comes from m, and has d more values if nothing
faulted", for each operator of `Machine`; of instructions that are repeated, for arguments, parameters and returned values, it is shown by induction on
their number, with sets of numbers in place of predicates (`Counting`). Each action of `Expressions` then has a lemma that it preserves `Good`.

`Types_proofs` proves, for all declarations, literals, operators, statements and bounds, under `NoLeftover`:

* `TypesCorrect == Spec => []TypeOK`, `OperandsCorrect == Spec => []OperandsAsTyped`,
  `VariablesCorrect == Spec => []VariablesAsTyped`, `NoFaultOfTypes == Spec => []NoTypeFault`.

`NoLeftover` says that no definition in a function's body converts its value, the finding `leftover`; the theorems are false without it.
`OperandsAsTyped` speaks of the newest values only and is not inductive: when a function returns, its caller's operands are the newest
ones again. `Aligned` says that the whole data stack is cut into consecutive parts, one for each pending body, and that
each part has the types of what that body waits with.

`ForLoop_proofs` proves, for all values of the three expressions, all assignments of the body and
any number of entries:

* `ForLoopTypes == Spec => []TypeOK`, `ForLoopStops == Spec => []OnlyNilStops`,
  `ForLoopStack == Spec => []LeftOnStack`, `ForLoopGoesOn == Spec => SmallStepsGoOn`;
* `ForLoopCounts`, under `WholeSteps`: the cycle implements `CountingLoop`'s safety part, that is, every
  step of the code is a step of the counting loop or changes nothing it sees. `WholeSteps` says that no
  step lies between 0 and 1, the finding above; the proof uses it once, where the code's direction must be the promise's.

All five follow from `CycleInv`. Its parts: `HeaderOK`, which of the cycle's variables hold what their
expressions gave while the header is executed; `LoopOK`, that from the test on they are
floats with the values of `asked`, and that the hidden copy is always the first value plus
`Len(visited)` steps, the fact that makes the body's assignments harmless; and `StackOK`, that the first
entry's surplus is one value exactly when the last test has failed or the body is over.

`Scanner_proofs` proves, for all texts, keywords and widths, `ScannerTypes == Spec => []TypeOK` (a token's attribute is the member of the
union that its type announces, and `escaped_char` is a byte that never has to wrap) and `ScannerOwnership == Spec => []TokenStringsAreOwned`.
For the first one, `Fits` says for each state of an escape sequence what its digits have made so far: in `STR_DEC_1_2`, for one, exactly 250,
so that a last digit up to 5 fits. The second
property says nothing of the states in between, so `OwnInv` adds them: while an automaton runs the previous
token *is* the current one (its string would be freed twice if the new token did not replace the
current one before the next call), the buffer is allocated in the automata that build a string and in no
other, and buffers are told apart because positions only grow: `start <= pos`, and `start < pos` wherever an automaton
returns, so that the next buffer starts later. `NumMovesStay` and its siblings say that the tables lead from
states of an automaton to states of the same one.

`Symtable_proofs` proves, for all sets of names:

* `TreeIsOrdered == Spec => []SearchTree`;
* `TableIsMap == Spec => Promise!TableSafety`: every step of the tree is a step of `NameTable` or changes nothing it sees.

`TreeInv` is what they follow from. `SearchTree` alone is inductive only together with `DescentOK`: where a search has come, the
name sought is on the right side of every node above, and it is nowhere outside the subtree there; this is why a new
node may be put there. `NamesUnique` makes the tree's contents a function. `TraverseOK` says that the
accumulator is the conjunction over the nodes that no pending call will visit, and `DtorOK` that the
root's call is the last one pending, so that the tree is empty when none is.

`Builtins_proofs` proves, for all strings and all positions:

* `CallsStopForNilOnly == Spec => []StopsForNilOnly`;
* `LibraryImplemented`, under `LiteralsSurvive`: the code implements `Library`'s safety part. `LiteralsSurvive` says that
  a literal is read back as it was written; that is a statement on texts of any length by induction on them,
  and the run `builtins` checks it as part of `LibrarySpec`.

The heart of `LibraryInv` is `LoopOK`: in `substr`'s loop, `return0` is the part of the string from the first position to the
one `LF@%1` has come to, and that position is below the last one, which exists.

Only model-checked: the four properties of `Expressions` that compare with `Reference`, a recursive definition; that the scanner implements `Tokenizer`, where both sides are defined by recursion
on the text; that string literals are read back. The findings are counterexamples and need no proof. Out of the prover's reach: liveness under
fairness (`EntriesEnd`, `EventuallyFreed`, the fair parts of the four refinements), `ENABLED`, and what a recursive operator computes for every input.

## Not modelled

The text of labels, variables and messages; `scope_level`, which nothing in the modelled part reads; memory
other than the scanner's strings, and its failures, with it the capacities of dynamic strings (`dynstring.c` enlarges them
before a write that does not fit, and nothing depends on them);
what operators compute from data; `charpos`, which only debugging output reads. `debug.h`'s assertions are compiled out of the release build.
See also the table above and the notes in `PROJECT.json`.

## Plan

Done: all modules and theorems above. What is left to TLC is listed at the end of the section on theorems.
