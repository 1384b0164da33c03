----------------------------- MODULE MCCodegen -----------------------------
(* Codegen on a small instance without built-in functions: all source      *)
(* texts with few scopes, and those that are one function without          *)
(* parameters, results and declarations with one scope more.  The second   *)
(* variable's name is only defined beside a for cycle's own variable.      *)
EXTENDS Codegen

CONSTANTS main, x, y, int,   \* a function's name, two names and a type
          WideScopes         \* bound: scopes of a text that is more than a function

MCBuiltinSig == [f \in Builtins |-> EmptySig]

SecondInFor ==
  \A i \in 1..Len(symstack) :
    y \in symstack[i].table => /\ symstack[i].type = "for_cycle"
                               /\ x \in symstack[i].table

OneFunction ==
  \A f \in Names : /\ ~ functions[f].is_declared
                   /\ functions[f].definition = EmptySig
                   /\ functions[f].is_defined => f = main

NestingNext ==
  /\ \/ (program \/ stmt_list_end \/ Free_parser \/ Terminating) /\ GenerateNothing
     \/ unique_id = 1 /\ gen_function_definition(main)
     \/ gen_funretopt(<<>>)
     \/ GenStatement
  /\ SecondInFor'

NestingSpec == CodegenInit /\ [][NestingNext]_cgvars

WideNext == \/ CodegenNext /\ SecondInFor' /\ unique_id' <= WideScopes
            \/ OneFunction /\ NestingNext /\ unique_id' > WideScopes

WideSpec == CodegenInit /\ [][WideNext]_cgvars
=============================================================================
