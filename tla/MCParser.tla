------------------------------ MODULE MCParser ------------------------------
(* Parser on a small instance, one built-in function with a signature that *)
(* is not empty: all source texts with few scopes, and those with more     *)
(* scopes whose signatures are short and of one type.                      *)
EXTENDS Parser

CONSTANTS chr, int,    \* a built-in function's name and a type
          WideScopes   \* bound: scopes of a text with any signatures

MCBuiltinSig == [f \in Builtins |-> [params |-> <<int>>, returns |-> <<>>]]

Plain(list) == list \in {<<>>, <<int>>}

PlainSignatures ==
  \A f \in Names : \A sig \in {functions[f].declaration, functions[f].definition} :
    Plain(sig.params) /\ Plain(sig.returns)

WideSpec == Init /\ [][Next /\ (unique_id' <= WideScopes \/ PlainSignatures')]_vars
=============================================================================
