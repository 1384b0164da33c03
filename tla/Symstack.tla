------------------------------ MODULE Symstack ------------------------------
(***************************************************************************)
(* The stack of symbol tables (symstack.c).  One frame per open scope; the *)
(* bottom frame is the global one and the last element is the C list's     *)
(* head.  A frame's table is the set of names put in it: what a lookup     *)
(* finds depends on the frames' key sets alone.  The binary search tree    *)
(* behind a table (symtable.c), the types of variables and scope_level,    *)
(* which nothing reads, are abstracted.                                    *)
(***************************************************************************)
EXTENDS Naturals, Sequences, SequencesExt

CONSTANTS
  Names,    \* identifiers of the source program
  NoName    \* the NULL fun_name of a scope that is no function

ASSUME NoNameAssumption == NoName \notin Names

LoopScopes == {"while_cycle", "for_cycle", "do_cycle"}
ScopeTypes == LoopScopes \union {"function", "condition", "global"}

Frames == [type : ScopeTypes, uid : Nat, fun : Names \union {NoName},
           table : SUBSET Names]

(* SS_Push: a new frame with an empty table becomes the head.              *)
SS_Push(ss, type, uid, fun) ==
  Append(ss, [type |-> type, uid |-> uid, fun |-> fun, table |-> {}])

(* SS_Pop: the head and its table are freed.                               *)
SS_Pop(ss) == Front(ss)

(* SS_Get_scope_info and SS_Top: the frame at the head, whose table is the *)
(* parser's local_table.                                                   *)
SS_Head(ss) == ss[Len(ss)]

(* SS_Put_symbol: put a name in the head's table.                          *)
SS_Put_symbol(ss, id) == [ss EXCEPT ![Len(ss)].table = @ \union {id}]

(* SS_Get_symbol: every frame is searched, the global one included ...     *)
SS_Get_symbol(ss, id) == \E i \in 1..Len(ss) : id \in ss[i].table

(* ... and the symbol returned is the one nearest to the head.             *)
IsFoundAt(ss, id, i) ==
  /\ i \in 1..Len(ss)
  /\ id \in ss[i].table
  /\ \A j \in (i+1)..Len(ss) : id \notin ss[j].table

(* SS_Get_parent_func, its first half: the innermost function frame.       *)
IsParentFrame(ss, i) ==
  /\ i \in 1..Len(ss)
  /\ ss[i].type = "function"
  /\ \A j \in (i+1)..Len(ss) : ss[j].type # "function"

(* SS_Get_parent_func, its second half: that frame's fun_name is looked up *)
(* from the head through every open scope, so the symbol it returns is the *)
(* one of frame k, whatever kind of symbol that frame holds.               *)
SS_Get_parent_func(ss, f, k) ==
  \E i \in 1..Len(ss) : /\ IsParentFrame(ss, i)
                        /\ ss[i].fun = f
                        /\ IsFoundAt(ss, f, k)

(* The frames of open cycles.                                              *)
OpenLoops(ss) == {i \in 1..Len(ss) : ss[i].type \in LoopScopes}
=============================================================================
