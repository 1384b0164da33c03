------------------------------- MODULE Symtable -------------------------------
(***************************************************************************)
(* One symbol table (symtable.c), a binary search tree.  A node is known by*)
(* the path that leads to it from the root, so that "tree" is a function   *)
(* from paths to symbols and a null pointer is a path outside its domain.  *)
(* Every call of a node's procedure, and every iteration, is a step.       *)
(***************************************************************************)
EXTENDS Integers, Sequences, TLC

CONSTANT Names   \* numbered in the order of strcmp

ASSUME NamesAssumption == Names \subseteq Int

VARIABLES types,    \* what the parser puts into this table
          request,  \* the procedure called, NoRequest if none is
          tree,
          at,       \* the node where _st_get or ST_Put has come
          walk,     \* the nodes that _traverse or _st_dtor is called for
          acc,      \* _traverse's accumulator
          answer    \* what the last procedure returned

vars == <<types, request, tree, at, walk, acc, answer>>

Functions == {"func_decl", "func_def"}
Paths     == Seq({"left", "right"})

Request(op, name, type) == [op |-> op, name |-> name, type |-> type]
NoRequest == Request("none", "none", "none")

Root     == <<>>
Left(p)  == Append(p, "left")
Right(p) == Append(p, "right")

(* Fault: ST_Put and _st_get go to the left for greater names.             *)
Mirrored(name, id) == IF name > id THEN "left" ELSE "right"

(* Dynstring.cmp(id, node's id) > 0.                                       *)
Side(name, id) == IF name > id THEN "right" ELSE "left"

(* Semantics.ctor, for a function, and a symbol's type.                    *)
NewSymbol(type) == [type |-> type, is_declared |-> type = "func_decl",
                    is_defined |-> type = "func_def"]

(* Fault: a second put changes nothing.                                    *)
AsItIs(s, type) == s

(* Semantics.declare and Semantics.define.                                 *)
Again(s, type) ==
  IF type = "func_decl" THEN [s EXCEPT !.is_declared = TRUE]
  ELSE IF type = "func_def" THEN [s EXCEPT !.is_defined = TRUE]
  ELSE s

declared_implies_defined(s) == s.type = "func_decl" => s.is_defined

Missing == NewSymbol("none")

(* What a procedure returns: a symbol, or whether something holds.         *)
Found(s) == [symbol |-> s, holds |-> TRUE]
Holds(b) == [symbol |-> Missing, holds |-> b]

Init ==
  /\ types \in {{"var"}, Functions}
  /\ request = NoRequest
  /\ tree = [p \in {} |-> Missing]
  /\ at = Root /\ walk = <<>> /\ acc = TRUE /\ answer = Holds(FALSE)

(***************************************************************************)
(* The parser's calls.                                                     *)
(***************************************************************************)
Call(r) ==
  /\ request = NoRequest
  /\ request' = r
  /\ at' = Root
  /\ walk' = IF r.op \in {"traverse", "dtor"} THEN <<Root>> ELSE <<>>
  /\ acc' = TRUE
  /\ UNCHANGED <<types, tree, answer>>

call_get      == \E n \in Names : Call(Request("get", n, "none"))
call_put      == \E n \in Names, t \in types : Call(Request("put", n, t))
call_traverse == Call(Request("traverse", "none", "none"))
call_dtor     == Call(Request("dtor", "none", "none"))

Return(a) == request' = NoRequest /\ answer' = a /\ UNCHANGED <<types, at, acc>>

(***************************************************************************)
(* _st_get and ST_Put.                                                     *)
(***************************************************************************)
Here == at \in DOMAIN tree /\ tree[at].id = request.name

descend ==
  /\ request.op \in {"get", "put"}
  /\ at \in DOMAIN tree /\ tree[at].id # request.name
  /\ at' = Append(at, Side(request.name, tree[at].id))
  /\ UNCHANGED <<types, request, tree, walk, acc, answer>>

_st_get ==
  /\ request.op = "get"
  /\ \/ Here /\ Return(Found(tree[at].symbol))
     \/ at \notin DOMAIN tree /\ Return(Holds(FALSE))
  /\ UNCHANGED <<tree, walk>>

put_again ==
  /\ request.op = "put" /\ Here
  /\ LET s == Again(tree[at].symbol, request.type)
     IN  tree' = [tree EXCEPT ![at].symbol = s] /\ Return(Found(s))
  /\ UNCHANGED walk

put_new ==
  /\ request.op = "put" /\ at \notin DOMAIN tree
  /\ LET s == NewSymbol(request.type)
     IN  /\ tree' = [p \in DOMAIN tree \union {at} |->
                       IF p = at THEN [id |-> request.name, symbol |-> s]
                                 ELSE tree[p]]
         /\ Return(Found(s))
  /\ UNCHANGED walk

(***************************************************************************)
(* _traverse: a node, its left and its right subtree.                      *)
(***************************************************************************)
_traverse ==
  /\ request.op = "traverse" /\ walk # <<>>
  /\ LET p == Head(walk)
     IN  IF p \in DOMAIN tree
         THEN /\ acc' = (acc /\ declared_implies_defined(tree[p].symbol))
              /\ walk' = <<Left(p), Right(p)>> \o Tail(walk)
         ELSE walk' = Tail(walk) /\ UNCHANGED acc
  /\ UNCHANGED <<types, request, tree, at, answer>>

traverse_end ==
  /\ request.op = "traverse" /\ walk = <<>>
  /\ Return(Holds(acc))
  /\ UNCHANGED <<tree, walk>>

(***************************************************************************)
(* _st_dtor: the subtrees, then the node.                                  *)
(***************************************************************************)
Children(p) == {Left(p), Right(p)} \intersect DOMAIN tree

_st_dtor ==
  /\ request.op = "dtor" /\ walk # <<>>
  /\ LET p == Head(walk)
     IN  IF Children(p) # {}
         THEN /\ walk' = <<IF Left(p) \in DOMAIN tree THEN Left(p) ELSE Right(p)>>
                           \o walk
              /\ UNCHANGED tree
         ELSE /\ walk' = Tail(walk)
              /\ tree' = [q \in DOMAIN tree \ {p} |-> tree[q]]
  /\ UNCHANGED <<types, request, at, acc, answer>>

dtor_end ==
  /\ request.op = "dtor" /\ walk = <<>>
  /\ request' = Request("freed", "none", "none")
  /\ answer' = Holds(DOMAIN tree = {})
  /\ UNCHANGED <<types, tree, at, walk, acc>>

Terminating == request.op = "freed" /\ UNCHANGED vars

Serve == \/ descend \/ _st_get \/ put_again \/ put_new
         \/ _traverse \/ traverse_end \/ _st_dtor \/ dtor_end

Next == \/ call_get \/ call_put \/ call_traverse \/ call_dtor
        \/ Serve \/ Terminating

(* A procedure that was called runs until it returns.                      *)
Spec == Init /\ [][Next]_vars /\ WF_vars(Serve)

-----------------------------------------------------------------------------
(***************************************************************************)
(* Properties.                                                             *)
(***************************************************************************)
(* p is q or above it.                                                     *)
Above(p, q) == Len(p) <= Len(q) /\ \A i \in 1..Len(p) : q[i] = p[i]

(* The tree is a search tree: names below a node to the left are less, to  *)
(* the right greater than its name, and nothing hangs on a null pointer.   *)
SearchTree ==
  \A q \in DOMAIN tree :
    /\ \A n \in 0..Len(q) : SubSeq(q, 1, n) \in DOMAIN tree
    /\ \A p \in DOMAIN tree :
         Above(p, q) /\ p # q =>
           IF q[Len(p) + 1] = "left" THEN tree[q].id < tree[p].id
                                     ELSE tree[q].id > tree[p].id

(* The table implements a map: whatever was put in whatever order, each    *)
(* call finds what was put under the name and nothing else, a second put   *)
(* changes the symbol that the first one created, a traversal leaves out   *)
(* no symbol, the destructor no node, and every call returns.              *)
Contents ==
  [n \in {tree[p].id : p \in DOMAIN tree} |->
     tree[CHOOSE p \in DOMAIN tree : tree[p].id = n].symbol]

Promise == INSTANCE NameTable WITH
             table <- IF request.op \in {"dtor", "freed"}
                      THEN [n \in {} |-> Missing] ELSE Contents
TableSpec == Promise!TableSpec
==============================================================================
