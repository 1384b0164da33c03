------------------------------ MODULE NameTable ------------------------------
(***************************************************************************)
(* A symbol table as its callers see it: a map from names to symbols that  *)
(* serves one request at a time.                                           *)
(***************************************************************************)
CONSTANT Names

VARIABLES types,    \* what is put into this table, variables or functions
          table,    \* a function from the names it holds to their symbols
          request,  \* the request being served
          answer    \* to the last request

tableVars == <<types, table, request, answer>>

Functions == {"func_decl", "func_def"}

Request(op, name, type) == [op |-> op, name |-> name, type |-> type]
NoRequest == Request("none", "none", "none")

(* A new symbol, and what another put makes of it.                         *)
New(type) == [type |-> type, is_declared |-> type = "func_decl",
              is_defined |-> type = "func_def"]

Again(s, type) == [s EXCEPT !.is_declared = @ \/ type = "func_decl",
                            !.is_defined  = @ \/ type = "func_def"]

(* What the parser asks of all functions when the source text ends.        *)
declared_implies_defined(s) == s.is_declared => s.is_defined

Missing == New("none")

Found(s) == [symbol |-> s, holds |-> TRUE]
Holds(b) == [symbol |-> Missing, holds |-> b]

TableInit ==
  /\ types \in {{"var"}, Functions}
  /\ table = [n \in {} |-> Missing]
  /\ request = NoRequest /\ answer = Holds(FALSE)

Ask ==
  /\ request = NoRequest
  /\ \E n \in Names : \/ request' = Request("get", n, "none")
                      \/ \E t \in types : request' = Request("put", n, t)
  /\ UNCHANGED <<types, table, answer>>

AskAll ==
  /\ request = NoRequest
  /\ request' = Request("traverse", "none", "none")
  /\ UNCHANGED <<types, table, answer>>

(* The scope is closed: nothing is asked of its table afterwards.          *)
Discard ==
  /\ request = NoRequest
  /\ request' = Request("dtor", "none", "none")
  /\ table' = [n \in {} |-> Missing]
  /\ UNCHANGED <<types, answer>>

Got == IF request.name \in DOMAIN table THEN Found(table[request.name])
                                       ELSE Holds(FALSE)

Put == IF request.name \in DOMAIN table THEN Again(table[request.name], request.type)
                                       ELSE New(request.type)

Serve ==
  \/ /\ request.op = "get"
     /\ answer' = Got /\ request' = NoRequest
     /\ UNCHANGED <<types, table>>
  \/ /\ request.op = "put"
     /\ answer' = Found(Put) /\ request' = NoRequest
     /\ table' = [n \in DOMAIN table \union {request.name} |->
                    IF n = request.name THEN Put ELSE table[n]]
     /\ UNCHANGED types
  \/ /\ request.op = "traverse"
     /\ answer' = Holds(\A n \in DOMAIN table : declared_implies_defined(table[n]))
     /\ request' = NoRequest
     /\ UNCHANGED <<types, table>>
  \/ /\ request.op = "dtor"
     /\ answer' = Holds(TRUE) /\ request' = Request("freed", "none", "none")
     /\ UNCHANGED <<types, table>>

TableNext == Ask \/ AskAll \/ Discard \/ Serve

TableSafety == TableInit /\ [][TableNext]_tableVars
TableSpec   == TableSafety /\ WF_tableVars(Serve)
==============================================================================
