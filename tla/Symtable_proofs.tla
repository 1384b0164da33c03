---------------------------- MODULE Symtable_proofs ----------------------------
(***************************************************************************)
(* The binary search tree is one, and implements a map, for all names.     *)
(***************************************************************************)
EXTENDS Symtable, TLAPS

Nodes == DOMAIN tree

(***************************************************************************)
(* Paths.                                                                  *)
(***************************************************************************)
LEMMA PathFacts ==
  ASSUME NEW p \in Paths, NEW d \in {"left", "right"}
  PROVE  /\ Append(p, d) \in Paths /\ Len(Append(p, d)) = Len(p) + 1
         /\ Append(p, d)[Len(p) + 1] = d
         /\ \A i \in 1..Len(p) : Append(p, d)[i] = p[i]
         /\ Len(p) \in Nat /\ Root \in Paths /\ Len(Root) = 0
  BY DEF Paths, Root

LEMMA SamePath ==
  ASSUME NEW p \in Paths, NEW q \in Paths, Len(p) = Len(q),
         \A i \in 1..Len(p) : p[i] = q[i]
  PROVE  p = q
  BY DEF Paths

LEMMA PrefixFacts ==
  ASSUME NEW q \in Paths, NEW n \in 0..Len(q)
  PROVE  /\ SubSeq(q, 1, n) \in Paths /\ Len(SubSeq(q, 1, n)) = n
         /\ \A i \in 1..n : SubSeq(q, 1, n)[i] = q[i]
         /\ Above(SubSeq(q, 1, n), q)
<1>1. /\ SubSeq(q, 1, n) \in Paths /\ Len(SubSeq(q, 1, n)) = n
      /\ \A i \in 1..n : SubSeq(q, 1, n)[i] = q[i]
  BY DEF Paths
<1> QED  BY <1>1 DEF Above, Paths

(* A node above q is a beginning of q.                                     *)
LEMMA AbovePrefix ==
  ASSUME NEW p \in Paths, NEW q \in Paths, Above(p, q)
  PROVE  p = SubSeq(q, 1, Len(p)) /\ Len(p) \in 0..Len(q)
<1>1. Len(p) \in 0..Len(q)
  BY DEF Above, Paths
<1>2. /\ SubSeq(q, 1, Len(p)) \in Paths /\ Len(SubSeq(q, 1, Len(p))) = Len(p)
      /\ \A i \in 1..Len(p) : SubSeq(q, 1, Len(p))[i] = q[i]
  BY <1>1, PrefixFacts
<1> QED  BY <1>1, <1>2, SamePath DEF Above

LEMMA AboveRoot ==
  ASSUME NEW q \in Paths
  PROVE  Above(Root, q) /\ (Above(q, Root) => q = Root)
<1>1. Above(Root, q)
  BY PathFacts DEF Above, Root, Paths
<1>2. Above(q, Root) => q = Root
  BY PathFacts, SamePath DEF Above, Root, Paths
<1> QED  BY <1>1, <1>2

(* Below a node, on one of its two sides.                                  *)
LEMMA AboveStep ==
  ASSUME NEW p \in Paths, NEW q \in Paths, Above(p, q), p # q
  PROVE  /\ Len(p) < Len(q) /\ q[Len(p) + 1] \in {"left", "right"}
         /\ Above(Append(p, q[Len(p) + 1]), q)
<1>1. Len(p) \in Nat /\ Len(q) \in Nat /\ Len(p) <= Len(q)
  BY DEF Above, Paths
<1>2. Len(p) < Len(q)
  <2>1. Len(p) = Len(q) => p = q
    BY SamePath DEF Above
  <2> QED  BY <1>1, <2>1
<1>3. q[Len(p) + 1] \in {"left", "right"}
  BY <1>1, <1>2 DEF Paths
<1> DEFINE r == Append(p, q[Len(p) + 1])
<1>4. Len(r) = Len(p) + 1 /\ r[Len(p) + 1] = q[Len(p) + 1]
        /\ \A i \in 1..Len(p) : r[i] = p[i]
  BY <1>3, PathFacts
<1> HIDE DEF r
<1>5. Above(r, q)
  BY <1>1, <1>2, <1>4 DEF Above
<1> QED  BY <1>2, <1>3, <1>5 DEF r

(* What is above a node's child is the child, or above the node.           *)
LEMMA AboveChild ==
  ASSUME NEW p \in Paths, NEW q \in Paths, NEW d \in {"left", "right"},
         Above(q, Append(p, d)), q # Append(p, d)
  PROVE  Above(q, p)
<1>1. Append(p, d) \in Paths /\ Len(Append(p, d)) = Len(p) + 1
        /\ \A i \in 1..Len(p) : Append(p, d)[i] = p[i]
  BY PathFacts
<1>2. Len(q) < Len(p) + 1
  BY <1>1, AboveStep
<1> QED  BY <1>1, <1>2 DEF Above, Paths

LEMMA AboveReflexive ==
  ASSUME NEW p \in Paths
  PROVE  Above(p, p)
  BY DEF Above, Paths

(***************************************************************************)
(* The inductive invariant.                                                *)
(***************************************************************************)
SymbolTypes ==
  {s \in [type : {"var"} \union Functions, is_declared : BOOLEAN, is_defined : BOOLEAN] :
     /\ s.type = "var" => ~ s.is_declared
     /\ s.type = "func_decl" => s.is_declared
     /\ s.type = "func_def" => s.is_defined}

Searching == request.op \in {"get", "put"}

Requests ==
  {NoRequest, Request("traverse", "none", "none"),
   Request("dtor", "none", "none"), Request("freed", "none", "none")}
  \union {Request("get", n, "none") : n \in Names}
  \union {Request("put", n, t) : n \in Names, t \in types}

TypesOK ==
  /\ types \in {{"var"}, Functions}
  /\ request \in Requests
  /\ Nodes \subseteq Paths
  /\ tree \in [Nodes -> [id : Names, symbol : SymbolTypes]]
  /\ \A p \in Nodes : tree[p].symbol.type \in types
  /\ at \in Paths /\ walk \in Seq(Paths) /\ acc \in BOOLEAN

(* Where ST_Put or _st_get has come is where the name is, if it is there.  *)
DescentOK ==
  Searching =>
    /\ \A n \in 0..Len(at) : n < Len(at) => SubSeq(at, 1, n) \in Nodes
    /\ \A p \in Nodes : Above(p, at) /\ p # at =>
         IF at[Len(p) + 1] = "left" THEN request.name < tree[p].id
                                    ELSE request.name > tree[p].id
    /\ \A q \in Nodes : tree[q].id = request.name => Above(at, q)

NamesUnique == \A p, q \in Nodes : tree[p].id = tree[q].id => p = q

(* A symbol that _traverse has passed is in no subtree it will still visit.*)
Passed(q) == \A i \in 1..Len(walk) : ~ Above(walk[i], q)

TraverseOK ==
  request.op = "traverse" =>
    /\ acc => \A q \in Nodes : Passed(q) => declared_implies_defined(tree[q].symbol)
    /\ ~ acc => \E q \in Nodes : ~ declared_implies_defined(tree[q].symbol)

DtorOK ==
  request.op = "dtor" => IF walk = <<>> THEN Nodes = {}
                                        ELSE walk[Len(walk)] = Root

TreeInv == TypesOK /\ SearchTree /\ NamesUnique /\ DescentOK /\ TraverseOK /\ DtorOK

USE DEF Nodes

LEMMA TreeInit == Init => TreeInv
<1> SUFFICES ASSUME Init PROVE TreeInv
  OBVIOUS
<1>1. Nodes = {} /\ request = NoRequest /\ request.op = "none"
  BY DEF Init, NoRequest, Request
<1>2. TypesOK
  BY <1>1 DEF Init, TypesOK, Requests, Paths, Root
<1> QED  BY <1>1, <1>2 DEF TreeInv, SearchTree, NamesUnique, DescentOK, Searching,
                          TraverseOK, DtorOK

(***************************************************************************)
(* One lemma for each group of actions.                                    *)
(***************************************************************************)
LEMMA CallPreserves ==
  ASSUME TreeInv, call_get \/ call_put \/ call_traverse \/ call_dtor
  PROVE  TreeInv'
<1>1. PICK r : Call(r) /\ r \in Requests
  BY DEF TreeInv, call_get, call_put, call_traverse, call_dtor, Requests
<1>2. /\ request' = r /\ at' = Root /\ acc' = TRUE /\ UNCHANGED <<types, tree>>
      /\ walk' = IF r.op \in {"traverse", "dtor"} THEN <<Root>> ELSE <<>>
  BY <1>1 DEF Call
<1>3. TypesOK'
  <2>0. Root \in Paths
    BY DEF Paths, Root
  <2>1. walk' \in Seq(Paths) /\ at' \in Paths
    BY <1>2, <2>0
  <2> QED  BY <1>1, <1>2, <2>1 DEF TreeInv, TypesOK, Requests
<1>4. SearchTree' /\ NamesUnique'
  BY <1>2 DEF TreeInv, SearchTree, NamesUnique
<1>5. DescentOK'
  <2>1. Nodes \subseteq Paths
    BY DEF TreeInv, TypesOK
  <2>2. \A q \in Nodes : Above(Root, q) /\ (Above(q, Root) => q = Root)
    BY <2>1, AboveRoot
  <2>3. Len(Root) = 0
    BY DEF Root
  <2> QED  BY <1>2, <2>2, <2>3 DEF DescentOK, Searching
<1>6. TraverseOK'
  <2>1. CASE r.op = "traverse"
    <3>1. walk' = <<Root>> /\ Len(walk') = 1 /\ walk'[1] = Root
      BY <1>2, <2>1
    <3>2. \A q \in Nodes : Above(Root, q)
      BY AboveRoot DEF TreeInv, TypesOK
    <3> QED  BY <1>2, <3>1, <3>2 DEF TraverseOK, Passed
  <2>2. CASE r.op # "traverse"
    BY <1>2, <2>2 DEF TraverseOK
  <2> QED  BY <2>1, <2>2
<1>7. DtorOK'
  <2>1. CASE r.op = "dtor"
    <3>1. walk' = <<Root>> /\ Len(walk') = 1 /\ walk'[1] = Root /\ walk' # <<>>
      BY <1>2, <2>1
    <3> QED  BY <1>2, <3>1 DEF DtorOK
  <2>2. CASE r.op # "dtor"
    BY <1>2, <2>2 DEF DtorOK
  <2> QED  BY <2>1, <2>2
<1> QED  BY <1>3, <1>4, <1>5, <1>6, <1>7 DEF TreeInv

(* The descent goes to the side where the name must be.                    *)
LEMMA DescendPreserves ==
  ASSUME TreeInv, descend
  PROVE  TreeInv'
<1> DEFINE d == Side(request.name, tree[at].id)
<1>1. /\ at \in Nodes /\ tree[at].id # request.name
      /\ at' = Append(at, d) /\ Searching
      /\ UNCHANGED <<types, request, tree, walk, acc, answer>>
  BY DEF descend, Searching
<1>2. /\ at \in Paths /\ tree[at].id \in Int /\ request.name \in Int
      /\ Nodes \subseteq Paths /\ d \in {"left", "right"}
      /\ d = "left" => request.name < tree[at].id
      /\ d = "right" => request.name > tree[at].id
  <2>1. at \in Paths /\ tree[at].id \in Int /\ Nodes \subseteq Paths
    BY <1>1, NamesAssumption DEF TreeInv, TypesOK
  <2>2. request.name \in Int
    BY <1>1, NamesAssumption DEF TreeInv, TypesOK, Requests, Searching, Request, NoRequest
  <2> QED  BY <1>1, <2>1, <2>2 DEF Side
<1>3. /\ at' \in Paths /\ Len(at') = Len(at) + 1 /\ at'[Len(at) + 1] = d
      /\ \A i \in 1..Len(at) : at'[i] = at[i]
      /\ Len(at) \in Nat
  BY <1>1, <1>2, PathFacts
<1> HIDE DEF d
<1>4. \A n \in 0..Len(at') : n < Len(at') => SubSeq(at', 1, n) \in Nodes
  <2> SUFFICES ASSUME NEW n \in 0..Len(at), Len(at) \in Nat
               PROVE  SubSeq(at', 1, n) \in Nodes
    BY <1>3
  <2>1. SubSeq(at', 1, n) = SubSeq(at, 1, n)
    <3>1. n \in 0..Len(at')
      BY <1>3
    <3>2. /\ SubSeq(at', 1, n) \in Paths /\ Len(SubSeq(at', 1, n)) = n
          /\ \A i \in 1..n : SubSeq(at', 1, n)[i] = at'[i]
      BY <1>3, <3>1, PrefixFacts
    <3>3. /\ SubSeq(at, 1, n) \in Paths /\ Len(SubSeq(at, 1, n)) = n
          /\ \A i \in 1..n : SubSeq(at, 1, n)[i] = at[i]
      BY <1>2, PrefixFacts
    <3>4. \A i \in 1..n : at'[i] = at[i]
      BY <1>3
    <3> QED  BY <3>2, <3>3, <3>4, SamePath
  <2>2. SubSeq(at, 1, n) \in Nodes
    BY <1>1 DEF TreeInv, SearchTree
  <2> QED  BY <2>1, <2>2
<1>5. ASSUME NEW p \in Nodes, Above(p, at'), p # at'
      PROVE  IF at'[Len(p) + 1] = "left" THEN request.name < tree[p].id
                                         ELSE request.name > tree[p].id
  <2>1. p \in Paths /\ Above(p, at)
    BY <1>1, <1>2, <1>5, AboveChild
  <2>2. CASE p = at
    BY <1>2, <1>3, <2>2
  <2>3. CASE p # at
    <3>1. Len(p) < Len(at) /\ Len(p) \in Nat
      BY <1>2, <2>1, <2>3, AboveStep DEF Paths
    <3>2. at'[Len(p) + 1] = at[Len(p) + 1]
      BY <1>3, <3>1
    <3> QED  BY <1>1, <1>5, <2>1, <2>3, <3>2 DEF TreeInv, DescentOK
  <2> QED  BY <2>2, <2>3
<1>6. ASSUME NEW q \in Nodes, tree[q].id = request.name
      PROVE  Above(at', q)
  <2>1. Above(at, q) /\ q # at /\ q \in Paths
    BY <1>1, <1>2, <1>6 DEF TreeInv, DescentOK
  <2>2. q[Len(at) + 1] \in {"left", "right"} /\ Above(Append(at, q[Len(at) + 1]), q)
    BY <1>2, <2>1, AboveStep
  <2>3. IF q[Len(at) + 1] = "left" THEN tree[q].id < tree[at].id
                                  ELSE tree[q].id > tree[at].id
    BY <1>1, <2>1 DEF TreeInv, SearchTree
  <2>4. q[Len(at) + 1] = d
    BY <1>2, <1>6, <2>2, <2>3
  <2> QED  BY <1>1, <2>2, <2>4
<1>7. DescentOK'
  BY <1>1, <1>4, <1>5, <1>6 DEF DescentOK
<1>8. TypesOK' /\ SearchTree' /\ NamesUnique'
  BY <1>1, <1>3 DEF TreeInv, TypesOK, SearchTree, NamesUnique, Requests
<1>9. TraverseOK' /\ DtorOK'
  BY <1>1 DEF TraverseOK, DtorOK, Searching
<1> QED  BY <1>7, <1>8, <1>9 DEF TreeInv

LEMMA GetPreserves ==
  ASSUME TreeInv, _st_get
  PROVE  TreeInv'
<1>1. UNCHANGED <<tree, walk>> /\ \E a \in {Found(tree[at].symbol), Holds(FALSE)} : Return(a)
  BY DEF _st_get
<1>2. request' = NoRequest /\ UNCHANGED <<types, tree, at, walk, acc>>
  BY <1>1 DEF Return
<1>3. request'.op = "none"
  BY <1>2 DEF NoRequest, Request
<1> QED  BY <1>2, <1>3 DEF TreeInv, TypesOK, Requests, SearchTree, NamesUnique, DescentOK,
                           Searching, TraverseOK, DtorOK

(* A second put keeps the symbol one that the parser can have put there.   *)
LEMMA AgainTyped ==
  ASSUME types \in {{"var"}, Functions},
         NEW s \in SymbolTypes, s.type \in types, NEW t \in types
  PROVE  Again(s, t) \in SymbolTypes /\ Again(s, t).type = s.type
<1>1. /\ s \in [type : {"var"} \union Functions, is_declared : BOOLEAN,
                is_defined : BOOLEAN]
      /\ s.type = "var" => ~ s.is_declared
      /\ s.type = "func_decl" => s.is_declared
      /\ s.type = "func_def" => s.is_defined
  BY DEF SymbolTypes
<1>2. CASE types = {"var"}
  <2>1. Again(s, t) = s
    BY <1>2 DEF Again
  <2> QED  BY <2>1
<1>3. CASE types = Functions
  <2>1. CASE t = "func_decl"
    <3>1. Again(s, t) = [s EXCEPT !.is_declared = TRUE]
      BY <2>1 DEF Again
    <3> QED  BY <1>1, <1>3, <3>1 DEF SymbolTypes, Functions
  <2>2. CASE t = "func_def"
    <3>1. Again(s, t) = [s EXCEPT !.is_defined = TRUE]
      BY <2>2 DEF Again
    <3> QED  BY <1>1, <1>3, <3>1 DEF SymbolTypes, Functions
  <2> QED  BY <1>3, <2>1, <2>2 DEF Functions
<1> QED  BY <1>2, <1>3

LEMMA AgainPreserves ==
  ASSUME TreeInv, put_again
  PROVE  TreeInv'
<1> DEFINE s == Again(tree[at].symbol, request.type)
<1>1. /\ at \in Nodes /\ tree' = [tree EXCEPT ![at].symbol = s]
      /\ request' = NoRequest /\ request'.op = "none"
      /\ UNCHANGED <<types, at, walk, acc>>
  BY DEF put_again, Here, Return, NoRequest, Request
<1>2. s \in SymbolTypes /\ s.type = tree[at].symbol.type
  <2>1. request.type \in types
    BY DEF put_again, TreeInv, TypesOK, Requests, Request, NoRequest
  <2>2. tree[at].symbol \in SymbolTypes /\ tree[at].symbol.type \in types
    BY <1>1 DEF TreeInv, TypesOK
  <2>3. types \in {{"var"}, Functions}
    BY DEF TreeInv, TypesOK
  <2> QED  BY <2>1, <2>2, <2>3, AgainTyped
<1> HIDE DEF s
<1>3. /\ Nodes' = Nodes /\ tree' \in [Nodes -> [id : Names, symbol : SymbolTypes]]
      /\ \A p \in Nodes : tree'[p].id = tree[p].id
      /\ \A p \in Nodes : tree'[p].symbol.type = tree[p].symbol.type
  BY <1>1, <1>2 DEF TreeInv, TypesOK
<1>4. TypesOK'
  BY <1>1, <1>3 DEF TreeInv, TypesOK, Requests
<1>5. SearchTree' /\ NamesUnique'
  BY <1>3 DEF TreeInv, SearchTree, NamesUnique
<1> QED  BY <1>1, <1>4, <1>5 DEF TreeInv, DescentOK, Searching, TraverseOK, DtorOK

(* A name that is not found is put where it will be looked for.            *)
LEMMA NewPreserves ==
  ASSUME TreeInv, put_new
  PROVE  TreeInv'
<1> DEFINE node == [id |-> request.name, symbol |-> NewSymbol(request.type)]
<1>1. /\ at \notin Nodes /\ Searching
      /\ tree' = [p \in Nodes \union {at} |-> IF p = at THEN node ELSE tree[p]]
      /\ request' = NoRequest /\ request'.op = "none"
      /\ UNCHANGED <<types, at, walk, acc>>
  BY DEF put_new, Return, NoRequest, Request, Searching
<1>2. /\ at \in Paths /\ Nodes \subseteq Paths /\ request.name \in Names
      /\ request.type \in types
      /\ \A p \in Nodes : tree[p].id \in Int /\ tree[p].symbol \in SymbolTypes
  <2>1. request.name \in Names /\ request.type \in types
    BY DEF put_new, TreeInv, TypesOK, Requests, Request, NoRequest
  <2> QED  BY <2>1, NamesAssumption DEF TreeInv, TypesOK
<1>3. /\ node \in [id : Names, symbol : SymbolTypes] /\ node.id = request.name
      /\ node.symbol.type = request.type
  BY <1>2 DEF TreeInv, TypesOK, Functions, NewSymbol, SymbolTypes
<1> HIDE DEF node
<1>4. /\ Nodes' = Nodes \union {at} /\ tree'[at] = node
      /\ \A p \in Nodes : p # at /\ tree'[p] = tree[p]
  BY <1>1
<1>5. TypesOK'
  <2>1. tree' \in [Nodes' -> [id : Names, symbol : SymbolTypes]]
    BY <1>1, <1>3, <1>4 DEF TreeInv, TypesOK
  <2> QED  BY <1>1, <1>2, <1>3, <1>4, <2>1 DEF TreeInv, TypesOK, Requests
<1>6. \A p \in Nodes : ~ Above(at, p)
  <2> SUFFICES ASSUME NEW p \in Nodes, Above(at, p)
               PROVE  FALSE
    OBVIOUS
  <2>1. at = SubSeq(p, 1, Len(at)) /\ Len(at) \in 0..Len(p)
    BY <1>2, AbovePrefix
  <2>2. SubSeq(p, 1, Len(at)) \in Nodes
    BY <2>1 DEF TreeInv, SearchTree
  <2> QED  BY <1>1, <2>1, <2>2
<1>7. NamesUnique'
  <2>1. \A p \in Nodes : tree[p].id # request.name
    BY <1>1, <1>6 DEF TreeInv, DescentOK
  <2> QED  BY <1>3, <1>4, <2>1 DEF TreeInv, NamesUnique
<1>8. SearchTree'
  <2>1. ASSUME NEW q \in Nodes', NEW n \in 0..Len(q)
        PROVE  SubSeq(q, 1, n) \in Nodes'
    <3>1. CASE q \in Nodes
      BY <1>4, <3>1 DEF TreeInv, SearchTree
    <3>2. CASE q = at /\ n = Len(at)
      <4>1. SubSeq(at, 1, Len(at)) = at
        BY <1>2, AboveReflexive, AbovePrefix
      <4> QED  BY <1>4, <3>2, <4>1
    <3>3. CASE q = at /\ n # Len(at)
      <4>1. n < Len(at)
        BY <1>2, <3>3 DEF Paths
      <4> QED  BY <1>1, <1>4, <3>3, <4>1 DEF TreeInv, DescentOK
    <3> QED  BY <1>4, <3>1, <3>2, <3>3
  <2>2. ASSUME NEW q \in Nodes', NEW p \in Nodes', Above(p, q), p # q
        PROVE  IF q[Len(p) + 1] = "left" THEN tree'[q].id < tree'[p].id
                                         ELSE tree'[q].id > tree'[p].id
    <3>1. p \in Nodes
      <4>1. p = at => q \in Nodes
        BY <1>4, <2>2
      <4> QED  BY <1>4, <1>6, <2>2, <4>1
    <3>2. CASE q \in Nodes
      BY <1>4, <2>2, <3>1, <3>2 DEF TreeInv, SearchTree
    <3>3. CASE q = at
      BY <1>1, <1>3, <1>4, <2>2, <3>1, <3>3 DEF TreeInv, DescentOK
    <3> QED  BY <1>4, <3>2, <3>3
  <2> QED  BY <2>1, <2>2 DEF SearchTree
<1> QED  BY <1>1, <1>5, <1>7, <1>8 DEF TreeInv, DescentOK, Searching, TraverseOK, DtorOK

LEMMA TraversePreserves ==
  ASSUME TreeInv, _traverse
  PROVE  TreeInv'
<1> DEFINE p == Head(walk)
<1>1. /\ request.op = "traverse" /\ walk # <<>>
      /\ UNCHANGED <<types, request, tree, at>>
      /\ \/ /\ p \in Nodes
            /\ acc' = (acc /\ declared_implies_defined(tree[p].symbol))
            /\ walk' = <<Left(p), Right(p)>> \o Tail(walk)
         \/ p \notin Nodes /\ acc' = acc /\ walk' = Tail(walk)
  BY DEF _traverse
<1>2. /\ p \in Paths /\ walk \in Seq(Paths) /\ acc \in BOOLEAN /\ Nodes \subseteq Paths
      /\ Tail(walk) \in Seq(Paths) /\ Len(Tail(walk)) = Len(walk) - 1
      /\ Len(walk) \in Nat \ {0} /\ p = walk[1]
      /\ \A i \in 1..Len(walk) - 1 : Tail(walk)[i] = walk[i + 1]
  BY <1>1 DEF TreeInv, TypesOK
<1> HIDE DEF p
<1>3. Left(p) \in Paths /\ Right(p) \in Paths
  BY <1>2, PathFacts DEF Left, Right
<1>4. TypesOK'
  <2>1. walk' \in Seq(Paths)
    <3>1. <<Left(p), Right(p)>> \in Seq(Paths)
      BY <1>3
    <3>2. <<Left(p), Right(p)>> \o Tail(walk) \in Seq(Paths)
      BY <1>2, <3>1
    <3> QED  BY <1>1, <1>2, <3>2
  <2>2. acc' \in BOOLEAN
    BY <1>1, <1>2 DEF declared_implies_defined
  <2> QED  BY <1>1, <2>1, <2>2 DEF TreeInv, TypesOK, Requests
<1>5. ASSUME p \notin Nodes PROVE TraverseOK'
  <2>1. \A q \in Nodes : Passed(q)' => Passed(q)
    <3> SUFFICES ASSUME NEW q \in Nodes, Passed(q)', NEW i \in 1..Len(walk), Above(walk[i], q)
                 PROVE  FALSE
      BY DEF Passed
    <3>1. CASE i = 1
      <4>1. p = SubSeq(q, 1, Len(p)) /\ Len(p) \in 0..Len(q)
        BY <1>2, <3>1, AbovePrefix
      <4> QED  BY <1>5, <4>1 DEF TreeInv, SearchTree
    <3>2. CASE i # 1
      <4>1. i - 1 \in 1..Len(walk') /\ walk'[i - 1] = walk[i]
        BY <1>1, <1>2, <1>5, <3>2
      <4> QED  BY <4>1 DEF Passed
    <3> QED  BY <3>1, <3>2
  <2> QED  BY <1>1, <1>5, <2>1 DEF TreeInv, TraverseOK
<1>6. ASSUME p \in Nodes PROVE TraverseOK'
  <2>1. \A q \in Nodes : Passed(q)' => Passed(q) \/ q = p
    <3> SUFFICES ASSUME NEW q \in Nodes, Passed(q)', q # p,
                        NEW i \in 1..Len(walk), Above(walk[i], q)
                 PROVE  FALSE
      BY DEF Passed
    <3>1. /\ Len(walk') = Len(walk) + 1 /\ walk'[1] = Left(p) /\ walk'[2] = Right(p)
          /\ \A j \in 2..Len(walk) : walk'[j + 1] = walk[j]
      BY <1>1, <1>2, <1>3, <1>6
    <3>2. CASE i = 1
      <4>1. /\ q[Len(p) + 1] \in {"left", "right"}
            /\ Above(Append(p, q[Len(p) + 1]), q)
        BY <1>2, <3>2, AboveStep
      <4>2. Above(Left(p), q) \/ Above(Right(p), q)
        BY <4>1 DEF Left, Right
      <4>3. 1 \in 1..Len(walk') /\ 2 \in 1..Len(walk')
        BY <1>2, <3>1
      <4> QED  BY <3>1, <4>2, <4>3 DEF Passed
    <3>3. CASE i # 1
      <4>1. i + 1 \in 1..Len(walk') /\ walk'[i + 1] = walk[i]
        BY <1>2, <3>1, <3>3
      <4> QED  BY <4>1 DEF Passed
    <3> QED  BY <3>2, <3>3
  <2>2. acc' => acc /\ declared_implies_defined(tree[p].symbol)
    BY <1>1, <1>6
  <2>3. ~ acc' => ~ acc \/ ~ declared_implies_defined(tree[p].symbol)
    BY <1>1, <1>6
  <2>4. acc' => \A q \in Nodes : Passed(q)' => declared_implies_defined(tree[q].symbol)
    BY <1>1, <2>1, <2>2 DEF TreeInv, TraverseOK
  <2>5. ~ acc' => \E q \in Nodes : ~ declared_implies_defined(tree[q].symbol)
    BY <1>1, <1>6, <2>3 DEF TreeInv, TraverseOK
  <2> QED  BY <1>1, <2>4, <2>5 DEF TreeInv, TraverseOK
<1>7. TraverseOK'
  BY <1>5, <1>6
<1>8. SearchTree' /\ NamesUnique' /\ DescentOK' /\ DtorOK'
  BY <1>1 DEF TreeInv, SearchTree, NamesUnique, DescentOK, Searching, DtorOK
<1> QED  BY <1>4, <1>7, <1>8 DEF TreeInv

LEMMA TraverseEndPreserves ==
  ASSUME TreeInv, traverse_end
  PROVE  TreeInv'
<1>1. /\ request' = NoRequest /\ request'.op = "none"
      /\ UNCHANGED <<types, tree, at, walk, acc>>
  BY DEF traverse_end, Return, NoRequest, Request
<1> QED  BY <1>1 DEF TreeInv, TypesOK, Requests, SearchTree, NamesUnique, DescentOK,
                     Searching, TraverseOK, DtorOK

(* A node is freed after both its subtrees, so that the rest stays a tree. *)
LEMMA DtorPreserves ==
  ASSUME TreeInv, _st_dtor
  PROVE  TreeInv'
<1> DEFINE p == Head(walk)
<1>1. /\ request.op = "dtor" /\ walk # <<>>
      /\ UNCHANGED <<types, request, at, acc>>
      /\ \/ /\ Children(p) # {} /\ tree' = tree
            /\ walk' = <<IF Left(p) \in Nodes THEN Left(p) ELSE Right(p)>> \o walk
         \/ /\ Children(p) = {} /\ walk' = Tail(walk)
            /\ tree' = [q \in Nodes \ {p} |-> tree[q]]
  BY DEF _st_dtor
<1>2. /\ p \in Paths /\ walk \in Seq(Paths) /\ Nodes \subseteq Paths
      /\ Tail(walk) \in Seq(Paths) /\ Len(Tail(walk)) = Len(walk) - 1
      /\ Len(walk) \in Nat \ {0} /\ p = walk[1]
      /\ \A i \in 1..Len(walk) - 1 : Tail(walk)[i] = walk[i + 1]
      /\ walk[Len(walk)] = Root
  BY <1>1 DEF TreeInv, TypesOK, DtorOK
<1> HIDE DEF p
<1>3. Left(p) \in Paths /\ Right(p) \in Paths
  BY <1>2, PathFacts DEF Left, Right
<1>4. ASSUME Children(p) # {} PROVE TreeInv'
  <2> DEFINE c == IF Left(p) \in Nodes THEN Left(p) ELSE Right(p)
  <2>1. walk' = <<c>> \o walk /\ tree' = tree /\ c \in Paths
    BY <1>1, <1>3, <1>4
  <2> HIDE DEF c
  <2>2. walk' \in Seq(Paths) /\ Len(walk') = Len(walk) + 1 /\ walk' # <<>>
          /\ walk'[Len(walk) + 1] = walk[Len(walk)]
    BY <1>2, <2>1
  <2>3. TypesOK'
    BY <1>1, <2>1, <2>2 DEF TreeInv, TypesOK, Requests
  <2>4. SearchTree' /\ NamesUnique'
    BY <2>1 DEF TreeInv, SearchTree, NamesUnique
  <2>5. DescentOK' /\ TraverseOK' /\ DtorOK'
    BY <1>1, <1>2, <2>2 DEF DescentOK, Searching, TraverseOK, DtorOK
  <2> QED  BY <2>3, <2>4, <2>5 DEF TreeInv
<1>5. ASSUME Children(p) = {} PROVE TreeInv'
  <2>1. /\ walk' = Tail(walk) /\ tree' = [q \in Nodes \ {p} |-> tree[q]]
        /\ Nodes' = Nodes \ {p} /\ \A q \in Nodes' : tree'[q] = tree[q]
    BY <1>1, <1>5
  <2>2. \A q \in Nodes' : ~ Above(p, q)
    <3> SUFFICES ASSUME NEW q \in Nodes', Above(p, q)
                 PROVE  FALSE
      OBVIOUS
    <3>1. /\ q \in Paths /\ q # p
          /\ q[Len(p) + 1] \in {"left", "right"}
          /\ Above(Append(p, q[Len(p) + 1]), q)
      BY <1>2, <2>1, AboveStep
    <3>2. \E d \in {"left", "right"} : Append(p, d) \in Paths /\ Above(Append(p, d), q)
      BY <1>2, <3>1, PathFacts
    <3>3. PICK d \in {"left", "right"} : Append(p, d) \in Paths /\ Above(Append(p, d), q)
      BY <3>2
    <3>4. /\ Append(p, d) = SubSeq(q, 1, Len(Append(p, d)))
          /\ Len(Append(p, d)) \in 0..Len(q)
      BY <3>1, <3>3, AbovePrefix
    <3>5. Append(p, d) \in Nodes
      BY <2>1, <3>4 DEF TreeInv, SearchTree
    <3> QED  BY <1>5, <3>5 DEF Children, Left, Right
  <2>3. TypesOK'
    <3>1. tree' \in [Nodes' -> [id : Names, symbol : SymbolTypes]]
      BY <2>1 DEF TreeInv, TypesOK
    <3>2. Nodes' \subseteq Paths /\ walk' \in Seq(Paths)
      BY <1>2, <2>1
    <3> HIDE DEF Nodes
    <3> QED  BY <1>1, <3>1, <3>2 DEF TreeInv, TypesOK, Requests
  <2>4. NamesUnique'
    BY <2>1 DEF TreeInv, NamesUnique
  <2>5. SearchTree'
    <3>1. ASSUME NEW q \in Nodes', NEW n \in 0..Len(q)
          PROVE  SubSeq(q, 1, n) \in Nodes'
      <4>1. SubSeq(q, 1, n) \in Nodes
        BY <2>1 DEF TreeInv, SearchTree
      <4>2. Above(SubSeq(q, 1, n), q)
        BY <1>2, <2>1, PrefixFacts
      <4> QED  BY <2>1, <2>2, <4>1, <4>2
    <3>2. ASSUME NEW q \in Nodes', NEW r \in Nodes', Above(r, q), r # q
          PROVE  IF q[Len(r) + 1] = "left" THEN tree'[q].id < tree'[r].id
                                           ELSE tree'[q].id > tree'[r].id
      BY <2>1, <3>2 DEF TreeInv, SearchTree
    <3> QED  BY <3>1, <3>2 DEF SearchTree
  <2>6. DtorOK'
    <3>1. CASE Len(walk) = 1
      <4>1. walk' = <<>> /\ p = Root
        BY <1>2, <2>1, <3>1
      <4>2. \A q \in Nodes' : Above(Root, q)
        BY <1>2, <2>1, AboveRoot
      <4>3. Nodes' = {}
        BY <2>2, <4>1, <4>2
      <4> QED  BY <4>1, <4>3 DEF DtorOK
    <3>2. CASE Len(walk) # 1
      <4>1. Len(walk) - 1 \in 1..Len(walk) - 1 /\ Len(walk') = Len(walk) - 1
        BY <1>2, <2>1, <3>2
      <4>2. walk' # <<>> /\ walk'[Len(walk')] = Root
        BY <1>2, <2>1, <4>1
      <4> QED  BY <4>2 DEF DtorOK
    <3> QED  BY <3>1, <3>2
  <2> QED  BY <1>1, <2>3, <2>4, <2>5, <2>6 DEF TreeInv, DescentOK, Searching, TraverseOK
<1> QED  BY <1>4, <1>5

LEMMA DtorEndPreserves ==
  ASSUME TreeInv, dtor_end
  PROVE  TreeInv'
<1>1. /\ request' = Request("freed", "none", "none") /\ request'.op = "freed"
      /\ UNCHANGED <<types, tree, at, walk, acc>>
  BY DEF dtor_end, Request
<1> QED  BY <1>1 DEF TreeInv, TypesOK, Requests, SearchTree, NamesUnique, DescentOK,
                     Searching, TraverseOK, DtorOK

LEMMA TreePreserves ==
  ASSUME TreeInv, [Next]_vars
  PROVE  TreeInv'
<1>1. CASE UNCHANGED vars \/ Terminating
  BY <1>1 DEF Terminating, vars, TreeInv, TypesOK, Requests, SearchTree, NamesUnique,
              DescentOK, Searching, TraverseOK, Passed, DtorOK
<1> QED  BY <1>1, CallPreserves, DescendPreserves, GetPreserves, AgainPreserves,
            NewPreserves, TraversePreserves, TraverseEndPreserves, DtorPreserves,
            DtorEndPreserves DEF Next, Serve

LEMMA TreeInvariant == Init /\ [][Next]_vars => []TreeInv
<1>1. TreeInv /\ [Next]_vars => TreeInv'
  BY TreePreserves
<1> QED  BY TreeInit, <1>1, PTL

(* For all names, in whatever order they are put, the tree is ordered.     *)
THEOREM TreeIsOrdered == Spec => []SearchTree
<1>1. TreeInv => SearchTree
  BY DEF TreeInv
<1> QED  BY <1>1, TreeInvariant, PTL DEF Spec

-----------------------------------------------------------------------------
(***************************************************************************)
(* The tree implements a map.                                              *)
(***************************************************************************)
Empty == [n \in {} |-> Missing]
Table == IF request.op \in {"dtor", "freed"} THEN Empty ELSE Contents

ContentsOK ==
  /\ DOMAIN Contents = {tree[p].id : p \in Nodes}
  /\ \A p \in Nodes : /\ tree[p].id \in DOMAIN Contents
                      /\ Contents[tree[p].id] = tree[p].symbol

LEMMA ContentsFacts == TreeInv => ContentsOK
<1> SUFFICES ASSUME TreeInv PROVE ContentsOK
  OBVIOUS
<1>1. DOMAIN Contents = {tree[p].id : p \in Nodes}
  BY DEF Contents
<1>2. ASSUME NEW p \in Nodes
      PROVE  Contents[tree[p].id] = tree[p].symbol
  <2>1. (CHOOSE q \in Nodes : tree[q].id = tree[p].id) = p
    BY DEF TreeInv, NamesUnique
  <2> QED  BY <2>1 DEF Contents
<1> QED  BY <1>1, <1>2 DEF ContentsOK

(* The two definitions of what a symbol is, and becomes, agree.            *)
LEMMA SymbolFacts ==
  /\ Promise!Missing = Missing /\ Promise!NoRequest = NoRequest
  /\ \A b : Promise!Holds(b) = Holds(b)
  /\ \A s : Promise!Found(s) = Found(s)
  /\ \A t : Promise!New(t) = NewSymbol(t)
  /\ \A o, n, t : Promise!Request(o, n, t) = Request(o, n, t)
  BY DEF Promise!Missing, Promise!NoRequest, Promise!Holds, Promise!Found, Promise!New,
         Promise!Request, Missing, NoRequest, Holds, Found, NewSymbol, Request

LEMMA PredicateFacts ==
  ASSUME NEW s \in SymbolTypes
  PROVE  Promise!declared_implies_defined(s) <=> declared_implies_defined(s)
  BY DEF Promise!declared_implies_defined, declared_implies_defined, SymbolTypes, Functions

LEMMA AgainFacts ==
  ASSUME NEW s \in SymbolTypes, NEW t
  PROVE  Promise!Again(s, t) = Again(s, t)
<1>1. s.is_declared \in BOOLEAN /\ s.is_defined \in BOOLEAN
  BY DEF SymbolTypes
<1> QED  BY <1>1 DEF Promise!Again, Again, SymbolTypes

(* _st_get and ST_Put stop at the node of the name if there is one.        *)
LEMMA SearchFacts ==
  ASSUME TreeInv, Searching
  PROVE  /\ Here => request.name \in DOMAIN Contents
                     /\ Contents[request.name] = tree[at].symbol
         /\ at \notin Nodes => request.name \notin DOMAIN Contents
<1>1. Here => request.name \in DOMAIN Contents /\ Contents[request.name] = tree[at].symbol
  BY ContentsFacts DEF ContentsOK, Here
<1>2. ASSUME at \notin Nodes, NEW q \in Nodes, tree[q].id = request.name
      PROVE  FALSE
  <2>1. Above(at, q) /\ at \in Paths /\ q \in Paths
    BY <1>2 DEF TreeInv, DescentOK, TypesOK
  <2>2. at = SubSeq(q, 1, Len(at)) /\ Len(at) \in 0..Len(q)
    BY <2>1, AbovePrefix
  <2>3. SubSeq(q, 1, Len(at)) \in Nodes
    BY <2>2 DEF TreeInv, SearchTree
  <2> QED  BY <1>2, <2>2, <2>3
<1> QED  BY <1>1, <1>2, ContentsFacts DEF ContentsOK

LEMMA InitRefines == Init => Promise!TableInit
<1> SUFFICES ASSUME Init PROVE Promise!TableInit
  OBVIOUS
<1>1. Nodes = {} /\ request = NoRequest /\ answer = Holds(FALSE)
  BY DEF Init
<1>2. Contents = Empty /\ Table = Empty
  BY <1>1 DEF Contents, Empty, Table
<1> QED  BY <1>1, <1>2, SymbolFacts DEF Init, Promise!TableInit, Promise!Functions,
            Functions, Table, Empty

LEMMA CallRefines ==
  ASSUME TreeInv, call_get \/ call_put \/ call_traverse \/ call_dtor
  PROVE  Promise!Ask \/ Promise!AskAll \/ Promise!Discard
<1>1. /\ request = NoRequest /\ UNCHANGED <<types, tree, answer>>
      /\ request.op = "none" /\ Table = Contents
  BY DEF call_get, call_put, call_traverse, call_dtor, Call, NoRequest, Request, Table
<1>2. Contents' = Contents
  BY <1>1 DEF Contents
<1>3. CASE call_dtor
  <2>1. request' = Request("dtor", "none", "none") /\ request'.op = "dtor"
    BY <1>3 DEF call_dtor, Call, Request
  <2>2. Table' = Empty
    BY <2>1 DEF Table
  <2> QED  BY <1>1, <2>1, <2>2, SymbolFacts DEF Promise!Discard, Table, Empty
<1>4. CASE call_get \/ call_put \/ call_traverse
  <2>1. request'.op \in {"get", "put", "traverse"}
    BY <1>4 DEF call_get, call_put, call_traverse, Call, Request
  <2>2. Table' = Table
    BY <1>1, <1>2, <2>1 DEF Table
  <2>3. CASE call_traverse
    <3>1. request' = Request("traverse", "none", "none")
      BY <2>3 DEF call_traverse, Call
    <3> QED  BY <1>1, <2>2, <3>1, SymbolFacts DEF Promise!AskAll, Table, Empty
  <2>4. CASE call_get \/ call_put
    <3>1. \E n \in Names : \/ request' = Request("get", n, "none")
                          \/ \E t \in types : request' = Request("put", n, t)
      BY <2>4 DEF call_get, call_put, Call
    <3> QED  BY <1>1, <2>2, <3>1, SymbolFacts DEF Promise!Ask, Table, Empty
  <2> QED  BY <1>4, <2>3, <2>4
<1> QED  BY <1>3, <1>4

(* Only the last step of a procedure is seen.                              *)
LEMMA InnerStutters ==
  ASSUME TreeInv, descend \/ _traverse \/ _st_dtor
  PROVE  UNCHANGED <<types, Table, request, answer>>
<1>1. UNCHANGED <<types, request, answer>> /\ (tree' = tree \/ request.op = "dtor")
  BY DEF descend, _traverse, _st_dtor
<1>2. tree' = tree => Contents' = Contents
  BY DEF Contents
<1> QED  BY <1>1, <1>2 DEF Table

LEMMA GetRefines ==
  ASSUME TreeInv, _st_get
  PROVE  Promise!Serve
<1>1. /\ request.op = "get" /\ tree' = tree
      /\ \/ Here /\ Return(Found(tree[at].symbol))
         \/ at \notin Nodes /\ Return(Holds(FALSE))
  BY DEF _st_get
<1>2. request' = NoRequest /\ types' = types
  BY <1>1 DEF Return
<1>3. Contents' = Contents /\ Table = Contents /\ Table' = Contents
  <2>1. request'.op = "none"
    BY <1>2 DEF NoRequest, Request
  <2> QED  BY <1>1, <2>1 DEF Table, Contents
<1>4. answer' = IF request.name \in DOMAIN Contents THEN Found(Contents[request.name])
                                                    ELSE Holds(FALSE)
  BY <1>1, SearchFacts DEF Return, Searching
<1>5. answer' = IF request.name \in DOMAIN Table
                THEN Promise!Found(Table[request.name]) ELSE Promise!Holds(FALSE)
  BY <1>3, <1>4, SymbolFacts
<1>6. answer' = Promise!Got
  BY <1>5 DEF Promise!Got, Table, Empty
<1> QED  BY <1>1, <1>2, <1>3, <1>6, SymbolFacts DEF Promise!Serve, Table, Empty

LEMMA PutRefines ==
  ASSUME TreeInv, put_again \/ put_new
  PROVE  Promise!Serve
<1> DEFINE s == IF Here THEN Again(tree[at].symbol, request.type)
                        ELSE NewSymbol(request.type)
<1>1. /\ request.op = "put" /\ request' = NoRequest /\ types' = types
      /\ answer' = Found(s) /\ (Here \/ at \notin Nodes) /\ at' = at
  BY DEF put_again, put_new, Return, Here
<1>2. TreeInv'
  BY AgainPreserves, NewPreserves
<1>3. /\ Nodes' = Nodes \union {at} /\ tree'[at].symbol = s
      /\ tree'[at].id = request.name
      /\ \A p \in Nodes : p # at => tree'[p] = tree[p]
  <2>1. CASE put_again
    <3>1. at \in Nodes /\ Here /\ tree' = [tree EXCEPT ![at].symbol = s]
      BY <2>1 DEF put_again, Here
    <3>2. tree \in [Nodes -> [id : Names, symbol : SymbolTypes]]
      BY DEF TreeInv, TypesOK
    <3> HIDE DEF s
    <3> QED  BY <3>1, <3>2 DEF Here
  <2>2. CASE put_new
    <3>1. /\ at \notin Nodes /\ ~ Here
          /\ tree' = [p \in Nodes \union {at} |->
                       IF p = at THEN [id |-> request.name, symbol |-> s] ELSE tree[p]]
      BY <2>2 DEF put_new, Here
    <3> HIDE DEF s
    <3> QED  BY <3>1
  <2> QED  BY <2>1, <2>2
<1>4. Table = Contents /\ Table' = Contents'
  <2>1. request'.op = "none"
    BY <1>1 DEF NoRequest, Request
  <2> QED  BY <1>1, <2>1 DEF Table
<1>5. s = IF request.name \in DOMAIN Contents
          THEN Promise!Again(Contents[request.name], request.type)
          ELSE Promise!New(request.type)
  <2>1. CASE Here
    <3>1. tree[at].symbol \in SymbolTypes
      BY <2>1 DEF Here, TreeInv, TypesOK
    <3> QED  BY <1>1, <2>1, <3>1, SearchFacts, AgainFacts DEF Searching
  <2>2. CASE ~ Here
    BY <1>1, <2>2, SearchFacts, SymbolFacts DEF Searching
  <2> QED  BY <2>1, <2>2
<1> HIDE DEF s
<1>6. s = Promise!Put
  BY <1>4, <1>5 DEF Promise!Put, Table, Empty
<1>7. Contents' = [n \in DOMAIN Contents \union {request.name} |->
                     IF n = request.name THEN s ELSE Contents[n]]
  <2>1. /\ DOMAIN Contents' = {tree'[p].id : p \in Nodes'}
        /\ \A p \in Nodes' : Contents'[tree'[p].id] = tree'[p].symbol
    <3>1. ContentsOK'
      BY <1>2, ContentsFacts, PTL
    <3> QED  BY <3>1 DEF ContentsOK
  <2>2. DOMAIN Contents' = DOMAIN Contents \union {request.name}
    BY <1>1, <1>3, <2>1, ContentsFacts DEF ContentsOK, Here
  <2>3. ASSUME NEW n \in DOMAIN Contents, n # request.name
        PROVE  Contents'[n] = Contents[n]
    <3>1. PICK p \in Nodes : n = tree[p].id
      BY ContentsFacts DEF ContentsOK
    <3>2. p # at
      BY <1>1, <2>3, <3>1 DEF Here
    <3> QED  BY <1>3, <2>1, <3>1, <3>2, ContentsFacts DEF ContentsOK
  <2>4. Contents'[request.name] = s
    BY <1>3, <2>1
  <2>5. Contents' = [n \in DOMAIN Contents' |-> Contents'[n]]
    BY DEF Contents
  <2> QED  BY <2>2, <2>3, <2>4, <2>5
<1>8. Table' = [n \in DOMAIN Table \union {request.name} |->
                  IF n = request.name THEN Promise!Put ELSE Table[n]]
  BY <1>4, <1>6, <1>7
<1>9. answer' = Promise!Found(Promise!Put)
  BY <1>1, <1>6, SymbolFacts
<1> QED  BY <1>1, <1>8, <1>9, SymbolFacts DEF Promise!Serve, Table, Empty

LEMMA TraverseRefines ==
  ASSUME TreeInv, traverse_end
  PROVE  Promise!Serve
<1>1. /\ request.op = "traverse" /\ walk = <<>> /\ tree' = tree
      /\ request' = NoRequest /\ answer' = Holds(acc) /\ types' = types
  BY DEF traverse_end, Return
<1>2. Table = Contents /\ Table' = Contents
  <2>1. request'.op = "none"
    BY <1>1 DEF NoRequest, Request
  <2> QED  BY <1>1, <2>1 DEF Table, Contents
<1>3. acc = \A n \in DOMAIN Contents : declared_implies_defined(Contents[n])
  <2>1. \A q \in Nodes : Passed(q)
    BY <1>1 DEF Passed
  <2>2. /\ acc \in BOOLEAN
        /\ acc => \A q \in Nodes : declared_implies_defined(tree[q].symbol)
        /\ ~ acc => \E q \in Nodes : ~ declared_implies_defined(tree[q].symbol)
    BY <1>1, <2>1 DEF TreeInv, TypesOK, TraverseOK
  <2>3. (\A n \in DOMAIN Contents : declared_implies_defined(Contents[n]))
          <=> \A q \in Nodes : declared_implies_defined(tree[q].symbol)
    BY ContentsFacts DEF ContentsOK
  <2> QED  BY <2>2, <2>3
<1>4. answer' = Promise!Holds(\A n \in DOMAIN Table :
                                Promise!declared_implies_defined(Table[n]))
  <2>1. \A n \in DOMAIN Contents : Contents[n] \in SymbolTypes
    BY ContentsFacts DEF ContentsOK, TreeInv, TypesOK
  <2>2. acc = \A n \in DOMAIN Table : Promise!declared_implies_defined(Table[n])
    BY <1>2, <1>3, <2>1, PredicateFacts
  <2> QED  BY <1>1, <2>2, SymbolFacts
<1> QED  BY <1>1, <1>2, <1>4, SymbolFacts DEF Promise!Serve, Table, Empty

LEMMA DtorRefines ==
  ASSUME TreeInv, dtor_end
  PROVE  Promise!Serve
<1>1. /\ request.op = "dtor" /\ walk = <<>> /\ types' = types
      /\ request' = Request("freed", "none", "none") /\ request'.op = "freed"
      /\ answer' = Holds(Nodes = {})
  BY DEF dtor_end, Request
<1>2. Nodes = {}
  BY <1>1 DEF TreeInv, DtorOK
<1>3. answer' = Promise!Holds(TRUE) /\ Table = Empty /\ Table' = Empty
  BY <1>1, <1>2, SymbolFacts DEF Table
<1> QED  BY <1>1, <1>3, SymbolFacts DEF Promise!Serve, Table, Empty

(* For all names, whatever the parser asks of a table, in whatever order   *)
(* its symbols were put: get, put, traverse and dtor answer what a map     *)
(* from names to symbols would, and change it as they would change a map.  *)
THEOREM TableIsMap == Spec => Promise!TableSafety
<1>1. TreeInv /\ Next => Promise!TableNext \/ UNCHANGED <<types, Table, request, answer>>
  <2>1. Terminating => UNCHANGED <<types, Table, request, answer>>
    BY DEF Terminating, vars, Table, Contents
  <2> QED  BY <2>1, CallRefines, InnerStutters, GetRefines, PutRefines, TraverseRefines,
              DtorRefines DEF Next, Serve, Promise!TableNext
<1>2. UNCHANGED vars => UNCHANGED <<types, Table, request, answer>>
  BY DEF vars, Table, Contents
<1>3. TreeInv /\ [Next]_vars => [Promise!TableNext]_(Promise!tableVars)
  BY <1>1, <1>2 DEF Promise!tableVars, Table, Empty
<1> QED  BY <1>3, InitRefines, TreeInvariant, PTL DEF Spec, Promise!TableSafety
==============================================================================
