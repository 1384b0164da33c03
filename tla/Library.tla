------------------------------- MODULE Library -------------------------------
(***************************************************************************)
(* The built-in functions as a program sees them: each call is answered at *)
(* once, by a function of its arguments or by what is read.                *)
(***************************************************************************)
EXTENDS Integers, Sequences

CONSTANTS Texts, Ints, Halves,   \* strings, integers, and numbers in halves
          nil

VARIABLES call,     \* the call being served
          answer,   \* of the last call, nil while there is none
          written,  \* by the last call of write
          exit      \* the exit code, 0 while the program runs

libraryVars == <<call, answer, written, exit>>

Values(kind) == CASE kind = "s" -> Texts \union {nil}
                  [] kind = "i" -> Ints \union {nil}
                  [] kind = "f" -> Halves \union {nil}

Call(f, args) == [f |-> f, args |-> args]
NoCall == Call("none", <<>>)
NIL_STRING == <<110, 105, 108>>

LibraryInit ==
  call = NoCall /\ answer = nil /\ written = nil /\ exit = 0

Ask(f, kinds) ==
  /\ call = NoCall /\ exit = 0
  /\ call' = Call(f, call'.args) /\ DOMAIN call'.args = DOMAIN kinds
  /\ \A k \in DOMAIN kinds : call'.args[k] \in Values(kinds[k])
  /\ answer' = nil /\ written' = nil
  /\ UNCHANGED exit

(* The types of add_builtin_function; write takes any, and does the same   *)
(* for all but nil.                                                        *)
AskAny ==
  \/ \E f \in {"reads", "readi", "readn"} : Ask(f, <<>>)
  \/ Ask("write", <<"s">>)
  \/ Ask("tointeger", <<"f">>)
  \/ Ask("chr", <<"i">>)
  \/ Ask("ord", <<"s", "i">>)
  \/ Ask("substr", <<"s", "i", "i">>)

Answer(v) == call' = NoCall /\ answer' = v /\ UNCHANGED <<written, exit>>

Arg(k) == call.args[k]

Truncated(x) == IF x >= 0 THEN x \div 2 ELSE -((-x) \div 2)

Read ==
  \/ call.f = "reads" /\ \E v \in Values("s") : Answer(v)
  \/ call.f = "readi" /\ \E v \in Values("i") : Answer(v)
  \/ call.f = "readn" /\ \E v \in Values("f") : Answer(v)

Write ==
  /\ call.f = "write"
  /\ call' = NoCall
  /\ written' = IF Arg(1) = nil THEN NIL_STRING ELSE Arg(1)
  /\ UNCHANGED <<answer, exit>>

(* nil is converted to nil; chr, ord and substr stop the program for nil.  *)
Convert ==
  /\ call.f = "tointeger"
  /\ Answer(IF Arg(1) = nil THEN nil ELSE Truncated(Arg(1)))

HasNil == \E k \in DOMAIN call.args : Arg(k) = nil

Refuse ==
  /\ call.f \in {"chr", "ord", "substr"} /\ HasNil
  /\ call' = NoCall /\ exit' = 8
  /\ UNCHANGED <<answer, written>>

Compute ==
  /\ ~ HasNil
  /\ \/ call.f = "chr"
        /\ Answer(IF Arg(1) \in 0..255 THEN <<Arg(1)>> ELSE nil)
     \/ call.f = "ord"
        /\ Answer(IF Arg(2) \in 1..Len(Arg(1)) THEN Arg(1)[Arg(2)] ELSE nil)
     \/ call.f = "substr"
        /\ Answer(IF 1 <= Arg(2) /\ Arg(2) <= Arg(3) /\ Arg(3) <= Len(Arg(1))
                  THEN SubSeq(Arg(1), Arg(2), Arg(3)) ELSE <<>>)

Serve == Read \/ Write \/ Convert \/ Refuse \/ Compute

LibrarySafety == LibraryInit /\ [][AskAny \/ Serve]_libraryVars
LibrarySpec   == LibrarySafety /\ WF_libraryVars(Serve)
==============================================================================
