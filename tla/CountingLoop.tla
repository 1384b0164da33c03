---------------------------- MODULE CountingLoop -----------------------------
(***************************************************************************)
(* What "for i = e1, e2, e3 do" promises, without a hidden counter, tests  *)
(* or jumps: the body runs for e1, e1 + e3, e1 + 2 e3, ... as long as      *)
(* these are within e2, upwards if e3 is positive and downwards if it is   *)
(* not (for ever, if it is zero), whatever the body does to i, unless the  *)
(* body leaves the cycle.                                                  *)
(* Numbers are integers in some unit; nil is not a number.                 *)
(***************************************************************************)
EXTENDS Integers, Sequences

CONSTANT NotANumber

VARIABLES asked,     \* the values of e1, e2, e3 when the cycle was entered
          visited,   \* the values of i at the start of each iteration
          status     \* "over", "running" or "error"

loopVars == <<asked, visited, status>>

Number == Int \union {NotANumber}

Nth(n) == asked[1] + n * asked[3]

Within(v) == IF asked[3] > 0 THEN v <= asked[2] ELSE v >= asked[2]

LoopInit ==
  /\ asked \in Number \X Number \X Number /\ visited = <<>> /\ status = "over"

(* The three expressions are evaluated once, before the first iteration.   *)
Enter ==
  /\ status = "over"
  /\ asked' \in Number \X Number \X Number
  /\ status' = IF \E k \in 1..3 : asked'[k] = NotANumber THEN "error"
                                                      ELSE "running"
  /\ visited' = <<>>

Iterate ==
  /\ status = "running"
  /\ Within(Nth(Len(visited)))
  /\ visited' = Append(visited, Nth(Len(visited)))
  /\ UNCHANGED <<asked, status>>

Exhausted ==
  /\ status = "running"
  /\ ~ Within(Nth(Len(visited)))
  /\ status' = "over"
  /\ UNCHANGED <<asked, visited>>

Leave ==
  /\ status = "running"
  /\ visited # <<>>
  /\ status' = "over"
  /\ UNCHANGED <<asked, visited>>

LoopNext == Enter \/ Iterate \/ Exhausted \/ Leave

LoopSafety == LoopInit /\ [][LoopNext]_loopVars
LoopSpec   == LoopSafety /\ WF_loopVars(Iterate \/ Exhausted \/ Leave)
=============================================================================
