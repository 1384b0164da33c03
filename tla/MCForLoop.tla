----------------------------- MODULE MCForLoop -----------------------------
(* ForLoop on a small instance: the unit is a half, so that a step may be  *)
(* smaller than one.                                                       *)
EXTENDS ForLoop

CONSTANT nil

MCNil       == [type |-> "nil", n |-> nil]
Int1(x)     == [type |-> "int", n |-> 2 * x]

MCInitials  == {Int1(0), Float(1), Int1(2), MCNil}
MCLimits    == {Int1(-1), Int1(0), Float(3), Int1(2), MCNil}
MCSteps     == {NoStep, Int1(1), Int1(2), Float(3), Int1(0), Int1(-1), Float(-1),
                MCNil}
MCAssigned  == {Int1(-5), MCNil}
MCHalfSteps == {NoStep, Float(1)}
=============================================================================
