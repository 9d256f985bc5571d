------------------------------- MODULE MCMDriver --------------------------------
\* Values of MDriver's constants for TLC.
EXTENDS MDriverProps

A(i, n) == [type |-> "a", index |-> i, size |-> n]
R(i, n) == [type |-> "r", index |-> i, size |-> n]
F(i) == [type |-> "f", index |-> i, size |-> 0]

\* A block grows beside another and outlives it; a block of an id whose fill
\* byte is negative as a char is resized; an id is used again.
MCTraces == {
  <<A(0, 1), A(1, 2), R(0, 3), F(1)>>,
  <<A(0, 1), A(1, 4), R(1, 2)>>,
  <<A(0, 3), F(0), A(0, 2), R(0, 1)>>}
================================================================================
