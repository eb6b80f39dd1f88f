--------------------------- MODULE MCPasswordTable ---------------------------
(* Instances of PasswordTable for TLC.                                     *)
EXTENDS PasswordTable

CONSTANTS g1, c1, c2, w1, w2

Valid(start, end) == [start |-> start, end |-> end]
(* Short, later, beyond the end of the clock, empty and refused.           *)
AllValidities == {Valid(0, 1), Valid(1, 2), Valid(0, 9), Valid(1, 1), Valid(2, 1)}
SomeValidities == {Valid(0, 1), Valid(1, 2), Valid(0, 9)}
=============================================================================
