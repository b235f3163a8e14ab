-------------------------------- MODULE MC_Soc --------------------------------
(* One hart with input, disk and timer, whose buffer takes one byte at a time; *)
(* two harts that compete for a byte.  Time wraps after two intervals;         *)
(* an interval is longer than both handlers on every hart take.               *)
EXTENDS Soc

MC_Loads == { [ncpu |-> 1, input |-> <<1, 2>>, requests |-> 1],
              [ncpu |-> 2, input |-> <<1>>, requests |-> 0] }

=============================================================================
