-------------------------------- MODULE MC_Mem --------------------------------
(* Pages of four bytes of two bits.  The image has three bytes, so its page is *)
(* one byte short of full; frame 1 is the RAM, frame 2 the stack.              *)
EXTENDS Mem

MC_Program == <<3, 2, 1>>

\* Two virtual pages: in order, in reverse, aliased, with a hole, out of memory.
MC_Maps == { [p \in 0 .. 1 |-> pages[p + 1]] :
                pages \in { <<1, 2>>, <<2, 1>>, <<2, 2>>, <<1, Unmapped>>, <<2, 3>> } }

\* Bytes 3 2 1 0 from the lowest, and zeros below a byte no access is wide enough for.
MC_Values == {27, 512}

=============================================================================
