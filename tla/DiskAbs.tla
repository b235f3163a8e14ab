-------------------------------- MODULE DiskAbs --------------------------------
(* What a driver may expect of its disk: requests wait in a queue, each is      *)
(* carried out in one step and in its turn, and the answers come back in order. *)
(* A fault stops the machine, before or after the request it strikes has had    *)
(* its effect, and never between two of them.                                   *)
EXTENDS Integers, Sequences

CONSTANTS Heads, Sectors, Values

VARIABLES store, todo, done, alive

vars == <<store, todo, done, alive>>

Operation == [op : {"read"}, sector : Sectors]
                \cup [op : {"write"}, sector : Sectors, data : Values]
                \cup [op : {"none", "malformed"}]

Init == /\ store \in [Sectors -> Values]
        /\ todo = <<>> /\ done = <<>> /\ alive = TRUE

Submit == /\ alive
          /\ UNCHANGED <<store, done, alive>>
          /\ \E h \in Heads, o \in Operation : todo' = Append(todo, [head |-> h, operation |-> o])

Effect(s, o) == IF o.op = "write" THEN [s EXCEPT ![o.sector] = o.data] ELSE s

\* The status byte of a malformed request is left as the driver set it.
Answer(s, h, o) == [head   |-> h,
                    data   |-> IF o.op = "read" THEN s[o.sector] ELSE 0,
                    status |-> IF o.op = "malformed" THEN 255 ELSE 0]

Serve == /\ alive /\ todo # <<>>
         /\ LET o == Head(todo).operation
            IN  /\ store' = Effect(store, o)
                /\ done' = Append(done, Answer(store, Head(todo).head, o))
         /\ todo' = Tail(todo)
         /\ UNCHANGED alive

Take == /\ alive /\ done # <<>>
        /\ done' = Tail(done)
        /\ UNCHANGED <<store, todo, alive>>

Fault == /\ alive /\ todo # <<>>
         /\ alive' = FALSE
         /\ store' \in {store, Effect(store, Head(todo).operation)}
         /\ UNCHANGED <<todo, done>>

Next == Serve \/ Take \/ Fault \/ Submit

Spec == Init /\ [][Next]_vars

=============================================================================
