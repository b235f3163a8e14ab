----------------------------- MODULE MC_VirtIOBlk ----------------------------
(* Indices that wrap after four, rings of two, two chains: a ring is full, and *)
(* an index wraps, within three requests.                                      *)
EXTENDS VirtIOBlk, TLC

good    == (0 :> 1) @@ (1 :> 2) @@ (2 :> END)
short   == (0 :> 1) @@ (1 :> END) @@ (2 :> END)
looping == (0 :> 1) @@ (1 :> 2) @@ (2 :> 0)

request(type, sector, data, next, unmapped) ==
    [type |-> type, sector |-> sector, data |-> data, status |-> 255, next |-> next,
     unmapped |-> unmapped]

\* Sector 1 is past the end of the disk.
MC_Requests == { request("in", 0, 0, looping, "none"), request("out", 0, 1, good, "none"),
                 request("out", 1, 2, good, "none"), request("in", 1, 0, good, "data"),
                 request("out", 0, 2, short, "data"), request("out", 0, 2, good, "status") }

=============================================================================
