--------------------------- MODULE MCActiveWorkspace ---------------------------
(* A program with an agent; an address and two networks, one inside the other.   *)
EXTENDS ActiveWorkspace

MCNetworks == {{1}, {1, 2}}
===============================================================================
