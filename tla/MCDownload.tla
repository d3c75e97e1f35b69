----------------------------- MODULE MCDownload -----------------------------
(* A small instance of Download: files of different length, one of which   *)
(* the server does not have.                                               *)
EXTENDS Download

SomeBlocks == [f \in File |-> IF f = "a" THEN 1 ELSE 3]
SomeNeeds  == [l \in 1 .. MaxLevel |-> IF l = 1 THEN <<"a", "b">> ELSE <<"c", "b">>]

(* A level changes, and a fault or a request of the user comes with it.    *)
(* The properties promise nothing once requests crossed.                   *)
Few == ~cl.crossed /\ requests + faults <= 1
=============================================================================
