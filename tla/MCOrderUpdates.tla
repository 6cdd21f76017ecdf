--------------------------- MODULE MCOrderUpdates ---------------------------
(* An instance of OrderUpdates for TLC.                                    *)
EXTENDS OrderUpdates, TLC

AuthNumbers == 1 .. MaxAuth
StemNumbers == 1 .. MaxStem

Interchangeable == Permutations(Requests) \union Permutations(Hashes) \union Permutations(References)
=============================================================================
