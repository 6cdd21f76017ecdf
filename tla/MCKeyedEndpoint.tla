-------------------------- MODULE MCKeyedEndpoint --------------------------
(* KeyedEndpoint for TLC: see the runs keys_overlap and keys_mixed.        *)
EXTENDS KeyedEndpoint, TLC

WorkNumbers == 1 .. MaxWork

Interchangeable == Permutations(Requests) \union Permutations(Keys)
                     \union Permutations(Payloads)
=============================================================================
