--------------------------- MODULE MCNonceService ---------------------------
(* NonceService for TLC: one nonce more than the cache holds, and time for *)
(* a nonce to expire twice.  See the run nonce_cache.                      *)
EXTENDS NonceService, TLC

Interchangeable == Permutations(Nonces)
=============================================================================
