---------------------------- MODULE NonceService ----------------------------
(***************************************************************************)
(* packages/shared/shared/security/nonce.py: the nonces already used, kept *)
(* in the memory of one process in a cachetools TTLCache.  The cache drops *)
(* a nonce when its time is over and, when full, the one inserted first;   *)
(* a restart of the process starts with an empty cache (lifespan builds a  *)
(* new NonceService).  is_unique holds no await: a call is one step.       *)
(***************************************************************************)
EXTENDS Naturals, FiniteSets

CONSTANTS Nonces,
          NonceTtl,  \* NONCE_TTL_SECONDS, in ticks
          NonceMax,  \* maxsize: 1024 in the code
          MaxTime    \* bound: the last tick a behaviour reaches

ASSUME NonceBounds == /\ NonceTtl \in Nat \ {0}
                      /\ NonceMax \in Nat \ {0}
                      /\ MaxTime \in Nat

VARIABLES now,   \* the clock, in ticks
          cache  \* the items [nonce, expires] of the TTLCache

nonceVars == <<now, cache>>

Item == [nonce : Nonces, expires : Nat]

NonceTypeOK == now \in Nat /\ cache \subseteq Item

NonceInit == now = 0 /\ cache = {}

-----------------------------------------------------------------------------
(* An item is in the cache while the clock is before its expiry.           *)
Live == {e \in cache : now < e.expires}

Seen(n) == \E e \in Live : e.nonce = n

\* Mutants: the newest item goes; no item goes.
Oldest_Newest(items) == {e \in items : \A f \in items : f.expires <= e.expires}

Kept_All == {Live}

(* TTLCache.popitem drops the item inserted first.  All items live equally *)
(* long, so it is one that expires first; the ticks do not tell items of   *)
(* the same tick apart, and any of those may be the one.                   *)
Oldest(items) == {e \in items : \A f \in items : e.expires <= f.expires}

(* What stays of the cache when an item is added: the expired items go,    *)
(* and one more goes when the others fill it.                              *)
Kept == IF Cardinality(Live) < NonceMax THEN {Live} ELSE {Live \ {e} : e \in Oldest(Live)}

Used(n) == [nonce |-> n, expires |-> now + NonceTtl]

(* is_unique(n) where it answers True.                                     *)
Remember(n) ==
  /\ ~Seen(n)
  /\ \E kept \in Kept : cache' = kept \union {Used(n)}

IsUnique(n) == Remember(n) /\ UNCHANGED now

Tick == now < MaxTime /\ now' = now + 1 /\ UNCHANGED cache

Restart == cache' = {} /\ UNCHANGED now

NonceNext == (\E n \in Nonces : IsUnique(n)) \/ Tick \/ Restart

NonceSpec == NonceInit /\ [][NonceNext]_nonceVars

-----------------------------------------------------------------------------
(* The cache holds one item of a nonce at most and never more than its     *)
(* maxsize, expired items included.                                        *)
CacheBounded ==
  /\ Cardinality(cache) <= NonceMax
  /\ \A e, f \in cache : e.nonce = f.nonce => e = f

(* A nonce stops being a replay for one of three reasons only: its time is *)
(* over, the process restarted, or the cache was full of nonces used no    *)
(* earlier than it and a new one came.  A nonce used later than another    *)
(* live one is never the one to go.                                        *)
Forgets ==
  \A e \in Live :
    \/ e \in cache'
    \/ cache' = {}
    \/ /\ Cardinality(Live) = NonceMax
       /\ \A f \in Live : e.expires <= f.expires
       /\ Live \ {e} \subseteq cache'
       /\ \E n \in Nonces : ~Seen(n) /\ Used(n) \in cache'

ForgottenForAReason == [][Forgets]_nonceVars
=============================================================================
