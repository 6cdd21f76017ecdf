------------------------- MODULE NonceServiceProofs -------------------------
(***************************************************************************)
(* Proofs about NonceService, for any nonces, lifetime and size.           *)
(***************************************************************************)
EXTENDS NonceService, FiniteSetTheorems, TLAPS

(* The inductive invariant: CacheBounded, of a set that is finite.         *)
CacheInv == NonceTypeOK /\ IsFiniteSet(cache) /\ CacheBounded

(* A live item is in the cache, which is finite.                           *)
LEMMA LiveIsBounded ==
  ASSUME CacheInv
  PROVE  /\ IsFiniteSet(Live)
         /\ Cardinality(Live) \in Nat
         /\ Cardinality(Live) <= NonceMax
<1>1. Live \in SUBSET cache
  BY DEF Live
<1>2. IsFiniteSet(Live) /\ Cardinality(Live) <= Cardinality(cache)
  BY <1>1, FS_Subset DEF CacheInv
<1>3. Cardinality(Live) \in Nat /\ Cardinality(cache) \in Nat
  BY <1>2, FS_CardinalityType DEF CacheInv
<1>4. QED
  BY <1>2, <1>3, NonceBounds DEF CacheInv, CacheBounded

(* What is kept for a new item are live items, fewer than the maxsize.     *)
LEMMA KeptHasRoom ==
  ASSUME CacheInv, NEW kept \in Kept
  PROVE  /\ kept \subseteq Live
         /\ IsFiniteSet(kept)
         /\ Cardinality(kept) \in Nat
         /\ Cardinality(kept) < NonceMax
<1>1. /\ IsFiniteSet(Live)
      /\ Cardinality(Live) \in Nat
      /\ Cardinality(Live) <= NonceMax
  BY LiveIsBounded
<1>2. CASE Cardinality(Live) < NonceMax
  BY <1>1, <1>2 DEF Kept
<1>3. CASE ~(Cardinality(Live) < NonceMax)
  <2>1. PICK e \in Live : kept = Live \ {e}
    BY <1>3 DEF Kept, Oldest
  <2>2. IsFiniteSet(kept) /\ Cardinality(kept) = Cardinality(Live) - 1
    BY <1>1, <2>1, FS_RemoveElement
  <2>3. Cardinality(kept) \in Nat
    BY <2>2, FS_CardinalityType
  <2>4. QED
    BY <1>1, <2>1, <2>2, <2>3, NonceBounds
<1>4. QED
  BY <1>2, <1>3

LEMMA CacheStart == NonceInit => CacheInv
  BY FS_EmptySet, NonceBounds DEF NonceInit, CacheInv, NonceTypeOK, CacheBounded

LEMMA CacheStep == CacheInv /\ [NonceNext]_nonceVars => CacheInv'
<1> SUFFICES ASSUME CacheInv, [NonceNext]_nonceVars
             PROVE  CacheInv'
  OBVIOUS
<1>1. ASSUME NEW n \in Nonces, IsUnique(n)
      PROVE  CacheInv'
  <2>1. PICK kept \in Kept : cache' = kept \union {Used(n)}
    BY <1>1 DEF IsUnique, Remember
  <2>2. /\ kept \subseteq Live /\ IsFiniteSet(kept)
        /\ Cardinality(kept) \in Nat /\ Cardinality(kept) < NonceMax
    BY KeptHasRoom
  <2>3. now' = now /\ now \in Nat /\ ~Seen(n)
    BY <1>1 DEF IsUnique, Remember, CacheInv, NonceTypeOK
  <2>4. Used(n) \in Item
    BY <2>3, NonceBounds DEF Used, Item
  <2>5. Live \subseteq cache /\ \A e \in Live : e.nonce # n
    BY <2>3 DEF Live, Seen
  <2>6. NonceTypeOK'
    BY <2>1, <2>2, <2>3, <2>4, <2>5 DEF CacheInv, NonceTypeOK
  <2>7. IsFiniteSet(cache') /\ Cardinality(cache') <= NonceMax
    <3>1. /\ IsFiniteSet(kept \union {Used(n)})
          /\ Cardinality(kept \union {Used(n)}) =
               IF Used(n) \in kept THEN Cardinality(kept) ELSE Cardinality(kept) + 1
      BY <2>2, FS_AddElement
    <3>2. QED
      BY <2>1, <2>2, <3>1, NonceBounds
  <2>8. \A e, f \in cache' : e.nonce = f.nonce => e = f
    BY <2>1, <2>2, <2>5 DEF CacheInv, CacheBounded, Used
  <2>9. QED
    BY <2>6, <2>7, <2>8 DEF CacheInv, CacheBounded
<1>2. CASE Tick
  BY <1>2 DEF Tick, CacheInv, NonceTypeOK, CacheBounded
<1>3. CASE Restart
  BY <1>3, FS_EmptySet, NonceBounds DEF Restart, CacheInv, NonceTypeOK, CacheBounded
<1>4. CASE UNCHANGED nonceVars
  BY <1>4 DEF nonceVars, CacheInv, NonceTypeOK, CacheBounded
<1>5. QED
  BY <1>1, <1>2, <1>3, <1>4 DEF NonceNext

(* The cache never outgrows its maxsize and holds a nonce once.            *)
THEOREM CacheIsBounded == NonceSpec => []CacheBounded
<1>1. CacheInv => CacheBounded
  BY DEF CacheInv
<1>2. QED
  BY <1>1, CacheStart, CacheStep, PTL DEF NonceSpec

-----------------------------------------------------------------------------
(* What one step may make the cache forget.                                *)
LEMMA ForgetStep == CacheInv /\ [NonceNext]_nonceVars => [Forgets]_nonceVars
<1> SUFFICES ASSUME CacheInv, NonceNext
             PROVE  Forgets
  OBVIOUS
<1> SUFFICES ASSUME NEW e \in Live, e \notin cache', cache' # {}
             PROVE  /\ Cardinality(Live) = NonceMax
                    /\ \A f \in Live : e.expires <= f.expires
                    /\ Live \ {e} \subseteq cache'
                    /\ \E n \in Nonces : ~Seen(n) /\ Used(n) \in cache'
  BY DEF Forgets
<1>1. e \in cache
  BY DEF Live
<1>2. ~Tick /\ ~Restart
  BY <1>1 DEF Tick, Restart
<1>3. PICK n \in Nonces : IsUnique(n)
  BY <1>2 DEF NonceNext
<1>4. PICK kept \in Kept : cache' = kept \union {Used(n)}
  BY <1>3 DEF IsUnique, Remember
<1>5. kept # Live
  BY <1>4
<1>6. ~(Cardinality(Live) < NonceMax)
  BY <1>5 DEF Kept
<1>7. PICK oldest \in Oldest(Live) : kept = Live \ {oldest}
  BY <1>6 DEF Kept
<1>8. e = oldest
  BY <1>4, <1>7
<1>9. Cardinality(Live) = NonceMax
  BY <1>6, LiveIsBounded, NonceBounds
<1>10. ~Seen(n) /\ Used(n) \in cache'
  BY <1>3, <1>4 DEF IsUnique, Remember
<1>11. QED
  BY <1>4, <1>7, <1>8, <1>9, <1>10 DEF Oldest

(* A used nonce is forgotten when its time is over, by a restart, or as    *)
(* the oldest of a full cache, and for no other reason.                    *)
THEOREM NothingElseForgets == NonceSpec => ForgottenForAReason
  BY CacheStart, CacheStep, ForgetStep, PTL DEF NonceSpec, ForgottenForAReason
=============================================================================
