------------------------- MODULE GatewayOnceProofs -------------------------
(***************************************************************************)
(* Proofs that the gateway does once what it is to do once.  First what    *)
(* rests on the nonce cache, which a restart empties and which forgets     *)
(* when it is full: one consent an intent.  Then what the Idempotency-Key  *)
(* header does: one payment and one answer a key.  Last /fulfil.  For any  *)
(* number of slots, intents, transcripts and keys, any policy, any bounds. *)
(***************************************************************************)
EXTENDS GatewayProofs, FiniteSetTheorems

(* The premise on the load: at most NonceMax intents were created within   *)
(* the last two lifetimes of a nonce.  An intent is open for the first of  *)
(* them, and its nonce, used in it, is remembered into the second.         *)
Recent(i) == intents[i].expires_at # 0 /\ now < intents[i].expires_at + NonceTtl

RoomForNonces == Cardinality({i \in Intents : Recent(i)}) <= NonceMax

(* It holds of every behaviour over few intents.                           *)
LEMMA FewIntentsLeaveRoom ==
  ASSUME IsFiniteSet(Intents), Cardinality(Intents) <= NonceMax
  PROVE  RoomForNonces
<1> DEFINE R == {i \in Intents : Recent(i)}
<1>1. R \in SUBSET Intents
  OBVIOUS
<1>2. IsFiniteSet(R) /\ Cardinality(R) <= Cardinality(Intents)
  BY <1>1, FS_Subset
<1>3. Cardinality(R) \in Nat /\ Cardinality(Intents) \in Nat /\ NonceMax \in Nat
  BY <1>2, FS_CardinalityType, GatewayConstants
<1>4. QED
  BY <1>2, <1>3 DEF RoomForNonces

-----------------------------------------------------------------------------
(* Slot r is past the nonce check of intent i and its entry is not there.  *)
Claims(r, i) == At(r, "append") /\ req[r].ask.intent = i

Recorded(i) == \E e \in entries : e.content.intent = i

Claimed(i) == Recorded(i) \/ \E r \in Slots : Claims(r, i)

(* The nonce of i is of no use any more: the intent has expired, or the    *)
(* cache holds the nonce until it has.                                     *)
Spent(i) == \/ intents[i].expires_at <= now
            \/ \E c \in cache : c.nonce = i /\ intents[i].expires_at <= c.expires

(* An intent that is claimed exists and is spent, and it is claimed once:  *)
(* by one entry, or by one slot.                                           *)
ClaimedOnce ==
  /\ \A i \in Intents : Claimed(i) => intents[i].expires_at # 0 /\ Spent(i)
  /\ \A e, f \in entries : e.content.intent = f.content.intent => e = f
  /\ \A i \in Intents : \A r, s \in Slots : Claims(r, i) /\ Claims(s, i) => r = s
  /\ \A i \in Intents : \A r \in Slots : Claims(r, i) => ~Recorded(i)

Created == {i \in Intents : intents[i].expires_at # 0}

(* The nonce outlives the intent, and no longer than by another lifetime;  *)
(* the cache holds each nonce once; and finitely many intents were made.   *)
NonceOutlives ==
  /\ \A c, d \in cache : c.nonce = d.nonce => c = d
  /\ \A i \in Intents : intents[i].expires_at <= now + NonceTtl
  /\ \A c \in cache : /\ intents[c.nonce].expires_at # 0
                      /\ c.expires < intents[c.nonce].expires_at + NonceTtl
  /\ IsFiniteSet(Created)

(* The inductive invariant, on top of GatewayInv.                          *)
OnceInv == NonceOutlives /\ ClaimedOnce

-----------------------------------------------------------------------------
(* A cache with room for the recent intents forgets nothing but expired    *)
(* items when the nonce of an open intent is new to it.                    *)
LEMMA RoomForEach ==
  ASSUME RoomForNonces, OwnTypeOK, NonceOutlives, NEW i \in Intents, Open(i), ~Nonce!Seen(i)
  PROVE  Nonce!Kept = {Nonce!Live}
<1> DEFINE L == Nonce!Live
           R == {j \in Intents : Recent(j)}
           T == R \ {i}
           f == [c \in L |-> c.nonce]
<1>0. /\ now \in Nat /\ NonceTtl \in Nat \ {0} /\ NonceMax \in Nat
      /\ \A j \in Intents : intents[j].expires_at \in Nat
      /\ \A c \in cache : c.nonce \in Intents /\ c.expires \in Nat
  BY GatewayConstants DEF OwnTypeOK, OrderIntent, Nonce!NonceTypeOK, Nonce!Item
<1>1. \A c \in L : c \in cache /\ c.nonce \in T
  BY <1>0 DEF Nonce!Live, Nonce!Seen, NonceOutlives, Recent
<1>2. f \in Injection(L, T)
  BY <1>1 DEF NonceOutlives, Injection, IsInjective
<1>3. i \in R
  BY <1>0 DEF Open, Recent
<1>4. IsFiniteSet(R)
  <2>1. R \subseteq Created
    BY DEF Created, Recent
  <2>2. QED
    BY <2>1, FS_Subset DEF NonceOutlives
<1>5. IsFiniteSet(T) /\ Cardinality(T) = Cardinality(R) - 1
  BY <1>3, <1>4, FS_RemoveElement
<1>6. IsFiniteSet(L) /\ Cardinality(L) <= Cardinality(T)
  <2> HIDE DEF f, L, T
  <2>1. QED
    BY <1>2, <1>5, FS_Injection
<1>7. Cardinality(L) \in Nat /\ Cardinality(T) \in Nat /\ Cardinality(R) \in Nat
  BY <1>4, <1>5, <1>6, FS_CardinalityType
<1>8. Nonce!Cardinality(L) = Cardinality(L)
  BY DEF Nonce!Cardinality, Cardinality, Nonce!IsFiniteSet, IsFiniteSet
<1>9. Cardinality(R) <= NonceMax
  BY DEF RoomForNonces
<1>10. Cardinality(L) < NonceMax
  BY <1>0, <1>5, <1>6, <1>7, <1>9
<1>11. QED
  BY <1>8, <1>10 DEF Nonce!Kept

(* A request that finds its intent open and its nonce unseen is the first. *)
LEMMA UnseenIsUnclaimed ==
  ASSUME OwnTypeOK, OnceInv, NEW i \in Intents, Open(i), ~Nonce!Seen(i)
  PROVE  ~Claimed(i)
<1>1. now \in Nat /\ intents[i].expires_at \in Nat /\ \A c \in cache : c.expires \in Nat
  BY DEF OwnTypeOK, OrderIntent, Nonce!NonceTypeOK, Nonce!Item
<1>2. ~Spent(i)
  BY <1>1 DEF Open, Spent, Nonce!Seen, Nonce!Live
<1>3. QED
  BY <1>2 DEF OnceInv, ClaimedOnce

(* Remembering a nonce keeps what is spent spent, and spends its intent.   *)
LEMMA RememberSpends ==
  ASSUME RoomForNonces, OwnTypeOK, OnceInv, NEW i \in Intents, Open(i), Nonce!Remember(i),
         UNCHANGED <<now, intents>>
  PROVE  /\ NonceOutlives'
         /\ \A j \in Intents : Spent(j) => Spent(j)'
         /\ Spent(i)'
<1>1. ~Nonce!Seen(i) /\ cache' = Nonce!Live \union {Nonce!Used(i)}
  BY RoomForEach DEF Nonce!Remember, OnceInv
<1>2. /\ now \in Nat /\ NonceTtl \in Nat
      /\ \A j \in Intents : intents[j].expires_at \in Nat
      /\ \A c \in cache : c.expires \in Nat
  BY GatewayConstants DEF OwnTypeOK, OrderIntent, Nonce!NonceTypeOK, Nonce!Item
<1>3. NonceOutlives'
  <2>1. \A c, d \in cache' : c.nonce = d.nonce => c = d
    BY <1>1 DEF OnceInv, NonceOutlives, Nonce!Live, Nonce!Seen, Nonce!Used
  <2>2. /\ Nonce!Used(i).nonce = i /\ Nonce!Used(i).expires = now + NonceTtl
        /\ now < intents[i].expires_at
    BY DEF Nonce!Used, Open
  <2>3. \A c \in cache' : /\ intents[c.nonce].expires_at # 0
                          /\ c.expires < intents[c.nonce].expires_at + NonceTtl
    BY <1>1, <1>2, <2>2 DEF OnceInv, NonceOutlives, Nonce!Live
  <2>4. Created' = Created
    BY DEF Created
  <2>5. QED
    BY <2>1, <2>3, <2>4 DEF OnceInv, NonceOutlives
<1>4. ASSUME NEW j \in Intents, Spent(j)
      PROVE  Spent(j)'
  BY <1>1, <1>2, <1>4 DEF Spent, Nonce!Live
<1>5. Spent(i)'
  <2>1. Nonce!Used(i) \in cache' /\ Nonce!Used(i).nonce = i
    BY <1>1 DEF Nonce!Used
  <2>2. intents'[i].expires_at <= Nonce!Used(i).expires
    BY DEF Nonce!Used, OnceInv, NonceOutlives
  <2>3. QED
    BY <2>1, <2>2 DEF Spent
<1>6. QED
  BY <1>3, <1>4, <1>5

-----------------------------------------------------------------------------
(* A step that adds no entry, makes no new claim and changes no expiry     *)
(* keeps the invariant, if the nonces keep theirs.                         *)
LEMMA NoNewClaim ==
  ASSUME ClaimedOnce, NonceOutlives', entries' = entries,
         \A r \in Slots, i \in Intents : Claims(r, i)' => Claims(r, i),
         \A i \in Intents : intents'[i].expires_at = intents[i].expires_at,
         \A i \in Intents : Spent(i) => Spent(i)'
  PROVE  OnceInv'
<1>1. \A i \in Intents : Recorded(i)' <=> Recorded(i)
  BY DEF Recorded
<1>2. \A i \in Intents : Claimed(i)' => Claimed(i)
  BY <1>1 DEF Claimed
<1>3. QED
  BY <1>1, <1>2 DEF OnceInv, ClaimedOnce

(* Such a step that leaves the clock and the cache alone.                  *)
LEMMA NonceUntouched ==
  ASSUME OwnTypeOK, OnceInv, UNCHANGED <<now, cache, entries>>,
         \A r \in Slots, i \in Intents : Claims(r, i)' => Claims(r, i),
         \A i \in Intents : intents'[i].expires_at = intents[i].expires_at
  PROVE  OnceInv'
<1>1. NonceOutlives'
  <2>1. Created' = Created
    BY DEF Created
  <2>2. \A c \in cache : c.nonce \in Intents
    BY DEF OwnTypeOK, Nonce!NonceTypeOK, Nonce!Item
  <2>3. QED
    BY <2>1, <2>2 DEF OnceInv, NonceOutlives
<1>2. \A i \in Intents : Spent(i) => Spent(i)'
  BY DEF Spent
<1>3. QED
  BY <1>1, <1>2, NoNewClaim DEF OnceInv

(* Leaving, responding, and going anywhere but to the append claim nothing *)
(* new; nor does an update of a column but expires_at.                     *)
LEMMA GotoClaims ==
  ASSUME OwnTypeOK, NEW r \in Slots, NEW pc, NEW ask, NEW body, Goto(r, pc, ask, body),
         pc # "append"
  PROVE  \A s \in Slots, i \in Intents : Claims(s, i)' => Claims(s, i)
  BY DEF OwnTypeOK, Goto, Claims, At

LEMMA LeaveClaims ==
  ASSUME OwnTypeOK, NEW r \in Slots, Leave(r) \/ Respond(r)
  PROVE  \A s \in Slots, i \in Intents : Claims(s, i)' => Claims(s, i)
<1>1. CASE Leave(r)
  BY <1>1 DEF OwnTypeOK, Leave, Free, Claims, At
<1>2. CASE Goto(r, "store", req[r].ask, req[r].body)
  BY <1>2, GotoClaims
<1>3. QED
  BY <1>1, <1>2 DEF Respond

LEMMA CheckClaims ==
  ASSUME GatewayInv, OnceInv, NEW r \in Slots, CheckExisting(r)
  PROVE  OnceInv'
<1> USE DEF nonceVars, ledgerVars, orderVars
<1>0. OwnTypeOK
  BY DEF GatewayInv
<1>1. CASE CheckedNew(r)
  <2>1. PICK ask \in Keyed(r) : Goto(r, "get", ask, 0)
    BY <1>1 DEF CheckedNew
  <2>2. \A s \in Slots, i \in Intents : Claims(s, i)' => Claims(s, i)
    BY <1>0, <2>1, GotoClaims
  <2>3. QED
    BY <1>0, <1>1, <2>2, NonceUntouched DEF CheckedNew
<1>2. CASE CheckedCached(r) \/ CheckedConflict(r)
  BY <1>0, <1>2, NonceUntouched DEF CheckedCached, CheckedConflict, vars, Claims, At
<1>3. QED
  BY <1>1, <1>2 DEF CheckExisting

LEMMA ConfirmClaims ==
  ASSUME RoomForNonces, GatewayInv, OnceInv, NEW r \in Slots, Confirm(r)
  PROVE  OnceInv'
<1> USE DEF nonceVars, ledgerVars, orderVars
<1>0. OwnTypeOK
  BY DEF GatewayInv
<1>1. CASE ConfirmRefused(r) \/ ConfirmReplayed(r)
  <2>1. Leave(r) /\ UNCHANGED <<now, cache, entries, intents>>
    BY <1>1 DEF ConfirmRefused, ConfirmReplayed
  <2>2. QED
    BY <1>0, <2>1, LeaveClaims, NonceUntouched
<1>2. CASE ConfirmUnsigned(r)
  <2>1. PICK ask \in Pending(r, "confirm") :
          Open(ask.intent) /\ Nonce!Remember(ask.intent) /\ Leave(r)
    BY <1>2 DEF ConfirmUnsigned, Matches
  <2>2. ask.intent \in Intents /\ UNCHANGED <<now, entries, intents>>
    BY <1>0, <1>2, PendingType DEF ConfirmUnsigned, Ask
  <2>3. NonceOutlives' /\ \A j \in Intents : Spent(j) => Spent(j)'
    BY <1>0, <2>1, <2>2, RememberSpends
  <2>4. QED
    BY <1>0, <2>1, <2>2, <2>3, LeaveClaims, NoNewClaim DEF OnceInv
<1>3. CASE ConfirmSigned(r)
  <2>1. PICK ask \in Pending(r, "confirm") :
          Matches(ask) /\ Nonce!Remember(ask.intent) /\ Goto(r, "append", ask, 0)
    BY <1>3 DEF ConfirmSigned
  <2> DEFINE i == ask.intent
  <2>2. i \in Intents /\ UNCHANGED <<now, entries, intents>>
    BY <1>0, <1>3, PendingType DEF ConfirmSigned, Ask
  <2>3. NonceOutlives' /\ (\A j \in Intents : Spent(j) => Spent(j)') /\ Spent(i)'
    BY <1>0, <2>1, <2>2, RememberSpends DEF Matches
  <2>4. Open(i) /\ ~Nonce!Seen(i)
    BY <2>1 DEF Matches, Nonce!Remember
  <2>5. ~Claimed(i)
    BY <1>0, <2>2, <2>4, UnseenIsUnclaimed
  <2>6. intents[i].expires_at # 0
    BY <1>0, <2>2, <2>4 DEF Open, OwnTypeOK, Nonce!NonceTypeOK
  <2>7. \A s \in Slots, j \in Intents :
          Claims(s, j)' => (s = r /\ j = i) \/ Claims(s, j)
    BY <1>0, <2>1 DEF OwnTypeOK, Goto, Claims, At
  <2>8. \A j \in Intents : Recorded(j)' <=> Recorded(j)
    BY <2>2 DEF Recorded
  <2>9. \A j \in Intents : Claimed(j)' => j = i \/ Claimed(j)
    BY <2>7, <2>8 DEF Claimed
  <2>10. \A j \in Intents : Claimed(j)' => intents'[j].expires_at # 0 /\ Spent(j)'
    BY <2>2, <2>3, <2>6, <2>9 DEF OnceInv, ClaimedOnce
  <2>11. \A s \in Slots : ~Claims(s, i)
    BY <2>5 DEF Claimed
  <2>12. ~Recorded(i)
    BY <2>5 DEF Claimed
  <2>13. \A j \in Intents : \A s, q \in Slots : Claims(s, j)' /\ Claims(q, j)' => s = q
    BY <2>7, <2>11 DEF OnceInv, ClaimedOnce
  <2>14. \A j \in Intents : \A s \in Slots : Claims(s, j)' => ~Recorded(j)'
    BY <2>7, <2>8, <2>12 DEF OnceInv, ClaimedOnce
  <2>15. \A e, f \in entries' : e.content.intent = f.content.intent => e = f
    BY <2>2 DEF OnceInv, ClaimedOnce
  <2>16. QED
    BY <2>3, <2>10, <2>13, <2>14, <2>15 DEF OnceInv, ClaimedOnce
<1>4. CASE AppendSelect(r) \/ AppendFlush(r)
  BY <1>0, <1>4, NonceUntouched
     DEF AppendSelect, AppendFlush, Ledger!SelectLatest, Ledger!Flush, Claims, At
<1>5. CASE AppendCommit(r)
  <2> DEFINE i == req[r].ask.intent
             row == append[r].row
  <2>1. /\ At(r, "append") /\ append[r].step = "commit"
        /\ entries' = entries \union {row}
        /\ Goto(r, "set_hash", req[r].ask, row.created_at)
        /\ UNCHANGED <<now, cache, intents>>
    BY <1>5 DEF AppendCommit, Ledger!Commit
  <2>2. i \in Intents
    BY <1>0, <2>1, AskType DEF At, Ask
  <2>3. row.content.intent = i
    <3>1. row.content = req[r].ask.transcript
      BY <2>1 DEF Ledger!Idle, GatewayInv, FlowInv, SessionOK
    <3>2. Given(i, req[r].ask.transcript)
      BY <2>1 DEF GatewayInv, FlowInv, RequestOK, At
    <3>3. QED
      BY <3>1, <3>2 DEF Given
  <2>4. Claims(r, i)
    BY <2>1 DEF Claims
  <2>5. \A s \in Slots, j \in Intents : Claims(s, j)' => s # r /\ Claims(s, j)
    BY <1>0, <2>1 DEF OwnTypeOK, Goto, Claims, At
  <2>6. \A j \in Intents : Recorded(j)' => j = i \/ Recorded(j)
    BY <2>1, <2>3 DEF Recorded
  <2>7. \A j \in Intents : Claimed(j)' => Claimed(j)
    BY <2>2, <2>4, <2>5, <2>6 DEF Claimed
  <2>8. ~Recorded(i)
    BY <2>2, <2>4 DEF OnceInv, ClaimedOnce
  <2>9. \A e, f \in entries' : e.content.intent = f.content.intent => e = f
    BY <2>1, <2>3, <2>8 DEF Recorded, OnceInv, ClaimedOnce
  <2>10. \A j \in Intents : \A s, q \in Slots : Claims(s, j)' /\ Claims(q, j)' => s = q
    BY <2>5 DEF OnceInv, ClaimedOnce
  <2>11. \A j \in Intents : \A s \in Slots : Claims(s, j)' => ~Recorded(j)'
    BY <2>2, <2>4, <2>5, <2>6 DEF OnceInv, ClaimedOnce
  <2>12. NonceOutlives' /\ \A j \in Intents : Spent(j) => Spent(j)'
    BY <2>1 DEF OnceInv, NonceOutlives, Created, Spent
  <2>13. \A j \in Intents : Claimed(j)' => intents'[j].expires_at # 0 /\ Spent(j)'
    BY <2>1, <2>7, <2>12 DEF OnceInv, ClaimedOnce
  <2>14. QED
    BY <2>9, <2>10, <2>11, <2>12, <2>13 DEF OnceInv, ClaimedOnce
<1>6. CASE SetTranscriptHash(r)
  <2>1. Respond(r) /\ UNCHANGED <<now, cache, entries>>
    BY <1>6 DEF SetTranscriptHash
  <2>2. \A i \in Intents : intents'[i].expires_at = intents[i].expires_at
    BY <1>0, <1>6 DEF SetTranscriptHash, UpdateFields, OwnTypeOK, OrderIntent
  <2>3. QED
    BY <1>0, <2>1, <2>2, LeaveClaims, NonceUntouched
<1>7. QED
  BY <1>1, <1>2, <1>3, <1>4, <1>5, <1>6 DEF Confirm

LEMMA AuthorizeClaims ==
  ASSUME GatewayInv, OnceInv, NEW r \in Slots, Authorize(r)
  PROVE  OnceInv'
<1> USE DEF nonceVars, ledgerVars, orderVars
<1>0. OwnTypeOK
  BY DEF GatewayInv
<1>1. CASE AuthorizeRefused(r) \/ PspDeclines(r) \/ PspAnswerLost(r)
  <2>1. Leave(r) /\ UNCHANGED <<now, cache, entries, intents>>
    BY <1>1 DEF AuthorizeRefused, PspDeclines, PspAnswerLost
  <2>2. QED
    BY <1>0, <2>1, LeaveClaims, NonceUntouched
<1>2. CASE AuthorizeAllowed(r)
  <2>1. PICK ask \in Pending(r, "authorize") : Goto(r, "psp", ask, 0)
    BY <1>2 DEF AuthorizeAllowed
  <2>2. \A s \in Slots, i \in Intents : Claims(s, i)' => Claims(s, i)
    BY <1>0, <2>1, GotoClaims
  <2>3. QED
    BY <1>0, <1>2, <2>2, NonceUntouched DEF AuthorizeAllowed
<1>3. CASE PspConfirms(r)
  <2>1. \A s \in Slots, i \in Intents : Claims(s, i)' => Claims(s, i)
    BY <1>0, <1>3, GotoClaims DEF PspConfirms
  <2>2. QED
    BY <1>0, <1>3, <2>1, NonceUntouched DEF PspConfirms
<1>4. CASE SetAuthorization(r)
  <2>1. Respond(r) /\ UNCHANGED <<now, cache, entries>>
    BY <1>4 DEF SetAuthorization
  <2>2. \A i \in Intents : intents'[i].expires_at = intents[i].expires_at
    BY <1>0, <1>4 DEF SetAuthorization, UpdateFields, OwnTypeOK, OrderIntent
  <2>3. QED
    BY <1>0, <2>1, <2>2, LeaveClaims, NonceUntouched
<1>5. QED
  BY <1>1, <1>2, <1>3, <1>4 DEF Authorize

LEMMA StoreClaims ==
  ASSUME GatewayInv, OnceInv, NEW r \in Slots, Store(r)
  PROVE  OnceInv'
<1> USE DEF nonceVars, ledgerVars, orderVars
<1>0. OwnTypeOK
  BY DEF GatewayInv
<1>1. CASE StoreSelect(r)
  <2>1. \A s \in Slots, i \in Intents : Claims(s, i)' => Claims(s, i)
    BY <1>0, <1>1, GotoClaims DEF StoreSelect
  <2>2. QED
    BY <1>0, <1>1, <2>1, NonceUntouched DEF StoreSelect
<1>2. CASE StoreWrite(r) \/ StoreClash(r)
  <2>1. Leave(r) /\ UNCHANGED <<now, cache, entries, intents>>
    BY <1>2 DEF StoreWrite, StoreClash
  <2>2. QED
    BY <1>0, <2>1, LeaveClaims, NonceUntouched
<1>3. QED
  BY <1>1, <1>2 DEF Store

LEMMA FulfilClaims ==
  ASSUME GatewayInv, OnceInv, NEW r \in Slots, Fulfil(r)
  PROVE  OnceInv'
<1> USE DEF nonceVars, ledgerVars
<1>0. OwnTypeOK
  BY DEF GatewayInv
<1>1. CASE FulfilRefused(r)
  BY <1>0, <1>1, NonceUntouched DEF FulfilRefused, vars, orderVars, Claims, At
<1>2. CASE FulfilGets(r) \/ FulfilWrites(r)
  <2>1. \/ \E ask, auth : Goto(r, "receipts", ask, auth)
        \/ Goto(r, "set_fulfilled", req[r].ask, req[r].body)
    BY <1>2 DEF FulfilGets, FulfilWrites
  <2>2. \A s \in Slots, i \in Intents : Claims(s, i)' => Claims(s, i)
    BY <1>0, <2>1, GotoClaims
  <2>3. UNCHANGED <<now, cache, entries, intents>>
    BY <1>2 DEF FulfilGets, FulfilWrites, orderVars
  <2>4. QED
    BY <1>0, <2>2, <2>3, NonceUntouched
<1>3. CASE FulfilExpired(r)
  BY <1>0, <1>3, LeaveClaims, NonceUntouched DEF FulfilExpired, orderVars
<1>4. CASE SetFulfilled(r)
  <2>1. Leave(r) /\ UNCHANGED <<now, cache, entries>>
    BY <1>4 DEF SetFulfilled
  <2>2. \A i \in Intents : intents'[i].expires_at = intents[i].expires_at
    BY <1>0, <1>4 DEF SetFulfilled, UpdateFields, OwnTypeOK, OrderIntent
  <2>3. QED
    BY <1>0, <2>1, <2>2, LeaveClaims, NonceUntouched
<1>5. QED
  BY <1>1, <1>2, <1>3, <1>4 DEF Fulfil

LEMMA OnceStep ==
  ASSUME ~MayRestart, RoomForNonces, GatewayInv, OnceInv, [Next]_vars
  PROVE  OnceInv'
<1> USE DEF nonceVars, ledgerVars, orderVars
<1>0. OwnTypeOK
  BY DEF GatewayInv
<1>1. ASSUME NEW i \in Intents, CreateIntent(i)
      PROVE  OnceInv'
  <2>1. /\ intents[i].expires_at = 0
        /\ intents' = [intents EXCEPT ![i] = NewIntent(i)]
        /\ UNCHANGED <<now, cache, entries, req>>
    BY <1>1 DEF CreateIntent
  <2>2. ~Claimed(i)
    BY <2>1 DEF OnceInv, ClaimedOnce
  <2>3. intents[i] \in OrderIntent /\ now \in Nat /\ NonceTtl \in Nat
    BY <1>0, GatewayConstants DEF OwnTypeOK, Nonce!NonceTypeOK
  <2>4. NewIntent(i).expires_at = now + NonceTtl
    BY <2>3 DEF NewIntent, OrderIntent
  <2>5. intents'[i] = NewIntent(i) /\ \A j \in Intents \ {i} : intents'[j] = intents[j]
    BY <1>0, <2>1 DEF OwnTypeOK
  <2>6. NonceOutlives'
    <3>1. \A c \in cache : c.nonce \in Intents /\ c.nonce # i
      BY <1>0, <2>1 DEF OwnTypeOK, Nonce!NonceTypeOK, Nonce!Item, OnceInv, NonceOutlives
    <3>2. Created' \subseteq Created \union {i}
      BY <2>5 DEF Created
    <3>3. IsFiniteSet(Created')
      BY <3>2, FS_AddElement, FS_Subset DEF OnceInv, NonceOutlives
    <3>4. QED
      BY <2>1, <2>3, <2>4, <2>5, <3>1, <3>3 DEF OnceInv, NonceOutlives
  <2>7. /\ \A j \in Intents : Recorded(j)' <=> Recorded(j)
        /\ \A j \in Intents, s \in Slots : Claims(s, j)' <=> Claims(s, j)
    BY <2>1 DEF Recorded, Claims, At
  <2>8. \A j \in Intents : Claimed(j)' <=> Claimed(j)
    BY <2>7 DEF Claimed
  <2>9. \A j \in Intents \ {i} : Spent(j) => Spent(j)'
    BY <2>1, <2>5 DEF Spent
  <2>10. \A j \in Intents : Claimed(j)' => intents'[j].expires_at # 0 /\ Spent(j)'
    BY <2>2, <2>5, <2>8, <2>9 DEF OnceInv, ClaimedOnce
  <2>11. QED
    BY <2>1, <2>6, <2>7, <2>10 DEF OnceInv, ClaimedOnce
<1>2. ASSUME NEW r \in Slots, Fail(r)
      PROVE  OnceInv'
  <2>1. Leave(r) /\ UNCHANGED <<now, cache, entries, intents>>
    BY <1>2 DEF Fail
  <2>2. QED
    BY <1>0, <2>1, LeaveClaims, NonceUntouched
<1>3. CASE Tick
  <2>1. now' = now + 1 /\ UNCHANGED <<cache, entries, intents, req>>
    BY <1>3 DEF Tick, Nonce!Tick
  <2>2. /\ now \in Nat /\ NonceTtl \in Nat
        /\ \A i \in Intents : intents[i].expires_at \in Nat
    BY <1>0, GatewayConstants DEF OwnTypeOK, OrderIntent, Nonce!NonceTypeOK
  <2>3. NonceOutlives'
    BY <2>1, <2>2 DEF OnceInv, NonceOutlives, Created
  <2>4. \A i \in Intents : Spent(i) => Spent(i)'
    BY <2>1, <2>2 DEF Spent
  <2>5. \A s \in Slots, i \in Intents : Claims(s, i)' => Claims(s, i)
    BY <2>1 DEF Claims, At
  <2>6. QED
    BY <2>1, <2>3, <2>4, <2>5, NoNewClaim DEF OnceInv
<1>4. ~Restart
  BY DEF Restart
<1>5. CASE UNCHANGED vars
  BY <1>0, <1>5, NonceUntouched DEF vars, Claims, At
<1>6. QED
  BY <1>1, <1>2, <1>3, <1>4, <1>5, CheckClaims, ConfirmClaims, AuthorizeClaims, StoreClaims, FulfilClaims
     DEF Next, Handler

LEMMA OnceInit == Init => OnceInv
<1> SUFFICES ASSUME Init
             PROVE  OnceInv
  OBVIOUS
<1>1. NonceOutlives
  <2>1. Created = {}
    BY DEF Init, Created
  <2>2. QED
    BY <2>1, FS_EmptySet, GatewayConstants DEF Init, Nonce!NonceInit, NonceOutlives
<1>2. ClaimedOnce
  BY DEF Init, Ledger!LedgerInit, ClaimedOnce, Claimed, Recorded, Claims, At, Free
<1>3. QED
  BY <1>1, <1>2 DEF OnceInv

(* What the payments and receipts need to know of consents: there is one  *)
(* an intent, and a slot that is about to add one adds the first.          *)
OnlyConsents ==
  /\ \A e, f \in entries : e.content.intent = f.content.intent => e = f
  /\ \A i \in Intents : \A r \in Slots : Claims(r, i) => ~Recorded(i)

LEMMA OnceInvariance ==
  ASSUME ~MayRestart
  PROVE  Spec /\ []RoomForNonces => [](GatewayInv /\ OnceInv)
<1>1. RoomForNonces /\ OnceInv /\ GatewayInv /\ [Next]_vars => OnceInv'
  BY OnceStep
<1>2. QED
  BY <1>1, OnceInit, GatewayInvariance, PTL DEF Spec

LEMMA OnlyConsentsInvariance ==
  ASSUME ~MayRestart
  PROVE  Spec /\ []RoomForNonces => []OnlyConsents
<1>1. OnceInv => OnlyConsents
  BY DEF OnceInv, ClaimedOnce, OnlyConsents
<1>2. QED
  BY <1>1, OnceInvariance, PTL

(* While one process serves the orders, the customer of an intent consents *)
(* to one transcript and the ledger holds it once.                         *)
THEOREM ConsentIsGivenOnce ==
  ASSUME ~MayRestart
  PROVE  Spec /\ []RoomForNonces => []OneConsentPerIntent
<1>1. OnlyConsents => OneConsentPerIntent
  BY DEF OnlyConsents, OneConsentPerIntent
<1>2. QED
  BY <1>1, OnlyConsentsInvariance, PTL

-----------------------------------------------------------------------------
(* A receipt is for its order and there is a payment with an authorization *)
(* behind it.                                                              *)
ShownOK(i, shown, paid) ==
  \A n \in DOMAIN shown :
    /\ shown[n].intent = i
    /\ \E c \in paid : c.intent = i /\ c.auth # 0

ShownInv == \A i \in Intents : ShownOK(i, files[i], payments)

Captured == \A c \in payments : c.captured

(* What the steps do to the payments and the receipts: the PSP adds a      *)
(* payment, which is captured unless it may defer, /fulfil a receipt.      *)
LEMMA MoneySteps ==
  ASSUME [Next]_vars
  PROVE  \/ UNCHANGED <<payments, files>>
         \/ \E r \in Slots :
              \/ /\ PspConfirms(r) \/ PspAnswerLost(r)
                 /\ \E number, auth, captured :
                      /\ payments' = payments \union
                           {PaymentOf(req[r].ask, number, auth, captured)}
                      /\ captured = TRUE \/ MayDefer
                 /\ files' = files
              \/ FulfilWrites(r)
<1> USE DEF orderVars
<1>1. ASSUME NEW r \in Slots, PspConfirms(r) \/ PspAnswerLost(r)
      PROVE  /\ \E number, auth, captured :
                   /\ payments' = payments \union
                        {PaymentOf(req[r].ask, number, auth, captured)}
                   /\ captured = TRUE \/ MayDefer
             /\ files' = files
  BY <1>1 DEF PspConfirms, PspAnswerLost
<1>2. ASSUME NEW r \in Slots, CheckExisting(r) \/ Confirm(r) \/ Store(r)
      PROVE  UNCHANGED <<payments, files>>
  BY <1>2 DEF CheckExisting, CheckedNew, CheckedCached, CheckedConflict, Confirm, ConfirmRefused,
     ConfirmReplayed, ConfirmUnsigned, ConfirmSigned, AppendSelect, AppendFlush, AppendCommit,
     SetTranscriptHash, Store, StoreSelect, StoreWrite, StoreClash, vars
<1>3. ASSUME NEW r \in Slots,
             \/ AuthorizeRefused(r) \/ AuthorizeAllowed(r) \/ PspDeclines(r)
             \/ SetAuthorization(r) \/ FulfilRefused(r) \/ FulfilGets(r) \/ FulfilExpired(r)
             \/ SetFulfilled(r) \/ Fail(r)
      PROVE  UNCHANGED <<payments, files>>
  BY <1>3 DEF AuthorizeRefused, AuthorizeAllowed, PspDeclines, SetAuthorization, FulfilRefused,
     FulfilGets, FulfilExpired, SetFulfilled, Fail, vars
<1>4. ASSUME Tick \/ Restart \/ \E i \in Intents : CreateIntent(i)
      PROVE  UNCHANGED <<payments, files>>
  BY <1>4 DEF Tick, Restart, CreateIntent
<1>5. ASSUME UNCHANGED vars
      PROVE  UNCHANGED <<payments, files>>
  BY <1>5 DEF vars
<1>6. QED
  BY <1>1, <1>2, <1>3, <1>4, <1>5 DEF Next, Handler, Authorize, Fulfil

LEMMA ShownStep ==
  ASSUME GatewayInv, ShownInv, [Next]_vars
  PROVE  ShownInv'
<1>0. OwnTypeOK
  BY DEF GatewayInv
<1>1. CASE payments \subseteq payments' /\ files' = files
  BY <1>1 DEF ShownInv, ShownOK
<1>2. ASSUME NEW r \in Slots, FulfilWrites(r)
      PROVE  ShownInv'
  <2>1. PICK i, t : i = req[r].ask.intent /\ t = req[r].ask.transcript
    OBVIOUS
  <2>2. At(r, "receipts") /\ GenerateReceipts(i, t) /\ payments' = payments
    BY <1>2, <2>1 DEF FulfilWrites
  <2>3. t.intent = i /\ \E c \in payments : c.intent = i /\ c.auth # 0
    BY <2>1, <2>2 DEF GatewayInv, FlowInv, RequestOK, At, Given
  <2>4. i \in Intents /\ t \in Transcripts
    <3>1. t \in Transcripts \union {None} /\ t \in Logged /\ i \in Intents
      BY <1>0, <2>1, <2>2, AskType DEF At, Ask, GatewayInv, FlowInv, RequestOK
    <3>2. QED
      BY <3>1, <1>0, <2>1, <2>2, AskType DEF At, Ask
  <2>5. files'[i] = Append(files[i], t) /\ \A j \in Intents \ {i} : files'[j] = files[j]
    BY <1>0, <2>2, <2>4 DEF GenerateReceipts, OwnTypeOK
  <2>6. \A n \in DOMAIN files'[i] :
          (n \in DOMAIN files[i] /\ files'[i][n] = files[i][n]) \/ files'[i][n] = t
    BY <1>0, <2>4, <2>5, AppendProperties DEF OwnTypeOK
  <2>7. ShownOK(i, files'[i], payments')
    BY <2>2, <2>3, <2>4, <2>6 DEF ShownInv, ShownOK
  <2>8. QED
    BY <2>2, <2>5, <2>7 DEF ShownInv
<1>3. QED
  BY <1>1, <1>2, MoneySteps

LEMMA CapturedStep ==
  ASSUME ~MayDefer, Captured, [Next]_vars
  PROVE  Captured'
<1>1. CASE payments' = payments
  BY <1>1 DEF Captured
<1>2. ASSUME NEW number, NEW auth, NEW ask,
             payments' = payments \union {PaymentOf(ask, number, auth, TRUE)}
      PROVE  Captured'
  BY <1>2 DEF Captured, PaymentOf
<1>3. \A r \in Slots : FulfilWrites(r) => payments' = payments
  BY DEF FulfilWrites
<1>4. QED
  BY <1>1, <1>2, <1>3, MoneySteps

LEMMA ShownInvariance == Spec => []ShownInv
<1>1. Init => ShownInv
  BY DEF Init, ShownInv, ShownOK
<1>2. GatewayInv /\ ShownInv /\ [Next]_vars => ShownInv'
  BY ShownStep
<1>3. QED
  BY <1>1, <1>2, GatewayInvariance, PTL DEF Spec

(* Where there is one consent an intent and the PSP captures what it       *)
(* confirms, a receipt shows what was paid for.                            *)
LEMMA ReceiptsFollow ==
  ASSUME ~MayDefer
  PROVE  Spec /\ []OnlyConsents => []ReceiptShowsPayment
<1>1. Init => Captured
  BY DEF Init, Captured
<1>2. Captured /\ [Next]_vars => Captured'
  BY CapturedStep
<1>3. GatewayInv /\ OnlyConsents /\ ShownInv /\ Captured => ReceiptShowsPayment
  <2> SUFFICES ASSUME GatewayInv, OnlyConsents, ShownInv, Captured,
                      NEW i \in Intents, NEW n \in DOMAIN files[i]
               PROVE  \E c \in payments : /\ c.intent = i
                                          /\ c.transcript = files[i][n]
                                          /\ c.captured /\ c.auth # 0
    BY DEF ReceiptShowsPayment
  <2>1. PICK c \in payments : c.intent = i /\ c.auth # 0
    BY DEF ShownInv, ShownOK
  <2>2. c.transcript \in Logged /\ c.transcript.intent = i /\ c.captured
    BY <2>1 DEF GatewayInv, FlowInv, PaymentOK, Given, Captured
  <2>3. files[i][n] \in Logged /\ files[i][n].intent = i
    BY DEF GatewayInv, FlowInv, FilesOK, ShownInv, ShownOK
  <2>4. c.transcript = files[i][n]
    BY <2>2, <2>3 DEF OnlyConsents, Logged
  <2>5. QED
    BY <2>1, <2>2, <2>4
<1>4. QED
  BY <1>1, <1>2, <1>3, GatewayInvariance, ShownInvariance, PTL DEF Spec

(* So if one process serves the orders and has room for their nonces, a    *)
(* receipt shows the transcript that a captured payment of its order was   *)
(* made for.                                                               *)
THEOREM ReceiptsShowThePayment ==
  ASSUME ~MayRestart, ~MayDefer
  PROVE  Spec /\ []RoomForNonces => []ReceiptShowsPayment
  BY OnlyConsentsInvariance, ReceiptsFollow, PTL

-----------------------------------------------------------------------------
(* The consent to the order of i that a set of logged transcripts holds.   *)
ConsentIn(logged, i) ==
  IF \E t \in logged : t.intent = i THEN CHOOSE t \in logged : t.intent = i ELSE None

LEMMA ConsentIs ==
  ASSUME NEW logged, \A t, u \in logged : t.intent = u.intent => t = u, NEW i
  PROVE  /\ \A t \in logged : t.intent = i => ConsentIn(logged, i) = t
         /\ (\A t \in logged : t.intent # i) => ConsentIn(logged, i) = None
<1>1. ASSUME NEW t \in logged, t.intent = i
      PROVE  ConsentIn(logged, i) = t
  <2>1. \A u \in logged : u.intent = i => u = t
    BY <1>1
  <2>2. QED
    BY <1>1, <2>1 DEF ConsentIn
<1>2. QED
  BY <1>1 DEF ConsentIn

ConsentMap(logged) == [i \in Intents |-> ConsentIn(logged, i)]
PaidSet(paid) == {c.intent : c \in paid}
ShownMap(shown) == [i \in Intents |-> {shown[i][n] : n \in DOMAIN shown[i]}]

(* A step that neither logs, nor pays, nor writes receipts is a stutter of *)
(* the order's life; each of these three is a step of its own.             *)
LEMMA LifecycleStep ==
  ASSUME GatewayInv, OnlyConsents, [Next]_vars
  PROVE  \/ UNCHANGED <<Logged, payments, files>>
         \/ \E i \in Intents :
              \/ /\ \A t \in Logged : t.intent # i
                 /\ \E t \in Transcripts : t.intent = i /\ Logged' = Logged \union {t}
                 /\ UNCHANGED <<payments, files>>
              \/ /\ \E t \in Logged : t.intent = i
                 /\ PaidSet(payments') = PaidSet(payments) \union {i}
                 /\ UNCHANGED <<Logged, files>>
              \/ /\ i \in PaidSet(payments)
                 /\ \E t \in Logged : /\ t.intent = i
                                      /\ files' = [files EXCEPT ![i] = Append(@, t)]
                 /\ UNCHANGED <<Logged, payments>>
<1> USE DEF orderVars, ledgerVars
<1>0. OwnTypeOK
  BY DEF GatewayInv
<1>1. ASSUME NEW r \in Slots, AppendCommit(r)
      PROVE  \E i \in Intents :
               /\ \A t \in Logged : t.intent # i
               /\ \E t \in Transcripts : t.intent = i /\ Logged' = Logged \union {t}
               /\ UNCHANGED <<payments, files>>
  <2> DEFINE i == req[r].ask.intent
             t == req[r].ask.transcript
  <2>1. At(r, "append") /\ append[r].step = "commit" /\ entries' = entries \union {append[r].row}
    BY <1>1 DEF AppendCommit, Ledger!Commit
  <2>2. i \in Intents /\ t \in Transcripts
    BY <1>0, <2>1, AskType DEF At, Ask
  <2>3. append[r].row.content = t
    BY <2>1 DEF Ledger!Idle, GatewayInv, FlowInv, SessionOK
  <2>4. t.intent = i
    BY <2>1 DEF GatewayInv, FlowInv, RequestOK, At, Given
  <2>5. ~Recorded(i)
    BY <2>1, <2>2 DEF OnlyConsents, Claims
  <2>6. \A u \in Logged : u.intent # i
    BY <2>5 DEF Recorded, Logged
  <2>7. Logged' = Logged \union {t}
    BY <2>1, <2>3 DEF Logged
  <2>8. QED
    BY <1>1, <2>2, <2>4, <2>6, <2>7 DEF AppendCommit
<1>2. ASSUME NEW r \in Slots, PspConfirms(r) \/ PspAnswerLost(r)
      PROVE  \E i \in Intents :
               /\ \E t \in Logged : t.intent = i
               /\ PaidSet(payments') = PaidSet(payments) \union {i}
               /\ UNCHANGED <<Logged, files>>
  <2> DEFINE i == req[r].ask.intent
  <2>1. At(r, "psp") /\ UNCHANGED <<entries, files>>
    BY <1>2 DEF PspConfirms, PspAnswerLost
  <2>2. PICK c : payments' = payments \union {c} /\ c.intent = i
    <3>1. \A number, auth, captured : PaymentOf(req[r].ask, number, auth, captured).intent = i
      BY DEF PaymentOf
    <3>2. \E number, auth, captured :
            payments' = payments \union {PaymentOf(req[r].ask, number, auth, captured)}
      BY <1>2 DEF PspConfirms, PspAnswerLost
    <3>3. QED
      BY <3>1, <3>2
  <2>3. i \in Intents
    BY <1>0, <2>1, AskType DEF At, Ask
  <2>4. req[r].ask.transcript \in Logged /\ req[r].ask.transcript.intent = i
    BY <2>1 DEF GatewayInv, FlowInv, RequestOK, At, Given
  <2>5. PaidSet(payments') = PaidSet(payments) \union {i}
    BY <2>2 DEF PaidSet
  <2>6. QED
    BY <2>1, <2>3, <2>4, <2>5 DEF Logged
<1>3. ASSUME NEW r \in Slots, FulfilWrites(r)
      PROVE  \E i \in Intents :
               /\ i \in PaidSet(payments)
               /\ \E t \in Logged : /\ t.intent = i
                                    /\ files' = [files EXCEPT ![i] = Append(@, t)]
               /\ UNCHANGED <<Logged, payments>>
  <2>1. PICK i, t : i = req[r].ask.intent /\ t = req[r].ask.transcript
    OBVIOUS
  <2>2. /\ At(r, "receipts") /\ GenerateReceipts(i, t)
        /\ UNCHANGED <<entries, payments>>
    BY <1>3, <2>1 DEF FulfilWrites
  <2>3. t \in Logged /\ t.intent = i /\ i \in PaidSet(payments)
    BY <2>1, <2>2 DEF GatewayInv, FlowInv, RequestOK, At, Given, PaidSet
  <2>4. i \in Intents
    BY <1>0, <2>1, <2>2, AskType DEF At, Ask
  <2>5. QED
    BY <2>2, <2>3, <2>4 DEF GenerateReceipts, Logged
<1>4. ASSUME NEW r \in Slots,
             \/ CheckExisting(r) \/ ConfirmRefused(r) \/ ConfirmReplayed(r)
             \/ ConfirmUnsigned(r) \/ ConfirmSigned(r) \/ SetTranscriptHash(r) \/ Store(r)
      PROVE  UNCHANGED <<entries, payments, files>>
  BY <1>4 DEF CheckExisting, CheckedNew, CheckedCached, CheckedConflict, ConfirmRefused,
     ConfirmReplayed, ConfirmUnsigned, ConfirmSigned, SetTranscriptHash, Store, StoreSelect,
     StoreWrite, StoreClash, vars
<1>5. ASSUME NEW r \in Slots, AppendSelect(r) \/ AppendFlush(r)
      PROVE  UNCHANGED <<entries, payments, files>>
  BY <1>5 DEF AppendSelect, AppendFlush, Ledger!SelectLatest, Ledger!Flush
<1>6. ASSUME NEW r \in Slots,
             \/ AuthorizeRefused(r) \/ AuthorizeAllowed(r) \/ PspDeclines(r)
             \/ SetAuthorization(r) \/ FulfilRefused(r) \/ FulfilGets(r) \/ FulfilExpired(r)
             \/ SetFulfilled(r) \/ Fail(r)
      PROVE  UNCHANGED <<entries, payments, files>>
  BY <1>6 DEF AuthorizeRefused, AuthorizeAllowed, PspDeclines, SetAuthorization, FulfilRefused,
     FulfilGets, FulfilExpired, SetFulfilled, Fail, vars
<1>7. ASSUME Tick \/ Restart \/ \E i \in Intents : CreateIntent(i)
      PROVE  UNCHANGED <<entries, payments, files>>
  BY <1>7 DEF Tick, Restart, CreateIntent, Ledger!Crash
<1>8. ASSUME UNCHANGED vars
      PROVE  UNCHANGED <<entries, payments, files>>
  BY <1>8 DEF vars
<1>9. UNCHANGED <<entries, payments, files>> => UNCHANGED <<Logged, payments, files>>
  BY DEF Logged
<1>10. QED
  BY <1>1, <1>2, <1>3, <1>4, <1>5, <1>6, <1>7, <1>8, <1>9
     DEF Next, Handler, Confirm, Authorize, Fulfil

(* Each of those is the step of the order's life of that name.             *)
LEMMA OrderStep ==
  ASSUME GatewayInv, OnlyConsents, OnlyConsents', ShownInv, [Next]_vars
  PROVE  [Order!OrderNext]_(Order!orderVars)
<1>1. /\ \A t, u \in Logged : t.intent = u.intent => t = u
      /\ \A t, u \in Logged' : t.intent = u.intent => t = u
  BY DEF OnlyConsents, Logged
<1>2. /\ [i \in Intents |-> ConsentOf(i)] = ConsentMap(Logged)
      /\ [i \in Intents |-> ConsentOf(i)]' = ConsentMap(Logged')
  BY DEF ConsentOf, ConsentMap, ConsentIn
<1>3. /\ {c.intent : c \in payments} = PaidSet(payments)
      /\ {c.intent : c \in payments}' = PaidSet(payments')
  BY DEF PaidSet
<1>4. /\ [i \in Intents |-> {files[i][n] : n \in DOMAIN files[i]}] = ShownMap(files)
      /\ [i \in Intents |-> {files[i][n] : n \in DOMAIN files[i]}]' = ShownMap(files')
  BY DEF ShownMap
<1>5. CASE UNCHANGED <<Logged, payments, files>>
  BY <1>2, <1>3, <1>4, <1>5 DEF Order!orderVars
<1>6. ASSUME NEW i \in Intents, NEW t \in Transcripts, t.intent = i,
             \A u \in Logged : u.intent # i, Logged' = Logged \union {t},
             UNCHANGED <<payments, files>>
      PROVE  Order!Consent(i)
  <2>1. ConsentMap(Logged)[i] = None
    BY <1>1, <1>6, ConsentIs DEF ConsentMap
  <2>2. ConsentIn(Logged', i) = t
    BY <1>1, <1>6, ConsentIs
  <2>3. ASSUME NEW j \in Intents, j # i
        PROVE  ConsentIn(Logged', j) = ConsentIn(Logged, j)
    <3>1. CASE \E u \in Logged : u.intent = j
      BY <1>1, <1>6, <3>1, ConsentIs
    <3>2. CASE \A u \in Logged : u.intent # j
      BY <1>1, <1>6, <2>3, <3>2, ConsentIs
    <3>3. QED
      BY <3>1, <3>2
  <2>4. ConsentMap(Logged') = [ConsentMap(Logged) EXCEPT ![i] = t]
    BY <2>2, <2>3 DEF ConsentMap
  <2>5. QED
    BY <1>2, <1>3, <1>4, <1>6, <2>1, <2>4 DEF Order!Consent
<1>7. ASSUME NEW i \in Intents, NEW t \in Logged, t.intent = i,
             PaidSet(payments') = PaidSet(payments) \union {i}, UNCHANGED <<Logged, files>>
      PROVE  Order!Pay(i)
  <2>1. ConsentMap(Logged)[i] = t
    BY <1>1, <1>7, ConsentIs DEF ConsentMap
  <2>2. t # None
    BY <1>7, GatewayConstants DEF Logged, GatewayInv, LP!LinkInv, LP!LedgerTypeOK, LP!Entry
  <2>3. QED
    BY <1>2, <1>3, <1>4, <1>7, <2>1, <2>2 DEF Order!Pay
<1>8. ASSUME NEW i \in Intents, NEW t \in Logged, t.intent = i, i \in PaidSet(payments),
             files' = [files EXCEPT ![i] = Append(@, t)], UNCHANGED <<Logged, payments>>
      PROVE  Order!Receipt(i)
  <2>1. t \in Transcripts /\ files \in [Intents -> Seq(Transcripts)]
    BY <1>8 DEF Logged, GatewayInv, LP!LinkInv, LP!LedgerTypeOK, LP!Entry, OwnTypeOK
  <2>2. \A n \in DOMAIN files[i] : files[i][n] = t
    <3>1. \A n \in DOMAIN files[i] : files[i][n] \in Logged /\ files[i][n].intent = i
      BY DEF GatewayInv, FlowInv, FilesOK, ShownInv, ShownOK
    <3>2. QED
      BY <1>1, <1>8, <3>1
  <2>3. /\ DOMAIN Append(files[i], t) = DOMAIN files[i] \union {Len(files[i]) + 1}
        /\ \A n \in DOMAIN Append(files[i], t) : Append(files[i], t)[n] = t
    BY <2>1, <2>2, AppendProperties
  <2>4. {Append(files[i], t)[n] : n \in DOMAIN Append(files[i], t)} = {t}
    BY <2>3
  <2>5. ConsentMap(Logged)[i] = t
    BY <1>1, <1>8, ConsentIs DEF ConsentMap
  <2>6. ShownMap(files') = [ShownMap(files) EXCEPT ![i] = {ConsentMap(Logged)[i]}]
    <3>1. /\ files'[i] = Append(files[i], t)
          /\ \A j \in Intents \ {i} : files'[j] = files[j]
      BY <1>8, <2>1
    <3>2. ShownMap(files')[i] = {t}
      BY <2>4, <3>1 DEF ShownMap
    <3>3. \A j \in Intents \ {i} : ShownMap(files')[j] = ShownMap(files)[j]
      BY <3>1 DEF ShownMap
    <3>4. QED
      BY <2>5, <3>2, <3>3 DEF ShownMap
  <2>7. QED
    BY <1>2, <1>3, <1>4, <1>8, <2>6 DEF Order!Receipt
<1>9. QED
  BY <1>5, <1>6, <1>7, <1>8, LifecycleStep DEF Order!OrderNext

(* So where there is one consent an intent, the gateway implements the     *)
(* life of an order.                                                       *)
LEMMA LifecycleFollows == Spec /\ []OnlyConsents => LifecycleImplemented
<1>1. Init => Order!OrderInit
  BY DEF Init, Ledger!LedgerInit, Order!OrderInit, Logged, ConsentOf
<1>2. GatewayInv /\ OnlyConsents /\ OnlyConsents' /\ ShownInv /\ [Next]_vars
        => [Order!OrderNext]_(Order!orderVars)
  BY OrderStep
<1>3. QED
  BY <1>1, <1>2, GatewayInvariance, ShownInvariance, PTL
     DEF Spec, LifecycleImplemented, Order!OrderSpec

(* The gateway implements the life of an order: consent once, then         *)
(* payment, then receipts that show that consent.                          *)
THEOREM GatewayImplementsLifecycle ==
  ASSUME ~MayRestart
  PROVE  Spec /\ []RoomForNonces => LifecycleImplemented
  BY OnlyConsentsInvariance, LifecycleFollows, PTL

-----------------------------------------------------------------------------
(* The row that store writes for a request and its response.               *)
RowOf(ask, body) == [key |-> RowKey(ask), payload |-> Payload(ask), body |-> body]

(* A session of store is open only in a request that writes, for the row   *)
(* of its response.                                                        *)
SessionWrites(q, m) ==
  IF q.pc = "write" THEN m.step = "write" /\ m.row = RowOf(q.ask, q.body) ELSE m = Idem!NoMerge

HasRow(key) == \E x \in records : x.key = key

(* However the requests of a key overlap and fail, a key that was answered *)
(* 200 has a row.                                                          *)
RowsInv ==
  /\ \A r \in Slots : SessionWrites(req[r], merge[r])
  /\ \A a \in answers : a.status = "ok" => HasRow(RowKey(a.ask))

(* Slot r goes from request p to request q: it leaves, takes a request     *)
(* without a key, goes on with its own, or starts one whose key has no     *)
(* row.                                                                    *)
Goes(p, q) ==
  \/ q.pc = "free"
  \/ q.ask.key = None
  \/ p.pc # "free" /\ q.ask = p.ask
  \/ ~HasRow(RowKey(q.ask))

-----------------------------------------------------------------------------
(* What the steps do to the rows: all but five kinds leave them and the    *)
(* answers of 200 alone, and move one slot at most.                        *)
LEMMA RowTraffic ==
  ASSUME [Next]_vars
  PROVE  \/ \E r \in Slots : \/ CheckedCached(r) \/ StoreSelect(r) \/ StoreWrite(r)
                             \/ StoreClash(r) \/ Fail(r)
         \/ Restart
         \/ /\ UNCHANGED <<records, merge>>
            /\ answers \subseteq answers'
            /\ \A a \in answers' : a.status = "ok" => a \in answers
            /\ \/ req' = req
               \/ \E r \in Slots : \E q : /\ req' = [req EXCEPT ![r] = q]
                                          /\ req[r].pc # "write" /\ q.pc # "write"
                                          /\ Goes(req[r], q)
<1> USE DEF keyVars
<1> DEFINE Quiet == /\ UNCHANGED <<records, merge>>
                    /\ answers \subseteq answers'
                    /\ \A a \in answers' : a.status = "ok" => a \in answers
           Moves(r, q) == /\ req' = [req EXCEPT ![r] = q]
                          /\ req[r].pc # "write" /\ q.pc # "write"
                          /\ Goes(req[r], q)
<1>1. ASSUME NEW r \in Slots, CheckedNew(r)
      PROVE  Quiet /\ \E q : Moves(r, q)
  <2>1. PICK ask \in Keyed(r) : Idem!Unseen(RowKey(ask)) /\ Goto(r, "get", ask, 0)
    BY <1>1 DEF CheckedNew
  <2> DEFINE q == [pc |-> "get", ask |-> ask, body |-> 0]
  <2>2. req' = [req EXCEPT ![r] = q] /\ q.pc = "get" /\ q.ask = ask
    BY <2>1 DEF Goto
  <2>3. ~HasRow(RowKey(ask)) /\ req[r].pc = "free"
    BY <2>1 DEF Idem!Unseen, Idem!Find, HasRow, Keyed, Free
  <2>4. Moves(r, q)
    BY <2>2, <2>3 DEF Goes
  <2>5. QED
    BY <1>1, <2>4 DEF CheckedNew
<1>2. ASSUME NEW r \in Slots, NEW endpoint, NEW ask \in Pending(r, endpoint), NEW pc,
             pc # "write", NEW body, Leave(r) \/ Goto(r, pc, ask, body)
      PROVE  \E q : Moves(r, q)
  <2>1. CASE Leave(r)
    <3>1. Moves(r, Free)
      BY <2>1, PendingPc DEF Leave, Free, Goes
    <3>2. QED
      BY <3>1
  <2>2. CASE Goto(r, pc, ask, body)
    <3> DEFINE q == [pc |-> pc, ask |-> ask, body |-> body]
    <3>1. q.pc = pc /\ q.ask = ask
      OBVIOUS
    <3>2. Moves(r, q)
      BY <1>2, <2>2, <3>1, PendingPc DEF Goto, Goes
    <3>3. QED
      BY <3>2
  <2>3. QED
    BY <1>2, <2>1, <2>2
<1>3. ASSUME NEW r \in Slots,
             \/ ConfirmRefused(r) \/ ConfirmReplayed(r) \/ ConfirmUnsigned(r)
             \/ ConfirmSigned(r) \/ AuthorizeRefused(r) \/ AuthorizeAllowed(r)
      PROVE  Quiet /\ \E q : Moves(r, q)
  <2>1. \E endpoint : \E ask \in Pending(r, endpoint) : \E pc :
          pc # "write" /\ \E body : Leave(r) \/ Goto(r, pc, ask, body)
    BY <1>3 DEF ConfirmRefused, ConfirmReplayed, ConfirmUnsigned, ConfirmSigned,
       AuthorizeRefused, AuthorizeAllowed
  <2>2. Quiet
    BY <1>3 DEF ConfirmRefused, ConfirmReplayed, ConfirmUnsigned, ConfirmSigned,
       AuthorizeRefused, AuthorizeAllowed, Note
  <2>3. QED
    BY <1>2, <2>1, <2>2
<1>4. ASSUME NEW r \in Slots, NEW pc, pc # "write", NEW body, req[r].pc \notin {"free", "write"},
             Leave(r) \/ Goto(r, pc, req[r].ask, body)
      PROVE  \E q : Moves(r, q)
  <2>1. CASE Leave(r)
    <3>1. Moves(r, Free)
      BY <1>4, <2>1 DEF Leave, Free, Goes
    <3>2. QED
      BY <3>1
  <2>2. CASE Goto(r, pc, req[r].ask, body)
    <3> DEFINE q == [pc |-> pc, ask |-> req[r].ask, body |-> body]
    <3>1. q.pc = pc /\ q.ask = req[r].ask
      OBVIOUS
    <3>2. Moves(r, q)
      BY <1>4, <2>2, <3>1 DEF Goto, Goes
    <3>3. QED
      BY <3>2
  <2>3. QED
    BY <1>4, <2>1, <2>2
<1>5. ASSUME NEW r \in Slots,
             \/ AppendCommit(r) \/ SetTranscriptHash(r) \/ PspConfirms(r) \/ PspDeclines(r)
             \/ PspAnswerLost(r) \/ SetAuthorization(r) \/ FulfilExpired(r)
             \/ FulfilWrites(r) \/ SetFulfilled(r)
      PROVE  Quiet /\ \E q : Moves(r, q)
  <2>1. /\ req[r].pc \notin {"free", "write"}
        /\ \E pc : pc # "write" /\ \E body : Leave(r) \/ Goto(r, pc, req[r].ask, body)
    BY <1>5 DEF AppendCommit, SetTranscriptHash, PspConfirms, PspDeclines, PspAnswerLost,
       SetAuthorization, FulfilExpired, FulfilWrites, SetFulfilled, Respond, At
  <2>2. UNCHANGED <<records, merge, answers>>
    BY <1>5 DEF AppendCommit, SetTranscriptHash, PspConfirms, PspDeclines, PspAnswerLost,
       SetAuthorization, FulfilExpired, FulfilWrites, SetFulfilled
  <2>3. QED
    BY <1>4, <2>1, <2>2
<1>6. ASSUME NEW r \in Slots, FulfilGets(r)
      PROVE  Quiet /\ \E q : Moves(r, q)
  <2>1. PICK ask, auth : Goto(r, "receipts", ask, auth) /\ ask.key = None
    BY <1>6 DEF FulfilGets
  <2> DEFINE q == [pc |-> "receipts", ask |-> ask, body |-> auth]
  <2>2. q.pc = "receipts" /\ q.ask = ask /\ req[r].pc = "free"
    BY <1>6 DEF FulfilGets, Free
  <2>3. Moves(r, q)
    BY <2>1, <2>2 DEF Goto, Goes
  <2>4. QED
    BY <1>6, <2>3 DEF FulfilGets
<1>7. ASSUME \/ \E r \in Slots : \/ CheckedConflict(r) \/ AppendSelect(r) \/ AppendFlush(r)
                                 \/ FulfilRefused(r)
             \/ \E i \in Intents : CreateIntent(i)
             \/ Tick
             \/ UNCHANGED vars
      PROVE  Quiet /\ req' = req
  BY <1>7 DEF CheckedConflict, AppendSelect, AppendFlush, FulfilRefused, CreateIntent, Tick, vars
<1>8. QED
  BY <1>1, <1>3, <1>5, <1>6, <1>7
     DEF Next, Handler, CheckExisting, Confirm, Authorize, Store, Fulfil

(* A commit of store leaves its key with a row, and no key loses its own.  *)
LEMMA WriteRows ==
  ASSUME OwnTypeOK, RowsInv, NEW r \in Slots, StoreWrite(r)
  PROVE  /\ \A k : HasRow(k) => HasRow(k)'
         /\ \A k : k = RowKey(req[r].ask) => HasRow(k)'
<1> DEFINE row == merge[r].row
<1>1. row.key = RowKey(req[r].ask) /\ Idem!Write(r)
  <2>1. At(r, "write") /\ Idem!Write(r)
    BY DEF StoreWrite
  <2>2. row = RowOf(req[r].ask, req[r].body)
    BY <2>1 DEF RowsInv, SessionWrites, At
  <2>3. QED
    BY <2>1, <2>2 DEF RowOf
<1>2. CASE Idem!Insert(r)
  BY <1>1, <1>2 DEF Idem!Insert, HasRow
<1>3. CASE Idem!Update(r)
  <2>1. PICK loaded \in merge[r].loaded, current \in Idem!Find(row.key) :
          records' = (records \ {current}) \union {Idem!Updated(row, loaded, current)}
    BY <1>3 DEF Idem!Update
  <2>2. current \in records /\ current.key = row.key /\ current \in Idem!Record
    BY DEF Idem!Find, OwnTypeOK, Idem!RecordsTypeOK
  <2>3. Idem!Updated(row, loaded, current).key = row.key
    BY <2>2 DEF Idem!Updated, Idem!Record
  <2>4. QED
    BY <1>1, <2>1, <2>2, <2>3 DEF HasRow
<1>4. QED
  BY <1>1, <1>2, <1>3 DEF Idem!Write

(* The keys keep their rows, and where a step answers 200 there is one.    *)
LEMMA RowsStep ==
  ASSUME OwnTypeOK, RowsInv, [Next]_vars
  PROVE  /\ RowsInv'
         /\ \A k : HasRow(k) => HasRow(k)'
<1>1. ASSUME NEW r \in Slots, CheckedCached(r)
      PROVE  RowsInv' /\ \A k : HasRow(k) => HasRow(k)'
  <2>1. PICK ask \in Keyed(r) :
          \E b \in Idem!Cached(RowKey(ask), Payload(ask)) : Note(ask, "ok", b)
    BY <1>1 DEF CheckedCached
  <2>2. PICK b \in Idem!Cached(RowKey(ask), Payload(ask)) : Note(ask, "ok", b)
    BY <2>1
  <2>3. HasRow(RowKey(ask))
    BY DEF Idem!Cached, Idem!Find, HasRow
  <2>4. \A a \in answers' : a \in answers \/ a = [ask |-> ask, status |-> "ok", body |-> b]
    BY <2>2 DEF Note
  <2>5. UNCHANGED <<records, merge, req>>
    BY <1>1 DEF CheckedCached, keyVars
  <2>6. \A k : HasRow(k)' <=> HasRow(k)
    BY <2>5 DEF HasRow
  <2>7. QED
    BY <2>3, <2>4, <2>5, <2>6 DEF RowsInv
<1>2. ASSUME NEW r \in Slots, StoreSelect(r)
      PROVE  RowsInv' /\ \A k : HasRow(k) => HasRow(k)'
  <2> DEFINE q == [pc |-> "write", ask |-> req[r].ask, body |-> req[r].body]
             row == RowOf(req[r].ask, req[r].body)
  <2>1. /\ merge' = [merge EXCEPT ![r] =
             [step |-> "write", row |-> row, loaded |-> Idem!Find(row.key)]]
        /\ req' = [req EXCEPT ![r] = q]
        /\ UNCHANGED <<records, answers>>
    BY <1>2 DEF StoreSelect, Idem!Load, RowOf, Goto
  <2>2. /\ req'[r] = q
        /\ merge'[r] = [step |-> "write", row |-> row, loaded |-> Idem!Find(row.key)]
        /\ \A s \in Slots \ {r} : req'[s] = req[s] /\ merge'[s] = merge[s]
    BY <2>1 DEF OwnTypeOK, Idem!RecordsTypeOK
  <2>3. SessionWrites(req'[r], merge'[r])
    BY <2>2 DEF SessionWrites
  <2>4. \A k : HasRow(k)' <=> HasRow(k)
    BY <2>1 DEF HasRow
  <2>5. QED
    BY <2>1, <2>2, <2>3, <2>4 DEF RowsInv
<1>3. ASSUME NEW r \in Slots, req' = [req EXCEPT ![r] = Free],
             merge' = [merge EXCEPT ![r] = Idem!NoMerge]
      PROVE  \A s \in Slots : SessionWrites(req'[s], merge'[s])
  <2>1. /\ req'[r] = Free /\ merge'[r] = Idem!NoMerge
        /\ \A s \in Slots \ {r} : req'[s] = req[s] /\ merge'[s] = merge[s]
    BY <1>3 DEF OwnTypeOK, Idem!RecordsTypeOK
  <2>2. SessionWrites(req'[r], merge'[r])
    BY <2>1 DEF SessionWrites, Free
  <2>3. QED
    BY <2>1, <2>2 DEF RowsInv
<1>4. ASSUME NEW r \in Slots, StoreWrite(r)
      PROVE  RowsInv' /\ \A k : HasRow(k) => HasRow(k)'
  <2>1. /\ req' = [req EXCEPT ![r] = Free] /\ merge' = [merge EXCEPT ![r] = Idem!NoMerge]
        /\ Note(req[r].ask, "ok", req[r].body)
    BY <1>4 DEF StoreWrite, Idem!Write, Idem!Insert, Idem!Update, Leave
  <2>2. \A a \in answers' :
          a \in answers \/ a = [ask |-> req[r].ask, status |-> "ok", body |-> req[r].body]
    BY <2>1 DEF Note
  <2>3. \A a \in answers' : a.status = "ok" => HasRow(RowKey(a.ask))'
    <3>1. \A a \in answers : a.status = "ok" => HasRow(RowKey(a.ask))'
      BY <1>4, WriteRows DEF RowsInv, RowKey
    <3>2. ASSUME NEW a, a.ask = req[r].ask
          PROVE  HasRow(RowKey(a.ask))'
      BY <1>4, <3>2, WriteRows DEF RowKey
    <3>3. QED
      BY <2>2, <3>1, <3>2
  <2>4. QED
    BY <1>3, <1>4, <2>1, <2>3, WriteRows DEF RowsInv
<1>5. ASSUME NEW r \in Slots, StoreClash(r) \/ Fail(r)
      PROVE  RowsInv' /\ \A k : HasRow(k) => HasRow(k)'
  <2>1. /\ req' = [req EXCEPT ![r] = Free] /\ merge' = [merge EXCEPT ![r] = Idem!NoMerge]
        /\ UNCHANGED <<records, answers>>
    BY <1>5 DEF StoreClash, Idem!Clash, Fail, Leave
  <2>2. \A k : HasRow(k)' <=> HasRow(k)
    BY <2>1 DEF HasRow
  <2>3. QED
    BY <1>3, <2>1, <2>2 DEF RowsInv
<1>6. CASE Restart
  <2>1. /\ \A s \in Slots : req'[s] = Free /\ merge'[s] = Idem!NoMerge
        /\ UNCHANGED <<records, answers>>
    BY <1>6 DEF Restart
  <2>2. \A s \in Slots : SessionWrites(req'[s], merge'[s])
    BY <2>1 DEF SessionWrites, Free
  <2>3. \A k : HasRow(k)' <=> HasRow(k)
    BY <2>1 DEF HasRow
  <2>4. QED
    BY <2>1, <2>2, <2>3 DEF RowsInv
<1>7. ASSUME UNCHANGED <<records, merge>>, \A a \in answers' : a.status = "ok" => a \in answers,
             \/ req' = req
             \/ \E r \in Slots : \E q : /\ req' = [req EXCEPT ![r] = q]
                                        /\ req[r].pc # "write" /\ q.pc # "write"
      PROVE  RowsInv' /\ \A k : HasRow(k) => HasRow(k)'
  <2>1. \A k : HasRow(k)' <=> HasRow(k)
    BY <1>7 DEF HasRow
  <2>2. ASSUME NEW s \in Slots
        PROVE  SessionWrites(req'[s], merge'[s])
    <3>1. \/ req'[s] = req[s]
          \/ req[s].pc # "write" /\ req'[s].pc # "write"
      BY <1>7 DEF OwnTypeOK
    <3>2. QED
      BY <1>7, <3>1 DEF RowsInv, SessionWrites
  <2>3. QED
    BY <1>7, <2>1, <2>2 DEF RowsInv
<1>8. QED
  BY <1>1, <1>2, <1>4, <1>5, <1>6, <1>7, RowTraffic

LEMMA RowsInvariance == Spec => []RowsInv
<1>1. Init => RowsInv
  BY DEF Init, Idem!RecordsInit, RowsInv, SessionWrites, Free
<1>2. GatewayInv /\ RowsInv /\ [Next]_vars => RowsInv'
  BY RowsStep DEF GatewayInv
<1>3. QED
  BY <1>1, <1>2, GatewayInvariance, PTL DEF Spec

(* A request that /authorize is to serve with key k.                       *)
Carries(q, k) == q.pc # "free" /\ RowKey(q.ask) = <<"authorize", k>>

(* A key with a row that no request in flight carries is carried by none   *)
(* later on.                                                               *)
LEMMA NoneCarries ==
  ASSUME OwnTypeOK, [Next]_vars, NEW k \in Keys, HasRow(<<"authorize", k>>),
         \A r \in Slots : ~Carries(req[r], k)
  PROVE  \A r \in Slots : ~Carries(req'[r], k)
<1>1. k # None
  BY GatewayConstants
<1>2. CASE req' = req
  BY <1>2
<1>3. ASSUME NEW r \in Slots, NEW q, req' = [req EXCEPT ![r] = q], Goes(req[r], q)
      PROVE  \A s \in Slots : ~Carries(req'[s], k)
  <2>1. req'[r] = q /\ \A s \in Slots \ {r} : req'[s] = req[s]
    BY <1>3 DEF OwnTypeOK
  <2>2. ~Carries(q, k)
    BY <1>1, <1>3 DEF Goes, Carries, RowKey
  <2>3. QED
    BY <2>1, <2>2
<1>4. ASSUME NEW r \in Slots, StoreSelect(r)
      PROVE  \A s \in Slots : ~Carries(req'[s], k)
  <2>1. /\ req'[r] = [pc |-> "write", ask |-> req[r].ask, body |-> req[r].body]
        /\ \A s \in Slots \ {r} : req'[s] = req[s]
        /\ req[r].pc = "store"
    BY <1>4 DEF StoreSelect, Goto, At, OwnTypeOK
  <2>2. QED
    BY <2>1 DEF Carries
<1>5. ASSUME NEW r \in Slots, StoreWrite(r) \/ StoreClash(r) \/ Fail(r)
      PROVE  \A s \in Slots : ~Carries(req'[s], k)
  <2>1. req' = [req EXCEPT ![r] = Free]
    BY <1>5 DEF StoreWrite, StoreClash, Fail, Leave
  <2>2. QED
    BY <1>3, <2>1 DEF Goes, Free
<1>6. CASE Restart
  BY <1>6 DEF Restart, Carries, Free
<1>7. ASSUME NEW r \in Slots, CheckedCached(r)
      PROVE  req' = req
  BY <1>7 DEF CheckedCached
<1>8. QED
  BY <1>2, <1>3, <1>4, <1>5, <1>6, <1>7, RowTraffic

(* An answer is for ever.                                                  *)
LEMMA AnswersStay ==
  ASSUME [Next]_vars
  PROVE  answers \subseteq answers'
<1>1. ASSUME NEW r \in Slots,
             \/ CheckedCached(r) \/ StoreSelect(r) \/ StoreWrite(r) \/ StoreClash(r) \/ Fail(r)
      PROVE  answers \subseteq answers'
  BY <1>1 DEF CheckedCached, StoreSelect, StoreWrite, StoreClash, Fail, Note
<1>2. Restart => answers \subseteq answers'
  BY DEF Restart
<1>3. QED
  BY <1>1, <1>2, RowTraffic

(* A key that was answered 200 by /authorize, with no request in flight    *)
(* that carries it, is done: the PSP never confirms for it again, however  *)
(* its requests overlapped before, and whatever fails or restarts.         *)
THEOREM ConcludedKeysAreDone == Spec => ConcludedKeysPayNoMore
<1>1. GatewayInv /\ RowsInv /\ [Next]_vars
        => [\A k \in Keys : Concluded(k) => Concluded(k)' /\ UNCHANGED PaymentsWith(k)]_vars
  <2> SUFFICES ASSUME GatewayInv, RowsInv, [Next]_vars, NEW k \in Keys, Concluded(k)
               PROVE  Concluded(k)' /\ PaymentsWith(k)' = PaymentsWith(k)
    OBVIOUS
  <2>1. PICK a \in answers : RowKey(a.ask) = <<"authorize", k>> /\ a.status = "ok"
    BY DEF Concluded
  <2>2. HasRow(<<"authorize", k>>)
    BY <2>1 DEF RowsInv
  <2>3. \A r \in Slots : ~Carries(req[r], k)
    BY DEF Concluded, Carries, At
  <2>4. \A r \in Slots : ~Carries(req'[r], k)
    BY <2>2, <2>3, NoneCarries DEF GatewayInv
  <2>5. Concluded(k)'
    BY <2>1, <2>4, AnswersStay DEF Concluded, Carries, At, RowKey
  <2>6. ASSUME NEW r \in Slots, PspConfirms(r) \/ PspAnswerLost(r),
               NEW number, NEW auth, NEW captured,
               payments' = payments \union {PaymentOf(req[r].ask, number, auth, captured)}
        PROVE  PaymentsWith(k)' = PaymentsWith(k)
    <3>1. At(r, "psp")
      BY <2>6 DEF PspConfirms, PspAnswerLost
    <3>2. req[r].ask.endpoint = "authorize"
      BY <3>1 DEF GatewayInv, FlowInv, RequestOK, At
    <3>3. req[r].ask.key # k
      BY <2>3, <3>1, <3>2 DEF Carries, RowKey, At
    <3>4. QED
      BY <2>6, <3>3 DEF PaymentsWith, PaymentOf
  <2>7. ASSUME payments' = payments
        PROVE  PaymentsWith(k)' = PaymentsWith(k)
    BY <2>7 DEF PaymentsWith
  <2>8. \A r \in Slots : FulfilWrites(r) => payments' = payments
    BY DEF FulfilWrites
  <2>9. QED
    BY <2>5, <2>6, <2>7, <2>8, MoneySteps
<1>2. QED
  BY <1>1, GatewayInvariance, RowsInvariance, PTL DEF Spec, ConcludedKeysPayNoMore

-----------------------------------------------------------------------------
(* The work that a request and its payload ask for is done.                *)
Done(key, payload) ==
  /\ key[1] = "confirm" =>
       /\ intents[payload[1]].transcript # None
       /\ \E t \in Logged : t.signed /\ t.intent = payload[1] /\ Parsed(t) = payload[2]
  /\ key[1] = "authorize" =>
       /\ intents[payload[1]].auth # 0
       /\ \E c \in payments : c.intent = payload[1] /\ c.transcript = payload[2]

DoneFor(ask) == ask.endpoint # "fulfil" /\ Done(RowKey(ask), Payload(ask))

(* The inductive invariant: a response is of work that is done from when   *)
(* it is to be stored, in its row, and in an answer.                       *)
DoneInv ==
  /\ \A r \in Slots : req[r].pc \in {"store", "write"} => DoneFor(req[r].ask)
  /\ \A x \in records : Done(x.key, x.payload)
  /\ \A a \in answers : a.status = "ok" => DoneFor(a.ask)

LEMMA DoneMeans ==
  ASSUME NEW ask \in Ask
  PROVE  /\ DoneFor(ask) <=> \/ ask.endpoint = "confirm" /\ ConsentDone(ask)
                             \/ ask.endpoint = "authorize" /\ PaymentDone(ask)
         /\ DoneFor(ask)' <=> \/ ask.endpoint = "confirm" /\ ConsentDone(ask)'
                              \/ ask.endpoint = "authorize" /\ PaymentDone(ask)'
<1>1. /\ RowKey(ask)[1] = ask.endpoint
      /\ Payload(ask)[1] = ask.intent
      /\ Payload(ask)[2] = IF ask.endpoint = "confirm" THEN Parsed(ask.transcript)
                                                       ELSE ask.transcript
  BY DEF RowKey, Payload
<1>2. ask.endpoint \in {"confirm", "authorize", "fulfil"}
  BY DEF Ask
<1>3. DoneFor(ask) <=> \/ ask.endpoint = "confirm" /\ ConsentDone(ask)
                       \/ ask.endpoint = "authorize" /\ PaymentDone(ask)
  BY <1>1, <1>2 DEF DoneFor, Done, ConsentDone, PaymentDone
<1>4. DoneFor(ask)' <=> \/ ask.endpoint = "confirm" /\ ConsentDone(ask)'
                        \/ ask.endpoint = "authorize" /\ PaymentDone(ask)'
  BY <1>1, <1>2 DEF DoneFor, Done, ConsentDone, PaymentDone
<1>5. QED
  BY <1>3, <1>4

(* A row that has an authorization keeps one.                              *)
AuthsStay == \A i \in Intents : intents[i].auth # 0 => intents'[i].auth # 0

LEMMA StateGrows ==
  ASSUME GatewayInv, FilledInv, [Next]_vars
  PROVE  Grows /\ AuthsStay
<1>0. OwnTypeOK /\ None \notin Transcripts
  BY GatewayConstants DEF GatewayInv
<1>1. payments \subseteq payments'
  BY MoneySteps DEF FulfilWrites
<1>2. ASSUME entries \subseteq entries', intents' = intents
      PROVE  Grows /\ AuthsStay
  BY <1>1, <1>2 DEF Grows, AuthsStay, Logged
<1>3. ASSUME entries' = entries, ColumnsStay
      PROVE  Grows /\ AuthsStay
  BY <1>1, <1>3 DEF Grows, AuthsStay, ColumnsStay, Logged
<1>4. ASSUME NEW r \in Slots,
             AppendCommit(r) \/ PspConfirms(r) \/ FulfilGets(r) \/ FulfilWrites(r)
      PROVE  Grows /\ AuthsStay
  BY <1>2, <1>4 DEF AppendCommit, Ledger!Commit, PspConfirms, FulfilGets, FulfilWrites, ledgerVars,
     orderVars
<1>5. ASSUME NEW r \in Slots, NEW i, i = req[r].ask.intent, NEW row, ~At(r, "free"),
             UpdateFields(i, row), Leave(r) \/ Respond(r), entries' = entries,
             row.transcript = None => intents[i].transcript = None,
             row.auth = 0 => intents[i].auth = 0
      PROVE  Grows /\ AuthsStay
  <2>1. UpdateFields(req[r].ask.intent, row)
    BY <1>5
  <2>2. /\ intents'[i] = row /\ \A j \in Intents \ {i} : intents'[j] = intents[j]
    BY <1>0, <1>5, <2>1, SetEffect
  <2>3. QED
    BY <1>1, <1>5, <2>2 DEF Grows, AuthsStay, Logged
<1>6. ASSUME NEW r \in Slots, ~At(r, "free")
      PROVE  /\ req[r].ask.transcript \in Transcripts \union {None}
             /\ intents[req[r].ask.intent] \in OrderIntent
  BY <1>0, <1>6, AskType DEF Ask, OwnTypeOK
<1>7. ASSUME NEW r \in Slots, SetTranscriptHash(r)
      PROVE  Grows /\ AuthsStay
  <2>1. PICK i : i = req[r].ask.intent
    OBVIOUS
  <2>2. PICK row : row = [intents[i] EXCEPT !.transcript = req[r].ask.transcript]
    OBVIOUS
  <2>3. /\ At(r, "set_hash") /\ UpdateFields(i, row) /\ Respond(r) /\ entries' = entries
    BY <1>7, <2>1, <2>2 DEF SetTranscriptHash, ledgerVars
  <2>4. req[r].ask.transcript \in Logged /\ Logged \subseteq Transcripts
    BY <2>3 DEF GatewayInv, FlowInv, RequestOK, At, Logged, LP!LinkInv, LP!LedgerTypeOK, LP!Entry
  <2>5. row.transcript # None /\ row.auth = intents[i].auth
    BY <1>0, <1>6, <2>1, <2>2, <2>3, <2>4 DEF OrderIntent, At
  <2>6. QED
    BY <1>5, <2>1, <2>3, <2>5 DEF At
<1>8. ASSUME NEW r \in Slots, SetAuthorization(r)
      PROVE  Grows /\ AuthsStay
  <2>1. PICK i : i = req[r].ask.intent
    OBVIOUS
  <2>2. PICK row : row = [intents[i] EXCEPT !.auth = req[r].body]
    OBVIOUS
  <2>3. /\ At(r, "set_auth") /\ UpdateFields(i, row) /\ Respond(r) /\ entries' = entries
    BY <1>8, <2>1, <2>2 DEF SetAuthorization, ledgerVars
  <2>4. row.transcript = intents[i].transcript /\ row.auth # 0
    BY <1>6, <2>1, <2>2, <2>3 DEF OrderIntent, At, FilledInv, FilledOK
  <2>5. QED
    BY <1>5, <2>1, <2>3, <2>4 DEF At
<1>9. ASSUME NEW r \in Slots, SetFulfilled(r)
      PROVE  Grows /\ AuthsStay
  <2>1. PICK i : i = req[r].ask.intent
    OBVIOUS
  <2>2. PICK row : row = [intents[i] EXCEPT !.fulfilled = TRUE]
    OBVIOUS
  <2>3. /\ At(r, "set_fulfilled") /\ UpdateFields(i, row) /\ Leave(r) /\ entries' = entries
    BY <1>9, <2>1, <2>2 DEF SetFulfilled, ledgerVars
  <2>4. row.transcript = intents[i].transcript /\ row.auth = intents[i].auth
    BY <1>6, <2>1, <2>2, <2>3 DEF OrderIntent, At
  <2>5. QED
    BY <1>5, <2>1, <2>3, <2>4 DEF At
<1>10. QED
  BY <1>0, <1>3, <1>4, <1>7, <1>8, <1>9, WriteTraffic

(* So what is done stays done.                                             *)
LEMMA DoneStays ==
  ASSUME Grows, AuthsStay, NEW key, NEW payload, payload[1] \in Intents, Done(key, payload)
  PROVE  Done(key, payload)'
  BY DEF Done, Grows, AuthsStay

LEMMA DoneForStays ==
  ASSUME Grows, AuthsStay, NEW ask, ask \in Ask, DoneFor(ask)
  PROVE  DoneFor(ask)'
<1>1. PICK k, p : k = RowKey(ask) /\ p = Payload(ask)
  OBVIOUS
<1>2. p[1] \in Intents /\ Done(k, p)
  BY <1>1 DEF Payload, Ask, DoneFor
<1>3. Done(k, p)'
  BY <1>2, DoneStays
<1>4. QED
  BY <1>1, <1>3 DEF DoneFor, RowKey, Payload

(* A request comes to store from its last write only.                      *)
LEMMA StoreTraffic ==
  ASSUME OwnTypeOK, [Next]_vars, NEW r \in Slots, req'[r].pc \in {"store", "write"}
  PROVE  \/ req'[r] = req[r]
         \/ /\ SetTranscriptHash(r) \/ SetAuthorization(r) \/ StoreSelect(r)
            /\ req'[r].ask = req[r].ask
<1> DEFINE Stays == req'[r] = req[r]
<1>1. ASSUME NEW s \in Slots, NEW pc, pc \notin {"store", "write"}, NEW ask, NEW body,
             Leave(s) \/ Goto(s, pc, ask, body)
      PROVE  Stays
  BY <1>1 DEF Leave, Goto, OwnTypeOK, Free
<1>2. ASSUME NEW s \in Slots, ConfirmRefused(s) \/ ConfirmReplayed(s) \/ ConfirmUnsigned(s)
      PROVE  Stays
  <2>1. Leave(s)
    BY <1>2 DEF ConfirmRefused, ConfirmReplayed, ConfirmUnsigned
  <2>2. QED
    BY <1>1, <2>1
<1>3. ASSUME NEW s \in Slots, ConfirmSigned(s) \/ AuthorizeRefused(s) \/ AuthorizeAllowed(s)
      PROVE  Stays
  <2>1. Leave(s) \/ (\E ask : Goto(s, "append", ask, 0)) \/ \E ask : Goto(s, "psp", ask, 0)
    BY <1>3 DEF ConfirmSigned, AuthorizeRefused, AuthorizeAllowed
  <2>2. QED
    BY <1>1, <2>1
<1>4. ASSUME NEW s \in Slots, CheckedNew(s) \/ AppendCommit(s) \/ PspConfirms(s)
      PROVE  Stays
  <2>1. \/ \E ask : Goto(s, "get", ask, 0)
        \/ \E body : Goto(s, "set_hash", req[s].ask, body)
        \/ \E body : Goto(s, "set_auth", req[s].ask, body)
    BY <1>4 DEF CheckedNew, AppendCommit, PspConfirms
  <2>2. QED
    BY <1>1, <2>1
<1>5. ASSUME NEW s \in Slots,
             \/ PspDeclines(s) \/ PspAnswerLost(s) \/ StoreWrite(s) \/ StoreClash(s)
             \/ FulfilExpired(s) \/ SetFulfilled(s) \/ Fail(s)
      PROVE  Stays
  <2>1. Leave(s)
    BY <1>5 DEF PspDeclines, PspAnswerLost, StoreWrite, StoreClash, FulfilExpired, SetFulfilled, Fail
  <2>2. QED
    BY <1>1, <2>1
<1>6. ASSUME NEW s \in Slots, FulfilGets(s) \/ FulfilWrites(s)
      PROVE  Stays
  <2>1. \/ \E ask, auth : Goto(s, "receipts", ask, auth)
        \/ Goto(s, "set_fulfilled", req[s].ask, req[s].body)
    BY <1>6 DEF FulfilGets, FulfilWrites
  <2>2. QED
    BY <1>1, <2>1
<1>7. ASSUME \/ \E s \in Slots : \/ CheckedCached(s) \/ CheckedConflict(s) \/ AppendSelect(s)
                                 \/ AppendFlush(s) \/ FulfilRefused(s)
             \/ \E i \in Intents : CreateIntent(i)
             \/ Tick
             \/ UNCHANGED vars
      PROVE  Stays
  BY <1>7 DEF CheckedCached, CheckedConflict, AppendSelect, AppendFlush, FulfilRefused, CreateIntent,
     Tick, vars
<1>8. ~Restart
  BY DEF Restart, Free
<1>9. ASSUME NEW s \in Slots, SetTranscriptHash(s) \/ SetAuthorization(s) \/ StoreSelect(s)
      PROVE  Stays \/ (s = r /\ req'[r].ask = req[r].ask)
  <2>1. PICK pc, ask, body : /\ ask = req[s].ask
                             /\ Leave(s) \/ Goto(s, pc, ask, body)
    BY <1>9 DEF SetTranscriptHash, SetAuthorization, StoreSelect, Respond
  <2>2. QED
    BY <2>1 DEF Leave, Goto, OwnTypeOK, Free
<1>10. QED
  BY <1>2, <1>3, <1>4, <1>5, <1>6, <1>7, <1>8, <1>9
     DEF Next, Handler, CheckExisting, Confirm, Authorize, Store, Fulfil

(* The last write of a handler completes its work.                         *)
LEMMA LastWriteCompletes ==
  ASSUME GatewayInv, FilledInv, Grows, NEW r \in Slots, SetTranscriptHash(r) \/ SetAuthorization(r),
         NEW ask, ask = req[r].ask
  PROVE  DoneFor(ask)'
<1>0. OwnTypeOK /\ None \notin Transcripts
  BY GatewayConstants DEF GatewayInv
<1>1. ~At(r, "free") /\ ask \in Ask
  <2>1. ~At(r, "free")
    BY DEF SetTranscriptHash, SetAuthorization, At
  <2>2. req[r].ask \in Ask
    BY <1>0, <2>1, AskType
  <2>3. QED
    BY <2>1, <2>2
<1>2. PICK i : i = ask.intent /\ i \in Intents
  BY <1>1 DEF Ask
<1>3. intents[i] \in OrderIntent
  BY <1>0, <1>2 DEF OwnTypeOK
<1>4. CASE SetTranscriptHash(r)
  <2>1. PICK row : row = [intents[i] EXCEPT !.transcript = ask.transcript]
    OBVIOUS
  <2>2. /\ At(r, "set_hash") /\ UpdateFields(ask.intent, row) /\ Respond(r)
    BY <1>2, <1>4, <2>1 DEF SetTranscriptHash
  <2>3. /\ ask.endpoint = "confirm" /\ Given(i, ask.transcript) /\ ask.transcript \in Logged
    BY <1>2, <2>2 DEF GatewayInv, FlowInv, RequestOK, At
  <2>4. ask.transcript # None
    BY <1>0, <2>3 DEF GatewayInv, Logged, LP!LinkInv, LP!LedgerTypeOK, LP!Entry
  <2>5. intents'[i] = row
    BY <1>0, <1>1, <1>2, <2>2, SetEffect
  <2>6. intents'[i].transcript # None
    BY <1>3, <2>1, <2>4, <2>5 DEF OrderIntent
  <2>7. ConsentDone(ask)'
    BY <1>2, <2>3, <2>6 DEF ConsentDone, Given, Grows
  <2>8. QED
    BY <1>1, <2>3, <2>7, DoneMeans
<1>5. CASE SetAuthorization(r)
  <2>1. PICK row : row = [intents[i] EXCEPT !.auth = req[r].body]
    OBVIOUS
  <2>2. /\ At(r, "set_auth") /\ UpdateFields(ask.intent, row) /\ Respond(r)
    BY <1>2, <1>5, <2>1 DEF SetAuthorization
  <2>3. /\ ask.endpoint = "authorize"
        /\ \E c \in payments : c.intent = i /\ c.transcript = ask.transcript
    BY <1>2, <2>2 DEF GatewayInv, FlowInv, RequestOK, At
  <2>4. req[r].body # 0
    BY <2>2 DEF FilledInv, FilledOK
  <2>5. intents'[i] = row
    BY <1>0, <1>1, <1>2, <2>2, SetEffect
  <2>6. intents'[i].auth # 0
    BY <1>3, <2>1, <2>4, <2>5 DEF OrderIntent
  <2>7. PaymentDone(ask)'
    BY <1>2, <2>3, <2>6 DEF PaymentDone, Grows
  <2>8. QED
    BY <1>1, <2>3, <2>7, DoneMeans
<1>6. QED
  BY <1>4, <1>5

LEMMA DoneStep ==
  ASSUME GatewayInv, FilledInv, RowsInv, DoneInv, [Next]_vars
  PROVE  DoneInv'
<1>0. OwnTypeOK /\ Grows /\ AuthsStay
  BY StateGrows DEF GatewayInv
<1>1. ASSUME NEW r \in Slots, req'[r].pc \in {"store", "write"}, NEW ask, ask = req'[r].ask
      PROVE  DoneFor(ask)'
  <2>1. CASE req'[r] = req[r]
    <3>1. ask = req[r].ask /\ ~At(r, "free") /\ DoneFor(req[r].ask)
      BY <1>1, <2>1 DEF DoneInv, At
    <3>2. req[r].ask \in Ask
      BY <1>0, <3>1, AskType
    <3>3. QED
      BY <1>0, <3>1, <3>2, DoneForStays
  <2>2. CASE ask = req[r].ask /\ (SetTranscriptHash(r) \/ SetAuthorization(r))
    BY <1>0, <2>2, LastWriteCompletes
  <2>3. CASE ask = req[r].ask /\ StoreSelect(r)
    <3>1. ~At(r, "free") /\ DoneFor(req[r].ask)
      BY <2>3 DEF StoreSelect, DoneInv, At
    <3>2. req[r].ask \in Ask
      BY <1>0, <3>1, AskType
    <3>3. QED
      BY <1>0, <2>3, <3>1, <3>2, DoneForStays
  <2>4. QED
    BY <1>0, <1>1, <2>1, <2>2, <2>3, StoreTraffic
<1>2. ASSUME NEW x \in records
      PROVE  Done(x.key, x.payload)'
  <2>1. x.payload[1] \in Intents
    BY <1>0 DEF OwnTypeOK, Idem!RecordsTypeOK, Idem!Record
  <2>2. PICK k, p : k = x.key /\ p = x.payload
    OBVIOUS
  <2>3. Done(k, p) /\ p[1] \in Intents
    BY <2>1, <2>2 DEF DoneInv
  <2>4. Done(k, p)'
    BY <1>0, <2>3, DoneStays
  <2>5. QED
    BY <2>2, <2>4
<1>3. ASSUME NEW a \in answers, a.status = "ok"
      PROVE  DoneFor(a.ask)'
  <2>1. PICK ask : ask = a.ask
    OBVIOUS
  <2>2. ask \in Ask /\ DoneFor(ask)
    BY <1>0, <1>3, <2>1 DEF DoneInv, OwnTypeOK, Answer
  <2>3. DoneFor(ask)'
    BY <1>0, <2>2, DoneForStays
  <2>4. QED
    BY <2>1, <2>3
<1>4. ASSUME NEW r \in Slots, StoreWrite(r)
      PROVE  /\ \A x \in records' : Done(x.key, x.payload)'
             /\ \A a \in answers' : a.status = "ok" => DoneFor(a.ask)'
  <2>1. PICK ask : ask = req[r].ask
    OBVIOUS
  <2>2. /\ At(r, "write") /\ Idem!Write(r) /\ Note(ask, "ok", req[r].body)
    BY <1>4, <2>1 DEF StoreWrite
  <2>3. ask \in Ask /\ DoneFor(ask)
    <3>1. ~At(r, "free") /\ DoneFor(req[r].ask)
      BY <2>2 DEF DoneInv, At
    <3>2. req[r].ask \in Ask
      BY <1>0, <3>1, AskType
    <3>3. QED
      BY <2>1, <3>1, <3>2
  <2>4. DoneFor(ask)'
    BY <1>0, <2>3, DoneForStays
  <2>5. PICK row : row = merge[r].row
    OBVIOUS
  <2>6. row.key = RowKey(ask) /\ row.payload = Payload(ask)
    <3>1. merge[r].row = RowOf(req[r].ask, req[r].body)
      BY <2>2 DEF RowsInv, SessionWrites, At
    <3>2. QED
      BY <2>1, <2>5, <3>1 DEF RowOf
  <2>7. Done(row.key, row.payload)'
    BY <2>4, <2>6 DEF DoneFor
  <2>8. ASSUME NEW x \in records'
        PROVE  x \in records \/ (x.key = row.key /\ x.payload = row.payload)
                 \/ \E current \in records : x.key = current.key /\ x.payload = current.payload
    <3>1. CASE Idem!Insert(r)
      BY <2>5, <2>8, <3>1 DEF Idem!Insert
    <3>2. CASE Idem!Update(r)
      <4>1. PICK loaded \in merge[r].loaded, current \in Idem!Find(row.key) :
              records' = (records \ {current}) \union {Idem!Updated(row, loaded, current)}
        BY <2>5, <3>2 DEF Idem!Update
      <4>2. current \in records /\ current.key = row.key /\ current \in Idem!Record
        BY <1>0 DEF Idem!Find, OwnTypeOK, Idem!RecordsTypeOK
      <4>3. PICK new : new = Idem!Updated(row, loaded, current)
        OBVIOUS
      <4>4. new.key = row.key /\ new.payload \in {row.payload, current.payload}
        BY <4>2, <4>3 DEF Idem!Updated, Idem!Record
      <4>5. QED
        BY <2>8, <4>1, <4>2, <4>3, <4>4
    <3>3. QED
      BY <2>2, <3>1, <3>2 DEF Idem!Write
  <2>9. ASSUME NEW x \in records'
        PROVE  Done(x.key, x.payload)'
    BY <1>2, <2>7, <2>8, <2>9
  <2>10. \A a \in answers' :
           a \in answers \/ a = [ask |-> ask, status |-> "ok", body |-> req[r].body]
    BY <2>2 DEF Note
  <2>11. QED
    BY <1>3, <2>4, <2>9, <2>10
<1>5. ASSUME NEW r \in Slots, CheckedCached(r)
      PROVE  /\ \A x \in records' : Done(x.key, x.payload)'
             /\ \A a \in answers' : a.status = "ok" => DoneFor(a.ask)'
  <2>1. PICK ask \in Keyed(r) :
          \E b \in Idem!Cached(RowKey(ask), Payload(ask)) : Note(ask, "ok", b)
    BY <1>5 DEF CheckedCached
  <2>2. PICK b \in Idem!Cached(RowKey(ask), Payload(ask)) : Note(ask, "ok", b)
    BY <2>1
  <2>3. PICK x \in records : x.key = RowKey(ask) /\ x.payload = Payload(ask)
    BY DEF Idem!Cached, Idem!Find
  <2>4. Done(x.key, x.payload)'
    BY <1>2
  <2>5. ask.endpoint # "fulfil"
    BY DEF Keyed
  <2>6. DoneFor(ask)'
    BY <2>3, <2>4, <2>5 DEF DoneFor
  <2>7. \A a \in answers' : a \in answers \/ a = [ask |-> ask, status |-> "ok", body |-> b]
    BY <2>2 DEF Note
  <2>8. records' = records
    BY <1>5 DEF CheckedCached, keyVars
  <2>9. QED
    BY <1>2, <1>3, <2>6, <2>7, <2>8
<1>6. ASSUME records' = records, \A a \in answers' : a.status = "ok" => a \in answers
      PROVE  /\ \A x \in records' : Done(x.key, x.payload)'
             /\ \A a \in answers' : a.status = "ok" => DoneFor(a.ask)'
  BY <1>2, <1>3, <1>6
<1>7. ASSUME NEW r \in Slots, StoreSelect(r) \/ StoreClash(r) \/ Fail(r)
      PROVE  UNCHANGED <<records, answers>>
  BY <1>7 DEF StoreSelect, StoreClash, Fail, Idem!Load, Idem!Clash
<1>8. Restart => UNCHANGED <<records, answers>>
  BY DEF Restart
<1>9. /\ \A x \in records' : Done(x.key, x.payload)'
      /\ \A a \in answers' : a.status = "ok" => DoneFor(a.ask)'
  BY <1>4, <1>5, <1>6, <1>7, <1>8, RowTraffic
<1>10. QED
  BY <1>1, <1>9 DEF DoneInv

(* An answer of 200 is of work that is done and stays done, whatever       *)
(* overlapped, failed or restarted.                                        *)
THEOREM AnswersAreOfWorkDone == Spec => []AnsweredIsDone
<1>1. Init => DoneInv
  BY DEF Init, Idem!RecordsInit, DoneInv, Free
<1>2. GatewayInv /\ FilledInv /\ RowsInv /\ DoneInv /\ [Next]_vars => DoneInv'
  BY DoneStep
<1>3. GatewayInv /\ DoneInv => AnsweredIsDone
  <2> SUFFICES ASSUME GatewayInv, DoneInv, NEW a \in answers, a.status = "ok"
               PROVE  IF a.ask.endpoint = "confirm" THEN ConsentDone(a.ask)
                                                    ELSE PaymentDone(a.ask)
    BY DEF AnsweredIsDone
  <2>1. a.ask \in Ask /\ DoneFor(a.ask)
    BY DEF GatewayInv, OwnTypeOK, Answer, DoneInv
  <2>2. QED
    BY <2>1, DoneMeans
<1>4. QED
  BY <1>1, <1>2, <1>3, GatewayInvariance, FilledInvariance, RowsInvariance, PTL DEF Spec

-----------------------------------------------------------------------------
(* The key of a request in flight has no row yet.                          *)
FlightOK(q, rows) == q.pc # "free" /\ q.ask.key # None => \A x \in rows : x.key # RowKey(q.ask)

(* A session of store is open only in a request that writes, for the row   *)
(* of its response, and it found no row of its key.                        *)
MergeOK(q, m) ==
  IF q.pc = "write" THEN m.step = "write" /\ m.loaded = {} /\ m.row = RowOf(q.ask, q.body)
                    ELSE m = Idem!NoMerge

(* The inductive invariant: so store only inserts, a key has one row, and  *)
(* a request was answered 200 with the body of the row of its key.         *)
KeysInv ==
  /\ \A r \in Slots : FlightOK(req[r], records)
  /\ \A r \in Slots : MergeOK(req[r], merge[r])
  /\ \A x, y \in records : x.key = y.key => x = y
  /\ \A a \in answers : a.status = "ok" => RowOf(a.ask, a.body) \in records

-----------------------------------------------------------------------------
LEMMA FreeFlight ==
  ASSUME NEW rows
  PROVE  FlightOK(Free, rows) /\ MergeOK(Free, Idem!NoMerge)
  BY DEF FlightOK, MergeOK, Free

(* A step that writes no row and answers no 200 keeps the invariant if it  *)
(* keeps it for its slot.                                                  *)
LEMMA KeySlotStep ==
  ASSUME KeysInv, NEW r \in Slots, records' = records,
         \A a \in answers' : a.status = "ok" => a \in answers,
         \A s \in Slots \ {r} : req'[s] = req[s] /\ merge'[s] = merge[s],
         FlightOK(req'[r], records), MergeOK(req'[r], merge'[r])
  PROVE  KeysInv'
<1>1. \A s \in Slots : FlightOK(req'[s], records') /\ MergeOK(req'[s], merge'[s])
  BY DEF KeysInv
<1>2. QED
  BY <1>1 DEF KeysInv

(* Where a request has no session, its slot may go where there is none.    *)
LEMMA KeyMove ==
  ASSUME OwnTypeOK, KeysInv, NEW r \in Slots, ~At(r, "write"), NEW q,
         req' = [req EXCEPT ![r] = q], q.pc # "write", FlightOK(q, records),
         UNCHANGED <<records, merge>>,
         \A a \in answers' : a.status = "ok" => a \in answers
  PROVE  KeysInv'
<1>1. /\ req'[r] = q
      /\ \A s \in Slots \ {r} : req'[s] = req[s] /\ merge'[s] = merge[s]
  BY DEF OwnTypeOK
<1>2. MergeOK(req'[r], merge'[r])
  BY <1>1 DEF KeysInv, MergeOK, At
<1>3. QED
  BY <1>1, <1>2, KeySlotStep

(* A slot leaves, and with it its session if it had one.                   *)
LEMMA KeyLeave ==
  ASSUME OwnTypeOK, KeysInv, NEW r \in Slots, Leave(r), records' = records,
         \/ ~At(r, "write") /\ merge' = merge
         \/ merge' = [merge EXCEPT ![r] = Idem!NoMerge],
         \A a \in answers' : a.status = "ok" => a \in answers
  PROVE  KeysInv'
<1>1. /\ req'[r] = Free /\ merge'[r] = Idem!NoMerge
      /\ \A s \in Slots \ {r} : req'[s] = req[s] /\ merge'[s] = merge[s]
  BY DEF OwnTypeOK, Idem!RecordsTypeOK, Leave, KeysInv, MergeOK, At
<1>2. FlightOK(req'[r], records) /\ MergeOK(req'[r], merge'[r])
  BY <1>1, FreeFlight
<1>3. QED
  BY <1>1, <1>2, KeySlotStep

(* What a slot may be asked next: a request past check_existing whose key  *)
(* has no row, or one without a key.                                       *)
LEMMA PendingFlight ==
  ASSUME KeysInv, NEW r \in Slots, NEW endpoint, NEW ask \in Pending(r, endpoint), NEW pc, NEW body
  PROVE  /\ FlightOK([pc |-> pc, ask |-> ask, body |-> body], records)
         /\ req[r].pc \in {"free", "get"}
<1>1. CASE req[r] = Free
  BY <1>1 DEF Pending, FlightOK, Free
<1>2. CASE req[r] # Free
  <2>1. ask = req[r].ask /\ req[r].pc = "get"
    BY <1>2 DEF Pending
  <2>2. QED
    BY <2>1 DEF KeysInv, FlightOK
<1>3. QED
  BY <1>1, <1>2

(* Going on with the same request, and responding.                         *)
LEMMA SameFlight ==
  ASSUME KeysInv, NEW r \in Slots, ~At(r, "free"), NEW pc, NEW body
  PROVE  FlightOK([pc |-> pc, ask |-> req[r].ask, body |-> body], records)
  BY DEF KeysInv, FlightOK, At

LEMMA RespondKeys ==
  ASSUME OwnTypeOK, KeysInv, NEW r \in Slots, ~At(r, "free"), ~At(r, "write"), Respond(r),
         UNCHANGED <<records, merge, answers>>
  PROVE  KeysInv'
<1>1. CASE req[r].ask.key = None
  BY <1>1, KeyLeave DEF Respond
<1>2. CASE req[r].ask.key # None
  <2> DEFINE q == [pc |-> "store", ask |-> req[r].ask, body |-> req[r].body]
  <2>1. req' = [req EXCEPT ![r] = q]
    BY <1>2 DEF Respond, Goto
  <2>2. q.pc # "write" /\ FlightOK(q, records)
    BY SameFlight
  <2> HIDE DEF q
  <2>3. QED
    BY <2>1, <2>2, KeyMove
<1>3. QED
  BY <1>1, <1>2

LEMMA CheckKeys ==
  ASSUME OwnTypeOK, KeysInv, NEW r \in Slots, CheckExisting(r)
  PROVE  KeysInv'
<1> USE DEF keyVars
<1>1. CASE CheckedNew(r)
  <2>1. PICK ask \in Keyed(r) : Idem!Unseen(RowKey(ask)) /\ Goto(r, "get", ask, 0)
    BY <1>1 DEF CheckedNew
  <2>2. FlightOK([pc |-> "get", ask |-> ask, body |-> 0], records)
    BY <2>1 DEF FlightOK, Idem!Unseen, Idem!Find
  <2>3. ~At(r, "write")
    BY DEF Keyed, At, Free
  <2>4. QED
    BY <1>1, <2>1, <2>2, <2>3, KeyMove DEF CheckedNew, Goto
<1>2. CASE CheckedCached(r)
  <2>1. PICK ask \in Keyed(r) :
          \E b \in Idem!Cached(RowKey(ask), Payload(ask)) : Note(ask, "ok", b)
    BY <1>2 DEF CheckedCached
  <2>2. PICK b \in Idem!Cached(RowKey(ask), Payload(ask)) : Note(ask, "ok", b)
    BY <2>1
  <2>3. RowOf(ask, b) \in records
    <3>1. PICK x \in records : x.key = RowKey(ask) /\ x.payload = Payload(ask) /\ x.body = b
      BY DEF Idem!Cached, Idem!Find
    <3>2. x = [key |-> x.key, payload |-> x.payload, body |-> x.body]
      BY DEF OwnTypeOK, Idem!RecordsTypeOK, Idem!Record
    <3>3. QED
      BY <3>1, <3>2 DEF RowOf
  <2>4. \A a \in answers' : a \in answers \/ a = [ask |-> ask, status |-> "ok", body |-> b]
    BY <2>2 DEF Note
  <2>5. UNCHANGED <<records, merge, req>>
    BY <1>2 DEF CheckedCached
  <2>6. QED
    BY <2>3, <2>4, <2>5 DEF KeysInv
<1>3. CASE CheckedConflict(r)
  BY <1>3 DEF CheckedConflict, vars, KeysInv
<1>4. QED
  BY <1>1, <1>2, <1>3 DEF CheckExisting

LEMMA ConfirmKeys ==
  ASSUME OwnTypeOK, KeysInv, NEW r \in Slots, Confirm(r)
  PROVE  KeysInv'
<1> USE DEF keyVars
<1>1. CASE ConfirmRefused(r) \/ ConfirmUnsigned(r)
  <2>1. Leave(r) /\ ~At(r, "write") /\ UNCHANGED <<records, merge, answers>>
    BY <1>1, PendingFlight DEF ConfirmRefused, ConfirmUnsigned, At
  <2>2. QED
    BY <2>1, KeyLeave
<1>2. CASE ConfirmReplayed(r)
  <2>1. PICK ask \in Pending(r, "confirm") : Note(ask, "replay", 0) /\ Leave(r)
    BY <1>2 DEF ConfirmReplayed
  <2>2. ~At(r, "write") /\ UNCHANGED <<records, merge>>
    BY <1>2, PendingFlight DEF ConfirmReplayed, At
  <2>3. \A a \in answers' : a.status = "ok" => a \in answers
    BY <2>1 DEF Note
  <2>4. QED
    BY <2>1, <2>2, <2>3, KeyLeave
<1>3. CASE ConfirmSigned(r)
  <2>1. PICK ask \in Pending(r, "confirm") : Goto(r, "append", ask, 0)
    BY <1>3 DEF ConfirmSigned
  <2>2. ~At(r, "write") /\ FlightOK([pc |-> "append", ask |-> ask, body |-> 0], records)
    BY PendingFlight DEF At
  <2>3. QED
    BY <1>3, <2>1, <2>2, KeyMove DEF ConfirmSigned, Goto
<1>4. CASE AppendSelect(r) \/ AppendFlush(r)
  BY <1>4 DEF AppendSelect, AppendFlush, KeysInv
<1>5. CASE AppendCommit(r)
  <2> DEFINE q == [pc |-> "set_hash", ask |-> req[r].ask, body |-> append[r].row.created_at]
  <2>1. /\ At(r, "append") /\ req' = [req EXCEPT ![r] = q]
        /\ UNCHANGED <<records, merge, answers>>
    BY <1>5 DEF AppendCommit, Goto
  <2>2. ~At(r, "write") /\ FlightOK(q, records)
    BY <2>1, SameFlight DEF At
  <2>3. QED
    BY <2>1, <2>2, KeyMove
<1>6. CASE SetTranscriptHash(r)
  BY <1>6, RespondKeys DEF SetTranscriptHash, At
<1>7. QED
  BY <1>1, <1>2, <1>3, <1>4, <1>5, <1>6 DEF Confirm

LEMMA AuthorizeKeys ==
  ASSUME OwnTypeOK, KeysInv, NEW r \in Slots, Authorize(r)
  PROVE  KeysInv'
<1> USE DEF keyVars
<1>1. CASE AuthorizeRefused(r)
  <2>1. Leave(r) /\ ~At(r, "write") /\ UNCHANGED <<records, merge, answers>>
    BY <1>1, PendingFlight DEF AuthorizeRefused, At
  <2>2. QED
    BY <2>1, KeyLeave
<1>2. CASE AuthorizeAllowed(r)
  <2>1. PICK ask \in Pending(r, "authorize") : Goto(r, "psp", ask, 0)
    BY <1>2 DEF AuthorizeAllowed
  <2>2. ~At(r, "write") /\ FlightOK([pc |-> "psp", ask |-> ask, body |-> 0], records)
    BY PendingFlight DEF At
  <2>3. QED
    BY <1>2, <2>1, <2>2, KeyMove DEF AuthorizeAllowed, Goto
<1>3. CASE PspConfirms(r)
  <2> DEFINE q == [pc |-> "set_auth", ask |-> req[r].ask, body |-> issued + 1]
  <2>1. /\ At(r, "psp") /\ req' = [req EXCEPT ![r] = q]
        /\ UNCHANGED <<records, merge, answers>>
    BY <1>3 DEF PspConfirms, Goto
  <2>2. ~At(r, "write") /\ FlightOK(q, records)
    BY <2>1, SameFlight DEF At
  <2>3. QED
    BY <2>1, <2>2, KeyMove
<1>4. CASE PspDeclines(r) \/ PspAnswerLost(r)
  BY <1>4, KeyLeave DEF PspDeclines, PspAnswerLost, At
<1>5. CASE SetAuthorization(r)
  BY <1>5, RespondKeys DEF SetAuthorization, At
<1>6. QED
  BY <1>1, <1>2, <1>3, <1>4, <1>5 DEF Authorize

(* What a commit of store does for a request whose key has no row.         *)
LEMMA WriteInserts ==
  ASSUME OwnTypeOK, KeysInv, NEW r \in Slots, StoreWrite(r)
  PROVE  /\ records' = records \union {RowOf(req[r].ask, req[r].body)}
         /\ merge' = [merge EXCEPT ![r] = Idem!NoMerge]
  BY DEF StoreWrite, Idem!Write, Idem!Insert, Idem!Update, KeysInv, MergeOK, At

LEMMA StoreKeys ==
  ASSUME GatewayInv, KeysInv, OneRequestPerKey, NEW r \in Slots, Store(r)
  PROVE  KeysInv'
<1>0. OwnTypeOK
  BY DEF GatewayInv
<1>1. CASE StoreSelect(r)
  <2> DEFINE q == [pc |-> "write", ask |-> req[r].ask, body |-> req[r].body]
             row == RowOf(req[r].ask, req[r].body)
  <2>1. /\ At(r, "store")
        /\ merge' = [merge EXCEPT ![r] =
             [step |-> "write", row |-> row, loaded |-> Idem!Find(row.key)]]
        /\ req' = [req EXCEPT ![r] = q]
        /\ UNCHANGED <<records, answers>>
    BY <1>1 DEF StoreSelect, Idem!Load, RowOf, Goto
  <2>2. req[r].ask.key # None
    BY <2>1 DEF GatewayInv, FlowInv, RequestOK, At
  <2>3. Idem!Find(row.key) = {}
    BY <2>1, <2>2 DEF KeysInv, FlightOK, RowOf, Idem!Find, At
  <2>4. /\ req'[r] = q
        /\ merge'[r] = [step |-> "write", row |-> row, loaded |-> {}]
        /\ \A s \in Slots \ {r} : req'[s] = req[s] /\ merge'[s] = merge[s]
    BY <1>0, <2>1, <2>3 DEF OwnTypeOK, Idem!RecordsTypeOK
  <2>5. FlightOK(q, records)
    BY <2>1, SameFlight DEF At
  <2>6. MergeOK(req'[r], merge'[r])
    BY <2>4 DEF MergeOK
  <2>7. QED
    BY <2>1, <2>4, <2>5, <2>6, KeySlotStep
<1>2. CASE StoreWrite(r)
  <2> DEFINE row == RowOf(req[r].ask, req[r].body)
  <2>1. records' = records \union {row} /\ merge' = [merge EXCEPT ![r] = Idem!NoMerge]
    BY <1>0, <1>2, WriteInserts
  <2>2. At(r, "write") /\ Leave(r) /\ Note(req[r].ask, "ok", req[r].body)
    BY <1>2 DEF StoreWrite
  <2>3. req[r].ask.key # None
    BY <2>2 DEF GatewayInv, FlowInv, RequestOK, At
  <2>4. \A x \in records : x.key # row.key
    BY <2>2, <2>3 DEF KeysInv, FlightOK, RowOf, At
  <2>5. /\ req'[r] = Free /\ merge'[r] = Idem!NoMerge
        /\ \A s \in Slots \ {r} : req'[s] = req[s] /\ merge'[s] = merge[s]
    BY <1>0, <2>1, <2>2 DEF OwnTypeOK, Idem!RecordsTypeOK, Leave
  <2>6. ASSUME NEW s \in Slots
        PROVE  FlightOK(req'[s], records') /\ MergeOK(req'[s], merge'[s])
    <3>1. CASE s = r
      BY <2>5, <3>1, FreeFlight
    <3>2. CASE s # r
      <4>1. req'[s] = req[s] /\ merge'[s] = merge[s]
        BY <2>5, <3>2
      <4>2. req[s].pc # "free" => req[s].ask.key # req[r].ask.key
        BY <2>2, <2>3, <3>2 DEF OneRequestPerKey, At
      <4>3. req[s].pc # "free" => RowKey(req[s].ask) # row.key
        BY <4>2 DEF RowKey, RowOf
      <4>4. QED
        BY <2>1, <4>1, <4>3 DEF KeysInv, FlightOK
    <3>3. QED
      BY <3>1, <3>2
  <2>7. \A x, y \in records' : x.key = y.key => x = y
    BY <2>1, <2>4 DEF KeysInv
  <2>8. \A a \in answers' :
          a \in answers \/ a = [ask |-> req[r].ask, status |-> "ok", body |-> req[r].body]
    BY <2>2 DEF Note
  <2>9. \A a \in answers' : a.status = "ok" => RowOf(a.ask, a.body) \in records'
    BY <2>1, <2>8 DEF KeysInv
  <2>10. QED
    BY <2>6, <2>7, <2>9 DEF KeysInv
<1>3. CASE StoreClash(r)
  BY <1>0, <1>3, KeyLeave DEF StoreClash, Idem!Clash
<1>4. QED
  BY <1>1, <1>2, <1>3 DEF Store

LEMMA FulfilKeys ==
  ASSUME OwnTypeOK, KeysInv, NEW r \in Slots, Fulfil(r)
  PROVE  KeysInv'
<1> USE DEF keyVars
<1>1. CASE FulfilRefused(r)
  BY <1>1 DEF FulfilRefused, vars, KeysInv
<1>2. CASE FulfilGets(r)
  <2>1. PICK ask, auth : Goto(r, "receipts", ask, auth) /\ ask.key = None
    BY <1>2 DEF FulfilGets
  <2>2. ~At(r, "write") /\ UNCHANGED <<records, merge, answers>>
    BY <1>2 DEF FulfilGets, At, Free
  <2>3. FlightOK([pc |-> "receipts", ask |-> ask, body |-> auth], records)
    BY <2>1 DEF FlightOK
  <2>4. QED
    BY <2>1, <2>2, <2>3, KeyMove DEF Goto
<1>3. CASE FulfilWrites(r)
  <2> DEFINE q == [pc |-> "set_fulfilled", ask |-> req[r].ask, body |-> req[r].body]
  <2>1. /\ At(r, "receipts") /\ req' = [req EXCEPT ![r] = q]
        /\ UNCHANGED <<records, merge, answers>>
    BY <1>3 DEF FulfilWrites, Goto
  <2>2. ~At(r, "write") /\ FlightOK(q, records)
    BY <2>1, SameFlight DEF At
  <2>3. QED
    BY <2>1, <2>2, KeyMove
<1>4. CASE FulfilExpired(r) \/ SetFulfilled(r)
  BY <1>4, KeyLeave DEF FulfilExpired, SetFulfilled, At
<1>5. QED
  BY <1>1, <1>2, <1>3, <1>4 DEF Fulfil

LEMMA KeysStep ==
  ASSUME GatewayInv, KeysInv, OneRequestPerKey, [Next]_vars
  PROVE  KeysInv'
<1> USE DEF keyVars
<1>0. OwnTypeOK
  BY DEF GatewayInv
<1>1. ASSUME NEW r \in Slots, Fail(r)
      PROVE  KeysInv'
  BY <1>0, <1>1, KeyLeave DEF Fail
<1>2. CASE Restart
  <2>1. /\ \A s \in Slots : req'[s] = Free /\ merge'[s] = Idem!NoMerge
        /\ UNCHANGED <<records, answers>>
    BY <1>2 DEF Restart
  <2>2. \A s \in Slots : FlightOK(req'[s], records') /\ MergeOK(req'[s], merge'[s])
    BY <2>1, FreeFlight
  <2>3. QED
    BY <2>1, <2>2 DEF KeysInv
<1>3. CASE Tick \/ (\E i \in Intents : CreateIntent(i)) \/ UNCHANGED vars
  BY <1>3 DEF Tick, CreateIntent, vars, KeysInv
<1>4. QED
  BY <1>0, <1>1, <1>2, <1>3, CheckKeys, ConfirmKeys, AuthorizeKeys, StoreKeys, FulfilKeys
     DEF Next, Handler

LEMMA KeysInit == Init => KeysInv
  BY FreeFlight DEF Init, Idem!RecordsInit, KeysInv

LEMMA KeysInvariance == Spec /\ []OneRequestPerKey => []KeysInv
<1>1. GatewayInv /\ KeysInv /\ OneRequestPerKey /\ [Next]_vars => KeysInv'
  BY KeysStep
<1>2. QED
  BY <1>1, KeysInit, GatewayInvariance, PTL DEF Spec

(* The requests of one key of such clients that are answered 200 are alike *)
(* as parsed, and are answered the same.                                   *)
THEOREM AnswersOfAKeyAgree == Spec => AnswersAgree
<1>1. GatewayInv /\ KeysInv =>
        \A a, b \in answers :
          RowKey(a.ask) = RowKey(b.ask) /\ a.status = "ok" /\ b.status = "ok"
            => Alike(a.ask, b.ask) /\ a.body = b.body
  <2> SUFFICES ASSUME GatewayInv, KeysInv, NEW a \in answers, NEW b \in answers,
                      RowKey(a.ask) = RowKey(b.ask), a.status = "ok", b.status = "ok"
               PROVE  Alike(a.ask, b.ask) /\ a.body = b.body
    OBVIOUS
  <2>1. RowOf(a.ask, a.body) = RowOf(b.ask, b.body)
    BY DEF KeysInv, RowOf
  <2>2. a.body = b.body /\ RowKey(a.ask) = RowKey(b.ask) /\ Payload(a.ask) = Payload(b.ask)
    BY <2>1 DEF RowOf
  <2>3. a.ask.endpoint = b.ask.endpoint
    BY DEF RowKey
  <2>4. /\ a.ask.intent = b.ask.intent /\ a.ask.rest = b.ask.rest
        /\ \/ Parsed(a.ask.transcript) = Parsed(b.ask.transcript)
           \/ a.ask.transcript = b.ask.transcript
    BY <2>2, <2>3 DEF Payload
  <2>5. QED
    BY <2>2, <2>4 DEF Alike
<1>2. QED
  BY <1>1, KeysInvariance, GatewayInvariance, PTL DEF AnswersAgree

-----------------------------------------------------------------------------
(* Slot r serves a request with key k that the PSP has confirmed for.      *)
PaidAt(q, k) == /\ q.pc \in {"set_auth", "store", "write"}
                /\ q.ask.endpoint = "authorize" /\ q.ask.key = k

(* A key that was paid with is in flight past the PSP or has its row.      *)
Settled(k) == \/ \E x \in records : x.key = <<"authorize", k>>
              \/ \E r \in Slots : PaidAt(req[r], k)

PaidOnceInv ==
  /\ \A c \in payments : c.key # None => Settled(c.key)
  /\ \A c, d \in payments : c.key = d.key /\ c.key # None => c = d

(* What is settled stays so: a row is for ever, and a request past the PSP *)
(* leaves it as a row.                                                     *)
LEMMA SettledSlot ==
  ASSUME records \subseteq records', NEW r \in Slots,
         \A s \in Slots \ {r} : req'[s] = req[s],
         \A k : k # None /\ PaidAt(req[r], k) =>
                 PaidAt(req'[r], k) \/ \E x \in records' : x.key = <<"authorize", k>>
  PROVE  \A k : k # None /\ Settled(k) => Settled(k)'
  BY DEF Settled

(* Every step but the PSP's leaves the payments alone and the settled      *)
(* settled, where awaits return and no process dies.                       *)
LEMMA SettledStep ==
  ASSUME ~MayFail, ~MayRestart, GatewayInv, KeysInv, [Next]_vars
  PROVE  /\ \A k : k # None /\ Settled(k) => Settled(k)'
         /\ payments' = payments \/ \E r \in Slots : PspConfirms(r)
<1> USE DEF keyVars, orderVars
<1>0. OwnTypeOK
  BY DEF GatewayInv
<1>1. ASSUME records' = records, NEW r \in Slots, NEW q, req' = [req EXCEPT ![r] = q],
             req[r].pc \notin {"set_auth", "store", "write"}
      PROVE  \A k : k # None /\ Settled(k) => Settled(k)'
  <2>1. \A s \in Slots \ {r} : req'[s] = req[s]
    BY <1>0, <1>1 DEF OwnTypeOK
  <2>2. \A k : ~PaidAt(req[r], k)
    BY <1>1 DEF PaidAt
  <2>3. QED
    BY <1>1, <2>1, <2>2, SettledSlot
<1>2. ASSUME records' = records, req' = req
      PROVE  \A k : k # None /\ Settled(k) => Settled(k)'
  BY <1>2 DEF Settled
<1>3. ASSUME NEW r \in Slots, CheckExisting(r)
      PROVE  (\A k : k # None /\ Settled(k) => Settled(k)') /\ payments' = payments
  <2>1. CASE CheckedNew(r)
    <3>1. PICK ask \in Keyed(r) : Goto(r, "get", ask, 0)
      BY <2>1 DEF CheckedNew
    <3>2. req[r].pc = "free"
      BY DEF Keyed, Free
    <3>3. QED
      BY <1>1, <2>1, <3>1, <3>2 DEF CheckedNew, Goto
  <2>2. CASE CheckedCached(r) \/ CheckedConflict(r)
    BY <1>2, <2>2 DEF CheckedCached, CheckedConflict, vars
  <2>3. QED
    BY <1>3, <2>1, <2>2 DEF CheckExisting
<1>4. ASSUME NEW r \in Slots, NEW endpoint, NEW ask \in Pending(r, endpoint), NEW q,
             req' = [req EXCEPT ![r] = q], records' = records
      PROVE  \A k : k # None /\ Settled(k) => Settled(k)'
  <2>1. req[r].pc \in {"free", "get"}
    BY <1>4, PendingFlight
  <2>2. QED
    BY <1>1, <1>4, <2>1
<1>5. ASSUME NEW r \in Slots,
             \/ ConfirmRefused(r) \/ ConfirmReplayed(r) \/ ConfirmUnsigned(r)
             \/ ConfirmSigned(r) \/ AuthorizeRefused(r) \/ AuthorizeAllowed(r)
      PROVE  (\A k : k # None /\ Settled(k) => Settled(k)') /\ payments' = payments
  <2>1. PICK endpoint : \E ask \in Pending(r, endpoint) : \E q : req' = [req EXCEPT ![r] = q]
    BY <1>5 DEF ConfirmRefused, ConfirmReplayed, ConfirmUnsigned, ConfirmSigned,
       AuthorizeRefused, AuthorizeAllowed, Leave, Goto
  <2>2. UNCHANGED <<records, payments>>
    BY <1>5 DEF ConfirmRefused, ConfirmReplayed, ConfirmUnsigned, ConfirmSigned,
       AuthorizeRefused, AuthorizeAllowed
  <2>3. QED
    BY <1>4, <2>1, <2>2
<1>6. ASSUME NEW r \in Slots,
             \/ AppendCommit(r) \/ PspConfirms(r) \/ PspDeclines(r)
             \/ FulfilGets(r) \/ FulfilExpired(r) \/ FulfilWrites(r) \/ SetFulfilled(r)
      PROVE  /\ \A k : k # None /\ Settled(k) => Settled(k)'
             /\ payments' = payments \/ PspConfirms(r)
  <2>1. /\ req[r].pc \notin {"set_auth", "store", "write"}
        /\ \E q : req' = [req EXCEPT ![r] = q]
        /\ records' = records
        /\ payments' = payments \/ PspConfirms(r)
    BY <1>6 DEF AppendCommit, PspConfirms, PspDeclines, FulfilGets, FulfilExpired, FulfilWrites,
       SetFulfilled, At, Free, Leave, Goto
  <2>2. QED
    BY <1>1, <2>1
<1>7. ASSUME NEW r \in Slots,
             AppendSelect(r) \/ AppendFlush(r) \/ FulfilRefused(r)
      PROVE  (\A k : k # None /\ Settled(k) => Settled(k)') /\ payments' = payments
  BY <1>2, <1>7 DEF AppendSelect, AppendFlush, FulfilRefused, vars
<1>8. ASSUME NEW r \in Slots, SetTranscriptHash(r) \/ SetAuthorization(r)
      PROVE  (\A k : k # None /\ Settled(k) => Settled(k)') /\ payments' = payments
  <2>1. /\ Respond(r) /\ UNCHANGED <<records, payments>>
        /\ req[r].pc \in {"set_hash", "set_auth"}
    BY <1>8 DEF SetTranscriptHash, SetAuthorization, At
  <2>2. CASE req[r].ask.key = None
    <3>1. \A s \in Slots \ {r} : req'[s] = req[s]
      BY <1>0, <2>1, <2>2 DEF Respond, Leave, OwnTypeOK
    <3>2. \A k : k # None => ~PaidAt(req[r], k)
      BY <2>2 DEF PaidAt
    <3>3. QED
      BY <2>1, <3>1, <3>2, SettledSlot
  <2>3. CASE req[r].ask.key # None
    <3>1. /\ req'[r] = [pc |-> "store", ask |-> req[r].ask, body |-> req[r].body]
          /\ \A s \in Slots \ {r} : req'[s] = req[s]
      BY <1>0, <2>1, <2>3 DEF Respond, Goto, OwnTypeOK
    <3>2. \A k : PaidAt(req[r], k) => PaidAt(req'[r], k)
      BY <3>1 DEF PaidAt
    <3>3. QED
      BY <2>1, <3>1, <3>2, SettledSlot
  <2>4. QED
    BY <2>2, <2>3
<1>9. ASSUME NEW r \in Slots, StoreSelect(r)
      PROVE  (\A k : k # None /\ Settled(k) => Settled(k)') /\ payments' = payments
  <2>1. /\ req'[r] = [pc |-> "write", ask |-> req[r].ask, body |-> req[r].body]
        /\ \A s \in Slots \ {r} : req'[s] = req[s]
        /\ UNCHANGED <<records, payments>>
    BY <1>0, <1>9 DEF StoreSelect, Idem!Load, Goto, OwnTypeOK
  <2>2. \A k : PaidAt(req[r], k) => PaidAt(req'[r], k)
    BY <2>1 DEF PaidAt
  <2>3. QED
    BY <2>1, <2>2, SettledSlot
<1>10. ASSUME NEW r \in Slots, StoreWrite(r)
       PROVE  (\A k : k # None /\ Settled(k) => Settled(k)') /\ payments' = payments
  <2>1. /\ records' = records \union {RowOf(req[r].ask, req[r].body)}
        /\ \A s \in Slots \ {r} : req'[s] = req[s]
        /\ payments' = payments
    BY <1>0, <1>10, WriteInserts DEF StoreWrite, Leave, OwnTypeOK
  <2>2. \A k : PaidAt(req[r], k) => \E x \in records' : x.key = <<"authorize", k>>
    <3>1. RowOf(req[r].ask, req[r].body).key = <<req[r].ask.endpoint, req[r].ask.key>>
      BY DEF RowOf, RowKey
    <3>2. RowOf(req[r].ask, req[r].body) \in records'
      BY <2>1
    <3>3. QED
      BY <3>1, <3>2 DEF PaidAt
  <2>3. QED
    BY <2>1, <2>2, SettledSlot
<1>11. ASSUME NEW r \in Slots
       PROVE  ~StoreClash(r)
  <2> SUFFICES ASSUME StoreClash(r)
               PROVE  FALSE
    OBVIOUS
  <2>1. At(r, "write") /\ \E x \in records : x.key = merge[r].row.key
    BY DEF StoreClash, Idem!Clash, Idem!Unseen, Idem!Find
  <2>2. merge[r].row.key = RowKey(req[r].ask)
    <3>1. merge[r].row = RowOf(req[r].ask, req[r].body)
      BY <2>1 DEF KeysInv, MergeOK, At
    <3>2. QED
      BY <3>1 DEF RowOf
  <2>3. req[r].ask.key # None
    BY <2>1 DEF GatewayInv, FlowInv, RequestOK, At
  <2>4. QED
    BY <2>1, <2>2, <2>3 DEF KeysInv, FlightOK, At
<1>12. ASSUME NEW r \in Slots
       PROVE  ~Fail(r) /\ ~PspAnswerLost(r) /\ ~Restart
  BY DEF Fail, PspAnswerLost, Restart
<1>13. ASSUME Tick \/ (\E i \in Intents : CreateIntent(i)) \/ UNCHANGED vars
       PROVE  (\A k : k # None /\ Settled(k) => Settled(k)') /\ payments' = payments
  BY <1>2, <1>13 DEF Tick, CreateIntent, vars
<1>14. ~Restart
  BY DEF Restart
<1>15. QED
  BY <1>3, <1>5, <1>6, <1>7, <1>8, <1>9, <1>10, <1>11, <1>12, <1>13, <1>14
     DEF Next, Handler, Confirm, Authorize, Store, Fulfil

LEMMA PaidOnceStep ==
  ASSUME ~MayFail, ~MayRestart, GatewayInv, KeysInv, OneRequestPerKey, PaidOnceInv, [Next]_vars
  PROVE  PaidOnceInv'
<1>0. OwnTypeOK /\ \A k : k # None /\ Settled(k) => Settled(k)'
  BY SettledStep DEF GatewayInv
<1>1. CASE payments' = payments
  BY <1>0, <1>1 DEF PaidOnceInv
<1>2. ASSUME NEW r \in Slots, PspConfirms(r)
      PROVE  PaidOnceInv'
  <2> DEFINE k == req[r].ask.key
  <2>1. PICK captured \in BOOLEAN :
          payments' = payments \union {PaymentOf(req[r].ask, issued + 1, issued + 1, captured)}
    BY <1>2 DEF PspConfirms
  <2> DEFINE p == PaymentOf(req[r].ask, issued + 1, issued + 1, captured)
  <2>2. p.key = k /\ At(r, "psp")
    BY <1>2 DEF PaymentOf, PspConfirms
  <2>3. req[r].ask.endpoint = "authorize"
    BY <2>2 DEF GatewayInv, FlowInv, RequestOK, At
  <2>4. k # None => ~Settled(k)
    <3>1. k # None => \A x \in records : x.key # <<"authorize", k>>
      BY <2>2, <2>3 DEF KeysInv, FlightOK, RowKey, At
    <3>2. k # None => \A s \in Slots : ~PaidAt(req[s], k)
      BY <2>2 DEF OneRequestPerKey, PaidAt, At
    <3>3. QED
      BY <3>1, <3>2 DEF Settled
  <2>5. k # None => \A c \in payments : c.key # k
    BY <2>4 DEF PaidOnceInv
  <2>6. req'[r] = [pc |-> "set_auth", ask |-> req[r].ask, body |-> issued + 1]
    BY <1>0, <1>2 DEF PspConfirms, Goto, OwnTypeOK
  <2>7. ASSUME NEW j, j = k
        PROVE  Settled(j)'
    <3>1. PaidAt(req'[r], j)
      BY <2>3, <2>6, <2>7 DEF PaidAt
    <3>2. QED
      BY <3>1 DEF Settled
  <2>8. ASSUME NEW c \in payments', c.key # None
        PROVE  Settled(c.key)'
    <3>1. CASE c \in payments
      BY <1>0, <2>8, <3>1 DEF PaidOnceInv
    <3>2. CASE c = p
      BY <2>2, <2>7, <3>2
    <3>3. QED
      BY <2>1, <3>1, <3>2
  <2>9. \A c, d \in payments' : c.key = d.key /\ c.key # None => c = d
    BY <2>1, <2>2, <2>5 DEF PaidOnceInv
  <2>10. QED
    BY <2>8, <2>9 DEF PaidOnceInv
<1>3. QED
  BY <1>1, <1>2, SettledStep

(* Where awaits return and no process dies, the requests of such clients   *)
(* that carry one key make the PSP confirm once.                           *)
THEOREM PaysOncePerKey ==
  ASSUME ~MayFail, ~MayRestart
  PROVE  Spec => OnePaymentPerKey
<1>1. Init => PaidOnceInv
  BY DEF Init, PaidOnceInv
<1>2. GatewayInv /\ KeysInv /\ OneRequestPerKey /\ PaidOnceInv /\ [Next]_vars => PaidOnceInv'
  BY PaidOnceStep
<1>3. PaidOnceInv => \A c, d \in payments : c.key = d.key /\ c.key # None => c = d
  BY DEF PaidOnceInv
<1>4. QED
  BY <1>1, <1>2, <1>3, KeysInvariance, GatewayInvariance, PTL DEF Spec, OnePaymentPerKey

-----------------------------------------------------------------------------
(* Slot r has read the row of i and is to write receipts of it; or it has  *)
(* written them and is to tell the row.                                    *)
Reads(r, i) == At(r, "receipts") /\ req[r].ask.intent = i
Marks(r, i) == At(r, "set_fulfilled") /\ req[r].ask.intent = i

(* An order with receipts is fulfilled, or about to be, and one whose row  *)
(* was read for its receipts is not fulfilled.                             *)
FulfilInv ==
  \A i \in Intents :
    /\ Len(files[i]) <= 1
    /\ files[i] # << >> => intents[i].fulfilled \/ \E r \in Slots : Marks(r, i)
    /\ \A r \in Slots : Reads(r, i) => ~intents[i].fulfilled

(* What the steps do to that, where awaits return and no process dies: all *)
(* but those of /fulfil leave it alone.                                    *)
LEMMA FulfilTraffic ==
  ASSUME ~MayFail, ~MayRestart, OwnTypeOK, [Next]_vars
  PROVE  \/ \E r \in Slots : FulfilGets(r) \/ FulfilWrites(r) \/ SetFulfilled(r)
         \/ /\ files' = files
            /\ \A i \in Intents : intents'[i].fulfilled = intents[i].fulfilled
            /\ \A r \in Slots : At(r, "set_fulfilled") => req'[r] = req[r]
            /\ \A r \in Slots : At(r, "receipts")' => req'[r] = req[r]
<1> USE DEF orderVars
<1> DEFINE RowsStay == files' = files
                       /\ \A i \in Intents : intents'[i].fulfilled = intents[i].fulfilled
           SlotsStay == /\ \A r \in Slots : At(r, "set_fulfilled") => req'[r] = req[r]
                        /\ \A r \in Slots : At(r, "receipts")' => req'[r] = req[r]
<1>1. ASSUME NEW r \in Slots, ~At(r, "set_fulfilled"), NEW pc, pc # "receipts",
             NEW ask, NEW body, Leave(r) \/ Goto(r, pc, ask, body)
      PROVE  SlotsStay
  BY <1>1 DEF OwnTypeOK, At, Leave, Goto, Free
<1>2. ASSUME NEW r \in Slots,
             \/ ConfirmRefused(r) \/ ConfirmReplayed(r) \/ ConfirmUnsigned(r)
             \/ ConfirmSigned(r) \/ AuthorizeRefused(r) \/ AuthorizeAllowed(r)
      PROVE  RowsStay /\ SlotsStay
  <2>1. \E endpoint : \E ask \in Pending(r, endpoint) : \E pc :
          pc # "receipts" /\ \E body : Leave(r) \/ Goto(r, pc, ask, body)
    <3>1. CASE ConfirmRefused(r) \/ ConfirmReplayed(r) \/ ConfirmUnsigned(r)
      BY <3>1 DEF ConfirmRefused, ConfirmReplayed, ConfirmUnsigned
    <3>2. CASE ConfirmSigned(r)
      BY <3>2 DEF ConfirmSigned
    <3>3. CASE AuthorizeRefused(r) \/ AuthorizeAllowed(r)
      BY <3>3 DEF AuthorizeRefused, AuthorizeAllowed
    <3>4. QED
      BY <1>2, <3>1, <3>2, <3>3
  <2>2. ~At(r, "set_fulfilled")
    BY <2>1, PendingPc DEF At
  <2>3. UNCHANGED <<intents, files>>
    BY <1>2 DEF ConfirmRefused, ConfirmReplayed, ConfirmUnsigned, ConfirmSigned,
       AuthorizeRefused, AuthorizeAllowed
  <2>4. QED
    BY <1>1, <2>1, <2>2, <2>3
<1>3. ASSUME NEW r \in Slots,
             \/ CheckedNew(r) \/ AppendCommit(r) \/ PspConfirms(r) \/ PspDeclines(r)
             \/ StoreSelect(r) \/ StoreWrite(r) \/ StoreClash(r) \/ FulfilExpired(r)
      PROVE  RowsStay /\ SlotsStay
  <2>1. \E pc : pc # "receipts" /\ \E ask, body : Leave(r) \/ Goto(r, pc, ask, body)
    BY <1>3 DEF CheckedNew, AppendCommit, PspConfirms, PspDeclines, StoreSelect, StoreWrite,
       StoreClash, FulfilExpired
  <2>2. UNCHANGED <<intents, files>>
    BY <1>3 DEF CheckedNew, AppendCommit, PspConfirms, PspDeclines, StoreSelect, StoreWrite,
       StoreClash, FulfilExpired
  <2>3. ~At(r, "set_fulfilled")
    <3>1. CheckedNew(r) => req[r].pc = "free"
      BY DEF CheckedNew, Keyed, Free
    <3>2. CheckedNew(r) \/ req[r].pc \in {"append", "psp", "store", "write", "receipts"}
      BY <1>3 DEF AppendCommit, PspConfirms, PspDeclines, StoreSelect, StoreWrite, StoreClash,
         FulfilExpired, At
    <3>3. QED
      BY <3>1, <3>2 DEF At
  <2>4. QED
    BY <1>1, <2>1, <2>2, <2>3
<1>4. ASSUME NEW r \in Slots, SetTranscriptHash(r) \/ SetAuthorization(r)
      PROVE  RowsStay /\ SlotsStay
  <2>1. /\ ~At(r, "set_fulfilled") /\ files' = files
        /\ Leave(r) \/ Goto(r, "store", req[r].ask, req[r].body)
    BY <1>4 DEF SetTranscriptHash, SetAuthorization, At, Respond
  <2>2. \A i \in Intents : intents'[i].fulfilled = intents[i].fulfilled
    <3>1. CASE SetTranscriptHash(r)
      BY <3>1 DEF SetTranscriptHash, UpdateFields, OwnTypeOK, OrderIntent
    <3>2. CASE SetAuthorization(r)
      BY <3>2 DEF SetAuthorization, UpdateFields, OwnTypeOK, OrderIntent
    <3>3. QED
      BY <1>4, <3>1, <3>2
  <2>3. QED
    BY <1>1, <2>1, <2>2
<1>5. ASSUME \/ \E r \in Slots : \/ CheckedCached(r) \/ CheckedConflict(r) \/ AppendSelect(r)
                                 \/ AppendFlush(r) \/ FulfilRefused(r)
             \/ Tick
             \/ UNCHANGED vars
      PROVE  RowsStay /\ SlotsStay
  BY <1>5 DEF CheckedCached, CheckedConflict, AppendSelect, AppendFlush, FulfilRefused, Tick, vars,
     At
<1>6. ASSUME NEW i \in Intents, CreateIntent(i)
      PROVE  RowsStay /\ SlotsStay
  BY <1>6 DEF CreateIntent, NewIntent, OwnTypeOK, OrderIntent, At
<1>7. ~Restart /\ \A r \in Slots : ~Fail(r) /\ ~PspAnswerLost(r)
  BY DEF Restart, Fail, PspAnswerLost
<1>8. QED
  BY <1>2, <1>3, <1>4, <1>5, <1>6, <1>7
     DEF Next, Handler, CheckExisting, Confirm, Authorize, Store, Fulfil

LEMMA FulfilStep ==
  ASSUME ~MayFail, ~MayRestart, OwnTypeOK, FulfilInv, OneFulfilAtATime, OneFulfilAtATime',
         [Next]_vars
  PROVE  FulfilInv'
<1>1. ASSUME NEW r \in Slots, FulfilGets(r)
      PROVE  FulfilInv'
  <2>1. PICK i, q : /\ Fulfillable(i, q.body)
                    /\ q.pc = "receipts" /\ q.ask.intent = i
                    /\ req' = [req EXCEPT ![r] = q]
    BY <1>1 DEF FulfilGets, Goto
  <2>2. req[r] = Free /\ intents' = intents /\ files' = files
    BY <1>1 DEF FulfilGets, orderVars
  <2>3. /\ req'[r] = q
        /\ \A s \in Slots \ {r} : req'[s] = req[s]
    BY <2>1 DEF OwnTypeOK
  <2>4. \A s \in Slots, j \in Intents : Marks(s, j) => Marks(s, j)'
    BY <2>2, <2>3 DEF Marks, At, Free
  <2>5. \A s \in Slots, j \in Intents : Reads(s, j)' => j = i \/ Reads(s, j)
    BY <2>1, <2>3 DEF Reads, At
  <2>6. ~intents[i].fulfilled
    BY <2>1 DEF Fulfillable
  <2>7. QED
    BY <2>2, <2>4, <2>5, <2>6 DEF FulfilInv
<1>2. ASSUME NEW r \in Slots, FulfilWrites(r)
      PROVE  FulfilInv'
  <2>1. PICK i, t : i = req[r].ask.intent /\ t = req[r].ask.transcript
    OBVIOUS
  <2>2. At(r, "receipts") /\ intents' = intents /\ GenerateReceipts(i, t)
    BY <1>2, <2>1 DEF FulfilWrites
  <2>3. /\ req'[r] = [pc |-> "set_fulfilled", ask |-> req[r].ask, body |-> req[r].body]
        /\ \A s \in Slots \ {r} : req'[s] = req[s]
    BY <1>2 DEF FulfilWrites, Goto, OwnTypeOK
  <2>4. i \in Intents /\ Reads(r, i)
    BY <2>1, <2>2, AskType DEF At, Ask, Reads
  <2>5. \A s \in Slots : ~Marks(s, i)
    BY <2>4 DEF OneFulfilAtATime, Fulfilling, Reads, Marks, At
  <2>6. files[i] = << >>
    BY <2>4, <2>5 DEF FulfilInv
  <2>7. files'[i] = Append(files[i], t) /\ \A j \in Intents \ {i} : files'[j] = files[j]
    BY <2>2, <2>4 DEF GenerateReceipts, OwnTypeOK
  <2>8. Len(files'[i]) <= 1
    BY <2>6, <2>7
  <2>9. Marks(r, i)' /\ \A s \in Slots, j \in Intents : Marks(s, j) => Marks(s, j)'
    BY <2>1, <2>2, <2>3 DEF Marks, At
  <2>10. \A s \in Slots, j \in Intents : Reads(s, j)' => Reads(s, j)
    BY <2>3 DEF Reads, At
  <2>11. QED
    BY <2>2, <2>7, <2>8, <2>9, <2>10 DEF FulfilInv
<1>3. ASSUME NEW r \in Slots, SetFulfilled(r)
      PROVE  FulfilInv'
  <2>1. PICK i : i = req[r].ask.intent
    OBVIOUS
  <2>2. /\ At(r, "set_fulfilled") /\ files' = files
        /\ req'[r] = Free /\ \A s \in Slots \ {r} : req'[s] = req[s]
        /\ intents' = [intents EXCEPT ![i] = [intents[i] EXCEPT !.fulfilled = TRUE]]
    BY <1>3, <2>1 DEF SetFulfilled, UpdateFields, Leave, OwnTypeOK
  <2>3. \A j \in Intents : /\ intents[j].fulfilled => intents'[j].fulfilled
                           /\ j = i => intents'[j].fulfilled
                           /\ j # i => intents'[j] = intents[j]
    BY <2>2 DEF OwnTypeOK, OrderIntent
  <2>4. \A s \in Slots, j \in Intents : Marks(s, j) => j = i \/ Marks(s, j)'
    BY <2>1, <2>2 DEF Marks, At
  <2>5. \A s \in Slots, j \in Intents : Reads(s, j)' => s # r /\ Reads(s, j)
    BY <2>2 DEF Reads, At, Free
  <2>6. \A s \in Slots \ {r} : ~Reads(s, i)
    BY <2>1, <2>2 DEF OneFulfilAtATime, Fulfilling, Reads
  <2>7. QED
    BY <2>2, <2>3, <2>4, <2>5, <2>6 DEF FulfilInv
<1>4. ASSUME files' = files,
             \A i \in Intents : intents'[i].fulfilled = intents[i].fulfilled,
             \A r \in Slots : At(r, "set_fulfilled") => req'[r] = req[r],
             \A r \in Slots : At(r, "receipts")' => req'[r] = req[r]
      PROVE  FulfilInv'
  BY <1>4 DEF FulfilInv, Marks, Reads, At
<1>5. QED
  BY <1>1, <1>2, <1>3, <1>4, FulfilTraffic

(* Where awaits return, no process dies, and the /fulfil requests of one   *)
(* order do not overlap, an order gets one set of receipts.                *)
THEOREM FulfilsOnceInTurn ==
  ASSUME ~MayFail, ~MayRestart
  PROVE  Spec => SerialFulfilsOnce
<1>1. Init => FulfilInv
  BY DEF Init, FulfilInv, Reads, At, Free
<1>2. GatewayInv /\ FulfilInv /\ OneFulfilAtATime /\ OneFulfilAtATime' /\ [Next]_vars
        => FulfilInv'
  BY FulfilStep DEF GatewayInv
<1>3. FulfilInv => FulfilledOnce
  BY DEF FulfilInv, FulfilledOnce
<1>4. QED
  BY <1>1, <1>2, <1>3, GatewayInvariance, PTL DEF Spec, SerialFulfilsOnce
=============================================================================
