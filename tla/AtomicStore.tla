---------------------------- MODULE AtomicStore ----------------------------
(***************************************************************************)
(* The table order_intents as the handlers take it to be, and as Gateway   *)
(* has it: each call of a set_ method assigns its own column, at once, and *)
(* leaves the others as they are.  A column that has a value keeps one.    *)
(*                                                                         *)
(* Any value may be assigned, the one that is there included: to implement *)
(* this store is to overwrite no other column and to keep the order of the *)
(* columns.  That a call does write the value it was given is another      *)
(* property, CallsTakeEffect of OrderUpdates.                              *)
(***************************************************************************)
CONSTANTS Intents, Hashes, Auths, Receipts, None

VARIABLES transcript_hash, authorization_id, receipts  \* the columns

columns == <<transcript_hash, authorization_id, receipts>>

AtomicInit ==
  /\ transcript_hash = [i \in Intents |-> None]
  /\ authorization_id = [i \in Intents |-> None]
  /\ receipts = [i \in Intents |-> None]

SetTranscriptHash(i) ==
  /\ transcript_hash'[i] \in Hashes
  /\ transcript_hash' = [transcript_hash EXCEPT ![i] = transcript_hash'[i]]
  /\ UNCHANGED <<authorization_id, receipts>>

(* Only an order with a transcript is authorized.                          *)
SetAuthorization(i) ==
  /\ transcript_hash[i] # None
  /\ authorization_id'[i] \in Auths
  /\ authorization_id' = [authorization_id EXCEPT ![i] = authorization_id'[i]]
  /\ UNCHANGED <<transcript_hash, receipts>>

(* Only an order with an authorization is fulfilled.                       *)
SetFulfilled(i) ==
  /\ authorization_id[i] # None
  /\ receipts'[i] \in Receipts
  /\ receipts' = [receipts EXCEPT ![i] = receipts'[i]]
  /\ UNCHANGED <<transcript_hash, authorization_id>>

AtomicNext == \E i \in Intents : SetTranscriptHash(i) \/ SetAuthorization(i) \/ SetFulfilled(i)

AtomicSpec == AtomicInit /\ [][AtomicNext]_columns
=============================================================================
