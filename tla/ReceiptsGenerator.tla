------------------------- MODULE ReceiptsGenerator -------------------------
(***************************************************************************)
(* packages/shared/shared/receipts/generator.py: generate_receipts writes  *)
(* an image, a document and a manifest, one after the other, under a stem  *)
(* of their own: the digest in it covers issued_at, to the microsecond.    *)
(* There is no await in it, and no clean-up: whatever raises, or kills the *)
(* process, between two files leaves the files before it.                  *)
(***************************************************************************)
EXTENDS Naturals

CONSTANTS Orders, Hashes, MaxStem  \* bound: how many stems are made

VARIABLES disk,  \* the files written to their end
          stem   \* the number of the last stem

receiptVars == <<disk, stem>>

Kinds == <<"png", "pdf", "manifest">>

File == [stem : 1 .. MaxStem, kind : {"png", "pdf", "manifest"}, order_id : Orders,
         transcript_hash : Hashes]

ReceiptsTypeOK == disk \subseteq File /\ stem \in 0 .. MaxStem

ReceiptsInit == disk = {} /\ stem = 0

\* Mutant: the set is taken for complete after two of its three files.
Whole_TwoOfThree == {2, 3}

(* How many files a call that returns has written.                         *)
Whole == {3}

(* The first n of the files of a call for this order.                      *)
Write(order_id, hash, n) ==
  /\ stem < MaxStem
  /\ stem' = stem + 1
  /\ disk' = disk \union
       {[stem |-> stem + 1, kind |-> Kinds[k], order_id |-> order_id,
         transcript_hash |-> hash] : k \in 1 .. n}

(* The files of a stem, for an order.                                      *)
Complete(s, order_id) ==
  \E h \in Hashes : \A k \in 1 .. 3 :
    [stem |-> s, kind |-> Kinds[k], order_id |-> order_id, transcript_hash |-> h] \in disk
=============================================================================
