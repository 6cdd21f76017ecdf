------------------------- MODULE IdempotencyService -------------------------
(***************************************************************************)
(* packages/shared/shared/idempotency: the table idempotency_keys, read by *)
(* check_existing and written by store.  The primary key of a row is the   *)
(* pair of an endpoint and the Idempotency-Key header; a key here is that  *)
(* pair, a payload is the hash of a request, a body a recorded response.   *)
(*                                                                         *)
(* store merges: session.merge SELECTs the row, and the commit INSERTs a   *)
(* new one or UPDATEs the columns that differ from the row it SELECTed.    *)
(* Other requests run between the two.                                     *)
(***************************************************************************)
EXTENDS Naturals

CONSTANTS Requests, Keys, Payloads, Bodies

VARIABLES records,  \* the committed rows of idempotency_keys
          merge     \* for each request, the session of its call of store

Record == [key : Keys, payload : Payloads, body : Bodies]

NoMerge == [step |-> "none"]
Merge == {NoMerge} \union [step : {"write"}, row : Record, loaded : SUBSET Record]

RecordsTypeOK == /\ records \subseteq Record
                 /\ merge \in [Requests -> Merge]

RecordsInit == /\ records = {}
               /\ merge = [r \in Requests |-> NoMerge]

-----------------------------------------------------------------------------
\* Mutant: the WHERE clause forgets the key.
Find_AnyKey(k) == records

Find(k) == {x \in records : x.key = k}

\* Mutant: the payload hashes are not compared.
Cached_AnyPayload(k, p) == {x.body : x \in Find(k)}

(* The three outcomes of check_existing: None, the cached body, ValueError. *)
Unseen(k) == Find(k) = {}
Cached(k, p) == {x.body : x \in {y \in Find(k) : y.payload = p}}
Conflict(k, p) == \E x \in Find(k) : x.payload # p

(* session.merge: SELECT the row of this primary key, if there is one.     *)
Load(r, row) ==
  /\ merge[r] = NoMerge
  /\ merge' = [merge EXCEPT ![r] =
       [step |-> "write", row |-> row, loaded |-> Find(row.key)]]
  /\ UNCHANGED records

(* The commit where merge had found nothing; the primary key is free.      *)
Insert(r) ==
  /\ merge[r].step = "write"
  /\ merge[r].loaded = {}
  /\ Unseen(merge[r].row.key)
  /\ records' = records \union {merge[r].row}
  /\ merge' = [merge EXCEPT ![r] = NoMerge]

(* Only the columns that differ from the loaded row are written.           *)
Updated(row, loaded, current) ==
  [current EXCEPT !.payload = IF row.payload = loaded.payload THEN @ ELSE row.payload,
                  !.body    = IF row.body = loaded.body THEN @ ELSE row.body]

(* The commit where merge had found a row.                                 *)
Update(r) ==
  /\ merge[r].step = "write"
  /\ \E loaded \in merge[r].loaded, current \in Find(merge[r].row.key) :
       records' = (records \ {current})
                  \union {Updated(merge[r].row, loaded, current)}
  /\ merge' = [merge EXCEPT ![r] = NoMerge]

(* The commit where merge had found nothing and another request has taken  *)
(* the primary key since: IntegrityError, an answer of 500.                *)
Clash(r) ==
  /\ merge[r].step = "write"
  /\ merge[r].loaded = {}
  /\ ~Unseen(merge[r].row.key)
  /\ merge' = [merge EXCEPT ![r] = NoMerge]
  /\ UNCHANGED records

(* A statement raises, or the process dies.                                *)
Abandon(r) ==
  /\ merge[r] # NoMerge
  /\ merge' = [merge EXCEPT ![r] = NoMerge]
  /\ UNCHANGED records

\* Mutant: the session is closed without a commit.
Write_NoCommit(r) ==
  /\ merge[r].step = "write"
  /\ merge' = [merge EXCEPT ![r] = NoMerge]
  /\ UNCHANGED records

Write(r) == Insert(r) \/ Update(r)
=============================================================================
