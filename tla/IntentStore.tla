---------------------------- MODULE IntentStore ----------------------------
(***************************************************************************)
(* apps/gateway/app/services/state.py: the table order_intents, statement  *)
(* by statement.  get SELECTs a row; the three set_ methods go through     *)
(* _update_fields, which SELECTs the row, assigns the columns, and at the  *)
(* commit UPDATEs those whose value differs from the one it SELECTed: that *)
(* is how the ORM flushes an object.  Other requests run between the two.  *)
(*                                                                         *)
(* fulfilled_at is written with receipts and read by no one, updated_at is *)
(* read by no one: they are left out.                                      *)
(***************************************************************************)
EXTENDS Naturals

CONSTANTS Requests, Intents, Hashes, Auths, References, Receipts, None

ASSUME NullIsNoValue == None \notin Hashes \union Auths \union References \union Receipts

VARIABLES rows,    \* the committed rows of order_intents, their nullable columns
          open,    \* the intents that exist and have not expired
          session  \* for each request, the session of its call of _update_fields

storeVars == <<rows, open, session>>

Columns == {"transcript_hash", "authorization_id", "payment_reference", "receipts"}

Cells == Hashes \union Auths \union References \union Receipts \union {None}

OrderIntent ==
  {row \in [Columns -> Cells] : /\ row.transcript_hash \in Hashes \union {None}
                                /\ row.authorization_id \in Auths \union {None}
                                /\ row.payment_reference \in References \union {None}
                                /\ row.receipts \in Receipts \union {None}}

(* What the set_ methods pass to _update_fields.                           *)
Fields == [transcript_hash : Hashes]
          \union [authorization_id : Auths, payment_reference : References]
          \union [receipts : Receipts]

NoSession == [step |-> "none"]
Session == {NoSession}
           \union [step : {"select"}, intent : Intents, fields : Fields]
           \union [step : {"commit"}, intent : Intents, fields : Fields, loaded : OrderIntent]

StoreTypeOK == /\ rows \in [Intents -> OrderIntent]
               /\ open \subseteq Intents
               /\ session \in [Requests -> Session]

Blank == [c \in Columns |-> None]

StoreInit == /\ rows = [i \in Intents |-> Blank]
             /\ open = {}
             /\ session = [r \in Requests |-> NoSession]

-----------------------------------------------------------------------------
(* create commits a row whose nullable columns are NULL; a row that does   *)
(* not exist yet is like one that has expired: get raises.                 *)
Create(i) == i \notin open /\ rows[i] = Blank /\ open' = open \union {i}

(* From some moment on get raises ValueError, however far the order is;    *)
(* _update_fields does not look at expires_at.                             *)
Expire(i) == i \in open /\ open' = open \ {i}

(* A set_ method opens its session.                                        *)
SetFields(r, i, fields) ==
  session' = [session EXCEPT ![r] = [step |-> "select", intent |-> i, fields |-> fields]]

SetTranscriptHash(r, i, h) == SetFields(r, i, [transcript_hash |-> h])
SetAuthorization(r, i, auth, reference) ==
  SetFields(r, i, [authorization_id |-> auth, payment_reference |-> reference])
SetFulfilled(r, i, receipts) == SetFields(r, i, [receipts |-> receipts])

(* record = await session.get(...).                                        *)
Select(r) ==
  /\ session[r].step = "select"
  /\ session' = [session EXCEPT ![r] =
       [step |-> "commit", intent |-> session[r].intent, fields |-> session[r].fields,
        loaded |-> rows[session[r].intent]]]
  /\ UNCHANGED <<rows, open>>

(* setattr for each of the fields.                                         *)
Assigned(fields, loaded) ==
  [c \in Columns |-> IF c \in DOMAIN fields THEN fields[c] ELSE loaded[c]]

\* Mutants: the UPDATE writes every column; it fills in NULL columns only; it
\* leaves the reference alone.
Dirty_All(fields, loaded) == Columns
Dirty_FirstOnly(fields, loaded) == {c \in DOMAIN fields : loaded[c] = None}
Dirty_NoReference(fields, loaded) == DOMAIN fields \ {"payment_reference"}

(* The columns the UPDATE writes.                                          *)
Dirty(fields, loaded) == {c \in DOMAIN fields : fields[c] # loaded[c]}

(* await session.commit().                                                 *)
Commit(r) ==
  /\ session[r].step = "commit"
  /\ LET s == session[r]
     IN  rows' = [rows EXCEPT ![s.intent] =
           [c \in Columns |-> IF c \in Dirty(s.fields, s.loaded)
                              THEN Assigned(s.fields, s.loaded)[c]
                              ELSE rows[s.intent][c]]]
  /\ session' = [session EXCEPT ![r] = NoSession]
  /\ UNCHANGED open
=============================================================================
