------------------------- MODULE OrderUpdatesProofs -------------------------
(***************************************************************************)
(* Proofs about OrderUpdates, for any number of requests, intents, hashes  *)
(* and references, any failures and restarts, and any bounds.              *)
(***************************************************************************)
EXTENDS OrderUpdates, SequenceTheorems, TLAPS

(* A session of request r is to write column c.                            *)
Writes(r, c) == session[r] # NoSession /\ c \in DOMAIN session[r].fields

(* A row gets its columns in order, and its receipts are a whole set.      *)
RowOK(i) ==
  /\ rows[i].authorization_id # None => rows[i].transcript_hash # None
  /\ rows[i].receipts # None => R!Complete(rows[i].receipts, i)

(* Past its checks a handler finds what they asked for, since a column     *)
(* that has a value keeps one.                                             *)
HandlerOK(r) ==
  /\ At(r, "psp") => rows[handler[r].intent].transcript_hash # None
  /\ At(r, "receipts") => rows[handler[r].intent].authorization_id # None

SessionOK(r) ==
  /\ Writes(r, "authorization_id") => rows[session[r].intent].transcript_hash # None
  /\ Writes(r, "receipts") => /\ rows[session[r].intent].authorization_id # None
                              /\ R!Complete(session[r].fields.receipts, session[r].intent)

(* The inductive invariant of the columns, each on its own.                *)
ColumnsInv ==
  /\ UpdatesTypeOK
  /\ \A i \in Intents : RowOK(i)
  /\ \A r \in Requests : HandlerOK(r) /\ SessionOK(r)

-----------------------------------------------------------------------------
LEMMA FieldsShape ==
  ASSUME NEW f \in Fields
  PROVE  \/ DOMAIN f = {"transcript_hash"} /\ f.transcript_hash \in Hashes
         \/ /\ DOMAIN f = {"authorization_id", "payment_reference"}
            /\ f.authorization_id \in Auths /\ f.payment_reference \in References
         \/ DOMAIN f = {"receipts"} /\ f.receipts \in Receipts
  BY DEF Fields

LEMMA SessionShape ==
  ASSUME NEW s \in Session, s # NoSession
  PROVE  /\ s.intent \in Intents
         /\ s.fields \in Fields
         /\ s.step \in {"select", "commit"}
         /\ s.step = "commit" => s.loaded \in OrderIntent
  BY DEF Session, NoSession

LEMMA HandlerShape ==
  ASSUME NEW h \in Handler
  PROVE  /\ h.pc \in {"confirm", "psp", "receipts"} => h.intent \in Intents
         /\ h.pc = "receipts" => h.transcript_hash \in Hashes
  BY DEF Handler, Free

(* A commit changes one row: the columns of its call that differ from what *)
(* it had SELECTed, and each of them has a value then.                     *)
LEMMA CommitEffect ==
  ASSUME StoreTypeOK, NEW r \in Requests, Commit(r)
  PROVE  LET s == session[r] IN
         /\ s # NoSession /\ s.intent \in Intents /\ s.fields \in Fields
         /\ s.loaded \in OrderIntent
         /\ \A i \in Intents \ {s.intent} : rows'[i] = rows[i]
         /\ \A c \in Columns :
              rows'[s.intent][c] = IF c \in DOMAIN s.fields /\ s.fields[c] # s.loaded[c]
                                   THEN s.fields[c] ELSE rows[s.intent][c]
         /\ rows' \in [Intents -> OrderIntent]
         /\ session' \in [Requests -> Session]
<1> DEFINE s == session[r]
           row == [c \in Columns |-> IF c \in Dirty(s.fields, s.loaded)
                                     THEN Assigned(s.fields, s.loaded)[c]
                                     ELSE rows[s.intent][c]]
<1>1. s \in Session /\ s # NoSession /\ s.step = "commit"
  BY DEF StoreTypeOK, Commit, NoSession
<1>2. s.intent \in Intents /\ s.fields \in Fields /\ s.loaded \in OrderIntent
  BY <1>1, SessionShape
<1>3. rows' = [rows EXCEPT ![s.intent] = row]
  BY DEF Commit
<1>4. \A c \in Columns :
        row[c] = IF c \in DOMAIN s.fields /\ s.fields[c] # s.loaded[c]
                 THEN s.fields[c] ELSE rows[s.intent][c]
  BY DEF Dirty, Assigned
<1>5. rows[s.intent] \in OrderIntent
  BY <1>2 DEF StoreTypeOK
<1>6. row \in OrderIntent
  <2>1. /\ row["transcript_hash"] \in Hashes \union {None}
        /\ row["authorization_id"] \in Auths \union {None}
        /\ row["payment_reference"] \in References \union {None}
        /\ row["receipts"] \in Receipts \union {None}
    <3> HIDE DEF row
    <3> QED
      BY <1>2, <1>4, <1>5, FieldsShape DEF OrderIntent, Columns
  <2>2. \A c \in Columns : row[c] \in Cells
    BY <2>1 DEF Columns, Cells
  <2>3. row \in [Columns -> Cells]
    BY <2>2
  <2>4. QED
    BY <2>1, <2>3 DEF OrderIntent
<1>7. row = rows'[s.intent] /\ rows' \in [Intents -> OrderIntent]
  BY <1>2, <1>3, <1>6 DEF StoreTypeOK
<1>8. session' \in [Requests -> Session]
  BY DEF Commit, StoreTypeOK, Session
<1>9. \A i \in Intents \ {s.intent} : rows'[i] = rows[i]
  BY <1>2, <1>3 DEF StoreTypeOK
<1>10. QED
  <2> HIDE DEF row
  <2> QED
    BY <1>1, <1>2, <1>4, <1>7, <1>8, <1>9

LEMMA InitColumns == Init => ColumnsInv
<1> SUFFICES ASSUME Init PROVE ColumnsInv
  OBVIOUS
<1>1. StoreTypeOK
  BY DEF Init, StoreInit, StoreTypeOK, Blank, OrderIntent, Columns, Cells, Session
<1>2. UpdatesTypeOK
  BY <1>1, UpdateBounds
     DEF Init, UpdatesTypeOK, R!ReceiptsInit, R!ReceiptsTypeOK, Handler, Free
<1>3. \A i \in Intents : RowOK(i)
  BY DEF Init, StoreInit, Blank, Columns, RowOK
<1>4. \A r \in Requests : HandlerOK(r) /\ SessionOK(r)
  BY DEF Init, StoreInit, HandlerOK, SessionOK, Writes, At, Free
<1>5. QED
  BY <1>2, <1>3, <1>4 DEF ColumnsInv

(* A call of generate_receipts adds files of a new stem.                   *)
LEMMA WriteEffect ==
  ASSUME R!ReceiptsTypeOK, NEW i \in Intents, NEW h \in Hashes, NEW n \in 0 .. 3,
         R!Write(i, h, n)
  PROVE  /\ R!ReceiptsTypeOK'
         /\ disk \subseteq disk'
         /\ stem + 1 \in 1 .. MaxStem
         /\ \A s \in Receipts : s = stem + 1 /\ n = 3 => R!Complete(s, i)'
<1>1. stem + 1 \in 1 .. MaxStem /\ stem' = stem + 1 /\ disk \subseteq disk'
  BY UpdateBounds DEF R!ReceiptsTypeOK, R!Write
<1>2. \A k \in 1 .. 3 : R!Kinds[k] \in {"png", "pdf", "manifest"}
  BY DEF R!Kinds
<1>3. disk' \subseteq R!File
  BY <1>1, <1>2 DEF R!ReceiptsTypeOK, R!Write, R!File
<1>4. \A s \in Receipts : s = stem + 1 /\ n = 3 => R!Complete(s, i)'
  BY <1>1 DEF R!Write, R!Complete, R!Kinds
<1>5. QED
  BY <1>1, <1>3, <1>4, UpdateBounds DEF R!ReceiptsTypeOK

(* The call of a set_ method opens a session of its type.                  *)
LEMMA SetFieldsType ==
  ASSUME StoreTypeOK, NEW r \in Requests, NEW i \in Intents, NEW fields \in Fields,
         SetFields(r, i, fields)
  PROVE  session' \in [Requests -> Session]
  BY DEF SetFields, StoreTypeOK, Session

LEMMA SelectType ==
  ASSUME StoreTypeOK, NEW r \in Requests, Select(r)
  PROVE  session' \in [Requests -> Session]
<1>1. session[r] \in Session /\ session[r] # NoSession
  BY DEF StoreTypeOK, Select, NoSession
<1>2. /\ session[r].intent \in Intents /\ session[r].fields \in Fields
      /\ rows[session[r].intent] \in OrderIntent
  BY <1>1, SessionShape DEF StoreTypeOK
<1>3. QED
  BY <1>2 DEF Select, StoreTypeOK, Session

LEMMA TypeStep ==
  ASSUME ColumnsInv, Next
  PROVE  UpdatesTypeOK'
<1> USE DEF At, Goto
<1>0. UpdatesTypeOK
  BY DEF ColumnsInv
<1>1. ASSUME NEW r \in Requests, NEW i \in Intents,
             ConfirmGets(r, i) \/ AuthorizeGets(r, i)
      PROVE  UpdatesTypeOK'
  BY <1>0, <1>1 DEF ConfirmGets, AuthorizeGets, UpdatesTypeOK, StoreTypeOK, storeVars, Handler,
                    R!ReceiptsTypeOK
<1>2. ASSUME NEW r \in Requests, NEW i \in Intents, FulfilGets(r, i)
      PROVE  UpdatesTypeOK'
  <2>1. rows[i] \in OrderIntent /\ RowOK(i)
    BY DEF ColumnsInv, UpdatesTypeOK, StoreTypeOK
  <2>2. rows[i].transcript_hash \in Hashes
    BY <1>2, <2>1 DEF FulfilGets, RowOK, OrderIntent
  <2>3. QED
    BY <1>0, <1>2, <2>2 DEF FulfilGets, UpdatesTypeOK, StoreTypeOK, storeVars, Handler,
                            R!ReceiptsTypeOK
<1>3. ASSUME NEW r \in Requests, Confirmed(r)
      PROVE  UpdatesTypeOK'
  <2>1. handler[r].intent \in Intents
    BY <1>0, <1>3, HandlerShape DEF Confirmed, UpdatesTypeOK
  <2>2. PICK h \in Hashes : SetFields(r, handler[r].intent, [transcript_hash |-> h])
    BY <1>3 DEF Confirmed, SetTranscriptHash
  <2>3. session' \in [Requests -> Session]
    BY <1>0, <2>1, <2>2, SetFieldsType DEF Fields, UpdatesTypeOK
  <2>4. QED
    BY <1>0, <1>3, <2>3 DEF Confirmed, UpdatesTypeOK, StoreTypeOK, Handler, R!ReceiptsTypeOK
<1>4. ASSUME NEW r \in Requests, Authorized(r)
      PROVE  UpdatesTypeOK'
  <2>1. handler[r].intent \in Intents
    BY <1>0, <1>4, HandlerShape DEF Authorized, UpdatesTypeOK
  <2>2. PICK reference \in References :
          /\ given' = Append(given, [intent |-> handler[r].intent,
                                     payment_reference |-> reference])
          /\ SetFields(r, handler[r].intent,
                       [authorization_id |-> Len(given) + 1, payment_reference |-> reference])
    BY <1>4 DEF Authorized, SetAuthorization
  <2>3. Len(given) + 1 \in Auths /\ Len(given) \in Nat
    BY <1>0, <1>4, UpdateBounds DEF Authorized, UpdatesTypeOK
  <2>4. session' \in [Requests -> Session]
    BY <1>0, <2>1, <2>2, <2>3, SetFieldsType DEF Fields, UpdatesTypeOK
  <2>5. given' \in Seq(Given) /\ Len(given') <= MaxAuth
    <3>1. [intent |-> handler[r].intent, payment_reference |-> reference] \in Given
      BY <2>1 DEF Given
    <3>2. given' \in Seq(Given) /\ Len(given') = Len(given) + 1
      BY <1>0, <2>2, <3>1, AppendProperties DEF UpdatesTypeOK
    <3>3. QED
      BY <1>4, <2>3, <3>2, UpdateBounds DEF Authorized
  <2>6. QED
    BY <1>0, <1>4, <2>1, <2>4, <2>5
       DEF Authorized, UpdatesTypeOK, StoreTypeOK, Handler, R!ReceiptsTypeOK
<1>5. ASSUME NEW r \in Requests, Fulfilled(r)
      PROVE  UpdatesTypeOK'
  <2>1. handler[r].intent \in Intents /\ handler[r].transcript_hash \in Hashes
    BY <1>0, <1>5, HandlerShape DEF Fulfilled, UpdatesTypeOK
  <2>2. R!Write(handler[r].intent, handler[r].transcript_hash, 3)
    BY <1>5 DEF Fulfilled, R!Whole
  <2>3. R!ReceiptsTypeOK' /\ stem + 1 \in 1 .. MaxStem
    BY <1>0, <2>1, <2>2, WriteEffect DEF UpdatesTypeOK
  <2>4. SetFields(r, handler[r].intent, [receipts |-> stem + 1])
    BY <1>5 DEF Fulfilled, SetFulfilled
  <2>5. session' \in [Requests -> Session]
    BY <1>0, <2>1, <2>3, <2>4, SetFieldsType, UpdateBounds DEF Fields, UpdatesTypeOK
  <2>6. QED
    BY <1>0, <1>5, <2>3, <2>5 DEF Fulfilled, UpdatesTypeOK, StoreTypeOK, Handler
<1>6. ASSUME NEW r \in Requests, ReceiptsBreak(r)
      PROVE  UpdatesTypeOK'
  <2>1. handler[r].intent \in Intents /\ handler[r].transcript_hash \in Hashes
    BY <1>0, <1>6, HandlerShape DEF ReceiptsBreak, UpdatesTypeOK
  <2>2. PICK n \in 0 .. 2 : R!Write(handler[r].intent, handler[r].transcript_hash, n)
    BY <1>6 DEF ReceiptsBreak
  <2>3. R!ReceiptsTypeOK'
    BY <1>0, <2>1, <2>2, WriteEffect DEF UpdatesTypeOK
  <2>4. QED
    BY <1>0, <1>6, <2>3 DEF ReceiptsBreak, UpdatesTypeOK, StoreTypeOK, storeVars, Handler
<1>7. ASSUME NEW r \in Requests, UpdateSelect(r)
      PROVE  UpdatesTypeOK'
  <2>1. session' \in [Requests -> Session]
    BY <1>0, <1>7, SelectType DEF UpdateSelect, UpdatesTypeOK
  <2>2. QED
    BY <1>0, <1>7, <2>1 DEF UpdateSelect, Select, UpdatesTypeOK, StoreTypeOK, R!ReceiptsTypeOK
<1>8. ASSUME NEW r \in Requests, UpdateCommit(r)
      PROVE  UpdatesTypeOK'
  <2>1. rows' \in [Intents -> OrderIntent] /\ session' \in [Requests -> Session]
    BY <1>0, <1>8, CommitEffect DEF UpdateCommit, UpdatesTypeOK
  <2>2. QED
    BY <1>0, <1>8, <2>1
       DEF UpdateCommit, Commit, UpdatesTypeOK, StoreTypeOK, Handler, R!ReceiptsTypeOK
<1>9. ASSUME NEW ending \in SUBSET Requests, End(ending)
      PROVE  UpdatesTypeOK'
  BY <1>0, <1>9 DEF End, UpdatesTypeOK, StoreTypeOK, Session, Handler, R!ReceiptsTypeOK
<1>10. ASSUME NEW i \in Intents, IntentOpens(i) \/ IntentExpires(i)
       PROVE  UpdatesTypeOK'
  BY <1>0, <1>10 DEF IntentOpens, IntentExpires, Create, Expire, UpdatesTypeOK, StoreTypeOK,
                     R!ReceiptsTypeOK
<1>11. QED
  BY <1>1, <1>2, <1>3, <1>4, <1>5, <1>6, <1>7, <1>8, <1>9, <1>10 DEF Next, Step, Restart

-----------------------------------------------------------------------------
(* What was reached stays so: columns that have a value keep one, sets of  *)
(* receipts stay complete.                                                 *)
LEMMA Grows ==
  ASSUME ColumnsInv, Next
  PROVE  /\ \A i \in Intents : \A c \in Columns : rows[i][c] # None => rows'[i][c] # None
         /\ \A s \in Receipts : \A i \in Intents : R!Complete(s, i) => R!Complete(s, i)'
<1>1. \/ rows' = rows
      \/ \E r \in Requests : UpdateCommit(r)
  BY DEF Next, Step, ConfirmGets, AuthorizeGets, FulfilGets, Confirmed, Authorized, Fulfilled,
         ReceiptsBreak, UpdateSelect, Select, End, Restart, IntentOpens, IntentExpires, storeVars
<1>2. ASSUME NEW r \in Requests, UpdateCommit(r),
             NEW i \in Intents, NEW c \in Columns, rows[i][c] # None
      PROVE  rows'[i][c] # None
  <2> DEFINE s == session[r]
  <2>1. /\ s.fields \in Fields
        /\ rows'[i] = rows[i] \/ i = s.intent
        /\ rows'[s.intent][c] = IF c \in DOMAIN s.fields /\ s.fields[c] # s.loaded[c]
                                THEN s.fields[c] ELSE rows[s.intent][c]
    BY <1>2, CommitEffect DEF ColumnsInv, UpdatesTypeOK, UpdateCommit
  <2>2. c \in DOMAIN s.fields => s.fields[c] # None
    BY <2>1, FieldsShape, NullIsNoValue
  <2>3. QED
    BY <1>2, <2>1, <2>2
<1>3. disk \subseteq disk'
  BY DEF Next, Step, ConfirmGets, AuthorizeGets, FulfilGets, Confirmed, Authorized, Fulfilled,
         ReceiptsBreak, UpdateSelect, UpdateCommit, End, Restart, IntentOpens, IntentExpires,
         R!Write
<1>4. QED
  BY <1>1, <1>2, <1>3 DEF R!Complete

LEMMA ColumnsStep ==
  ASSUME ColumnsInv, Next
  PROVE  ColumnsInv'
<1> USE DEF At, Goto, Columns
<1>0. UpdatesTypeOK /\ UpdatesTypeOK'
  BY TypeStep DEF ColumnsInv
<1>1. ASSUME NEW i \in Intents
      PROVE  RowOK(i)'
  <2>1. CASE rows' = rows
    BY <1>0, <2>1, Grows DEF ColumnsInv, RowOK, UpdatesTypeOK, StoreTypeOK, OrderIntent
  <2>2. ASSUME NEW r \in Requests, UpdateCommit(r)
        PROVE  RowOK(i)'
    <3> DEFINE s == session[r]
    <3>0. StoreTypeOK /\ Commit(r)
      BY <1>0, <2>2 DEF UpdatesTypeOK, UpdateCommit
    <3>1. /\ s # NoSession /\ s.fields \in Fields /\ s.intent \in Intents
          /\ rows'[i] = rows[i] \/ i = s.intent
          /\ \A c \in Columns :
               rows'[s.intent][c] = IF c \in DOMAIN s.fields /\ s.fields[c] # s.loaded[c]
                                    THEN s.fields[c] ELSE rows[s.intent][c]
      <4> HIDE DEF Columns
      <4>1. QED
        BY <3>0, CommitEffect
    <3>2. RowOK(i) /\ SessionOK(r)
      BY DEF ColumnsInv
    <3>3. rows'[i].authorization_id # None => rows'[i].transcript_hash # None
      BY <3>1, <3>2, Grows DEF RowOK, SessionOK, Writes
    <3>4. ASSUME rows'[i].receipts # None
          PROVE  R!Complete(rows[i].receipts, i)'
      <4>1. PICK n \in Receipts : n = rows'[i].receipts
        BY <1>0, <3>4 DEF UpdatesTypeOK, StoreTypeOK, OrderIntent
      <4>2. R!Complete(n, i)
        <5>1. CASE rows'[i].receipts = rows[i].receipts
          BY <3>2, <3>4, <4>1, <5>1 DEF RowOK
        <5>2. CASE rows'[i].receipts # rows[i].receipts
          <6>1. /\ i = s.intent
                /\ "receipts" \in DOMAIN s.fields
                /\ rows'[i].receipts = s.fields.receipts
            BY <3>1, <5>2
          <6>2. R!Complete(s.fields.receipts, s.intent)
            BY <3>1, <3>2, <6>1 DEF SessionOK, Writes
          <6>3. QED
            BY <4>1, <6>1, <6>2
        <5>3. QED
          BY <5>1, <5>2
      <4>3. R!Complete(n, i)'
        BY <4>2, Grows
      <4>4. QED
        BY <4>1, <4>3 DEF R!Complete
    <3>5. QED
      BY <3>3, <3>4 DEF RowOK
  <2>3. QED
    BY <2>1, <2>2 DEF Next, Step, ConfirmGets, AuthorizeGets, FulfilGets, Confirmed, Authorized,
         Fulfilled, ReceiptsBreak, UpdateSelect, Select, End, Restart, IntentOpens, IntentExpires,
         storeVars
<1>2. ASSUME NEW r \in Requests
      PROVE  HandlerOK(r)'
  <2>1. HandlerOK(r) /\ handler[r] \in Handler
    BY <1>0 DEF ColumnsInv, UpdatesTypeOK
  <2>2. CASE handler'[r] = handler[r]
    BY <2>1, <2>2, HandlerShape, Grows DEF HandlerOK
  <2>3. CASE handler'[r].pc \in {"free", "confirm", "update"}
    BY <2>3 DEF HandlerOK
  <2>4. ASSUME NEW i \in Intents, AuthorizeGets(r, i) \/ FulfilGets(r, i)
        PROVE  HandlerOK(r)'
    BY <1>0, <2>4 DEF AuthorizeGets, FulfilGets, HandlerOK, UpdatesTypeOK, storeVars
  <2>5. QED
    BY <1>0, <2>2, <2>3, <2>4
       DEF Next, Step, ConfirmGets, AuthorizeGets, FulfilGets, Confirmed, Authorized,
           Fulfilled, ReceiptsBreak, UpdateSelect, UpdateCommit, End, Restart, IntentOpens,
           IntentExpires, UpdatesTypeOK, Free
<1>3. ASSUME NEW r \in Requests
      PROVE  SessionOK(r)'
  <2>1. SessionOK(r) /\ HandlerOK(r) /\ session[r] \in Session /\ handler[r] \in Handler
    BY <1>0 DEF ColumnsInv, UpdatesTypeOK, StoreTypeOK
  <2>2. ASSUME session'[r] # NoSession => /\ session[r] # NoSession
                                          /\ session'[r].intent = session[r].intent
                                          /\ session'[r].fields = session[r].fields
        PROVE  SessionOK(r)'
    <3>1. ASSUME session'[r] # NoSession
          PROVE  /\ session[r].intent \in Intents
                 /\ "receipts" \in DOMAIN session[r].fields => session[r].fields.receipts \in Receipts
      BY <2>1, <2>2, <3>1, SessionShape, FieldsShape
    <3>2. QED
      BY <2>1, <2>2, <3>1, Grows DEF SessionOK, Writes
  <2>3. CASE Confirmed(r)
    BY <1>0, <2>3 DEF Confirmed, SetTranscriptHash, SetFields, SessionOK, Writes,
                      UpdatesTypeOK, StoreTypeOK
  <2>4. CASE Authorized(r)
    <3>1. rows[handler[r].intent].transcript_hash # None
      BY <2>1, <2>4 DEF Authorized, HandlerOK
    <3>2. PICK reference \in References :
            session' = [session EXCEPT ![r] =
              [step |-> "select", intent |-> handler[r].intent,
               fields |-> [authorization_id |-> Len(given) + 1, payment_reference |-> reference]]]
      BY <2>4 DEF Authorized, SetAuthorization, SetFields
    <3>3. /\ session'[r].intent = handler[r].intent
          /\ DOMAIN session'[r].fields = {"authorization_id", "payment_reference"}
      BY <1>0, <3>2 DEF UpdatesTypeOK, StoreTypeOK
    <3>4. rows' = rows
      BY <2>4 DEF Authorized
    <3>5. QED
      BY <3>1, <3>3, <3>4 DEF SessionOK, Writes
  <2>5. CASE Fulfilled(r)
    <3>1. PICK i \in Intents, h \in Hashes :
            i = handler[r].intent /\ h = handler[r].transcript_hash
      BY <2>1, <2>5, HandlerShape DEF Fulfilled
    <3>2. /\ rows[i].authorization_id # None
          /\ rows' = rows
          /\ R!Write(i, h, 3)
          /\ session' = [session EXCEPT ![r] =
               [step |-> "select", intent |-> i, fields |-> [receipts |-> stem + 1]]]
      BY <2>1, <2>5, <3>1 DEF Fulfilled, HandlerOK, R!Whole, SetFulfilled, SetFields
    <3>3. /\ session'[r].intent = i
          /\ DOMAIN session'[r].fields = {"receipts"}
          /\ session'[r].fields.receipts = stem + 1
      BY <1>0, <3>2 DEF UpdatesTypeOK, StoreTypeOK
    <3>4. /\ stem + 1 \in Receipts
          /\ \A s \in Receipts : s = stem + 1 => R!Complete(s, i)'
      BY <1>0, <3>2, WriteEffect, UpdateBounds DEF UpdatesTypeOK
    <3>5. PICK n \in Receipts : n = stem + 1
      BY <3>4
    <3>6. R!Complete(session[r].fields.receipts, session[r].intent)'
      BY <3>3, <3>4, <3>5 DEF R!Complete
    <3>7. QED
      BY <3>2, <3>3, <3>6 DEF SessionOK, Writes
  <2>6. CASE UpdateSelect(r)
    BY <1>0, <2>2, <2>6 DEF UpdateSelect, Select, NoSession, UpdatesTypeOK, StoreTypeOK
  <2>7. CASE UpdateCommit(r)
    BY <1>0, <2>2, <2>7 DEF UpdateCommit, Commit, UpdatesTypeOK, StoreTypeOK
  <2>8. ASSUME NEW ending \in SUBSET Requests, End(ending)
        PROVE  SessionOK(r)'
    BY <2>2, <2>8 DEF End
  <2>9. ASSUME session' = session
        PROVE  SessionOK(r)'
    BY <2>2, <2>9
  <2>10. ASSUME NEW q \in Requests, q # r,
                \/ Confirmed(q) \/ Authorized(q) \/ Fulfilled(q)
                \/ UpdateSelect(q) \/ UpdateCommit(q)
         PROVE  SessionOK(r)'
    <3>1. session'[r] = session[r]
      BY <1>0, <2>10 DEF Confirmed, Authorized, Fulfilled, UpdateSelect, Select, UpdateCommit,
           Commit, UpdatesTypeOK, StoreTypeOK, SetTranscriptHash, SetAuthorization,
           SetFulfilled, SetFields
    <3>2. QED
      BY <2>2, <3>1
  <2>11. PICK q \in Requests :
           \/ Confirmed(q) \/ Authorized(q) \/ Fulfilled(q) \/ UpdateSelect(q) \/ UpdateCommit(q)
           \/ session' = session
           \/ \E ending \in SUBSET Requests : End(ending)
    BY DEF Next, Step, ConfirmGets, AuthorizeGets, FulfilGets, ReceiptsBreak, Restart,
           IntentOpens, IntentExpires, storeVars
  <2>12. QED
    BY <2>3, <2>4, <2>5, <2>6, <2>7, <2>8, <2>9, <2>10, <2>11
<1>4. QED
  BY <1>0, <1>1, <1>2, <1>3 DEF ColumnsInv

LEMMA ColumnsInvariant == Spec => []ColumnsInv
<1>1. ColumnsInv /\ UNCHANGED vars => ColumnsInv'
  BY DEF vars, storeVars, ColumnsInv, UpdatesTypeOK, StoreTypeOK, R!ReceiptsTypeOK, RowOK, HandlerOK,
         SessionOK, Writes, At, R!Complete
<1>2. ColumnsInv /\ [Next]_vars => ColumnsInv'
  BY <1>1, ColumnsStep
<1>3. QED
  BY InitColumns, <1>2, PTL DEF Spec

(* Rows, sessions, handlers and files have the shape the code gives them.  *)
THEOREM UpdatesTypeCorrect == Spec => []UpdatesTypeOK
<1>1. ColumnsInv => UpdatesTypeOK
  BY DEF ColumnsInv
<1>2. QED
  BY ColumnsInvariant, <1>1, PTL

(* However calls of generate_receipts break and whoever else writes to the *)
(* row, receipts that a row names are all on the disk.                     *)
THEOREM ReceiptSetsAreWhole == Spec => []ReceiptsComplete
<1>1. ColumnsInv => ReceiptsComplete
  BY DEF ColumnsInv, ReceiptsComplete, RowOK
<1>2. QED
  BY ColumnsInvariant, <1>1, PTL

(* A step of the two-statement updates is an assignment of one column in   *)
(* AtomicStore, allowed there, or changes none.                            *)
LEMMA AtomicStep ==
  ASSUME ColumnsInv, [Next]_vars
  PROVE  [Atomic!AtomicNext]_(Atomic!columns)
<1> USE DEF Columns
<1>1. CASE rows' = rows
  BY <1>1 DEF Atomic!columns
<1>2. ASSUME NEW r \in Requests, UpdateCommit(r)
      PROVE  [Atomic!AtomicNext]_(Atomic!columns)
  <2> DEFINE s == session[r]
  <2>1. /\ s # NoSession /\ s.intent \in Intents /\ s.fields \in Fields
        /\ \A i \in Intents \ {s.intent} : rows'[i] = rows[i]
        /\ \A c \in Columns :
             rows'[s.intent][c] = IF c \in DOMAIN s.fields /\ s.fields[c] # s.loaded[c]
                                  THEN s.fields[c] ELSE rows[s.intent][c]
    BY <1>2, CommitEffect DEF UpdateCommit, ColumnsInv, UpdatesTypeOK
  <2>2. SessionOK(r)
    BY DEF ColumnsInv
  <2>3. PICK i \in Intents : i = s.intent
    BY <2>1
  <2>4. CASE DOMAIN s.fields = {"transcript_hash"} /\ s.fields.transcript_hash \in Hashes
    <3>1. /\ \A j \in Intents : /\ rows'[j].authorization_id = rows[j].authorization_id
                                /\ rows'[j].receipts = rows[j].receipts
          /\ \A j \in Intents \ {i} : rows'[j].transcript_hash = rows[j].transcript_hash
          /\ rows'[i].transcript_hash \in {rows[i].transcript_hash, s.fields.transcript_hash}
      BY <2>1, <2>3, <2>4
    <3>2. CASE rows'[i].transcript_hash = rows[i].transcript_hash
      BY <3>1, <3>2 DEF Atomic!columns
    <3>3. CASE rows'[i].transcript_hash = s.fields.transcript_hash
      <4>1. Atomic!SetTranscriptHash(i)
        BY <2>4, <3>1, <3>3 DEF Atomic!SetTranscriptHash
      <4>2. QED
        BY <4>1 DEF Atomic!AtomicNext
    <3>4. QED
      BY <3>1, <3>2, <3>3
  <2>5. CASE /\ DOMAIN s.fields = {"authorization_id", "payment_reference"}
             /\ s.fields.authorization_id \in Auths
    <3>1. /\ \A j \in Intents : /\ rows'[j].transcript_hash = rows[j].transcript_hash
                                /\ rows'[j].receipts = rows[j].receipts
          /\ \A j \in Intents \ {i} : rows'[j].authorization_id = rows[j].authorization_id
          /\ rows'[i].authorization_id \in {rows[i].authorization_id, s.fields.authorization_id}
      BY <2>1, <2>3, <2>5
    <3>2. CASE rows'[i].authorization_id = rows[i].authorization_id
      BY <3>1, <3>2 DEF Atomic!columns
    <3>3. CASE rows'[i].authorization_id = s.fields.authorization_id
      <4>1. rows[i].transcript_hash # None
        BY <2>1, <2>2, <2>3, <2>5 DEF SessionOK, Writes
      <4>2. Atomic!SetAuthorization(i)
        BY <2>5, <3>1, <3>3, <4>1 DEF Atomic!SetAuthorization
      <4>3. QED
        BY <4>2 DEF Atomic!AtomicNext
    <3>4. QED
      BY <3>1, <3>2, <3>3
  <2>6. CASE DOMAIN s.fields = {"receipts"} /\ s.fields.receipts \in Receipts
    <3>1. /\ \A j \in Intents : /\ rows'[j].transcript_hash = rows[j].transcript_hash
                                /\ rows'[j].authorization_id = rows[j].authorization_id
          /\ \A j \in Intents \ {i} : rows'[j].receipts = rows[j].receipts
          /\ rows'[i].receipts \in {rows[i].receipts, s.fields.receipts}
      BY <2>1, <2>3, <2>6
    <3>2. CASE rows'[i].receipts = rows[i].receipts
      BY <3>1, <3>2 DEF Atomic!columns
    <3>3. CASE rows'[i].receipts = s.fields.receipts
      <4>1. rows[i].authorization_id # None
        BY <2>1, <2>2, <2>3, <2>6 DEF SessionOK, Writes
      <4>2. Atomic!SetFulfilled(i)
        BY <2>6, <3>1, <3>3, <4>1 DEF Atomic!SetFulfilled
      <4>3. QED
        BY <4>2 DEF Atomic!AtomicNext
    <3>4. QED
      BY <3>1, <3>2, <3>3
  <2>7. QED
    BY <2>1, <2>4, <2>5, <2>6, FieldsShape
<1>3. rows' = rows \/ \E r \in Requests : UpdateCommit(r)
  BY DEF Next, Step, ConfirmGets, AuthorizeGets, FulfilGets, Confirmed, Authorized, Fulfilled,
         ReceiptsBreak, UpdateSelect, Select, End, Restart, IntentOpens, IntentExpires, storeVars,
         vars
<1>4. QED
  BY <1>1, <1>2, <1>3

(* The set_ methods, SELECT and UPDATE interleaved with those of others,   *)
(* implement a store in which each assigns its column at once.             *)
THEOREM StoreIsAtomic == Spec => AtomicImplemented
<1>1. Init => Atomic!AtomicInit
  BY DEF Init, StoreInit, Blank, Columns, Atomic!AtomicInit
<1>2. ColumnsInv /\ [Next]_vars => [Atomic!AtomicNext]_(Atomic!columns)
  BY AtomicStep
<1>3. QED
  BY <1>1, <1>2, ColumnsInvariant, PTL DEF Spec, AtomicImplemented, Atomic!AtomicSpec

-----------------------------------------------------------------------------
(* A request in the middle of set_authorization, and the id it has.        *)
Binds(r) == Writes(r, "authorization_id")
Id(r) == session[r].fields.authorization_id

(* An authorization that was made and is not about to be written.          *)
Spent(a) == a \in DOMAIN given /\ \A r \in Requests : Binds(r) => Id(r) # a

(* The PSP gave this reference to an authorization of this order before.   *)
Source(i, reference) ==
  \E a \in DOMAIN given : Spent(a) /\ given[a] = [intent |-> i, payment_reference |-> reference]

(* What a request about to bind an authorization knows: the id is its own, *)
(* in no row yet; another at the same order makes the order overlapped;    *)
(* and what it SELECTed is an older id, an older reference, and still in   *)
(* the row if no other was there.                                          *)
CallOK(r) ==
  Binds(r) =>
    LET s == session[r]
    IN  /\ Id(r) \in DOMAIN given
        /\ given[Id(r)] = [intent |-> s.intent, payment_reference |-> s.fields.payment_reference]
        /\ \A i \in Intents : rows[i].authorization_id # Id(r)
        /\ \A q \in Requests \ {r} :
             Binds(q) => /\ Id(q) # Id(r)
                         /\ session[q].intent = s.intent => s.intent \in overlapped
        /\ s.step = "commit" =>
             /\ s.loaded.authorization_id # Id(r)
             /\ s.loaded.payment_reference # None => Source(s.intent, s.loaded.payment_reference)
             /\ \/ rows[s.intent].payment_reference = s.loaded.payment_reference
                \/ s.intent \in overlapped

PairOK(i) ==
  \/ Paired(i)
  \/ LET a == rows[i].authorization_id
     IN  i \in overlapped /\ \E b \in DOMAIN given \ {a} : given[b] = given[a]

PairRowOK(i) ==
  /\ rows[i].authorization_id \in DOMAIN given \union {None}
  /\ rows[i].payment_reference # None => Source(i, rows[i].payment_reference)
  /\ PairOK(i)

(* The inductive invariant of the pair, on top of that of the columns.     *)
PairsInv == /\ \A r \in Requests : CallOK(r)
            /\ \A i \in Intents : PairRowOK(i)

LEMMA InitPairs == Init => PairsInv
  BY DEF Init, StoreInit, Blank, Columns, PairsInv, CallOK, PairRowOK, PairOK, Paired, Binds, Writes

LEMMA BindsShape ==
  ASSUME UpdatesTypeOK, NEW r \in Requests, Binds(r)
  PROVE  /\ session[r] # NoSession /\ session[r].intent \in Intents
         /\ session[r].fields \in Fields
         /\ DOMAIN session[r].fields = {"authorization_id", "payment_reference"}
         /\ Id(r) \in Auths
         /\ session[r].fields.payment_reference \in References
         /\ session[r].step \in {"select", "commit"}
         /\ session[r].step = "commit" => session[r].loaded \in OrderIntent
<1>1. /\ session[r] # NoSession /\ session[r].intent \in Intents
      /\ session[r].fields \in Fields
      /\ session[r].step \in {"select", "commit"}
      /\ session[r].step = "commit" => session[r].loaded \in OrderIntent
  BY SessionShape DEF Binds, Writes, UpdatesTypeOK, StoreTypeOK
<1>2. "authorization_id" \in DOMAIN session[r].fields
  BY DEF Binds, Writes
<1>3. QED
  BY <1>1, <1>2, FieldsShape DEF Id

(* A reference that was given stays so, when the sessions that are about   *)
(* to bind an id are those of before or have a new id.                     *)
LEMMA SourceStays ==
  ASSUME \A a \in DOMAIN given : a \in DOMAIN given' /\ given'[a] = given[a],
         \A r \in Requests : Binds(r)' => \/ Id(r)' \notin DOMAIN given
                                          \/ Binds(r) /\ Id(r)' = Id(r)
  PROVE  \A i \in Intents : \A p \in References : Source(i, p) => Source(i, p)'
  BY DEF Source, Spent

(* What is true of a call stays so in a step that leaves it alone.         *)
LEMMA CallStays ==
  ASSUME UpdatesTypeOK, NEW r \in Requests, CallOK(r), session'[r] = session[r],
         \A a \in DOMAIN given : a \in DOMAIN given' /\ given'[a] = given[a],
         overlapped \subseteq overlapped',
         Binds(r) => \A i \in Intents : rows'[i].authorization_id # Id(r),
         \A i \in Intents : \A p \in References : Source(i, p) => Source(i, p)',
         Binds(r) => \A q \in Requests \ {r} :
           Binds(q)' => /\ Id(q)' # Id(r)
                        /\ session'[q].intent = session[r].intent
                             => session[r].intent \in overlapped',
         Binds(r) => \/ rows'[session[r].intent].payment_reference
                          = rows[session[r].intent].payment_reference
                     \/ session[r].intent \in overlapped'
  PROVE  CallOK(r)'
<1> SUFFICES ASSUME Binds(r)
             PROVE  CallOK(r)'
  BY DEF CallOK, Binds, Writes
<1>1. /\ session[r].intent \in Intents
      /\ session[r].step = "commit" => session[r].loaded \in OrderIntent
  BY BindsShape
<1>2. Id(r)' = Id(r)
  BY DEF Id
<1>3. ASSUME session[r].step = "commit", session[r].loaded.payment_reference # None
      PROVE  Source(session[r].intent, session[r].loaded.payment_reference)'
  <2>1. PICK i \in Intents, p \in References :
          i = session[r].intent /\ p = session[r].loaded.payment_reference
    BY <1>1, <1>3 DEF OrderIntent
  <2>2. Source(i, p)'
    BY <1>3, <2>1 DEF CallOK
  <2>3. QED
    BY <2>1, <2>2 DEF Source
<1>4. QED
  BY <1>1, <1>2, <1>3 DEF CallOK

(* What is true of the pair of a row stays so while nothing is written.    *)
LEMMA PairStays ==
  ASSUME UpdatesTypeOK, NEW i \in Intents, PairRowOK(i),
         rows'[i].authorization_id = rows[i].authorization_id,
         rows'[i].payment_reference = rows[i].payment_reference,
         \A a \in DOMAIN given : a \in DOMAIN given' /\ given'[a] = given[a],
         overlapped \subseteq overlapped',
         \A p \in References : Source(i, p) => Source(i, p)'
  PROVE  PairRowOK(i)'
<1>1. rows[i] \in OrderIntent
  BY DEF UpdatesTypeOK, StoreTypeOK
<1>2. ASSUME rows[i].payment_reference # None
      PROVE  Source(i, rows[i].payment_reference)'
  <2>1. PICK p \in References : p = rows[i].payment_reference
    BY <1>1, <1>2 DEF OrderIntent
  <2>2. Source(i, p)'
    BY <1>2, <2>1 DEF PairRowOK
  <2>3. QED
    BY <2>1, <2>2 DEF Source
<1>3. PairOK(i)'
  BY DEF PairRowOK, PairOK, Paired
<1>4. QED
  BY <1>2, <1>3 DEF PairRowOK

(* A step in which no call binds an id and no call of that kind begins or  *)
(* goes on: some of them may end.                                          *)
LEMMA PairsQuiet ==
  ASSUME UpdatesTypeOK, PairsInv, given' = given, overlapped' = overlapped,
         \A i \in Intents : /\ rows'[i].authorization_id = rows[i].authorization_id
                            /\ rows'[i].payment_reference = rows[i].payment_reference,
         \A r \in Requests : Binds(r)' => session'[r] = session[r]
  PROVE  PairsInv'
<1>1. \A r \in Requests : Binds(r)' => /\ Binds(r) /\ session'[r] = session[r]
                                       /\ Id(r)' = Id(r)
  BY DEF Binds, Writes, Id
<1>2. \A i \in Intents : \A p \in References : Source(i, p) => Source(i, p)'
  BY <1>1, SourceStays
<1>3. ASSUME NEW r \in Requests
      PROVE  CallOK(r)'
  <2>1. CASE Binds(r)'
    <3>1. CallOK(r) /\ Binds(r) /\ session'[r] = session[r]
      BY <1>1, <2>1 DEF PairsInv
    <3>2. \A i \in Intents : rows'[i].authorization_id # Id(r)
      BY <3>1 DEF CallOK
    <3>3. \A q \in Requests \ {r} :
            Binds(q)' => /\ Id(q)' # Id(r)
                         /\ session'[q].intent = session[r].intent
                              => session[r].intent \in overlapped'
      BY <1>1, <3>1 DEF CallOK
    <3>4. session[r].intent \in Intents
      BY <3>1, BindsShape
    <3>5. QED
      BY <1>2, <3>1, <3>2, <3>3, <3>4, CallStays
  <2>2. CASE ~ Binds(r)'
    BY <2>2 DEF CallOK
  <2>3. QED
    BY <2>1, <2>2
<1>4. ASSUME NEW i \in Intents
      PROVE  PairRowOK(i)'
  BY <1>2, PairStays DEF PairsInv
<1>5. QED
  BY <1>3, <1>4 DEF PairsInv

(* The PSP answered: a call begins, with an id of its own.                 *)
LEMMA PairsAuthorized ==
  ASSUME UpdatesTypeOK, UpdatesTypeOK', PairsInv, NEW r \in Requests, Authorized(r)
  PROVE  PairsInv'
<1> DEFINE n == Len(given) + 1
<1>1. PICK i \in Intents : i = handler[r].intent
  BY HandlerShape DEF Authorized, At, UpdatesTypeOK
<1>2. PICK p \in References :
        /\ given' = Append(given, [intent |-> i, payment_reference |-> p])
        /\ session' = [session EXCEPT ![r] =
             [step |-> "select", intent |-> i,
              fields |-> [authorization_id |-> n, payment_reference |-> p]]]
  BY <1>1 DEF Authorized, SetAuthorization, SetFields
<1>3. /\ DOMAIN given = 1 .. Len(given) /\ Len(given) \in Nat /\ n \notin DOMAIN given
      /\ n \in DOMAIN given' /\ given'[n] = [intent |-> i, payment_reference |-> p]
      /\ \A a \in DOMAIN given : a \in DOMAIN given' /\ given'[a] = given[a]
  BY <1>2 DEF UpdatesTypeOK
<1>4. /\ session'[r] # NoSession /\ session'[r].step = "select" /\ session'[r].intent = i
      /\ DOMAIN session'[r].fields = {"authorization_id", "payment_reference"}
      /\ session'[r].fields.authorization_id = n /\ session'[r].fields.payment_reference = p
      /\ \A q \in Requests \ {r} : session'[q] = session[q]
  BY <1>2 DEF UpdatesTypeOK, StoreTypeOK, NoSession
<1>5. rows' = rows /\ overlapped' = IF Authorizing(i) = {} THEN overlapped
                                                            ELSE overlapped \union {i}
  BY <1>1 DEF Authorized
<1>6. \A q \in Requests \ {r} : (Binds(q)' <=> Binds(q)) /\ Id(q)' = Id(q)
  BY <1>4 DEF Binds, Writes, Id
<1>7. Binds(r)' /\ Id(r)' = n
  BY <1>4 DEF Binds, Writes, Id
<1>8. \A q \in Requests : Binds(q) => Id(q) \in DOMAIN given
  BY DEF PairsInv, CallOK
<1>9. \A j \in Intents : \A x \in References : Source(j, x) => Source(j, x)'
  <2>1. \A q \in Requests : Binds(q)' => \/ Id(q)' \notin DOMAIN given
                                         \/ Binds(q) /\ Id(q)' = Id(q)
    BY <1>3, <1>6, <1>7
  <2>2. QED
    BY <1>3, <2>1, SourceStays
<1>10. \A q \in Requests \ {r} : Binds(q) /\ session[q].intent = i => i \in overlapped'
  BY <1>5 DEF Binds, Writes, Authorizing
<1>11. \A j \in Intents : rows[j].authorization_id # n
  <2>1. \A j \in Intents : rows[j].authorization_id \in DOMAIN given \union {None}
    BY DEF PairsInv, PairRowOK
  <2>2. n \in Auths
    BY <1>4, BindsShape, UpdateBounds DEF Authorized, UpdatesTypeOK
  <2>3. QED
    BY <1>3, <2>1, <2>2, NullIsNoValue
<1>12. CallOK(r)'
  <2>1. /\ \A j \in Intents : rows'[j].authorization_id # n
        /\ \A q \in Requests \ {r} : Binds(q)' => /\ Id(q)' # n
                                                  /\ session'[q].intent = i => i \in overlapped'
    BY <1>3, <1>4, <1>5, <1>6, <1>8, <1>10, <1>11
  <2>2. QED
    BY <1>3, <1>4, <1>7, <2>1 DEF CallOK
<1>13. ASSUME NEW q \in Requests, q # r
       PROVE  CallOK(q)'
  <2>1. CallOK(q) /\ session'[q] = session[q]
    BY <1>4, <1>13 DEF PairsInv
  <2>2. Binds(q) => \A j \in Intents : rows'[j].authorization_id # Id(q)
    BY <1>5, <2>1 DEF CallOK
  <2>3. ASSUME Binds(q), NEW o \in Requests \ {q}, Binds(o)'
        PROVE  /\ Id(o)' # Id(q)
               /\ session'[o].intent = session[q].intent => session[q].intent \in overlapped'
    <3>1. CASE o = r
      BY <1>3, <1>4, <1>7, <1>8, <1>10, <1>13, <2>3, <3>1
    <3>2. CASE o # r
      BY <1>4, <1>5, <1>6, <2>1, <2>3, <3>2 DEF CallOK
    <3>3. QED
      BY <3>1, <3>2
  <2>4. QED
    BY <1>3, <1>5, <1>9, <2>1, <2>2, <2>3, CallStays
<1>14. ASSUME NEW j \in Intents
       PROVE  PairRowOK(j)'
  BY <1>3, <1>5, <1>9, PairStays DEF PairsInv
<1>15. QED
  BY <1>12, <1>13, <1>14 DEF PairsInv

(* The SELECT of a call: the row has an older id and an older reference.   *)
LEMMA PairsSelect ==
  ASSUME UpdatesTypeOK, PairsInv, NEW r \in Requests, UpdateSelect(r), Binds(r)
  PROVE  PairsInv'
<1>1. PICK i \in Intents : i = session[r].intent
  BY BindsShape
<1>2. /\ session' = [session EXCEPT ![r] =
           [step |-> "commit", intent |-> i, fields |-> session[r].fields, loaded |-> rows[i]]]
      /\ rows' = rows /\ given' = given /\ overlapped' = overlapped
  BY <1>1 DEF UpdateSelect, Select
<1>3. /\ session'[r] # NoSession /\ session'[r].step = "commit" /\ session'[r].intent = i
      /\ session'[r].fields = session[r].fields /\ session'[r].loaded = rows[i]
      /\ \A q \in Requests \ {r} : session'[q] = session[q]
  BY <1>2 DEF UpdatesTypeOK, StoreTypeOK, NoSession
<1>4. /\ \A q \in Requests : /\ Binds(q)' <=> Binds(q)
                             /\ Id(q)' = Id(q)
                             /\ Binds(q) => session'[q].intent = session[q].intent
  BY <1>1, <1>3 DEF Binds, Writes, Id
<1>5. \A j \in Intents : \A x \in References : Source(j, x) => Source(j, x)'
  BY <1>2, <1>4, SourceStays
<1>6. CallOK(r)'
  <2>1. CallOK(r) /\ PairRowOK(i) /\ rows[i] \in OrderIntent
    BY DEF PairsInv, UpdatesTypeOK, StoreTypeOK
  <2>2. PICK row \in OrderIntent : row = rows[i]
    BY <2>1
  <2>3. /\ Id(r) \in DOMAIN given
        /\ given[Id(r)] = [intent |-> i, payment_reference |-> session[r].fields.payment_reference]
        /\ \A j \in Intents : rows[j].authorization_id # Id(r)
        /\ \A q \in Requests \ {r} :
             Binds(q) => /\ Id(q) # Id(r)
                         /\ session[q].intent = i => i \in overlapped
    BY <1>1, <2>1 DEF CallOK
  <2>4. \A q \in Requests \ {r} :
          Binds(q)' => /\ Id(q)' # Id(r)'
                       /\ session'[q].intent = i => i \in overlapped'
    BY <1>2, <1>4, <2>3
  <2>5. row.payment_reference # None => Source(i, row.payment_reference)'
    BY <1>5, <2>1, <2>2 DEF PairRowOK, OrderIntent
  <2>6. PICK reference : reference = session[r].fields.payment_reference
    OBVIOUS
  <2>7. /\ Id(r)' \in DOMAIN given'
        /\ given'[Id(r)'] = [intent |-> i, payment_reference |-> reference]
        /\ session'[r].fields.payment_reference = reference
        /\ \A j \in Intents : rows'[j].authorization_id # Id(r)'
        /\ rows'[i].payment_reference = row.payment_reference
        /\ row.authorization_id # Id(r)'
    BY <1>2, <1>3, <1>4, <2>2, <2>3, <2>6
  <2>8. session'[r].loaded = row
    BY <1>3, <2>2
  <2>9. QED
    BY <1>3, <2>4, <2>5, <2>7, <2>8 DEF CallOK
<1>7. ASSUME NEW q \in Requests, q # r
      PROVE  CallOK(q)'
  <2>1. CallOK(q) /\ session'[q] = session[q]
    BY <1>3, <1>7 DEF PairsInv
  <2>2. ASSUME Binds(q)
        PROVE  /\ \A j \in Intents : rows'[j].authorization_id # Id(q)
               /\ \A o \in Requests \ {q} :
                    Binds(o)' => /\ Id(o)' # Id(q)
                                 /\ session'[o].intent = session[q].intent
                                      => session[q].intent \in overlapped'
    BY <1>2, <1>4, <2>1, <2>2 DEF CallOK
  <2>3. QED
    BY <1>2, <1>5, <2>1, <2>2, CallStays
<1>8. ASSUME NEW j \in Intents
      PROVE  PairRowOK(j)'
  BY <1>2, <1>5, PairStays DEF PairsInv
<1>9. QED
  BY <1>6, <1>7, <1>8 DEF PairsInv

(* The UPDATE of a call: the id is written, it is no row's; the reference  *)
(* is written unless it was SELECTed already, and then it is still there   *)
(* or the order is overlapped and the reference of an older authorization. *)
LEMMA PairsCommit ==
  ASSUME UpdatesTypeOK, UpdatesTypeOK', PairsInv, NEW r \in Requests, UpdateCommit(r), Binds(r)
  PROVE  PairsInv'
<1> USE DEF Columns
<1>1. PICK i \in Intents, a \in Auths, p \in References, loaded \in OrderIntent :
        /\ i = session[r].intent /\ a = Id(r) /\ p = session[r].fields.payment_reference
        /\ loaded = session[r].loaded
  BY BindsShape DEF UpdateCommit, Commit
<1>2. /\ session[r].step = "commit" /\ session' = [session EXCEPT ![r] = NoSession]
      /\ given' = given /\ overlapped' = overlapped
  BY DEF UpdateCommit, Commit
<1>3. /\ a \in DOMAIN given /\ given[a] = [intent |-> i, payment_reference |-> p]
      /\ \A j \in Intents : rows[j].authorization_id # a
      /\ \A q \in Requests \ {r} : Binds(q) => /\ Id(q) # a
                                               /\ session[q].intent = i => i \in overlapped
      /\ loaded.authorization_id # a
      /\ loaded.payment_reference # None => Source(i, loaded.payment_reference)
      /\ rows[i].payment_reference = loaded.payment_reference \/ i \in overlapped
  BY <1>1, <1>2 DEF PairsInv, CallOK
<1>4. /\ \A j \in Intents \ {i} : rows'[j] = rows[j]
      /\ rows'[i].authorization_id = a
      /\ rows'[i].payment_reference = IF p # loaded.payment_reference
                                      THEN p ELSE rows[i].payment_reference
  <2>1. /\ \A j \in Intents \ {i} : rows'[j] = rows[j]
        /\ \A c \in Columns :
             rows'[i][c] = IF c \in DOMAIN session[r].fields /\ session[r].fields[c] # loaded[c]
                           THEN session[r].fields[c] ELSE rows[i][c]
    BY <1>1, CommitEffect DEF UpdatesTypeOK, UpdateCommit
  <2>2. /\ DOMAIN session[r].fields = {"authorization_id", "payment_reference"}
        /\ session[r].fields.authorization_id = a
    BY <1>1, BindsShape DEF Id
  <2>3. QED
    BY <1>1, <1>3, <2>1, <2>2
<1>5. /\ ~ Binds(r)'
      /\ \A q \in Requests \ {r} : /\ session'[q] = session[q]
                                   /\ Binds(q)' <=> Binds(q)
                                   /\ Id(q)' = Id(q)
  BY <1>2 DEF UpdatesTypeOK, StoreTypeOK, Binds, Writes, Id
<1>6. \A j \in Intents : \A x \in References : Source(j, x) => Source(j, x)'
  BY <1>2, <1>5, SourceStays
<1>7. Source(i, p)'
  <2>1. Spent(a)'
    BY <1>2, <1>3, <1>5 DEF Spent
  <2>2. QED
    BY <1>2, <1>3, <2>1 DEF Source
<1>8. ASSUME NEW q \in Requests
      PROVE  CallOK(q)'
  <2>1. CASE ~ Binds(q)'
    BY <2>1 DEF CallOK
  <2>2. CASE Binds(q)'
    <3>1. CallOK(q) /\ Binds(q) /\ q # r /\ session'[q] = session[q] /\ session[q].intent \in Intents
      BY <1>5, <2>2, BindsShape DEF PairsInv
    <3>2. \A j \in Intents : rows'[j].authorization_id # Id(q)
      BY <1>3, <1>4, <3>1 DEF CallOK
    <3>3. \A o \in Requests \ {q} :
            Binds(o)' => /\ Id(o)' # Id(q)
                         /\ session'[o].intent = session[q].intent
                              => session[q].intent \in overlapped'
      BY <1>2, <1>5, <3>1 DEF CallOK
    <3>4. \/ rows'[session[q].intent].payment_reference
               = rows[session[q].intent].payment_reference
          \/ session[q].intent \in overlapped'
      BY <1>2, <1>3, <1>4, <3>1
    <3>5. QED
      BY <1>2, <1>6, <3>1, <3>2, <3>3, <3>4, CallStays
  <2>3. QED
    BY <2>1, <2>2
<1>9. ASSUME NEW j \in Intents, j # i
      PROVE  PairRowOK(j)'
  BY <1>2, <1>4, <1>6, <1>9, PairStays DEF PairsInv
<1>10. PairRowOK(i)'
  <2>1. CASE rows'[i].payment_reference = p
    <3>1. PairOK(i)'
      BY <1>2, <1>3, <1>4, <2>1 DEF PairOK, Paired
    <3>2. QED
      BY <1>2, <1>3, <1>4, <1>7, <2>1, <3>1 DEF PairRowOK, Source
  <2>2. CASE rows'[i].payment_reference # p
    <3>1. /\ p = loaded.payment_reference /\ p # None
          /\ rows'[i].payment_reference = rows[i].payment_reference
          /\ i \in overlapped
      BY <1>3, <1>4, <2>2, NullIsNoValue
    <3>2. PICK b \in DOMAIN given : b # a /\ given[b] = given[a]
      <4>1. Source(i, p) /\ Binds(r)
        BY <1>3, <3>1
      <4>2. QED
        BY <1>1, <1>3, <4>1 DEF Source, Spent
    <3>3. PairOK(i)'
      BY <1>2, <1>4, <3>1, <3>2 DEF PairOK
    <3>4. rows'[i].payment_reference # None => Source(i, rows[i].payment_reference)'
      <4>1. ASSUME rows[i].payment_reference # None
            PROVE  Source(i, rows[i].payment_reference)'
        <5>1. PICK x \in References : x = rows[i].payment_reference
          BY <4>1 DEF UpdatesTypeOK, StoreTypeOK, OrderIntent
        <5>2. Source(i, x)'
          BY <1>6, <4>1, <5>1 DEF PairsInv, PairRowOK
        <5>3. QED
          BY <3>1, <5>1, <5>2 DEF Source
      <4>2. QED
        BY <3>1, <4>1
    <3>5. QED
      BY <1>2, <1>3, <1>4, <3>3, <3>4 DEF PairRowOK
  <2>3. QED
    BY <2>1, <2>2
<1>11. QED
  BY <1>8, <1>9, <1>10 DEF PairsInv

LEMMA PairsStep ==
  ASSUME ColumnsInv, PairsInv, [Next]_vars
  PROVE  PairsInv'
<1> USE DEF Columns
<1>0. UpdatesTypeOK
  BY DEF ColumnsInv
<1>1. ASSUME NEW r \in Requests, Authorized(r)
      PROVE  PairsInv'
  <2>1. UpdatesTypeOK'
    BY <1>1, TypeStep DEF Next, Step
  <2>2. QED
    BY <1>0, <1>1, <2>1, PairsAuthorized
<1>2. ASSUME NEW r \in Requests, UpdateSelect(r)
      PROVE  PairsInv'
  <2>1. CASE Binds(r)
    BY <1>0, <1>2, <2>1, PairsSelect
  <2>2. CASE ~ Binds(r)
    <3>1. /\ \A q \in Requests \ {r} : session'[q] = session[q]
          /\ session'[r].fields = session[r].fields
          /\ session[r] # NoSession
          /\ rows' = rows /\ given' = given /\ overlapped' = overlapped
      BY <1>0, <1>2 DEF UpdateSelect, Select, NoSession, UpdatesTypeOK, StoreTypeOK
    <3>2. ~ Binds(r)'
      BY <2>2, <3>1 DEF Binds, Writes
    <3>3. QED
      BY <1>0, <3>1, <3>2, PairsQuiet
  <2>3. QED
    BY <2>1, <2>2
<1>3. ASSUME NEW r \in Requests, UpdateCommit(r)
      PROVE  PairsInv'
  <2>1. CASE Binds(r)
    <3>1. UpdatesTypeOK'
      BY <1>3, TypeStep DEF Next, Step
    <3>2. QED
      BY <1>0, <1>3, <2>1, <3>1, PairsCommit
  <2>2. CASE ~ Binds(r)
    <3> DEFINE s == session[r]
    <3>1. /\ s # NoSession /\ s.intent \in Intents /\ s.fields \in Fields
          /\ \A i \in Intents \ {s.intent} : rows'[i] = rows[i]
          /\ \A c \in Columns :
               rows'[s.intent][c] = IF c \in DOMAIN s.fields /\ s.fields[c] # s.loaded[c]
                                    THEN s.fields[c] ELSE rows[s.intent][c]
      BY <1>0, <1>3, CommitEffect DEF UpdateCommit, UpdatesTypeOK
    <3>2. "authorization_id" \notin DOMAIN s.fields /\ "payment_reference" \notin DOMAIN s.fields
      BY <2>2, <3>1, FieldsShape DEF Binds, Writes
    <3>3. \A i \in Intents : /\ rows'[i].authorization_id = rows[i].authorization_id
                             /\ rows'[i].payment_reference = rows[i].payment_reference
      BY <3>1, <3>2
    <3>4. /\ session' = [session EXCEPT ![r] = NoSession]
          /\ given' = given /\ overlapped' = overlapped
      BY <1>3 DEF UpdateCommit, Commit
    <3>5. \A q \in Requests : Binds(q)' => session'[q] = session[q]
      BY <1>0, <3>4 DEF Binds, Writes, UpdatesTypeOK, StoreTypeOK
    <3>6. QED
      BY <1>0, <3>3, <3>4, <3>5, PairsQuiet
  <2>3. QED
    BY <2>1, <2>2
<1>4. ASSUME NEW r \in Requests, Confirmed(r) \/ Fulfilled(r)
      PROVE  PairsInv'
  <2>1. PICK i, fields : /\ session' = [session EXCEPT ![r] =
                               [step |-> "select", intent |-> i, fields |-> fields]]
                         /\ "authorization_id" \notin DOMAIN fields
    BY <1>4 DEF Confirmed, Fulfilled, SetTranscriptHash, SetFulfilled, SetFields
  <2>2. rows' = rows /\ given' = given /\ overlapped' = overlapped
    BY <1>4 DEF Confirmed, Fulfilled
  <2>3. \A q \in Requests : Binds(q)' => session'[q] = session[q]
    BY <1>0, <2>1 DEF Binds, Writes, UpdatesTypeOK, StoreTypeOK
  <2>4. QED
    BY <1>0, <2>2, <2>3, PairsQuiet
<1>5. ASSUME NEW ending \in SUBSET Requests, End(ending)
      PROVE  PairsInv'
  BY <1>0, <1>5, PairsQuiet DEF End, Binds, Writes, UpdatesTypeOK, StoreTypeOK
<1>6. CASE rows' = rows /\ session' = session /\ given' = given /\ overlapped' = overlapped
  BY <1>0, <1>6, PairsQuiet
<1>7. QED
  BY <1>1, <1>2, <1>3, <1>4, <1>5, <1>6
     DEF Next, Step, ConfirmGets, AuthorizeGets, FulfilGets, ReceiptsBreak, Restart,
         IntentOpens, IntentExpires, storeVars, vars

(* A row's authorization and its payment reference come from one answer of *)
(* the PSP, or else calls of set_authorization overlapped there and the    *)
(* PSP gave one reference twice: for any number of requests and orders.    *)
THEOREM PairsAgreeAlways == Spec => []PairsAgree
<1>1. PairsInv => PairsAgree
  BY DEF PairsInv, PairRowOK, PairOK, PairsAgree
<1>2. ColumnsInv /\ PairsInv /\ [Next]_vars => PairsInv'
  BY PairsStep
<1>3. QED
  BY InitPairs, <1>1, <1>2, ColumnsInvariant, PTL DEF Spec

-----------------------------------------------------------------------------
(* A request in the middle of set_fulfilled, and the stem of its receipts. *)
Fills(r) == Writes(r, "receipts")
Stem(r) == session[r].fields.receipts

(* The stem a request is about to write is made, is its own, and is in no  *)
(* row, nor was it when the request SELECTed.                              *)
StemOK(r) ==
  Fills(r) => /\ Stem(r) \in 1 .. stem
              /\ \A i \in Intents : rows[i].receipts # Stem(r)
              /\ \A q \in Requests \ {r} : Fills(q) => Stem(q) # Stem(r)
              /\ session[r].step = "commit" => session[r].loaded.receipts # Stem(r)

(* The inductive invariant of the stems, on top of that of the columns.    *)
StemsInv == /\ \A r \in Requests : StemOK(r)
            /\ \A i \in Intents : rows[i].receipts \in 1 .. stem \union {None}

LEMMA InitStems == Init => StemsInv
  BY DEF Init, StoreInit, Blank, Columns, StemsInv, StemOK, Fills, Writes

LEMMA FillsShape ==
  ASSUME UpdatesTypeOK, NEW r \in Requests, Fills(r)
  PROVE  /\ session[r] # NoSession /\ session[r].intent \in Intents
         /\ DOMAIN session[r].fields = {"receipts"} /\ Stem(r) \in Receipts
<1>1. /\ session[r] # NoSession /\ session[r].intent \in Intents
      /\ session[r].fields \in Fields
  BY SessionShape DEF Fills, Writes, UpdatesTypeOK, StoreTypeOK
<1>2. "receipts" \in DOMAIN session[r].fields
  BY DEF Fills, Writes
<1>3. QED
  BY <1>1, <1>2, FieldsShape DEF Stem

(* A step that writes no receipts and begins no call that would: some of   *)
(* those calls may end, or SELECT.                                         *)
LEMMA StemsQuiet ==
  ASSUME UpdatesTypeOK, StemsInv, stem' \in Nat, stem <= stem',
         \A i \in Intents : rows'[i].receipts = rows[i].receipts,
         \A r \in Requests : Fills(r)' =>
           /\ Fills(r) /\ Stem(r)' = Stem(r)
           /\ session'[r].step = "commit" =>
                \/ session[r].step = "commit" /\ session'[r].loaded = session[r].loaded
                \/ \E i \in Intents : session'[r].loaded = rows[i]
  PROVE  StemsInv'
<1>1. stem \in Nat
  BY UpdateBounds DEF UpdatesTypeOK, R!ReceiptsTypeOK
<1>2. ASSUME NEW r \in Requests, Fills(r)'
      PROVE  StemOK(r)'
  <2>1. Fills(r) /\ Stem(r)' = Stem(r) /\ StemOK(r)
    BY <1>2 DEF StemsInv
  <2>2. /\ Stem(r) \in 1 .. stem
        /\ \A i \in Intents : rows[i].receipts # Stem(r)
        /\ \A q \in Requests \ {r} : Fills(q) => Stem(q) # Stem(r)
        /\ session[r].step = "commit" => session[r].loaded.receipts # Stem(r)
    BY <2>1 DEF StemOK
  <2>3. \A q \in Requests \ {r} : Fills(q)' => Stem(q)' # Stem(r)'
    BY <2>1, <2>2
  <2>4. session'[r].step = "commit" => session'[r].loaded.receipts # Stem(r)
    BY <1>2, <2>2
  <2>5. Stem(r) \in 1 .. stem'
    BY <1>1, <2>2
  <2>6. QED
    BY <2>1, <2>2, <2>3, <2>4, <2>5 DEF StemOK
<1>3. \A i \in Intents : rows'[i].receipts \in 1 .. stem' \union {None}
  BY <1>1 DEF StemsInv
<1>4. QED
  BY <1>2, <1>3 DEF StemsInv, StemOK

(* generate_receipts returned: a call begins, with a stem of its own.      *)
LEMMA StemsFulfilled ==
  ASSUME UpdatesTypeOK, StemsInv, NEW r \in Requests, Fulfilled(r)
  PROVE  StemsInv'
<1>1. PICK n : n = stem + 1
  OBVIOUS
<1>2. stem \in Nat /\ n \in 1 .. MaxStem /\ stem' = n
  BY <1>1, UpdateBounds DEF Fulfilled, R!Write, UpdatesTypeOK, R!ReceiptsTypeOK
<1>3. /\ session' = [session EXCEPT ![r] =
           [step |-> "select", intent |-> handler[r].intent, fields |-> [receipts |-> n]]]
      /\ rows' = rows
  BY <1>1 DEF Fulfilled, SetFulfilled, SetFields
<1>4. /\ session'[r].step = "select" /\ session'[r].fields = [receipts |-> n]
      /\ session'[r] # NoSession
      /\ \A q \in Requests \ {r} : session'[q] = session[q]
  BY <1>3 DEF UpdatesTypeOK, StoreTypeOK, NoSession
<1>5. \A q \in Requests \ {r} : (Fills(q)' <=> Fills(q)) /\ Stem(q)' = Stem(q)
  BY <1>4 DEF Fills, Writes, Stem
<1>6. Stem(r)' = n
  BY <1>4 DEF Stem
<1>7. \A q \in Requests : Fills(q) => Stem(q) \in 1 .. stem
  BY DEF StemsInv, StemOK
<1>8. \A i \in Intents : rows[i].receipts # n
  BY <1>1, <1>2, UpdateBounds, NullIsNoValue DEF StemsInv
<1>9. StemOK(r)'
  <2>1. \A q \in Requests \ {r} : Fills(q)' => Stem(q)' # n
    BY <1>1, <1>2, <1>5, <1>7
  <2>2. n \in 1 .. stem'
    BY <1>2
  <2>3. QED
    BY <1>3, <1>4, <1>6, <1>8, <2>1, <2>2 DEF StemOK
<1>10. ASSUME NEW q \in Requests, q # r, Fills(q)
       PROVE  StemOK(q)'
  <2>1. /\ Stem(q) \in 1 .. stem
        /\ \A i \in Intents : rows[i].receipts # Stem(q)
        /\ \A o \in Requests \ {q} : Fills(o) => Stem(o) # Stem(q)
        /\ session[q].step = "commit" => session[q].loaded.receipts # Stem(q)
    BY <1>10 DEF StemsInv, StemOK
  <2>2. Stem(q) # n /\ Stem(q) \in 1 .. stem'
    BY <1>1, <1>2, <2>1
  <2>3. \A o \in Requests \ {q} : Fills(o)' => Stem(o)' # Stem(q)
    BY <1>5, <1>6, <2>1, <2>2
  <2>4. session'[q] = session[q] /\ Stem(q)' = Stem(q)
    BY <1>4, <1>5, <1>10
  <2>5. QED
    BY <1>3, <2>1, <2>2, <2>3, <2>4 DEF StemOK
<1>11. \A q \in Requests : StemOK(q)'
  BY <1>5, <1>9, <1>10 DEF StemOK
<1>12. \A i \in Intents : rows'[i].receipts \in 1 .. stem' \union {None}
  BY <1>1, <1>2, <1>3 DEF StemsInv
<1>13. QED
  BY <1>11, <1>12 DEF StemsInv

(* The UPDATE of a call: its stem gets into the row, the call ends.        *)
LEMMA StemsCommit ==
  ASSUME UpdatesTypeOK, StemsInv, NEW r \in Requests, UpdateCommit(r), Fills(r)
  PROVE  StemsInv' /\ rows'[session[r].intent].receipts = Stem(r)
<1> USE DEF Columns
<1>1. PICK i \in Intents, n \in 1 .. stem : i = session[r].intent /\ n = Stem(r)
  BY FillsShape DEF StemsInv, StemOK
<1>2. /\ session[r].step = "commit" /\ session' = [session EXCEPT ![r] = NoSession]
      /\ stem' = stem
  BY DEF UpdateCommit, Commit
<1>3. /\ session[r].loaded.receipts # n
      /\ \A q \in Requests \ {r} : Fills(q) => Stem(q) # n
  BY <1>1, <1>2 DEF StemsInv, StemOK
<1>4. /\ \A j \in Intents \ {i} : rows'[j] = rows[j]
      /\ rows'[i].receipts = n
  <2>1. /\ \A j \in Intents \ {i} : rows'[j] = rows[j]
        /\ \A c \in Columns :
             rows'[i][c] = IF c \in DOMAIN session[r].fields
                              /\ session[r].fields[c] # session[r].loaded[c]
                           THEN session[r].fields[c] ELSE rows[i][c]
    BY <1>1, CommitEffect DEF UpdatesTypeOK, UpdateCommit
  <2>2. DOMAIN session[r].fields = {"receipts"} /\ session[r].fields.receipts = n
    BY <1>1, FillsShape DEF Stem
  <2>3. QED
    BY <1>3, <2>1, <2>2
<1>5. /\ ~ Fills(r)'
      /\ \A q \in Requests \ {r} : /\ session'[q] = session[q]
                                   /\ Fills(q)' <=> Fills(q)
                                   /\ Stem(q)' = Stem(q)
  BY <1>2 DEF UpdatesTypeOK, StoreTypeOK, Fills, Writes, Stem
<1>6. ASSUME NEW q \in Requests, q # r, Fills(q)
      PROVE  StemOK(q)'
  <2>1. /\ Stem(q) \in 1 .. stem
        /\ \A j \in Intents : rows[j].receipts # Stem(q)
        /\ \A o \in Requests \ {q} : Fills(o) => Stem(o) # Stem(q)
        /\ session[q].step = "commit" => session[q].loaded.receipts # Stem(q)
    BY <1>6 DEF StemsInv, StemOK
  <2>2. \A j \in Intents : rows'[j].receipts # Stem(q)
    BY <1>3, <1>4, <1>6, <2>1
  <2>3. \A o \in Requests \ {q} : Fills(o)' => Stem(o)' # Stem(q)
    BY <1>5, <2>1
  <2>4. QED
    BY <1>2, <1>5, <1>6, <2>1, <2>2, <2>3 DEF StemOK
<1>7. \A q \in Requests : StemOK(q)'
  BY <1>5, <1>6 DEF StemOK
<1>8. \A j \in Intents : rows'[j].receipts \in 1 .. stem' \union {None}
  BY <1>2, <1>4 DEF StemsInv
<1>9. QED
  BY <1>1, <1>4, <1>7, <1>8 DEF StemsInv

LEMMA StemsStep ==
  ASSUME ColumnsInv, StemsInv, [Next]_vars
  PROVE  StemsInv'
<1> USE DEF Columns
<1>0. UpdatesTypeOK /\ stem \in Nat
  BY UpdateBounds DEF ColumnsInv, UpdatesTypeOK, R!ReceiptsTypeOK
<1>1. ASSUME stem' = stem \/ stem' = stem + 1, rows' = rows,
             \A r \in Requests : Fills(r)' => session'[r] = session[r]
      PROVE  StemsInv'
  <2>1. \A r \in Requests : Fills(r)' => Fills(r) /\ Stem(r)' = Stem(r)
    BY <1>1 DEF Fills, Writes, Stem
  <2>2. QED
    BY <1>0, <1>1, <2>1, StemsQuiet
<1>2. ASSUME NEW r \in Requests, UpdateSelect(r)
      PROVE  StemsInv'
  <2>1. PICK i \in Intents : i = session[r].intent
    BY <1>0, <1>2, SessionShape DEF UpdateSelect, Select, NoSession, UpdatesTypeOK, StoreTypeOK
  <2>2. /\ \A q \in Requests \ {r} : session'[q] = session[q]
        /\ session[r] # NoSession
        /\ session'[r].fields = session[r].fields
        /\ session'[r].loaded = rows[i]
        /\ rows' = rows /\ stem' = stem
    BY <1>0, <1>2, <2>1 DEF UpdateSelect, Select, NoSession, UpdatesTypeOK, StoreTypeOK
  <2>3. \A q \in Requests : Fills(q)' => Fills(q) /\ Stem(q)' = Stem(q)
    BY <2>2 DEF Fills, Writes, Stem
  <2>4. QED
    BY <1>0, <2>2, <2>3, StemsQuiet
<1>3. ASSUME NEW r \in Requests, UpdateCommit(r), ~ Fills(r)
      PROVE  StemsInv'
  <2> DEFINE s == session[r]
  <2>1. /\ s # NoSession /\ s.intent \in Intents /\ s.fields \in Fields
        /\ \A i \in Intents \ {s.intent} : rows'[i] = rows[i]
        /\ \A c \in Columns :
             rows'[s.intent][c] = IF c \in DOMAIN s.fields /\ s.fields[c] # s.loaded[c]
                                  THEN s.fields[c] ELSE rows[s.intent][c]
    BY <1>0, <1>3, CommitEffect DEF UpdateCommit, UpdatesTypeOK
  <2>2. "receipts" \notin DOMAIN s.fields
    BY <1>3, <2>1 DEF Fills, Writes
  <2>3. \A i \in Intents : rows'[i].receipts = rows[i].receipts
    BY <2>1, <2>2
  <2>4. session' = [session EXCEPT ![r] = NoSession] /\ stem' = stem
    BY <1>3 DEF UpdateCommit, Commit
  <2>5. \A q \in Requests : Fills(q)' => /\ Fills(q) /\ Stem(q)' = Stem(q)
                                         /\ session'[q] = session[q]
    BY <1>0, <2>4 DEF Fills, Writes, Stem, UpdatesTypeOK, StoreTypeOK
  <2>6. QED
    BY <1>0, <2>3, <2>4, <2>5, StemsQuiet
<1>4. ASSUME NEW r \in Requests, Confirmed(r) \/ Authorized(r)
      PROVE  StemsInv'
  <2>1. PICK i, fields : /\ session' = [session EXCEPT ![r] =
                               [step |-> "select", intent |-> i, fields |-> fields]]
                         /\ "receipts" \notin DOMAIN fields
    <3>1. CASE Confirmed(r)
      <4>1. PICK h, fields :
              /\ fields = [transcript_hash |-> h]
              /\ session' = [session EXCEPT ![r] =
                   [step |-> "select", intent |-> handler[r].intent, fields |-> fields]]
        BY <3>1 DEF Confirmed, SetTranscriptHash, SetFields
      <4>2. "receipts" \notin DOMAIN fields
        BY <4>1
      <4>3. QED
        BY <4>1, <4>2
    <3>2. CASE Authorized(r)
      <4>1. PICK fields, reference :
              /\ fields = [authorization_id |-> Len(given) + 1, payment_reference |-> reference]
              /\ session' = [session EXCEPT ![r] =
                   [step |-> "select", intent |-> handler[r].intent, fields |-> fields]]
        BY <3>2 DEF Authorized, SetAuthorization, SetFields
      <4>2. "receipts" \notin DOMAIN fields
        BY <4>1
      <4>3. QED
        BY <4>1, <4>2
    <3>3. QED
      BY <1>4, <3>1, <3>2
  <2>2. rows' = rows /\ stem' = stem
    BY <1>4 DEF Confirmed, Authorized
  <2>3. \A q \in Requests : Fills(q)' => session'[q] = session[q]
    BY <1>0, <2>1 DEF Fills, Writes, UpdatesTypeOK, StoreTypeOK
  <2>4. QED
    BY <1>1, <2>2, <2>3
<1>5. ASSUME NEW ending \in SUBSET Requests, End(ending)
      PROVE  StemsInv'
  <2>1. rows' = rows /\ stem' = stem
    BY <1>5 DEF End
  <2>2. \A q \in Requests : Fills(q)' => session'[q] = session[q]
    BY <1>5 DEF End, Fills, Writes
  <2>3. QED
    BY <1>1, <2>1, <2>2
<1>6. CASE rows' = rows /\ session' = session /\ (stem' = stem \/ stem' = stem + 1)
  BY <1>1, <1>6
<1>7. QED
  BY <1>0, <1>2, <1>3, <1>4, <1>5, <1>6, StemsFulfilled, StemsCommit
     DEF Next, Step, ConfirmGets, AuthorizeGets, FulfilGets, ReceiptsBreak, R!Write, Restart,
         IntentOpens, IntentExpires, storeVars, vars

(* A set_authorization or set_fulfilled that returns has written what it   *)
(* was given: ids and receipts are each of one call, so that the column it *)
(* SELECTed always differs and is not left out of the UPDATE.              *)
THEOREM CallsAreNotLost == Spec => CallsTakeEffect
<1>1. ASSUME ColumnsInv, PairsInv, StemsInv, NEW r \in Requests, UpdateCommit(r),
             NEW c \in DOMAIN session[r].fields \intersect {"authorization_id", "receipts"}
      PROVE  rows'[session[r].intent][c] = session[r].fields[c]
  <2>1. UpdatesTypeOK /\ session[r].step = "commit"
    BY <1>1 DEF ColumnsInv, UpdateCommit, Commit
  <2>2. CASE c = "receipts"
    <3>1. Fills(r)
      BY <1>1, <2>1, <2>2 DEF Fills, Writes, NoSession
    <3>2. QED
      BY <1>1, <2>1, <2>2, <3>1, StemsCommit DEF Stem
  <2>3. CASE c = "authorization_id"
    <3>1. Binds(r)
      BY <1>1, <2>1, <2>3 DEF Binds, Writes, NoSession
    <3>2. session[r].loaded.authorization_id # session[r].fields.authorization_id
      BY <1>1, <2>1, <3>1 DEF PairsInv, CallOK, Id
    <3>3. rows'[session[r].intent]["authorization_id"] =
            IF "authorization_id" \in DOMAIN session[r].fields
               /\ session[r].fields["authorization_id"] # session[r].loaded["authorization_id"]
            THEN session[r].fields["authorization_id"]
            ELSE rows[session[r].intent]["authorization_id"]
      BY <1>1, <2>1, CommitEffect DEF UpdatesTypeOK, UpdateCommit, Columns
    <3>4. QED
      BY <1>1, <2>3, <3>2, <3>3
  <2>4. QED
    BY <1>1, <2>2, <2>3
<1>2. ColumnsInv /\ PairsInv /\ StemsInv =>
        [\A r \in Requests : UpdateCommit(r) =>
           \A c \in DOMAIN session[r].fields \intersect {"authorization_id", "receipts"} :
             rows'[session[r].intent][c] = session[r].fields[c]]_vars
  BY <1>1
<1>3. ColumnsInv /\ PairsInv /\ [Next]_vars => PairsInv'
  BY PairsStep
<1>4. ColumnsInv /\ StemsInv /\ [Next]_vars => StemsInv'
  BY StemsStep
<1>5. QED
  BY <1>2, <1>3, <1>4, InitPairs, InitStems, ColumnsInvariant, PTL DEF Spec, CallsTakeEffect
=============================================================================
