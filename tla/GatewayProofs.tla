--------------------------- MODULE GatewayProofs ---------------------------
(***************************************************************************)
(* Proofs about Gateway, for any number of slots, intents, transcripts and *)
(* keys, any policy, any failures and restarts, and any bounds.            *)
(***************************************************************************)
EXTENDS Gateway, SequenceTheorems, TLAPS

LP == INSTANCE ConsentLedgerProofs WITH Appenders <- Slots, Contents <- Transcripts

-----------------------------------------------------------------------------
(* The types of what is Gateway's own, and of the nonces and the keys.     *)
OwnTypeOK ==
  /\ Nonce!NonceTypeOK
  /\ Idem!RecordsTypeOK
  /\ intents \in [Intents -> OrderIntent]
  /\ payments \subseteq Payment
  /\ issued \in Nat
  /\ files \in [Intents -> Seq(Transcripts)]
  /\ req \in [Slots -> Request]
  /\ answers \subseteq Answer

(* What a customer's consent to the order of intent i is.                  *)
Given(i, t) == t.signed /\ t.intent = i /\ t.nonce = i

(* A request past the checks of /confirm brings a consent; past the append *)
(* the consent is logged; past the checks of /authorize the order's row    *)
(* holds one, and past the PSP there is a payment, as there is past get in  *)
(* /fulfil.  Only /confirm and /authorize store a response, and for a key. *)
RequestOK(q, logged, rows, paid) ==
  /\ q.pc \in {"append", "set_hash"} => q.ask.endpoint = "confirm"
  /\ q.pc \in {"psp", "set_auth"} => q.ask.endpoint = "authorize"
  /\ q.pc \in {"store", "write"} => q.ask.endpoint # "fulfil" /\ q.ask.key # None
  /\ q.pc \in {"append", "set_hash", "psp"} => Given(q.ask.intent, q.ask.transcript)
  /\ q.pc \in {"set_hash", "psp"} => q.ask.transcript \in logged
  /\ q.pc \in {"psp", "set_auth"} => rows[q.ask.intent].transcript # None
  /\ q.pc = "set_auth" =>
       \E c \in paid : /\ c.intent = q.ask.intent /\ c.auth = q.body
                      /\ c.transcript = q.ask.transcript
  /\ q.pc = "receipts" =>
       /\ q.ask.transcript \in logged /\ Given(q.ask.intent, q.ask.transcript)
       /\ \E c \in paid : c.intent = q.ask.intent /\ c.auth # 0

(* A ledger session is open only in a request that appends, for its        *)
(* transcript.                                                             *)
SessionOK(s, q) ==
  s # Ledger!Idle =>
    /\ q.pc = "append"
    /\ s.step = "flush" => s.content = q.ask.transcript
    /\ s.step = "commit" => s.row.content = q.ask.transcript

RowOK(i, row, logged, paid) ==
  /\ row.transcript # None => row.transcript \in logged /\ Given(i, row.transcript)
  /\ row.auth # 0 =>
       /\ row.transcript # None
       /\ \E c \in paid : c.intent = i /\ c.auth = row.auth

PaymentOK(c, logged) == c.transcript \in logged /\ Given(c.intent, c.transcript)

FilesOK(i, shown, logged, paid) ==
  \A n \in DOMAIN shown : shown[n] \in logged /\ \E c \in paid : c.intent = i

(* The inductive invariant.                                                *)
FlowInv ==
  /\ \A r \in Slots : RequestOK(req[r], Logged, intents, payments)
  /\ \A r \in Slots : SessionOK(append[r], req[r])
  /\ \A i \in Intents : RowOK(i, intents[i], Logged, payments)
  /\ \A c \in payments : PaymentOK(c, Logged)
  /\ \A i \in Intents : FilesOK(i, files[i], Logged, payments)

GatewayInv == OwnTypeOK /\ LP!LinkInv /\ FlowInv

-----------------------------------------------------------------------------
LEMMA BusyShape ==
  ASSUME NEW q \in Request
  PROVE  /\ q = Free <=> q.pc = "free"
         /\ q.pc # "free" => q.ask \in Ask /\ q.body \in Nat
  BY DEF Request, Free

LEMMA PendingType ==
  ASSUME OwnTypeOK, NEW r \in Slots, NEW endpoint \in {"confirm", "authorize"},
         NEW ask \in Pending(r, endpoint)
  PROVE  ask \in Ask /\ ask.endpoint = endpoint
<1>1. req[r] \in Request
  BY DEF OwnTypeOK
<1>2. CASE req[r] = Free
  BY <1>2 DEF Pending, Ask
<1>3. CASE req[r] # Free
  BY <1>1, <1>3, BusyShape DEF Pending
<1>4. QED
  BY <1>2, <1>3

(* Adding a nonce keeps the cache well-formed.                             *)
LEMMA RememberType ==
  ASSUME Nonce!NonceTypeOK, NonceTtl \in Nat, NEW i \in Intents, Nonce!Remember(i)
  PROVE  cache' \subseteq Nonce!Item
<1>1. PICK kept \in Nonce!Kept : cache' = kept \union {Nonce!Used(i)}
  BY DEF Nonce!Remember
<1>2. kept \subseteq cache
  BY DEF Nonce!Kept, Nonce!Live
<1>3. Nonce!Used(i) \in Nonce!Item
  BY DEF Nonce!Used, Nonce!Item, Nonce!NonceTypeOK
<1>4. QED
  BY <1>1, <1>2, <1>3 DEF Nonce!NonceTypeOK

(* The steps of store keep the records well-formed.                        *)
LEMMA MergeType ==
  ASSUME Idem!RecordsTypeOK, NEW r \in Slots, Idem!Write(r)
  PROVE  Idem!RecordsTypeOK'
<1>1. merge[r] \in Idem!Merge
  BY DEF Idem!RecordsTypeOK
<1>2. merge[r].step = "write" => merge[r].row \in Idem!Record /\ merge[r].loaded \subseteq Idem!Record
  BY <1>1 DEF Idem!Merge, Idem!NoMerge
<1>3. CASE Idem!Insert(r)
  BY <1>2, <1>3 DEF Idem!Insert, Idem!RecordsTypeOK, Idem!Merge
<1>4. CASE Idem!Update(r)
  <2>1. PICK loaded \in merge[r].loaded, current \in Idem!Find(merge[r].row.key) :
          records' = (records \ {current}) \union {Idem!Updated(merge[r].row, loaded, current)}
    BY <1>4 DEF Idem!Update
  <2>2. current \in Idem!Record
    BY DEF Idem!Find, Idem!RecordsTypeOK
  <2>3. Idem!Updated(merge[r].row, loaded, current) \in Idem!Record
    BY <1>2, <1>4, <2>2 DEF Idem!Update, Idem!Updated, Idem!Record
  <2>4. QED
    BY <1>4, <2>1, <2>3 DEF Idem!Update, Idem!RecordsTypeOK, Idem!Merge
<1>5. QED
  BY <1>3, <1>4 DEF Idem!Write

(* Writing a slot's request, and noting an answer, keep their types.       *)
LEMMA RequestType ==
  ASSUME OwnTypeOK, NEW r \in Slots, NEW ask \in Ask, NEW body \in Nat,
         NEW pc \in {"get", "append", "set_hash", "psp", "set_auth", "receipts",
                     "set_fulfilled", "store", "write"}
  PROVE  /\ Leave(r) => req' \in [Slots -> Request]
         /\ Goto(r, pc, ask, body) => req' \in [Slots -> Request]
<1>1. [pc |-> pc, ask |-> ask, body |-> body] \in Request
  BY DEF Request
<1>2. Free \in Request
  BY DEF Request
<1>3. req \in [Slots -> Request]
  BY DEF OwnTypeOK
<1>4. QED
  BY <1>1, <1>2, <1>3 DEF Leave, Goto

LEMMA NoteType ==
  ASSUME OwnTypeOK, NEW ask \in Ask, NEW status \in {"ok", "replay"}, NEW body \in Nat,
         Note(ask, status, body)
  PROVE  answers' \subseteq Answer
  BY DEF OwnTypeOK, Note, Answer

-----------------------------------------------------------------------------
(* What a handler does to the ledger is a step of the ledger.              *)
LEMMA LedgerSteps ==
  ASSUME OwnTypeOK, LP!LedgerTypeOK, [Next]_vars
  PROVE  [LP!LedgerNext]_(LP!ledgerVars)
<1> USE DEF ledgerVars, LP!ledgerVars
<1>1. ASSUME NEW r \in Slots, AppendSelect(r)
      PROVE  LP!LedgerNext
  <2>1. req[r].ask.transcript \in Transcripts
    BY <1>1, BusyShape DEF AppendSelect, At, OwnTypeOK, Ask
  <2>2. Ledger!Room => LP!Room
    BY DEF Ledger!Room, LP!Room, Ledger!Cardinality, LP!Cardinality
  <2>3. LP!SelectLatest(r, req[r].ask.transcript)
    BY <1>1, <2>2 DEF AppendSelect, Ledger!SelectLatest, LP!SelectLatest, Ledger!Idle, LP!Idle,
         Ledger!LatestHash, LP!LatestHash, Ledger!NoHash, LP!NoHash
  <2>4. QED
    BY <2>1, <2>3 DEF LP!LedgerNext
<1>2. ASSUME NEW r \in Slots, AppendFlush(r)
      PROVE  LP!LedgerNext
  BY <1>2 DEF AppendFlush, Ledger!Flush, LP!Flush, Ledger!EntryHash, LP!EntryHash, LP!LedgerNext
<1>3. ASSUME NEW r \in Slots, AppendCommit(r)
      PROVE  LP!LedgerNext
  BY <1>3 DEF AppendCommit, Ledger!Commit, LP!Commit, Ledger!Idle, LP!Idle, LP!LedgerNext
<1>4. ASSUME NEW r \in Slots, Fail(r)
      PROVE  LP!LedgerNext \/ UNCHANGED ledgerVars
  <2>1. CASE append[r] = LP!Idle
    BY <1>4, <2>1 DEF Fail, Ledger!Idle, LP!Idle, LP!LedgerTypeOK
  <2>2. CASE append[r] # LP!Idle
    BY <1>4, <2>2 DEF Fail, Ledger!Idle, LP!Idle, LP!Rollback, LP!LedgerNext
  <2>3. QED
    BY <2>1, <2>2
<1>5. ASSUME Restart
      PROVE  LP!LedgerNext
  BY <1>5 DEF Restart, Ledger!Crash, LP!Crash, Ledger!Idle, LP!Idle, LP!LedgerNext
<1>6. ASSUME NEW r \in Slots, CheckExisting(r)
      PROVE  UNCHANGED ledgerVars
  BY <1>6 DEF CheckExisting, CheckedNew, CheckedCached, CheckedConflict, vars
<1>7. ASSUME NEW r \in Slots,
             \/ ConfirmRefused(r) \/ ConfirmReplayed(r) \/ ConfirmUnsigned(r)
             \/ ConfirmSigned(r) \/ SetTranscriptHash(r)
      PROVE  UNCHANGED ledgerVars
  BY <1>7 DEF ConfirmRefused, ConfirmReplayed, ConfirmUnsigned, ConfirmSigned,
       SetTranscriptHash
<1>8. ASSUME NEW r \in Slots, Authorize(r)
      PROVE  UNCHANGED ledgerVars
  BY <1>8 DEF Authorize, AuthorizeRefused, AuthorizeAllowed, PspConfirms, PspDeclines,
       PspAnswerLost, SetAuthorization
<1>9. ASSUME NEW r \in Slots, Store(r) \/ Fulfil(r)
      PROVE  UNCHANGED ledgerVars
  BY <1>9 DEF Store, StoreSelect, StoreWrite, StoreClash, Fulfil, FulfilRefused,
       FulfilGets, FulfilExpired, FulfilWrites, SetFulfilled, vars
<1>10. ASSUME Tick \/ \E i \in Intents : CreateIntent(i)
       PROVE  UNCHANGED ledgerVars
  BY <1>10 DEF Tick, CreateIntent
<1>11. CASE UNCHANGED vars
  BY <1>11 DEF vars
<1>12. QED
  BY <1>1, <1>2, <1>3, <1>4, <1>5, <1>6, <1>7, <1>8, <1>9, <1>10, <1>11
     DEF Next, Handler, Confirm

-----------------------------------------------------------------------------
(* A request in flight asks for something well-formed.                     *)
LEMMA AskType ==
  ASSUME OwnTypeOK, NEW r \in Slots, ~At(r, "free")
  PROVE  req[r].ask \in Ask /\ req[r].body \in Nat
  BY BusyShape DEF OwnTypeOK, At

LEMMA KeyedType ==
  ASSUME NEW r \in Slots, NEW ask \in Keyed(r)
  PROVE  ask \in Ask
  BY DEF Keyed, Ask

(* Responding keeps the type of the requests.                              *)
LEMMA RespondType ==
  ASSUME OwnTypeOK, NEW r \in Slots, ~At(r, "free"), Respond(r)
  PROVE  req' \in [Slots -> Request]
  BY AskType, RequestType DEF Respond

(* Assigning a column keeps the type of the rows.                          *)
LEMMA UpdateType ==
  ASSUME OwnTypeOK, NEW i \in Intents
  PROVE  /\ \A t \in Transcripts : UpdateFields(i, [intents[i] EXCEPT !.transcript = t])
              => intents' \in [Intents -> OrderIntent]
         /\ \A n \in Nat : UpdateFields(i, [intents[i] EXCEPT !.auth = n])
              => intents' \in [Intents -> OrderIntent]
         /\ UpdateFields(i, [intents[i] EXCEPT !.fulfilled = TRUE])
              => intents' \in [Intents -> OrderIntent]
<1>1. intents \in [Intents -> OrderIntent]
  BY DEF OwnTypeOK
<1>2. ASSUME NEW row \in OrderIntent, UpdateFields(i, row)
      PROVE  intents' \in [Intents -> OrderIntent]
  BY <1>1, <1>2 DEF UpdateFields
<1>3. ASSUME NEW t \in Transcripts
      PROVE  [intents[i] EXCEPT !.transcript = t] \in OrderIntent
  BY <1>1 DEF OrderIntent
<1>4. ASSUME NEW n \in Nat
      PROVE  [intents[i] EXCEPT !.auth = n] \in OrderIntent
  BY <1>1 DEF OrderIntent
<1>5. [intents[i] EXCEPT !.fulfilled = TRUE] \in OrderIntent
  BY <1>1 DEF OrderIntent
<1>6. QED
  BY <1>2, <1>3, <1>4, <1>5

LEMMA CheckType ==
  ASSUME OwnTypeOK, NEW r \in Slots, CheckExisting(r)
  PROVE  OwnTypeOK'
<1> USE DEF nonceVars, keyVars, orderVars
<1>1. CASE CheckedNew(r)
  <2>1. PICK ask \in Keyed(r) : Goto(r, "get", ask, 0)
    BY <1>1 DEF CheckedNew
  <2>2. req' \in [Slots -> Request]
    BY <2>1, KeyedType, RequestType
  <2>3. QED
    BY <1>1, <2>2 DEF CheckedNew, OwnTypeOK, Nonce!NonceTypeOK, Idem!RecordsTypeOK
<1>2. CASE CheckedCached(r)
  <2>1. PICK ask \in Keyed(r) :
          \E b \in Idem!Cached(RowKey(ask), Payload(ask)) : Note(ask, "ok", b)
    BY <1>2 DEF CheckedCached
  <2>2. Idem!Cached(RowKey(ask), Payload(ask)) \subseteq Nat
    BY DEF Idem!Cached, Idem!Find, OwnTypeOK, Idem!RecordsTypeOK, Idem!Record
  <2>3. answers' \subseteq Answer
    BY <2>1, <2>2, KeyedType, NoteType
  <2>4. QED
    BY <1>2, <2>3 DEF CheckedCached, OwnTypeOK, Nonce!NonceTypeOK, Idem!RecordsTypeOK
<1>3. CASE CheckedConflict(r)
  BY <1>3 DEF CheckedConflict, vars, OwnTypeOK, Nonce!NonceTypeOK, Idem!RecordsTypeOK
<1>4. QED
  BY <1>1, <1>2, <1>3 DEF CheckExisting

LEMMA ConfirmType ==
  ASSUME GatewayInv, NEW r \in Slots, Confirm(r)
  PROVE  OwnTypeOK'
<1> USE DEF nonceVars, keyVars, orderVars
<1>0. OwnTypeOK /\ NonceTtl \in Nat
  BY GatewayConstants DEF GatewayInv
<1>1. CASE ConfirmRefused(r)
  <2>1. req' \in [Slots -> Request]
    BY <1>0, <1>1, PendingType, RequestType DEF ConfirmRefused
  <2>2. QED
    BY <1>0, <1>1, <2>1 DEF ConfirmRefused, OwnTypeOK, Nonce!NonceTypeOK, Idem!RecordsTypeOK
<1>2. CASE ConfirmReplayed(r)
  <2>1. PICK ask \in Pending(r, "confirm") : Note(ask, "replay", 0) /\ Leave(r)
    BY <1>2 DEF ConfirmReplayed
  <2>2. ask \in Ask
    BY <1>0, PendingType
  <2>3. req' \in [Slots -> Request] /\ answers' \subseteq Answer
    BY <1>0, <2>1, <2>2, RequestType, NoteType
  <2>4. QED
    BY <1>0, <1>2, <2>3 DEF ConfirmReplayed, OwnTypeOK, Nonce!NonceTypeOK, Idem!RecordsTypeOK
<1>3. CASE ConfirmUnsigned(r)
  <2>1. PICK ask \in Pending(r, "confirm") : Nonce!Remember(ask.intent) /\ Leave(r)
    BY <1>3 DEF ConfirmUnsigned
  <2>2. ask \in Ask /\ ask.intent \in Intents
    BY <1>0, PendingType DEF Ask
  <2>3. cache' \subseteq Nonce!Item
    BY <1>0, <2>1, <2>2, RememberType DEF OwnTypeOK
  <2>4. req' \in [Slots -> Request]
    BY <1>0, <2>1, <2>2, RequestType
  <2>5. QED
    BY <1>0, <1>3, <2>3, <2>4 DEF ConfirmUnsigned, OwnTypeOK, Nonce!NonceTypeOK, Idem!RecordsTypeOK
<1>4. CASE ConfirmSigned(r)
  <2>1. PICK ask \in Pending(r, "confirm") :
          Nonce!Remember(ask.intent) /\ Goto(r, "append", ask, 0)
    BY <1>4 DEF ConfirmSigned
  <2>2. ask \in Ask /\ ask.intent \in Intents
    BY <1>0, PendingType DEF Ask
  <2>3. cache' \subseteq Nonce!Item
    BY <1>0, <2>1, <2>2, RememberType DEF OwnTypeOK
  <2>4. req' \in [Slots -> Request]
    BY <1>0, <2>1, <2>2, RequestType
  <2>5. QED
    BY <1>0, <1>4, <2>3, <2>4 DEF ConfirmSigned, OwnTypeOK, Nonce!NonceTypeOK, Idem!RecordsTypeOK
<1>5. CASE AppendSelect(r) \/ AppendFlush(r)
  BY <1>0, <1>5 DEF AppendSelect, AppendFlush, OwnTypeOK, Nonce!NonceTypeOK, Idem!RecordsTypeOK
<1>6. CASE AppendCommit(r)
  <2>1. append[r].row.created_at \in Nat
    <3>1. append[r] \in LP!Session /\ append[r].step = "commit"
      BY <1>6 DEF AppendCommit, Ledger!Commit, GatewayInv, LP!LinkInv, LP!LedgerTypeOK
    <3>2. MaxClock \in Nat
      BY GatewayConstants
    <3>3. append[r].row \in LP!Entry
      BY <3>1, <3>2, LP!SessionShape
    <3>4. QED
      BY <3>3 DEF LP!Entry
  <2>2. req[r].ask \in Ask
    BY <1>0, <1>6, AskType DEF AppendCommit, At
  <2>3. req' \in [Slots -> Request]
    BY <1>0, <1>6, <2>1, <2>2, RequestType DEF AppendCommit
  <2>4. QED
    BY <1>0, <1>6, <2>3 DEF AppendCommit, OwnTypeOK, Nonce!NonceTypeOK, Idem!RecordsTypeOK
<1>7. CASE SetTranscriptHash(r)
  <2>1. ~At(r, "free")
    BY <1>7 DEF SetTranscriptHash, At
  <2>2. req' \in [Slots -> Request]
    BY <1>0, <1>7, <2>1, RespondType DEF SetTranscriptHash
  <2>3. req[r].ask \in Ask
    BY <1>0, <2>1, AskType
  <2>4. intents' \in [Intents -> OrderIntent]
    BY <1>0, <1>7, <2>3, UpdateType DEF SetTranscriptHash, Ask
  <2>5. QED
    BY <1>0, <1>7, <2>2, <2>4
       DEF SetTranscriptHash, OwnTypeOK, Nonce!NonceTypeOK, Idem!RecordsTypeOK
<1>8. QED
  BY <1>1, <1>2, <1>3, <1>4, <1>5, <1>6, <1>7 DEF Confirm

LEMMA AuthorizeType ==
  ASSUME OwnTypeOK, NEW r \in Slots, Authorize(r)
  PROVE  OwnTypeOK'
<1> USE DEF nonceVars, keyVars, orderVars
<1>1. CASE AuthorizeRefused(r) \/ AuthorizeAllowed(r)
  <2>1. req' \in [Slots -> Request]
    BY <1>1, PendingType, RequestType DEF AuthorizeRefused, AuthorizeAllowed
  <2>2. QED
    BY <1>1, <2>1 DEF AuthorizeRefused, AuthorizeAllowed, OwnTypeOK, Nonce!NonceTypeOK,
         Idem!RecordsTypeOK
<1>2. CASE PspConfirms(r)
  <2>1. req[r].ask \in Ask /\ issued \in Nat
    BY <1>2, AskType DEF PspConfirms, At, OwnTypeOK
  <2>2. PICK captured \in BOOLEAN :
          payments' = payments \union {PaymentOf(req[r].ask, issued + 1, issued + 1, captured)}
    BY <1>2 DEF PspConfirms
  <2>3. PaymentOf(req[r].ask, issued + 1, issued + 1, captured) \in Payment
    BY <2>1 DEF PaymentOf, Payment, Ask
  <2>4. req' \in [Slots -> Request]
    BY <1>2, <2>1, RequestType DEF PspConfirms
  <2>5. QED
    BY <1>2, <2>1, <2>2, <2>3, <2>4
       DEF PspConfirms, OwnTypeOK, Nonce!NonceTypeOK, Idem!RecordsTypeOK
<1>3. CASE PspDeclines(r)
  <2>1. req' \in [Slots -> Request]
    BY <1>3 DEF PspDeclines, Leave, OwnTypeOK, Request
  <2>2. QED
    BY <1>3, <2>1 DEF PspDeclines, OwnTypeOK, Nonce!NonceTypeOK, Idem!RecordsTypeOK
<1>4. CASE PspAnswerLost(r)
  <2>1. req[r].ask \in Ask /\ issued \in Nat
    BY <1>4, AskType DEF PspAnswerLost, At, OwnTypeOK
  <2>2. PaymentOf(req[r].ask, issued + 1, 0, TRUE) \in Payment
    BY <2>1 DEF PaymentOf, Payment, Ask
  <2>3. req' \in [Slots -> Request]
    BY <1>4 DEF PspAnswerLost, Leave, OwnTypeOK, Request
  <2>4. payments' \subseteq Payment /\ issued' \in Nat
    <3>1. /\ payments' = payments \union {PaymentOf(req[r].ask, issued + 1, 0, TRUE)}
          /\ issued' = issued + 1
      BY <1>4 DEF PspAnswerLost
    <3>2. payments \subseteq Payment
      BY DEF OwnTypeOK
    <3>3. payments' \subseteq Payment
      BY <2>2, <3>1, <3>2
    <3>4. issued' \in Nat
      BY <2>1, <3>1
    <3>5. QED
      BY <3>3, <3>4
  <2>5. QED
    BY <1>4, <2>3, <2>4 DEF PspAnswerLost, OwnTypeOK, Nonce!NonceTypeOK, Idem!RecordsTypeOK
<1>5. CASE SetAuthorization(r)
  <2>1. ~At(r, "free")
    BY <1>5 DEF SetAuthorization, At
  <2>2. req' \in [Slots -> Request]
    BY <1>5, <2>1, RespondType DEF SetAuthorization
  <2>3. req[r].ask \in Ask /\ req[r].body \in Nat
    BY <2>1, AskType
  <2>4. intents' \in [Intents -> OrderIntent]
    BY <1>5, <2>3, UpdateType DEF SetAuthorization, Ask
  <2>5. QED
    BY <1>5, <2>2, <2>4 DEF SetAuthorization, OwnTypeOK, Nonce!NonceTypeOK, Idem!RecordsTypeOK
<1>6. QED
  BY <1>1, <1>2, <1>3, <1>4, <1>5 DEF Authorize

LEMMA StoreType ==
  ASSUME GatewayInv, NEW r \in Slots, Store(r)
  PROVE  OwnTypeOK'
<1> USE DEF nonceVars, keyVars, orderVars
<1>0. OwnTypeOK
  BY DEF GatewayInv
<1>1. CASE StoreSelect(r)
  <2>1. req[r].ask \in Ask /\ req[r].body \in Nat
    BY <1>0, <1>1, AskType DEF StoreSelect, At
  <2>2. req' \in [Slots -> Request]
    BY <1>0, <1>1, <2>1, RequestType DEF StoreSelect
  <2> DEFINE row == [key |-> RowKey(req[r].ask), payload |-> Payload(req[r].ask),
                     body |-> req[r].body]
  <2>3. row \in Idem!Record
    <3>1. req[r].ask.endpoint \in {"confirm", "authorize"} /\ req[r].ask.key \in Keys
      BY <1>0, <1>1, <2>1 DEF StoreSelect, At, GatewayInv, FlowInv, RequestOK, Ask
    <3>2. QED
      BY <2>1, <3>1 DEF RowKey, Payload, Ask, Idem!Record
  <2>4. QED
    BY <1>0, <1>1, <2>2, <2>3 DEF StoreSelect, Idem!Load, Idem!Find, Idem!Merge, OwnTypeOK,
         Nonce!NonceTypeOK, Idem!RecordsTypeOK
<1>2. CASE StoreWrite(r)
  <2>1. req[r].ask \in Ask /\ req[r].body \in Nat
    BY <1>0, <1>2, AskType DEF StoreWrite, At
  <2>2. req' \in [Slots -> Request] /\ answers' \subseteq Answer
    BY <1>0, <1>2, <2>1, RequestType, NoteType DEF StoreWrite
  <2>3. Idem!RecordsTypeOK'
    BY <1>0, <1>2, MergeType DEF StoreWrite, OwnTypeOK
  <2>4. QED
    BY <1>0, <1>2, <2>2, <2>3 DEF StoreWrite, OwnTypeOK, Nonce!NonceTypeOK
<1>3. CASE StoreClash(r)
  <2>1. req' \in [Slots -> Request]
    BY <1>0, <1>3 DEF StoreClash, Leave, OwnTypeOK, Request
  <2>2. QED
    BY <1>0, <1>3, <2>1 DEF StoreClash, Idem!Clash, Idem!Merge, OwnTypeOK, Nonce!NonceTypeOK,
         Idem!RecordsTypeOK
<1>4. QED
  BY <1>1, <1>2, <1>3 DEF Store

LEMMA OwnTypeStep ==
  ASSUME GatewayInv, [Next]_vars
  PROVE  OwnTypeOK'
<1> USE DEF nonceVars, keyVars, orderVars
<1>0. OwnTypeOK /\ NonceTtl \in Nat
  BY GatewayConstants DEF GatewayInv
<1>1. ASSUME NEW i \in Intents, CreateIntent(i)
      PROVE  OwnTypeOK'
  <2>1. NewIntent(i) \in OrderIntent
    <3>1. intents[i] \in OrderIntent /\ now + NonceTtl \in Nat
      BY <1>0 DEF OwnTypeOK, Nonce!NonceTypeOK
    <3>2. QED
      BY <3>1 DEF NewIntent, OrderIntent
  <2>2. intents' \in [Intents -> OrderIntent]
    BY <1>0, <1>1, <2>1 DEF CreateIntent, OwnTypeOK
  <2>3. QED
    BY <1>0, <1>1, <2>2 DEF CreateIntent, OwnTypeOK, Nonce!NonceTypeOK, Idem!RecordsTypeOK
<1>2. ASSUME NEW r \in Slots, FulfilRefused(r)
      PROVE  OwnTypeOK'
  BY <1>0, <1>2 DEF FulfilRefused, vars, OwnTypeOK, Nonce!NonceTypeOK, Idem!RecordsTypeOK
<1>3. ASSUME NEW r \in Slots, FulfilGets(r)
      PROVE  OwnTypeOK'
  <2>1. PICK i \in Intents, auth \in 1 .. issued :
          /\ Fulfillable(i, auth)
          /\ Goto(r, "receipts",
                  [endpoint |-> "fulfil", key |-> None, intent |-> i,
                   transcript |-> intents[i].transcript, rest |-> None], auth)
    BY <1>3 DEF FulfilGets
  <2>2. auth \in Nat /\ auth # 0
    BY <1>0 DEF OwnTypeOK
  <2>3. intents[i].transcript \in Transcripts
    BY <1>0, <2>1, <2>2 DEF GatewayInv, FlowInv, RowOK, Fulfillable, OwnTypeOK, OrderIntent
  <2>4. [endpoint |-> "fulfil", key |-> None, intent |-> i,
         transcript |-> intents[i].transcript, rest |-> None] \in Ask
    BY <2>3 DEF Ask
  <2>5. req' \in [Slots -> Request]
    BY <1>0, <2>1, <2>2, <2>4, RequestType
  <2>6. QED
    BY <1>0, <1>3, <2>5 DEF FulfilGets, OwnTypeOK, Nonce!NonceTypeOK, Idem!RecordsTypeOK
<1>3a. ASSUME NEW r \in Slots, FulfilWrites(r)
       PROVE  OwnTypeOK'
  <2>1. req[r].ask \in Ask /\ req[r].body \in Nat
    BY <1>0, <1>3a, AskType DEF FulfilWrites, At
  <2>2. req[r].ask.intent \in Intents /\ req[r].ask.transcript \in Transcripts
    BY <2>1 DEF Ask
  <2>3. files' \in [Intents -> Seq(Transcripts)]
    BY <1>0, <1>3a, <2>2, AppendProperties DEF FulfilWrites, GenerateReceipts, OwnTypeOK
  <2>4. req' \in [Slots -> Request]
    BY <1>0, <1>3a, <2>1, RequestType DEF FulfilWrites
  <2>5. QED
    BY <1>0, <1>3a, <2>3, <2>4 DEF FulfilWrites, OwnTypeOK, Nonce!NonceTypeOK, Idem!RecordsTypeOK
<1>3b. ASSUME NEW r \in Slots, FulfilExpired(r)
       PROVE  OwnTypeOK'
  <2>1. req' \in [Slots -> Request]
    BY <1>0, <1>3b DEF FulfilExpired, Leave, OwnTypeOK, Request
  <2>2. QED
    BY <1>0, <1>3b, <2>1 DEF FulfilExpired, OwnTypeOK, Nonce!NonceTypeOK, Idem!RecordsTypeOK
<1>4. ASSUME NEW r \in Slots, SetFulfilled(r)
      PROVE  OwnTypeOK'
  <2>1. req' \in [Slots -> Request]
    BY <1>0, <1>4 DEF SetFulfilled, Leave, OwnTypeOK, Request
  <2>2. req[r].ask.intent \in Intents
    BY <1>0, <1>4, AskType DEF SetFulfilled, At, Ask
  <2>3. intents' \in [Intents -> OrderIntent]
    BY <1>0, <1>4, <2>2 DEF SetFulfilled, UpdateFields, OwnTypeOK, OrderIntent
  <2>4. QED
    BY <1>0, <1>4, <2>1, <2>3 DEF SetFulfilled, OwnTypeOK, Nonce!NonceTypeOK, Idem!RecordsTypeOK
<1>5. ASSUME NEW r \in Slots, Fail(r)
      PROVE  OwnTypeOK'
  BY <1>0, <1>5 DEF Fail, Leave, Idem!Merge, OwnTypeOK, Request, Nonce!NonceTypeOK,
       Idem!RecordsTypeOK
<1>6. ASSUME Tick
      PROVE  OwnTypeOK'
  BY <1>0, <1>6 DEF Tick, Nonce!Tick, OwnTypeOK, Nonce!NonceTypeOK, Idem!RecordsTypeOK
<1>7. ASSUME Restart
      PROVE  OwnTypeOK'
  BY <1>0, <1>7 DEF Restart, Nonce!Restart, Idem!Merge, OwnTypeOK, Request,
       Nonce!NonceTypeOK, Idem!RecordsTypeOK
<1>8. CASE UNCHANGED vars
  BY <1>0, <1>8 DEF vars, OwnTypeOK, Nonce!NonceTypeOK, Idem!RecordsTypeOK
<1>9. QED
  BY <1>0, <1>1, <1>2, <1>3, <1>3a, <1>3b, <1>4, <1>5, <1>6, <1>7, <1>8,
     CheckType, ConfirmType, AuthorizeType, StoreType DEF Next, Handler, Fulfil

-----------------------------------------------------------------------------
(* What the ledger, the PSP and the rows hold they keep, so what was true  *)
(* of a request, a row, a payment and a receipt stays true.                *)
Grows ==
  /\ Logged \subseteq Logged'
  /\ payments \subseteq payments'
  /\ \A i \in Intents : intents[i].transcript # None => intents'[i].transcript # None

LEMMA FlowKept ==
  ASSUME GatewayInv, Grows
  PROVE  /\ \A r \in Slots : RequestOK(req[r], Logged', intents', payments')
         /\ \A i \in Intents : RowOK(i, intents[i], Logged', payments')
         /\ \A c \in payments : PaymentOK(c, Logged')
         /\ \A i \in Intents : FilesOK(i, files[i], Logged', payments')
<1> USE DEF Grows, GatewayInv, FlowInv
<1>1. ASSUME NEW r \in Slots
      PROVE  RequestOK(req[r], Logged', intents', payments')
  <2>1. RequestOK(req[r], Logged, intents, payments)
    OBVIOUS
  <2>2. req[r].pc \in {"psp", "set_auth"} => req[r].ask.intent \in Intents
    BY AskType DEF At, Ask
  <2>3. QED
    BY <2>1, <2>2 DEF RequestOK
<1>2. ASSUME NEW i \in Intents
      PROVE  RowOK(i, intents[i], Logged', payments')
  BY DEF RowOK
<1>3. ASSUME NEW c \in payments
      PROVE  PaymentOK(c, Logged')
  BY DEF PaymentOK
<1>4. ASSUME NEW i \in Intents
      PROVE  FilesOK(i, files[i], Logged', payments')
  BY DEF FilesOK
<1>5. QED
  BY <1>1, <1>2, <1>3, <1>4

(* A step of slot r keeps the invariant if it keeps it for r.              *)
LEMMA SlotStep ==
  ASSUME GatewayInv, Grows, NEW r \in Slots,
         \A s \in Slots \ {r} : req'[s] = req[s] /\ append'[s] = append[s],
         RequestOK(req'[r], Logged', intents', payments'),
         SessionOK(append'[r], req'[r])
  PROVE  /\ \A s \in Slots : RequestOK(req'[s], Logged', intents', payments')
         /\ \A s \in Slots : SessionOK(append'[s], req'[s])
<1>1. ASSUME NEW s \in Slots
      PROVE  /\ RequestOK(req'[s], Logged', intents', payments')
             /\ SessionOK(append'[s], req'[s])
  BY FlowKept DEF GatewayInv, FlowInv
<1>2. QED
  BY <1>1

(* A slot that is not appending has no ledger session.                     *)
LEMMA NoSession ==
  ASSUME GatewayInv, NEW r \in Slots, ~At(r, "append"), NEW q
  PROVE  SessionOK(append[r], q)
  BY DEF GatewayInv, FlowInv, SessionOK, At

(* Nothing but the requests changes: a request may go where it makes no    *)
(* claim that the state does not back.                                     *)
LEMMA RequestOnly ==
  ASSUME GatewayInv, NEW r \in Slots, ~At(r, "append"), NEW q,
         req' = [req EXCEPT ![r] = q],
         RequestOK(q, Logged, intents, payments),
         UNCHANGED <<entries, append, intents, payments, files>>
  PROVE  FlowInv'
<1>1. Grows
  BY DEF Grows, Logged
<1>2. /\ req'[r] = q
      /\ \A s \in Slots \ {r} : req'[s] = req[s] /\ append'[s] = append[s]
  BY DEF GatewayInv, OwnTypeOK
<1>3. SessionOK(append'[r], req'[r])
  BY NoSession
<1>4. RequestOK(req'[r], Logged', intents', payments')
  BY <1>2 DEF Logged
<1>5. /\ \A s \in Slots : RequestOK(req'[s], Logged', intents', payments')
      /\ \A s \in Slots : SessionOK(append'[s], req'[s])
  BY <1>1, <1>2, <1>3, <1>4, SlotStep
<1>6. QED
  BY <1>1, <1>5, FlowKept DEF FlowInv

LEMMA FreeMakesNoClaim ==
  ASSUME NEW L, NEW R, NEW P
  PROVE  RequestOK(Free, L, R, P)
  BY DEF RequestOK, Free

LEMMA RespondClaims ==
  ASSUME OwnTypeOK, NEW r \in Slots, Respond(r), req[r].ask.endpoint # "fulfil",
         NEW L, NEW R, NEW P
  PROVE  /\ RequestOK(req'[r], L, R, P)
         /\ \A s \in Slots \ {r} : req'[s] = req[s]
<1>1. CASE req[r].ask.key = None
  BY <1>1, FreeMakesNoClaim DEF Respond, Leave, OwnTypeOK
<1>2. CASE req[r].ask.key # None
  <2> DEFINE q == [pc |-> "store", ask |-> req[r].ask, body |-> req[r].body]
  <2>1. req' = [req EXCEPT ![r] = q]
    BY <1>2 DEF Respond, Goto
  <2>2. RequestOK(q, L, R, P)
    BY <1>2 DEF RequestOK
  <2>3. QED
    BY <2>1, <2>2 DEF OwnTypeOK
<1>3. QED
  BY <1>1, <1>2

LEMMA PendingPc ==
  ASSUME NEW r \in Slots, NEW endpoint, NEW ask \in Pending(r, endpoint)
  PROVE  /\ req[r].pc \in {"free", "get"}
         /\ ask.key = None \/ (req[r].pc = "get" /\ ask = req[r].ask)
  BY DEF Pending, Free

LEMMA PendingIdle ==
  ASSUME NEW r \in Slots, NEW endpoint, NEW ask \in Pending(r, endpoint)
  PROVE  ~At(r, "append")
  BY DEF Pending, At, Free

LEMMA CheckFlow ==
  ASSUME GatewayInv, NEW r \in Slots, CheckExisting(r)
  PROVE  FlowInv'
<1> USE DEF ledgerVars, orderVars
<1>1. CASE CheckedNew(r)
  <2>1. PICK ask \in Keyed(r) : req' = [req EXCEPT ![r] = [pc |-> "get", ask |-> ask, body |-> 0]]
    BY <1>1 DEF CheckedNew, Goto
  <2>2. ~At(r, "append")
    BY DEF Keyed, At, Free
  <2>3. RequestOK([pc |-> "get", ask |-> ask, body |-> 0], Logged, intents, payments)
    BY DEF RequestOK
  <2>4. QED
    BY <1>1, <2>1, <2>2, <2>3, RequestOnly DEF CheckedNew
<1>2. CASE CheckedCached(r) \/ CheckedConflict(r)
  BY <1>2 DEF CheckedCached, CheckedConflict, vars, GatewayInv, FlowInv, Logged
<1>3. QED
  BY <1>1, <1>2 DEF CheckExisting

LEMMA ConfirmFlow ==
  ASSUME GatewayInv, NEW r \in Slots, Confirm(r)
  PROVE  FlowInv'
<1> USE DEF ledgerVars, orderVars
<1>0. OwnTypeOK
  BY DEF GatewayInv
<1>1. CASE ConfirmRefused(r) \/ ConfirmReplayed(r) \/ ConfirmUnsigned(r)
  <2>1. /\ ~At(r, "append")
        /\ Leave(r)
        /\ UNCHANGED <<entries, append, intents, payments, files>>
    BY <1>1, PendingIdle DEF ConfirmRefused, ConfirmReplayed, ConfirmUnsigned
  <2>2. QED
    BY <2>1, FreeMakesNoClaim, RequestOnly DEF Leave
<1>2. CASE ConfirmSigned(r)
  <2>1. PICK ask \in Pending(r, "confirm") :
          Matches(ask) /\ ask.transcript.signed /\ Goto(r, "append", ask, 0)
    BY <1>2 DEF ConfirmSigned
  <2>2. ask.endpoint = "confirm" /\ ~At(r, "append")
    BY <1>0, PendingType, PendingIdle
  <2>3. Given(ask.intent, ask.transcript)
    BY <2>1 DEF Given, Matches
  <2>4. RequestOK([pc |-> "append", ask |-> ask, body |-> 0], Logged, intents, payments)
    BY <2>2, <2>3 DEF RequestOK
  <2>5. QED
    BY <1>2, <2>1, <2>2, <2>4, RequestOnly DEF ConfirmSigned, Goto
<1>3. CASE AppendSelect(r) \/ AppendFlush(r)
  <2>1. Grows
    BY <1>3 DEF AppendSelect, AppendFlush, Ledger!SelectLatest, Ledger!Flush, Grows, Logged
  <2>2. /\ At(r, "append")
        /\ UNCHANGED <<entries, req, intents, payments, files>>
        /\ \A s \in Slots \ {r} : append'[s] = append[s]
    BY <1>3 DEF AppendSelect, AppendFlush, Ledger!SelectLatest, Ledger!Flush,
         GatewayInv, LP!LinkInv, LP!LedgerTypeOK
  <2>3. SessionOK(append'[r], req'[r])
    <3>1. CASE AppendSelect(r)
      BY <3>1, <2>2 DEF AppendSelect, Ledger!SelectLatest, SessionOK, At,
           GatewayInv, LP!LinkInv, LP!LedgerTypeOK
    <3>2. CASE AppendFlush(r)
      <4>1. append[r].content = req[r].ask.transcript
        BY <3>2 DEF AppendFlush, Ledger!Flush, Ledger!Idle, GatewayInv, FlowInv, SessionOK
      <4>2. append'[r].step = "commit" /\ append'[r].row.content = append[r].content
        BY <3>2 DEF AppendFlush, Ledger!Flush, GatewayInv, LP!LinkInv, LP!LedgerTypeOK
      <4>3. QED
        BY <2>2, <4>1, <4>2 DEF SessionOK, At
    <3>3. QED
      BY <1>3, <3>1, <3>2
  <2>4. RequestOK(req'[r], Logged', intents', payments')
    BY <2>1, <2>2, FlowKept
  <2>5. /\ \A s \in Slots : RequestOK(req'[s], Logged', intents', payments')
        /\ \A s \in Slots : SessionOK(append'[s], req'[s])
    BY <2>1, <2>2, <2>3, <2>4, SlotStep
  <2>6. QED
    BY <2>1, <2>2, <2>5, FlowKept DEF FlowInv
<1>4. CASE AppendCommit(r)
  <2> DEFINE t == req[r].ask.transcript
             q == [pc |-> "set_hash", ask |-> req[r].ask, body |-> append[r].row.created_at]
  <2>1. /\ At(r, "append") /\ append[r].step = "commit"
        /\ entries' = entries \union {append[r].row}
        /\ append' = [append EXCEPT ![r] = Ledger!Idle]
        /\ req' = [req EXCEPT ![r] = q]
        /\ UNCHANGED <<intents, payments, files>>
    BY <1>4 DEF AppendCommit, Ledger!Commit, Goto
  <2>2. /\ append'[r] = Ledger!Idle /\ req'[r] = q
        /\ \A s \in Slots \ {r} : req'[s] = req[s] /\ append'[s] = append[s]
    BY <1>0, <2>1 DEF OwnTypeOK, GatewayInv, LP!LinkInv, LP!LedgerTypeOK
  <2>3. append[r].row.content = t
    BY <2>1 DEF Ledger!Idle, GatewayInv, FlowInv, SessionOK
  <2>4. Grows /\ t \in Logged'
    BY <2>1, <2>3 DEF Grows, Logged
  <2>5. Given(req[r].ask.intent, t) /\ req[r].ask.endpoint = "confirm"
    BY <2>1 DEF GatewayInv, FlowInv, RequestOK, At
  <2>6. RequestOK(q, Logged', intents', payments')
    BY <2>4, <2>5 DEF RequestOK
  <2>7. SessionOK(append'[r], req'[r])
    BY <2>2 DEF SessionOK
  <2>8. /\ \A s \in Slots : RequestOK(req'[s], Logged', intents', payments')
        /\ \A s \in Slots : SessionOK(append'[s], req'[s])
    BY <2>2, <2>4, <2>6, <2>7, SlotStep
  <2>9. QED
    BY <2>1, <2>4, <2>8, FlowKept DEF FlowInv
<1>5. CASE SetTranscriptHash(r)
  <2> DEFINE ask == req[r].ask
             row == [intents[ask.intent] EXCEPT !.transcript = ask.transcript]
  <2>1. /\ At(r, "set_hash")
        /\ intents' = [intents EXCEPT ![ask.intent] = row]
        /\ Respond(r)
        /\ UNCHANGED <<entries, append, payments, files>>
    BY <1>5 DEF SetTranscriptHash, UpdateFields
  <2>2. ask \in Ask /\ ask.transcript # None
    BY <1>0, <2>1, AskType, GatewayConstants DEF At, Ask
  <2>3. /\ ask.transcript \in Logged
        /\ Given(ask.intent, ask.transcript)
        /\ ask.endpoint = "confirm"
    BY <2>1 DEF GatewayInv, FlowInv, RequestOK, At
  <2>4. intents[ask.intent] \in OrderIntent /\ ask.intent \in Intents
    BY <1>0, <2>2 DEF OwnTypeOK, Ask
  <2>5. row.transcript = ask.transcript /\ row.auth = intents[ask.intent].auth
    BY <2>4 DEF OrderIntent
  <2>6. intents'[ask.intent] = row /\ \A i \in Intents \ {ask.intent} : intents'[i] = intents[i]
    BY <1>0, <2>1, <2>4 DEF OwnTypeOK
  <2>7. Grows
    <3>1. Logged' = Logged
      BY <2>1 DEF Logged
    <3>2. \A i \in Intents : intents[i].transcript # None => intents'[i].transcript # None
      BY <2>2, <2>5, <2>6
    <3>3. QED
      BY <2>1, <3>1, <3>2 DEF Grows
  <2>8. ASSUME NEW i \in Intents
        PROVE  RowOK(i, intents'[i], Logged', payments')
    <3>1. RowOK(i, intents[i], Logged', payments')
      BY <2>7, FlowKept
    <3>2. CASE i = ask.intent
      <4>1. intents'[i].transcript \in Logged' /\ Given(i, intents'[i].transcript)
        BY <2>1, <2>3, <2>5, <2>6, <3>2 DEF Logged
      <4>2. intents'[i].auth = intents[i].auth /\ intents'[i].transcript # None
        BY <2>2, <2>5, <2>6, <3>2
      <4>3. QED
        BY <3>1, <4>1, <4>2 DEF RowOK
    <3>3. CASE i # ask.intent
      BY <2>6, <3>1, <3>3
    <3>4. QED
      BY <3>2, <3>3
  <2>9. /\ RequestOK(req'[r], Logged', intents', payments')
        /\ \A s \in Slots \ {r} : req'[s] = req[s] /\ append'[s] = append[s]
    BY <1>0, <2>1, <2>3, RespondClaims
  <2>10. SessionOK(append'[r], req'[r])
    BY <2>1, NoSession DEF At
  <2>11. /\ \A s \in Slots : RequestOK(req'[s], Logged', intents', payments')
         /\ \A s \in Slots : SessionOK(append'[s], req'[s])
    BY <2>7, <2>9, <2>10, SlotStep
  <2>12. QED
    BY <2>1, <2>7, <2>8, <2>11, FlowKept DEF FlowInv
<1>6. QED
  BY <1>1, <1>2, <1>3, <1>4, <1>5 DEF Confirm

LEMMA AuthorizeFlow ==
  ASSUME GatewayInv, NEW r \in Slots, Authorize(r)
  PROVE  FlowInv'
<1> USE DEF ledgerVars, orderVars
<1>0. OwnTypeOK
  BY DEF GatewayInv
<1>1. CASE AuthorizeRefused(r) \/ PspDeclines(r)
  <2>1. /\ ~At(r, "append")
        /\ Leave(r)
        /\ UNCHANGED <<entries, append, intents, payments, files>>
    BY <1>1, PendingIdle DEF AuthorizeRefused, PspDeclines, At
  <2>2. QED
    BY <2>1, FreeMakesNoClaim, RequestOnly DEF Leave
<1>2. CASE AuthorizeAllowed(r)
  <2>1. PICK ask \in Pending(r, "authorize") : Authorizable(ask) /\ Goto(r, "psp", ask, 0)
    BY <1>2 DEF AuthorizeAllowed
  <2>2. ask \in Ask /\ ask.endpoint = "authorize" /\ ~At(r, "append")
    BY <1>0, PendingType, PendingIdle
  <2>3. ask.intent \in Intents /\ ask.transcript # None
    BY <2>2, GatewayConstants DEF Ask
  <2>4. intents[ask.intent].transcript = ask.transcript
    BY <2>1 DEF Authorizable
  <2>5. ask.transcript \in Logged /\ Given(ask.intent, ask.transcript)
    BY <2>3, <2>4 DEF GatewayInv, FlowInv, RowOK
  <2>6. RequestOK([pc |-> "psp", ask |-> ask, body |-> 0], Logged, intents, payments)
    BY <2>2, <2>3, <2>4, <2>5 DEF RequestOK
  <2>7. QED
    BY <1>2, <2>1, <2>2, <2>6, RequestOnly DEF AuthorizeAllowed, Goto
<1>3. ASSUME At(r, "psp"), NEW number, NEW auth, NEW captured,
             payments' = payments \union {PaymentOf(req[r].ask, number, auth, captured)},
             UNCHANGED <<entries, append, intents, files>>
      PROVE  /\ Grows
             /\ PaymentOf(req[r].ask, number, auth, captured) \in payments'
             /\ \A c \in payments' : PaymentOK(c, Logged')
             /\ \A q : SessionOK(append'[r], q)
  <2>1. Grows
    BY <1>3 DEF Grows, Logged
  <2>2. PaymentOK(PaymentOf(req[r].ask, number, auth, captured), Logged)
    BY <1>3 DEF GatewayInv, FlowInv, RequestOK, At, PaymentOK, PaymentOf
  <2>3. Logged' = Logged
    BY <1>3 DEF Logged
  <2>4. \A c \in payments' : PaymentOK(c, Logged')
    BY <1>3, <2>2, <2>3 DEF GatewayInv, FlowInv
  <2>5. \A q : SessionOK(append'[r], q)
    BY <1>3, NoSession DEF At
  <2>6. QED
    BY <1>3, <2>1, <2>4, <2>5
<1>4. CASE PspConfirms(r)
  <2> DEFINE ask == req[r].ask
             q == [pc |-> "set_auth", ask |-> ask, body |-> issued + 1]
  <2>1. PICK captured \in BOOLEAN :
          payments' = payments \union {PaymentOf(ask, issued + 1, issued + 1, captured)}
    BY <1>4 DEF PspConfirms
  <2>2. At(r, "psp") /\ UNCHANGED <<entries, append, intents, files>>
    BY <1>4 DEF PspConfirms
  <2>3. /\ Grows
        /\ PaymentOf(ask, issued + 1, issued + 1, captured) \in payments'
        /\ \A c \in payments' : PaymentOK(c, Logged')
        /\ SessionOK(append'[r], req'[r])
    BY <1>3, <2>1, <2>2
  <2>4. /\ req'[r] = q
        /\ \A s \in Slots \ {r} : req'[s] = req[s] /\ append'[s] = append[s]
    BY <1>0, <1>4, <2>2 DEF PspConfirms, Goto, OwnTypeOK
  <2>5. ask.endpoint = "authorize" /\ intents[ask.intent].transcript # None
    BY <2>2 DEF GatewayInv, FlowInv, RequestOK, At
  <2>6. \E c \in payments' :
          c.intent = ask.intent /\ c.auth = issued + 1 /\ c.transcript = ask.transcript
    BY <2>3 DEF PaymentOf
  <2>7. RequestOK(req'[r], Logged', intents', payments')
    BY <2>2, <2>4, <2>5, <2>6 DEF RequestOK
  <2>8. /\ \A s \in Slots : RequestOK(req'[s], Logged', intents', payments')
        /\ \A s \in Slots : SessionOK(append'[s], req'[s])
    BY <2>3, <2>4, <2>7, SlotStep
  <2>9. QED
    BY <2>2, <2>3, <2>8, FlowKept DEF FlowInv
<1>5. CASE PspAnswerLost(r)
  <2>1. /\ At(r, "psp")
        /\ payments' = payments \union {PaymentOf(req[r].ask, issued + 1, 0, TRUE)}
        /\ UNCHANGED <<entries, append, intents, files>>
    BY <1>5 DEF PspAnswerLost
  <2>2. Grows /\ (\A c \in payments' : PaymentOK(c, Logged')) /\ SessionOK(append'[r], req'[r])
    BY <1>3, <2>1
  <2>3. /\ req'[r] = Free
        /\ \A s \in Slots \ {r} : req'[s] = req[s] /\ append'[s] = append[s]
    BY <1>0, <1>5, <2>1 DEF PspAnswerLost, Leave, OwnTypeOK
  <2>4. RequestOK(req'[r], Logged', intents', payments')
    BY <2>3, FreeMakesNoClaim
  <2>5. /\ \A s \in Slots : RequestOK(req'[s], Logged', intents', payments')
        /\ \A s \in Slots : SessionOK(append'[s], req'[s])
    BY <2>2, <2>3, <2>4, SlotStep
  <2>6. QED
    BY <2>1, <2>2, <2>5, FlowKept DEF FlowInv
<1>6. CASE SetAuthorization(r)
  <2> DEFINE ask == req[r].ask
             row == [intents[ask.intent] EXCEPT !.auth = req[r].body]
  <2>1. /\ At(r, "set_auth")
        /\ intents' = [intents EXCEPT ![ask.intent] = row]
        /\ Respond(r)
        /\ UNCHANGED <<entries, append, payments, files>>
    BY <1>6 DEF SetAuthorization, UpdateFields
  <2>2. ask \in Ask
    BY <1>0, <2>1, AskType DEF At
  <2>3. /\ ask.endpoint = "authorize"
        /\ intents[ask.intent].transcript # None
        /\ \E c \in payments : c.intent = ask.intent /\ c.auth = req[r].body
    BY <2>1 DEF GatewayInv, FlowInv, RequestOK, At
  <2>4. intents[ask.intent] \in OrderIntent /\ ask.intent \in Intents
    BY <1>0, <2>2 DEF OwnTypeOK, Ask
  <2>5. row.auth = req[r].body /\ row.transcript = intents[ask.intent].transcript
    BY <2>4 DEF OrderIntent
  <2>6. intents'[ask.intent] = row /\ \A i \in Intents \ {ask.intent} : intents'[i] = intents[i]
    BY <1>0, <2>1, <2>4 DEF OwnTypeOK
  <2>7. Grows
    <3>1. Logged' = Logged
      BY <2>1 DEF Logged
    <3>2. \A i \in Intents : intents[i].transcript # None => intents'[i].transcript # None
      BY <2>3, <2>5, <2>6
    <3>3. QED
      BY <2>1, <3>1, <3>2 DEF Grows
  <2>8. ASSUME NEW i \in Intents
        PROVE  RowOK(i, intents'[i], Logged', payments')
    <3>1. RowOK(i, intents[i], Logged', payments')
      BY <2>7, FlowKept
    <3>2. CASE i = ask.intent
      <4>1. /\ intents'[i].transcript = intents[i].transcript
            /\ intents'[i].transcript # None
            /\ intents'[i].auth = req[r].body
        BY <2>3, <2>5, <2>6, <3>2
      <4>2. \E c \in payments' : c.intent = i /\ c.auth = intents'[i].auth
        BY <2>1, <2>3, <3>2, <4>1
      <4>3. QED
        BY <3>1, <4>1, <4>2 DEF RowOK
    <3>3. CASE i # ask.intent
      BY <2>6, <3>1, <3>3
    <3>4. QED
      BY <3>2, <3>3
  <2>9. /\ RequestOK(req'[r], Logged', intents', payments')
        /\ \A s \in Slots \ {r} : req'[s] = req[s] /\ append'[s] = append[s]
    BY <1>0, <2>1, <2>3, RespondClaims
  <2>10. SessionOK(append'[r], req'[r])
    BY <2>1, NoSession DEF At
  <2>11. /\ \A s \in Slots : RequestOK(req'[s], Logged', intents', payments')
         /\ \A s \in Slots : SessionOK(append'[s], req'[s])
    BY <2>7, <2>9, <2>10, SlotStep
  <2>12. QED
    BY <2>1, <2>7, <2>8, <2>11, FlowKept DEF FlowInv
<1>7. QED
  BY <1>1, <1>2, <1>4, <1>5, <1>6 DEF Authorize

LEMMA StoreFlow ==
  ASSUME GatewayInv, NEW r \in Slots, Store(r)
  PROVE  FlowInv'
<1> USE DEF ledgerVars, orderVars
<1>1. CASE StoreSelect(r)
  <2> DEFINE q == [pc |-> "write", ask |-> req[r].ask, body |-> req[r].body]
  <2>1. At(r, "store") /\ req' = [req EXCEPT ![r] = q]
    BY <1>1 DEF StoreSelect, Goto
  <2>2. RequestOK(q, Logged, intents, payments)
    BY <2>1 DEF GatewayInv, FlowInv, RequestOK, At
  <2>3. QED
    BY <1>1, <2>1, <2>2, RequestOnly DEF StoreSelect, At
<1>2. CASE StoreWrite(r) \/ StoreClash(r)
  BY <1>2, FreeMakesNoClaim, RequestOnly DEF StoreWrite, StoreClash, Leave, At
<1>3. QED
  BY <1>1, <1>2 DEF Store

LEMMA FulfilFlow ==
  ASSUME GatewayInv, NEW r \in Slots, Fulfil(r)
  PROVE  FlowInv'
<1> USE DEF ledgerVars, orderVars
<1>0. OwnTypeOK
  BY DEF GatewayInv
<1>1. CASE FulfilRefused(r)
  BY <1>1 DEF FulfilRefused, vars, GatewayInv, FlowInv, Logged
<1>2. CASE FulfilGets(r)
  <2>1. PICK i \in Intents, auth \in 1 .. issued :
          /\ Fulfillable(i, auth)
          /\ Goto(r, "receipts",
                  [endpoint |-> "fulfil", key |-> None, intent |-> i,
                   transcript |-> intents[i].transcript, rest |-> None], auth)
    BY <1>2 DEF FulfilGets
  <2> DEFINE t == intents[i].transcript
             q == [pc |-> "receipts",
                   ask |-> [endpoint |-> "fulfil", key |-> None, intent |-> i,
                            transcript |-> t, rest |-> None],
                   body |-> auth]
  <2>2. intents[i].auth # 0
    BY <1>0, <2>1 DEF Fulfillable, OwnTypeOK
  <2>3. /\ t \in Logged /\ Given(i, t)
        /\ \E c \in payments : c.intent = i /\ c.auth # 0
    BY <2>2 DEF GatewayInv, FlowInv, RowOK
  <2>4. RequestOK(q, Logged, intents, payments)
    BY <2>3 DEF RequestOK
  <2>5. req' = [req EXCEPT ![r] = q]
    BY <2>1 DEF Goto
  <2>6. ~At(r, "append")
    BY <1>2 DEF FulfilGets, At, Free
  <2>7. QED
    BY <1>2, <2>4, <2>5, <2>6, RequestOnly DEF FulfilGets
<1>2a. CASE FulfilExpired(r)
  BY <1>2a, FreeMakesNoClaim, RequestOnly DEF FulfilExpired, Leave, At
<1>2b. CASE FulfilWrites(r)
  <2>1. PICK i, t : i = req[r].ask.intent /\ t = req[r].ask.transcript
    OBVIOUS
  <2> DEFINE q == [pc |-> "set_fulfilled", ask |-> req[r].ask, body |-> req[r].body]
  <2>2. /\ GenerateReceipts(i, t)
        /\ Goto(r, "set_fulfilled", req[r].ask, req[r].body)
        /\ UNCHANGED <<entries, append, intents, payments>>
        /\ At(r, "receipts") /\ ~At(r, "append")
    BY <1>2b, <2>1 DEF FulfilWrites, At
  <2>3. i \in Intents /\ t \in Transcripts
    BY <1>0, <2>1, <2>2, AskType DEF At, Ask
  <2>4. t \in Logged /\ \E c \in payments : c.intent = i
    BY <2>1, <2>2 DEF GatewayInv, FlowInv, RequestOK, At
  <2>5. Grows
    BY <2>2 DEF Grows, Logged
  <2>6. /\ req'[r] = q
        /\ \A s \in Slots \ {r} : req'[s] = req[s] /\ append'[s] = append[s]
    BY <1>0, <2>2 DEF Goto, OwnTypeOK
  <2>7. RequestOK(req'[r], Logged', intents', payments') /\ SessionOK(append'[r], req'[r])
    BY <2>2, <2>6, NoSession DEF RequestOK
  <2>8. /\ \A s \in Slots : RequestOK(req'[s], Logged', intents', payments')
        /\ \A s \in Slots : SessionOK(append'[s], req'[s])
    BY <2>5, <2>6, <2>7, SlotStep
  <2>9. ASSUME NEW j \in Intents
        PROVE  FilesOK(j, files'[j], Logged', payments')
    <3>1. FilesOK(j, files[j], Logged', payments')
      BY <2>5, FlowKept
    <3>2. CASE j = i
      <4>1. files'[i] = Append(files[i], t) /\ files[i] \in Seq(Transcripts)
        BY <1>0, <2>2, <2>3 DEF GenerateReceipts, OwnTypeOK
      <4>2. \A n \in DOMAIN files'[i] :
              (n \in DOMAIN files[i] /\ files'[i][n] = files[i][n]) \/ files'[i][n] = t
        BY <2>3, <4>1, AppendProperties
      <4>3. t \in Logged' /\ \E c \in payments' : c.intent = i
        BY <2>2, <2>4 DEF Logged
      <4>4. QED
        BY <3>1, <3>2, <4>2, <4>3 DEF FilesOK
    <3>3. CASE j # i
      BY <1>0, <2>2, <3>1, <3>3 DEF GenerateReceipts, OwnTypeOK
    <3>4. QED
      BY <3>2, <3>3
  <2>10. QED
    BY <2>2, <2>5, <2>8, <2>9, FlowKept DEF FlowInv
<1>3. CASE SetFulfilled(r)
  <2> DEFINE i == req[r].ask.intent
             row == [intents[i] EXCEPT !.fulfilled = TRUE]
  <2>1. /\ At(r, "set_fulfilled") /\ Leave(r)
        /\ intents' = [intents EXCEPT ![i] = row]
        /\ UNCHANGED <<entries, append, payments, files>>
    BY <1>3 DEF SetFulfilled, UpdateFields
  <2>2. intents[i] \in OrderIntent /\ i \in Intents
    BY <1>0, <2>1, AskType DEF OwnTypeOK, At, Ask
  <2>3. row.auth = intents[i].auth /\ row.transcript = intents[i].transcript
    BY <2>2 DEF OrderIntent
  <2>4. intents'[i] = row /\ \A j \in Intents \ {i} : intents'[j] = intents[j]
    BY <1>0, <2>1, <2>2 DEF OwnTypeOK
  <2>5. Grows
    BY <2>1, <2>3, <2>4 DEF Grows, Logged
  <2>6. ASSUME NEW j \in Intents
        PROVE  RowOK(j, intents'[j], Logged', payments')
    <3>1. intents'[j].transcript = intents[j].transcript /\ intents'[j].auth = intents[j].auth
      BY <2>3, <2>4
    <3>2. QED
      BY <2>5, <3>1, FlowKept DEF RowOK
  <2>7. /\ req'[r] = Free
        /\ \A s \in Slots \ {r} : req'[s] = req[s] /\ append'[s] = append[s]
    BY <1>0, <2>1 DEF Leave, OwnTypeOK
  <2>8. RequestOK(req'[r], Logged', intents', payments') /\ SessionOK(append'[r], req'[r])
    BY <2>1, <2>7, FreeMakesNoClaim, NoSession DEF At
  <2>9. /\ \A s \in Slots : RequestOK(req'[s], Logged', intents', payments')
        /\ \A s \in Slots : SessionOK(append'[s], req'[s])
    BY <2>5, <2>7, <2>8, SlotStep
  <2>10. QED
    BY <2>1, <2>5, <2>6, <2>9, FlowKept DEF FlowInv
<1>4. QED
  BY <1>1, <1>2, <1>2a, <1>2b, <1>3 DEF Fulfil

LEMMA FlowStep ==
  ASSUME GatewayInv, [Next]_vars
  PROVE  FlowInv'
<1> USE DEF ledgerVars, orderVars
<1>0. OwnTypeOK
  BY DEF GatewayInv
<1>1. ASSUME NEW i \in Intents, CreateIntent(i)
      PROVE  FlowInv'
  <2>1. /\ intents' = [intents EXCEPT ![i] = NewIntent(i)]
        /\ UNCHANGED <<entries, append, payments, files, req>>
    BY <1>1 DEF CreateIntent
  <2>2. intents[i] \in OrderIntent
    BY <1>0 DEF OwnTypeOK
  <2>3. NewIntent(i).transcript = intents[i].transcript /\ NewIntent(i).auth = intents[i].auth
    BY <2>2 DEF NewIntent, OrderIntent
  <2>4. intents'[i] = NewIntent(i) /\ \A j \in Intents \ {i} : intents'[j] = intents[j]
    BY <1>0, <2>1 DEF OwnTypeOK
  <2>5. Grows
    BY <2>1, <2>3, <2>4 DEF Grows, Logged
  <2>6. \A j \in Intents : RowOK(j, intents'[j], Logged', payments')
    BY <2>3, <2>4, <2>5, FlowKept DEF RowOK
  <2>7. QED
    BY <2>1, <2>5, <2>6, FlowKept DEF FlowInv, GatewayInv
<1>2. ASSUME NEW r \in Slots, Fail(r)
      PROVE  FlowInv'
  <2>1. Grows /\ UNCHANGED <<entries, intents, payments, files>>
    BY <1>2 DEF Fail, Grows, Logged
  <2>2. /\ req'[r] = Free /\ append'[r] = Ledger!Idle
        /\ \A s \in Slots \ {r} : req'[s] = req[s] /\ append'[s] = append[s]
    BY <1>0, <1>2 DEF Fail, Leave, OwnTypeOK, GatewayInv, LP!LinkInv, LP!LedgerTypeOK
  <2>3. RequestOK(req'[r], Logged', intents', payments') /\ SessionOK(append'[r], req'[r])
    BY <2>2, FreeMakesNoClaim DEF SessionOK
  <2>4. /\ \A s \in Slots : RequestOK(req'[s], Logged', intents', payments')
        /\ \A s \in Slots : SessionOK(append'[s], req'[s])
    BY <2>1, <2>2, <2>3, SlotStep
  <2>5. QED
    BY <2>1, <2>4, FlowKept DEF FlowInv
<1>3. ASSUME Restart
      PROVE  FlowInv'
  <2>1. Grows /\ UNCHANGED <<entries, intents, payments, files>>
    BY <1>3 DEF Restart, Ledger!Crash, Grows, Logged
  <2>2. \A s \in Slots : req'[s] = Free /\ append'[s] = Ledger!Idle
    BY <1>3 DEF Restart, Ledger!Crash
  <2>3. /\ \A s \in Slots : RequestOK(req'[s], Logged', intents', payments')
        /\ \A s \in Slots : SessionOK(append'[s], req'[s])
    BY <2>2, FreeMakesNoClaim DEF SessionOK
  <2>4. QED
    BY <2>1, <2>3, FlowKept DEF FlowInv
<1>4. CASE Tick \/ UNCHANGED vars
  BY <1>4 DEF Tick, vars, GatewayInv, FlowInv, Logged
<1>5. QED
  BY <1>1, <1>2, <1>3, <1>4, CheckFlow, ConfirmFlow, AuthorizeFlow, StoreFlow, FulfilFlow
     DEF Next, Handler

-----------------------------------------------------------------------------
LEMMA GatewayInit == Init => GatewayInv
<1> SUFFICES ASSUME Init
             PROVE  GatewayInv
  OBVIOUS
<1>1. OwnTypeOK
  BY DEF Init, OwnTypeOK, Nonce!NonceInit, Nonce!NonceTypeOK, Idem!RecordsInit,
     Idem!RecordsTypeOK, Idem!Merge, OrderIntent, Request
<1>2. LP!LedgerInit
  BY DEF Init, Ledger!LedgerInit, LP!LedgerInit, Ledger!Idle, LP!Idle
<1>3. LP!LinkInv
  BY <1>2, GatewayConstants, LP!LinkInit
<1>4. FlowInv
  BY FreeMakesNoClaim DEF Init, Ledger!LedgerInit, FlowInv, SessionOK, RowOK, FilesOK
<1>5. QED
  BY <1>1, <1>3, <1>4 DEF GatewayInv

LEMMA GatewayStep == GatewayInv /\ [Next]_vars => GatewayInv'
<1> SUFFICES ASSUME GatewayInv, [Next]_vars
             PROVE  GatewayInv'
  OBVIOUS
<1>1. LP!LinkInv'
  <2>1. [LP!LedgerNext]_(LP!ledgerVars)
    BY LedgerSteps DEF GatewayInv, LP!LinkInv
  <2>2. QED
    BY <2>1, GatewayConstants, LP!LinkStep DEF GatewayInv
<1>2. QED
  BY <1>1, OwnTypeStep, FlowStep DEF GatewayInv

LEMMA GatewayInvariance == Spec => []GatewayInv
  BY GatewayInit, GatewayStep, PTL DEF Spec

-----------------------------------------------------------------------------
(* The state of the gateway and of its components is always well-formed.   *)
THEOREM GatewayTypeCorrect == Spec => []TypeOK
<1>1. GatewayInv => TypeOK
  <2>1. LP!LedgerTypeOK => Ledger!LedgerTypeOK
    BY DEF LP!LedgerTypeOK, Ledger!LedgerTypeOK, LP!Entry, Ledger!Entry, LP!Hashes,
       Ledger!Hashes, LP!Session, Ledger!Session, LP!Idle, Ledger!Idle
  <2>2. QED
    BY <2>1 DEF GatewayInv, OwnTypeOK, LP!LinkInv, TypeOK
<1>2. QED
  BY <1>1, GatewayInvariance, PTL

(* No payment without a consent of that very order in the ledger: whatever *)
(* the clients send, however requests interleave, fail and restart.        *)
THEOREM NoPaymentWithoutConsent == Spec => []ConsentBeforePayment
<1>1. GatewayInv => ConsentBeforePayment
  BY DEF GatewayInv, FlowInv, PaymentOK, Given, ConsentBeforePayment
<1>2. QED
  BY <1>1, GatewayInvariance, PTL

(* The transcript of an order's row is in the ledger and its authorization *)
(* is of a payment the PSP confirmed for this order.                       *)
THEOREM OrdersAreBacked == Spec => []OrderIsBacked
<1>1. GatewayInv => OrderIsBacked
  BY DEF GatewayInv, FlowInv, RowOK, Given, OrderIsBacked
<1>2. QED
  BY <1>1, GatewayInvariance, PTL

(* A receipt shows a consent in the ledger, and the PSP confirmed a        *)
(* payment for its order before.                                           *)
THEOREM NoReceiptWithoutPayment == Spec => []ReceiptAfterPayment
<1>1. GatewayInv => ReceiptAfterPayment
  BY DEF GatewayInv, FlowInv, FilesOK, ReceiptAfterPayment
<1>2. QED
  BY <1>1, GatewayInvariance, PTL

(* The handlers use the ledger as ConsentLedger describes it, so that what *)
(* is proved of ConsentLedger holds of the gateway's ledger.               *)
THEOREM GatewayImplementsLedger == Spec => LedgerImplemented
<1>1. Init => Ledger!LedgerInit
  BY DEF Init
<1>2. GatewayInv /\ [Next]_vars => [Ledger!LedgerNext]_(Ledger!ledgerVars)
  <2> SUFFICES ASSUME GatewayInv, [Next]_vars
               PROVE  [Ledger!LedgerNext]_(Ledger!ledgerVars)
    OBVIOUS
  <2>1. [LP!LedgerNext]_(LP!ledgerVars)
    BY LedgerSteps DEF GatewayInv, LP!LinkInv
  <2>2. ASSUME NEW a \in Slots, NEW c \in Transcripts, LP!SelectLatest(a, c)
        PROVE  Ledger!SelectLatest(a, c)
    <3>1. LP!Room => Ledger!Room
      BY DEF Ledger!Room, LP!Room, Ledger!Cardinality, LP!Cardinality
    <3>2. QED
      BY <2>2, <3>1 DEF Ledger!SelectLatest, LP!SelectLatest, Ledger!Idle, LP!Idle,
         Ledger!LatestHash, LP!LatestHash, Ledger!NoHash, LP!NoHash
  <2>3. ASSUME NEW a \in Slots, LP!Flush(a) \/ LP!Commit(a) \/ LP!Rollback(a)
        PROVE  Ledger!Flush(a) \/ Ledger!Commit(a) \/ Ledger!Rollback(a)
    BY <2>3 DEF LP!Flush, Ledger!Flush, LP!EntryHash, Ledger!EntryHash, LP!Commit,
       Ledger!Commit, LP!Rollback, Ledger!Rollback, LP!Idle, Ledger!Idle
  <2>4. LP!Crash => Ledger!Crash
    BY DEF LP!Crash, Ledger!Crash, LP!Idle, Ledger!Idle
  <2>5. QED
    BY <2>1, <2>2, <2>3, <2>4 DEF LP!LedgerNext, Ledger!LedgerNext, LP!ledgerVars,
       Ledger!ledgerVars
<1>3. QED
  BY <1>1, <1>2, GatewayInvariance, PTL DEF Spec, LedgerImplemented, Ledger!LedgerSpec

-----------------------------------------------------------------------------
(* The ledger of the gateway is what ConsentLedger promises: every link    *)
(* resolves, a chain that does not verify has a fork, a fork is for ever,  *)
(* and confirms that do not overlap keep a ledger that verifies.           *)
THEOREM GatewayLedgerIsAuditable ==
  Spec => /\ []Ledger!PreviousIsEarlier
          /\ []Ledger!BrokenMeansForked
          /\ Ledger!ForkIsForever
          /\ Ledger!SerialAppendsVerify
<1>1. Spec => LP!LedgerSpec
  <2>1. Init => LP!LedgerInit
    BY DEF Init, Ledger!LedgerInit, LP!LedgerInit, Ledger!Idle, LP!Idle
  <2>2. GatewayInv /\ [Next]_vars => [LP!LedgerNext]_(LP!ledgerVars)
    BY LedgerSteps DEF GatewayInv, LP!LinkInv
  <2>3. QED
    BY <2>1, <2>2, GatewayInvariance, PTL DEF Spec, LP!LedgerSpec
<1>2. LP!ChainVerifies <=> Ledger!ChainVerifies
  BY DEF LP!ChainVerifies, Ledger!ChainVerifies, LP!EntryHash, Ledger!EntryHash, LP!NoHash,
     Ledger!NoHash, LP!Before, Ledger!Before, LP!LatestHash, Ledger!LatestHash
<1>3. LP!LedgerSpec => []Ledger!PreviousIsEarlier
  <2>1. LP!LedgerSpec => []LP!PreviousIsEarlier
    BY GatewayConstants, LP!EveryLinkResolves
  <2>2. LP!PreviousIsEarlier => Ledger!PreviousIsEarlier
    BY DEF LP!PreviousIsEarlier, Ledger!PreviousIsEarlier, LP!EntryHash, Ledger!EntryHash,
       LP!NoHash, Ledger!NoHash, LP!Before, Ledger!Before
  <2>3. QED
    BY <2>1, <2>2, PTL
<1>4. LP!LedgerSpec => []Ledger!BrokenMeansForked
  <2>1. LP!LedgerSpec => []LP!BrokenMeansForked
    BY GatewayConstants, LP!BrokenLedgersAreForked
  <2>2. LP!BrokenMeansForked => Ledger!BrokenMeansForked
    BY <1>2 DEF LP!BrokenMeansForked, Ledger!BrokenMeansForked
  <2>3. QED
    BY <2>1, <2>2, PTL
<1>5. LP!LedgerSpec => Ledger!ForkIsForever
  <2>1. LP!LedgerSpec => LP!ForkIsForever
    BY GatewayConstants, LP!ForksAreForever
  <2>2. LP!ChainVerifies' <=> Ledger!ChainVerifies'
    BY DEF LP!ChainVerifies, Ledger!ChainVerifies, LP!EntryHash, Ledger!EntryHash, LP!NoHash,
       Ledger!NoHash, LP!Before, Ledger!Before, LP!LatestHash, Ledger!LatestHash
  <2>3. [~LP!ChainVerifies => ~LP!ChainVerifies']_(LP!ledgerVars)
          => [~Ledger!ChainVerifies => ~Ledger!ChainVerifies']_(Ledger!ledgerVars)
    BY <1>2, <2>2 DEF LP!ledgerVars, Ledger!ledgerVars
  <2>4. QED
    BY <2>1, <2>3, PTL DEF LP!ForkIsForever, Ledger!ForkIsForever
<1>6. LP!LedgerSpec => Ledger!SerialAppendsVerify
  <2>1. LP!LedgerSpec => LP!SerialAppendsVerify
    BY GatewayConstants, LP!SerialLedgerVerifies
  <2>2. LP!OneSession <=> Ledger!OneSession
    BY DEF LP!OneSession, Ledger!OneSession, LP!Idle, Ledger!Idle
  <2>3. QED
    BY <1>2, <2>1, <2>2, PTL DEF LP!SerialAppendsVerify, Ledger!SerialAppendsVerify
<1>7. QED
  BY <1>1, <1>3, <1>4, <1>5, <1>6, PTL

-----------------------------------------------------------------------------
(* What the rows get, and who brings it.  A request that is to write is at *)
(* the call of a set_ method, or at the receipts before it.                *)
Writing(r) == req[r].pc \in {"set_hash", "set_auth", "receipts", "set_fulfilled"}

ColumnsStay == \A i \in Intents : /\ intents'[i].transcript = intents[i].transcript
                                  /\ intents'[i].auth = intents[i].auth
                                  /\ intents'[i].fulfilled = intents[i].fulfilled

NoneComes == \A r \in Slots : Writing(r)' => req'[r] = req[r]

(* A slot goes where it does not write.                                    *)
LEMMA MoveAside ==
  ASSUME OwnTypeOK, NEW r \in Slots, NEW pc, NEW ask, NEW body,
         pc \notin {"set_hash", "set_auth", "receipts", "set_fulfilled"},
         Leave(r) \/ Goto(r, pc, ask, body)
  PROVE  /\ NoneComes
         /\ \A s \in Slots \ {r} : req'[s] = req[s]
<1>1. \A s \in Slots \ {r} : req'[s] = req[s]
  BY DEF Leave, Goto, OwnTypeOK
<1>2. ~Writing(r)'
  <2>1. CASE Leave(r)
    BY <2>1 DEF Leave, OwnTypeOK, Writing, Free
  <2>2. CASE Goto(r, pc, ask, body)
    BY <2>2 DEF Goto, OwnTypeOK, Writing
  <2>3. QED
    BY <2>1, <2>2
<1>3. QED
  BY <1>1, <1>2 DEF NoneComes

(* All but seven kinds of steps leave the ledger and the columns alone,    *)
(* and bring no request to where it writes.                                *)
LEMMA WriteTraffic ==
  ASSUME OwnTypeOK, [Next]_vars
  PROVE  \/ \E r \in Slots : \/ AppendCommit(r) \/ SetTranscriptHash(r)
                             \/ PspConfirms(r) \/ SetAuthorization(r)
                             \/ FulfilGets(r) \/ FulfilWrites(r) \/ SetFulfilled(r)
         \/ entries' = entries /\ ColumnsStay /\ NoneComes
<1> USE DEF ledgerVars, orderVars
<1> DEFINE Stays == entries' = entries /\ ColumnsStay
<1>1. ASSUME NEW r \in Slots,
             \/ ConfirmRefused(r) \/ ConfirmReplayed(r) \/ ConfirmUnsigned(r)
             \/ ConfirmSigned(r) \/ AuthorizeRefused(r) \/ AuthorizeAllowed(r)
      PROVE  Stays /\ NoneComes
  <2>1. Stays
    BY <1>1 DEF ConfirmRefused, ConfirmReplayed, ConfirmUnsigned, ConfirmSigned,
       AuthorizeRefused, AuthorizeAllowed, ColumnsStay
  <2>2. \/ Leave(r)
        \/ \E ask : Goto(r, "append", ask, 0)
        \/ \E ask : Goto(r, "psp", ask, 0)
    BY <1>1 DEF ConfirmRefused, ConfirmReplayed, ConfirmUnsigned, ConfirmSigned,
       AuthorizeRefused, AuthorizeAllowed
  <2>3. QED
    BY <2>1, <2>2, MoveAside
<1>2. ASSUME NEW r \in Slots,
             \/ CheckedNew(r) \/ PspDeclines(r) \/ PspAnswerLost(r) \/ Store(r)
             \/ FulfilExpired(r) \/ Fail(r)
      PROVE  Stays /\ NoneComes
  <2>1. Stays
    BY <1>2 DEF CheckedNew, PspDeclines, PspAnswerLost, Store, StoreSelect, StoreWrite, StoreClash,
       FulfilExpired, Fail, ColumnsStay
  <2>2. \/ Leave(r)
        \/ \E ask : Goto(r, "get", ask, 0)
        \/ \E ask, body : Goto(r, "write", ask, body)
    BY <1>2 DEF CheckedNew, PspDeclines, PspAnswerLost, Store, StoreSelect, StoreWrite, StoreClash,
       FulfilExpired, Fail
  <2>3. QED
    BY <2>1, <2>2, MoveAside
<1>3. ASSUME \/ \E r \in Slots : \/ CheckedCached(r) \/ CheckedConflict(r) \/ AppendSelect(r)
                                 \/ AppendFlush(r) \/ FulfilRefused(r)
             \/ Tick
             \/ UNCHANGED vars
      PROVE  Stays /\ NoneComes
  BY <1>3 DEF CheckedCached, CheckedConflict, AppendSelect, AppendFlush, FulfilRefused, Tick, vars,
     Ledger!SelectLatest, Ledger!Flush, ColumnsStay, NoneComes
<1>4. ASSUME NEW i \in Intents, CreateIntent(i)
      PROVE  Stays /\ NoneComes
  <2>1. intents' = [intents EXCEPT ![i] = NewIntent(i)]
        /\ UNCHANGED <<entries, req>>
    BY <1>4 DEF CreateIntent
  <2>2. intents[i] \in OrderIntent
    BY DEF OwnTypeOK
  <2>3. /\ NewIntent(i).transcript = intents[i].transcript
        /\ NewIntent(i).auth = intents[i].auth
        /\ NewIntent(i).fulfilled = intents[i].fulfilled
    BY <2>2 DEF NewIntent, OrderIntent
  <2>4. intents'[i] = NewIntent(i) /\ \A j \in Intents \ {i} : intents'[j] = intents[j]
    BY <2>1 DEF OwnTypeOK
  <2>5. ColumnsStay
    BY <2>3, <2>4 DEF ColumnsStay
  <2>6. QED
    BY <2>1, <2>5 DEF NoneComes
<1>5. ASSUME Restart
      PROVE  Stays /\ NoneComes
  BY <1>5 DEF Restart, Ledger!Crash, ColumnsStay, NoneComes, Writing, Free
<1> HIDE DEF Stays
<1>6. Stays => entries' = entries /\ ColumnsStay
  BY DEF Stays
<1>7. \/ \E r \in Slots : \/ AppendCommit(r) \/ SetTranscriptHash(r)
                          \/ PspConfirms(r) \/ SetAuthorization(r)
                          \/ FulfilGets(r) \/ FulfilWrites(r) \/ SetFulfilled(r)
      \/ Stays /\ NoneComes
  BY <1>1, <1>2, <1>3, <1>4, <1>5 DEF Next, Handler, CheckExisting, Confirm, Authorize, Fulfil
<1>8. QED
  BY <1>6, <1>7

(* A set_ method assigns to one row, and its request writes no more.       *)
LEMMA SetEffect ==
  ASSUME OwnTypeOK, NEW r \in Slots, ~At(r, "free"), NEW row,
         UpdateFields(req[r].ask.intent, row), Leave(r) \/ Respond(r)
  PROVE  /\ req[r].ask \in Ask /\ req[r].ask.intent \in Intents /\ req[r].body \in Nat
         /\ intents[req[r].ask.intent] \in OrderIntent
         /\ intents'[req[r].ask.intent] = row
         /\ \A i \in Intents \ {req[r].ask.intent} : intents'[i] = intents[i]
         /\ NoneComes
         /\ \A s \in Slots \ {r} : req'[s] = req[s]
<1>1. req[r].ask \in Ask /\ req[r].body \in Nat
  BY AskType
<1>2. req[r].ask.intent \in Intents
  BY <1>1 DEF Ask
<1>3. /\ intents[req[r].ask.intent] \in OrderIntent
      /\ intents'[req[r].ask.intent] = row
      /\ \A i \in Intents \ {req[r].ask.intent} : intents'[i] = intents[i]
  BY <1>2 DEF OwnTypeOK, UpdateFields
<1>4. Leave(r) \/ Goto(r, "store", req[r].ask, req[r].body)
  BY DEF Respond
<1>5. NoneComes /\ \A s \in Slots \ {r} : req'[s] = req[s]
  BY <1>4, MoveAside
<1>6. QED
  BY <1>1, <1>2, <1>3, <1>5

(* What is written is an authorization id, which are numbered from 1, and  *)
(* receipts go to an order that has one.                                   *)
FilledOK(r) ==
  /\ At(r, "set_auth") => req[r].body # 0
  /\ At(r, "receipts") \/ At(r, "set_fulfilled") => intents[req[r].ask.intent].auth # 0

FilledInv == \A r \in Slots : FilledOK(r)

(* If no authorization is lost, that is a matter of the requests that come *)
(* to write.                                                               *)
LEMMA FilledKept ==
  ASSUME OwnTypeOK, FilledInv, NEW r \in Slots, Writing(r)' => req'[r] = req[r],
         \A i \in Intents : intents[i].auth # 0 => intents'[i].auth # 0
  PROVE  FilledOK(r)'
<1>1. CASE Writing(r)'
  <2>1. req'[r] = req[r]
    BY <1>1
  <2>2. ~At(r, "free")
    BY <1>1, <2>1 DEF Writing, At
  <2>3. req[r].ask.intent \in Intents
    BY <2>2, AskType DEF Ask
  <2>4. QED
    BY <2>1, <2>3 DEF FilledInv, FilledOK, At
<1>2. CASE ~Writing(r)'
  BY <1>2 DEF Writing, FilledOK, At
<1>3. QED
  BY <1>1, <1>2

(* Each step leaves the columns alone or assigns to one of them what its   *)
(* row is ready for.                                                       *)
LEMMA ColumnsStep ==
  ASSUME GatewayInv, FilledInv, [Next]_vars
  PROVE  FilledInv' /\ [Columns!AtomicNext]_(Columns!columns)
<1>0. OwnTypeOK /\ None \notin Nat /\ None \notin Transcripts
  BY GatewayConstants DEF GatewayInv
<1>1. ASSUME NEW r \in Slots, SetTranscriptHash(r)
      PROVE  FilledInv' /\ Columns!AtomicNext
  <2>0. PICK i : i = req[r].ask.intent
    OBVIOUS
  <2> DEFINE row == [intents[i] EXCEPT !.transcript = req[r].ask.transcript]
  <2>1. UpdateFields(i, row) /\ Respond(r) /\ ~At(r, "free")
    BY <1>1, <2>0 DEF SetTranscriptHash, At
  <2>2. /\ i \in Intents /\ req[r].ask.transcript \in Transcripts
        /\ intents[i] \in OrderIntent /\ intents'[i] = row
        /\ \A j \in Intents \ {i} : intents'[j] = intents[j]
        /\ NoneComes
    BY <1>0, <2>0, <2>1, SetEffect DEF Ask
  <2>3. /\ row.transcript = req[r].ask.transcript
        /\ row.auth = intents[i].auth /\ row.fulfilled = intents[i].fulfilled
    BY <2>2 DEF OrderIntent
  <2> HIDE DEF row
  <2>4. /\ intents'[i].transcript \in Transcripts
        /\ \A j \in Intents \ {i} : intents'[j].transcript = intents[j].transcript
        /\ \A j \in Intents : /\ intents'[j].auth = intents[j].auth
                              /\ intents'[j].fulfilled = intents[j].fulfilled
    BY <2>2, <2>3
  <2>5. Columns!SetTranscriptHash(i)
    BY <2>2, <2>4 DEF Columns!SetTranscriptHash
  <2>6. FilledInv'
    <3>1. \A s \in Slots : Writing(s)' => req'[s] = req[s]
      BY <2>2 DEF NoneComes
    <3>2. QED
      BY <1>0, <2>4, <3>1, FilledKept DEF FilledInv
  <2>7. QED
    BY <2>2, <2>5, <2>6 DEF Columns!AtomicNext
<1>2. ASSUME NEW r \in Slots, SetAuthorization(r)
      PROVE  FilledInv' /\ Columns!AtomicNext
  <2>0. PICK i : i = req[r].ask.intent
    OBVIOUS
  <2> DEFINE row == [intents[i] EXCEPT !.auth = req[r].body]
  <2>1. UpdateFields(i, row) /\ Respond(r) /\ At(r, "set_auth") /\ ~At(r, "free")
    BY <1>2, <2>0 DEF SetAuthorization, At
  <2>2. /\ i \in Intents /\ req[r].body \in Nat
        /\ intents[i] \in OrderIntent /\ intents'[i] = row
        /\ \A j \in Intents \ {i} : intents'[j] = intents[j]
        /\ NoneComes
    BY <1>0, <2>0, <2>1, SetEffect
  <2>3. /\ row.auth = req[r].body
        /\ row.transcript = intents[i].transcript /\ row.fulfilled = intents[i].fulfilled
    BY <2>2 DEF OrderIntent
  <2>4. req[r].body # 0
    BY <2>1 DEF FilledInv, FilledOK
  <2>5. intents[i].transcript # None
    BY <2>0, <2>1 DEF GatewayInv, FlowInv, RequestOK, At
  <2> HIDE DEF row
  <2>6. /\ intents'[i].auth \in Nat \ {0}
        /\ \A j \in Intents \ {i} : intents'[j].auth = intents[j].auth
        /\ \A j \in Intents : /\ intents'[j].transcript = intents[j].transcript
                              /\ intents'[j].fulfilled = intents[j].fulfilled
    BY <2>2, <2>3, <2>4
  <2>7. Columns!SetAuthorization(i)
    BY <2>2, <2>5, <2>6 DEF Columns!SetAuthorization
  <2>8. FilledInv'
    <3>1. \A s \in Slots : Writing(s)' => req'[s] = req[s]
      BY <2>2 DEF NoneComes
    <3>2. \A j \in Intents : intents[j].auth # 0 => intents'[j].auth # 0
      BY <2>6
    <3>3. QED
      BY <1>0, <3>1, <3>2, FilledKept DEF FilledInv
  <2>9. QED
    BY <2>2, <2>7, <2>8 DEF Columns!AtomicNext
<1>3. ASSUME NEW r \in Slots, SetFulfilled(r)
      PROVE  FilledInv' /\ Columns!AtomicNext
  <2>0. PICK i : i = req[r].ask.intent
    OBVIOUS
  <2> DEFINE row == [intents[i] EXCEPT !.fulfilled = TRUE]
  <2>1. UpdateFields(i, row) /\ Leave(r) /\ At(r, "set_fulfilled") /\ ~At(r, "free")
    BY <1>3, <2>0 DEF SetFulfilled, At
  <2>2. /\ i \in Intents
        /\ intents[i] \in OrderIntent /\ intents'[i] = row
        /\ \A j \in Intents \ {i} : intents'[j] = intents[j]
        /\ NoneComes
    BY <1>0, <2>0, <2>1, SetEffect
  <2>3. /\ row.fulfilled = TRUE
        /\ row.transcript = intents[i].transcript /\ row.auth = intents[i].auth
    BY <2>2 DEF OrderIntent
  <2>4. intents[i].auth # 0 /\ intents[i].auth \in Nat
    BY <2>0, <2>1, <2>2 DEF FilledInv, FilledOK, OrderIntent
  <2> HIDE DEF row
  <2>5. /\ intents'[i].fulfilled = TRUE
        /\ \A j \in Intents \ {i} : intents'[j].fulfilled = intents[j].fulfilled
        /\ \A j \in Intents : /\ intents'[j].transcript = intents[j].transcript
                              /\ intents'[j].auth = intents[j].auth
    BY <2>2, <2>3
  <2>6. Columns!SetFulfilled(i)
    BY <1>0, <2>2, <2>4, <2>5 DEF Columns!SetFulfilled
  <2>7. FilledInv'
    <3>1. \A s \in Slots : Writing(s)' => req'[s] = req[s]
      BY <2>2 DEF NoneComes
    <3>2. QED
      BY <1>0, <2>5, <3>1, FilledKept DEF FilledInv
  <2>8. QED
    BY <2>2, <2>6, <2>7 DEF Columns!AtomicNext
<1>4. ASSUME NEW r \in Slots, AppendCommit(r) \/ PspConfirms(r)
      PROVE  FilledInv' /\ UNCHANGED Columns!columns
  <2>1. intents' = intents
    BY <1>4 DEF AppendCommit, PspConfirms, orderVars
  <2>2. \A s \in Slots \ {r} : Writing(s)' => req'[s] = req[s]
    BY <1>0, <1>4 DEF AppendCommit, PspConfirms, Goto, OwnTypeOK
  <2>3. /\ At(r, "set_auth")' => req'[r].body # 0
        /\ ~At(r, "receipts")' /\ ~At(r, "set_fulfilled")'
    <3>1. CASE AppendCommit(r)
      BY <1>0, <3>1 DEF AppendCommit, Goto, OwnTypeOK, At
    <3>2. CASE PspConfirms(r)
      <4>1. req'[r] = [pc |-> "set_auth", ask |-> req[r].ask, body |-> issued + 1]
        BY <1>0, <3>2 DEF PspConfirms, Goto, OwnTypeOK
      <4>2. issued + 1 # 0
        BY <1>0 DEF OwnTypeOK
      <4>3. QED
        BY <4>1, <4>2 DEF At
    <3>3. QED
      BY <1>4, <3>1, <3>2
  <2>4. FilledInv'
    <3>1. FilledOK(r)'
      BY <2>3 DEF FilledOK, At
    <3>2. \A s \in Slots \ {r} : FilledOK(s)'
      BY <1>0, <2>1, <2>2, FilledKept
    <3>3. QED
      BY <3>1, <3>2 DEF FilledInv
  <2>5. QED
    BY <2>1, <2>4 DEF Columns!columns
<1>5. ASSUME NEW r \in Slots, FulfilGets(r) \/ FulfilWrites(r)
      PROVE  FilledInv' /\ UNCHANGED Columns!columns
  <2>1. intents' = intents
    BY <1>5 DEF FulfilGets, FulfilWrites, orderVars
  <2>2. /\ ~At(r, "set_auth")'
        /\ intents[req'[r].ask.intent].auth # 0
        /\ \A s \in Slots \ {r} : req'[s] = req[s]
    <3>1. CASE FulfilGets(r)
      <4>1. PICK i \in Intents, auth \in 1 .. issued :
              /\ Fulfillable(i, auth)
              /\ Goto(r, "receipts",
                      [endpoint |-> "fulfil", key |-> None, intent |-> i,
                       transcript |-> intents[i].transcript, rest |-> None], auth)
        BY <3>1 DEF FulfilGets
      <4>2. /\ req'[r].pc = "receipts" /\ req'[r].ask.intent = i
            /\ \A s \in Slots \ {r} : req'[s] = req[s]
        BY <1>0, <4>1 DEF Goto, OwnTypeOK
      <4>3. intents[i].auth # 0
        BY <1>0, <4>1 DEF Fulfillable, OwnTypeOK
      <4>4. QED
        BY <4>2, <4>3 DEF At
    <3>2. CASE FulfilWrites(r)
      <4>1. /\ req'[r].pc = "set_fulfilled" /\ req'[r].ask = req[r].ask
            /\ \A s \in Slots \ {r} : req'[s] = req[s]
        BY <1>0, <3>2 DEF FulfilWrites, Goto, OwnTypeOK
      <4>2. intents[req[r].ask.intent].auth # 0
        BY <3>2 DEF FulfilWrites, FilledInv, FilledOK
      <4>3. QED
        BY <4>1, <4>2 DEF At
    <3>3. QED
      BY <1>5, <3>1, <3>2
  <2>3. FilledInv'
    <3>1. FilledOK(r)'
      BY <2>1, <2>2 DEF FilledOK, At
    <3>2. \A s \in Slots \ {r} : FilledOK(s)'
      BY <1>0, <2>1, <2>2, FilledKept
    <3>3. QED
      BY <3>1, <3>2 DEF FilledInv
  <2>4. QED
    BY <2>1, <2>3 DEF Columns!columns
<1>6. ASSUME ColumnsStay, NoneComes
      PROVE  FilledInv' /\ UNCHANGED Columns!columns
  <2>1. \A s \in Slots : Writing(s)' => req'[s] = req[s]
    BY <1>6 DEF NoneComes
  <2>2. \A i \in Intents : intents[i].auth # 0 => intents'[i].auth # 0
    BY <1>6 DEF ColumnsStay
  <2>3. FilledInv'
    BY <1>0, <2>1, <2>2, FilledKept DEF FilledInv
  <2>4. QED
    BY <1>6, <2>3 DEF ColumnsStay, Columns!columns
<1>7. QED
  BY <1>0, <1>1, <1>2, <1>3, <1>4, <1>5, <1>6, WriteTraffic

LEMMA FilledInvariance == Spec => []FilledInv
<1>1. Init => FilledInv
  BY DEF Init, FilledInv, FilledOK, At, Free
<1>2. GatewayInv /\ FilledInv /\ [Next]_vars => FilledInv'
  BY ColumnsStep
<1>3. QED
  BY <1>1, <1>2, GatewayInvariance, PTL DEF Spec

(* The rows under the handlers are the store that OrderUpdates implements  *)
(* statement by statement: in Gateway too a column is assigned only where  *)
(* the column before it has a value, whatever ran since that was checked.  *)
THEOREM GatewayImplementsStore == Spec => StoreImplemented
<1>1. Init => Columns!AtomicInit
  BY DEF Init, Columns!AtomicInit
<1>2. GatewayInv /\ FilledInv /\ [Next]_vars => [Columns!AtomicNext]_(Columns!columns)
  BY ColumnsStep
<1>3. QED
  BY <1>1, <1>2, GatewayInvariance, FilledInvariance, PTL DEF Spec, StoreImplemented, Columns!AtomicSpec

=============================================================================
