------------------------------ MODULE Gateway ------------------------------
(***************************************************************************)
(* The checkout gateway: the handlers of apps/gateway/app/api/routes.py    *)
(* over the intent store, the consent ledger, the nonce cache, the         *)
(* idempotency table and the payment provider (PSP).                       *)
(*                                                                         *)
(* A handler is a coroutine: between two awaits it runs alone, and at an   *)
(* await the others run.  A slot is a coroutine that serves one request at *)
(* a time; each action below is what it does from one await to the next.   *)
(* The database and the files survive a restart, the nonce cache and the   *)
(* requests in flight do not.                                              *)
(*                                                                         *)
(* A transcript is the JSON body that a client sends, and stands for its   *)
(* own hash (no collisions): the fields that the schema declares, of which *)
(* text has the rest, the value of the signature too, and whether that     *)
(* value is the signature of the body as sent.  It is that of one body at  *)
(* most.  The nonce of an intent is the intent: secrets.token_urlsafe      *)
(* never repeats.                                                          *)
(***************************************************************************)
EXTENDS Naturals, Sequences, FiniteSets

CONSTANTS Slots, Intents, Transcripts, Keys, None,
          Rests,       \* what a request body holds beside intent and transcript
          Policy,      \* what the policy hook decides for the order of an intent
          NonceTtl, NonceMax,
          MayFail,     \* whether a database or PSP call may fail half-way
          MayRestart,  \* whether the process may die and start again
          MayDefer,    \* whether the PSP may answer before it moves the money
          MaxTime, MaxClock, MaxAuth, MaxReceipts, \* bounds
          Posts        \* bound: the request bodies that come with a key

ASSUME GatewayConstants ==
  /\ Transcripts \subseteq [intent : Intents, nonce : Intents, signed : BOOLEAN, text : STRING]
  /\ None \notin Transcripts \union Keys \union Rests \union Nat
  /\ Policy \in [Intents -> {"ALLOW", "REVIEW", "DENY"}]
  /\ {MayFail, MayRestart, MayDefer} \subseteq BOOLEAN
  /\ {NonceTtl, NonceMax} \subseteq Nat \ {0}
  /\ {MaxTime, MaxClock, MaxAuth, MaxReceipts} \subseteq Nat
  /\ Posts \subseteq [endpoint : {"confirm", "authorize"}, intent : Intents,
                      transcript : Transcripts, rest : Rests \union {None}]

VARIABLES now, cache,              \* NonceService
          entries, clock, append,  \* ConsentLedger
          records, merge,          \* IdempotencyService
          intents,  \* the rows of order_intents
          payments, \* external: the confirmations the PSP carried out
          issued,   \* how many payments the PSP confirmed
          files,    \* for each intent, the transcripts on its receipts
          req,      \* for each slot, the request it serves and where it stands
          answers   \* history: what the requests with a key were answered

nonceVars == <<now, cache>>
ledgerVars == <<entries, clock, append>>
keyVars == <<records, merge>>
orderVars == <<intents, payments, issued, files>>
vars == <<nonceVars, ledgerVars, keyVars, orderVars, req, answers>>

Nonce == INSTANCE NonceService WITH Nonces <- Intents
Ledger == INSTANCE ConsentLedger WITH Appenders <- Slots, Contents <- Transcripts

(* What the declared fields of a request body hold of a transcript: fields *)
(* that the model does not declare are dropped, values are normalised, and *)
(* whether the signature is one of the body as sent is not to be seen.     *)
Parsed(t) == [intent |-> t.intent, nonce |-> t.nonce, text |-> t.text]

Idem == INSTANCE IdempotencyService WITH
          Requests <- Slots, Keys <- {"confirm", "authorize"} \X Keys,
          Payloads <- Intents \X (Transcripts \union {Parsed(t) : t \in Transcripts})
                              \X (Rests \union {None}),
          Bodies <- Nat

(* expires_at 0 is no row; transcript None and auth 0 are NULL columns.    *)
OrderIntent == [expires_at : Nat, transcript : Transcripts \union {None},
                auth : Nat, fulfilled : BOOLEAN]

(* rest: customer_ip and user_agent, or payment_method_token, where a key  *)
(* makes the gateway look at them; /authorize names a transcript's hash.   *)
Ask == [endpoint : {"confirm", "authorize", "fulfil"}, key : Keys \union {None},
        intent : Intents, transcript : Transcripts, rest : Rests \union {None}]

Free == [pc |-> "free"]
Request == {Free} \union
  [pc : {"get", "append", "set_hash", "psp", "set_auth", "receipts", "set_fulfilled",
         "store", "write"},
   ask : Ask, body : Nat]

(* number tells payments apart.  The authorization id made of the answer   *)
(* (uuid4 is fresh) is the payment's number; auth is 0 where the answer    *)
(* was lost.  captured is FALSE for an answer of "requires_action" or      *)
(* "processing".                                                           *)
Payment == [intent : Intents, transcript : Transcripts, key : Keys \union {None},
            number : Nat, auth : Nat, captured : BOOLEAN]

Answer == [ask : Ask, status : {"ok", "replay"}, body : Nat]

TypeOK ==
  /\ Nonce!NonceTypeOK
  /\ Ledger!LedgerTypeOK
  /\ Idem!RecordsTypeOK
  /\ intents \in [Intents -> OrderIntent]
  /\ payments \subseteq Payment
  /\ issued \in Nat
  /\ files \in [Intents -> Seq(Transcripts)]
  /\ req \in [Slots -> Request]
  /\ answers \subseteq Answer

Init ==
  /\ Nonce!NonceInit
  /\ Ledger!LedgerInit
  /\ Idem!RecordsInit
  /\ intents = [i \in Intents |->
       [expires_at |-> 0, transcript |-> None, auth |-> 0, fulfilled |-> FALSE]]
  /\ payments = {}
  /\ issued = 0
  /\ files = [i \in Intents |-> << >>]
  /\ req = [r \in Slots |-> Free]
  /\ answers = {}

-----------------------------------------------------------------------------
(* IntentStore.get answers: the row exists and has not expired.  One clock *)
(* stands for the wall clock of expires_at and for the timer of the nonce  *)
(* cache, which is monotonic: they are taken to advance alike.             *)
Open(i) == now < intents[i].expires_at

(* IntentStore._update_fields; updates of different columns commute.       *)
UpdateFields(i, row) == intents' = [intents EXCEPT ![i] = row]

RowKey(ask) == <<ask.endpoint, ask.key>>

\* Mutant: the hash is of the transcript only.
Payload_Transcript(ask) ==
  <<ask.transcript.intent,
    IF ask.endpoint = "confirm" THEN Parsed(ask.transcript) ELSE ask.transcript, None>>

(* What payload_hash is the hash of: model_dump of the parsed request.     *)
(* /authorize has a transcript_hash in it, which is exact.                 *)
Payload(ask) ==
  <<ask.intent,
    IF ask.endpoint = "confirm" THEN Parsed(ask.transcript) ELSE ask.transcript,
    ask.rest>>

(* What slot r may be asked next, past check_existing: the request it      *)
(* holds, or a new one that brings no key.                                 *)
Pending(r, endpoint) ==
  IF req[r] = Free
  THEN [endpoint : {endpoint}, key : {None}, intent : Intents,
        transcript : Transcripts, rest : {None}]
  ELSE {ask \in {req[r].ask} : req[r].pc = "get" /\ ask.endpoint = endpoint}

Goto(r, pc, ask, body) == req' = [req EXCEPT ![r] = [pc |-> pc, ask |-> ask, body |-> body]]
Leave(r) == req' = [req EXCEPT ![r] = Free]

(* A request with a key is answered; the history keeps the answer.         *)
Note(ask, status, body) ==
  answers' = IF ask.key = None THEN answers
             ELSE answers \union {[ask |-> ask, status |-> status, body |-> body]}

At(r, pc) == req[r].pc = pc

(* The bounds: a request is let in only if it and those already in can all *)
(* make their ledger entry or their authorization id.                      *)
Others(r, endpoint, pc) ==
  Cardinality({s \in Slots \ {r} : \/ At(s, pc)
                                   \/ At(s, "get") /\ req[s].ask.endpoint = endpoint})
Room(r, endpoint) ==
  IF endpoint = "confirm" THEN clock + Others(r, endpoint, "append") < MaxClock
                          ELSE issued + Others(r, endpoint, "psp") < MaxAuth

-----------------------------------------------------------------------------
\* Mutant: the intent outlives the nonce.
NewIntent_OutlivesNonce(i) == [intents[i] EXCEPT !.expires_at = now + 2 * NonceTtl]

(* IntentStore.create: a row with a nonce of its own, open for NonceTtl;   *)
(* the other columns are NULL, as they are where there is no row.          *)
NewIntent(i) == [intents[i] EXCEPT !.expires_at = now + NonceTtl]

(* POST /intents.  The payment intent the PSP makes first moves no money.  *)
CreateIntent(i) ==
  /\ intents[i].expires_at = 0
  /\ intents' = [intents EXCEPT ![i] = NewIntent(i)]
  /\ UNCHANGED <<nonceVars, ledgerVars, keyVars, payments, issued, files, req, answers>>

(* /confirm or /authorize with an Idempotency-Key.                         *)
Keyed(r) ==
  {ask \in [endpoint : {"confirm", "authorize"}, key : Keys, intent : Intents,
            transcript : Transcripts, rest : Rests \union {None}] :
     /\ req[r] = Free
     /\ [endpoint |-> ask.endpoint, intent |-> ask.intent,
         transcript |-> ask.transcript, rest |-> ask.rest] \in Posts}

\* Mutant: check_existing is not called.
CheckedNew_Unchecked(r) ==
  \E ask \in Keyed(r) :
    /\ Room(r, ask.endpoint)
    /\ Goto(r, "get", ask, 0)
    /\ UNCHANGED <<nonceVars, ledgerVars, keyVars, orderVars, answers>>

CheckedNew(r) ==
  \E ask \in Keyed(r) :
    /\ Idem!Unseen(RowKey(ask))
    /\ Room(r, ask.endpoint)
    /\ Goto(r, "get", ask, 0)
    /\ UNCHANGED <<nonceVars, ledgerVars, keyVars, orderVars, answers>>

CheckedCached(r) ==
  \E ask \in Keyed(r) : \E b \in Idem!Cached(RowKey(ask), Payload(ask)) :
    /\ Note(ask, "ok", b)
    /\ UNCHANGED <<nonceVars, ledgerVars, keyVars, orderVars, req>>

CheckedConflict(r) ==
  \E ask \in Keyed(r) :
    /\ Idem!Conflict(RowKey(ask), Payload(ask))
    /\ UNCHANGED vars

-----------------------------------------------------------------------------
(* /confirm up to its first write: 500 for no row or an expired one, 400   *)
(* for another intent or nonce.                                            *)
Matches(ask) == /\ Open(ask.intent)
                /\ ask.transcript.intent = ask.intent
                /\ ask.transcript.nonce = ask.intent

ConfirmRefused(r) ==
  \E ask \in Pending(r, "confirm") :
    /\ ~Matches(ask)
    /\ Leave(r)
    /\ UNCHANGED <<nonceVars, ledgerVars, keyVars, orderVars, answers>>

(* 409 "nonce replay detected".                                            *)
ConfirmReplayed(r) ==
  \E ask \in Pending(r, "confirm") :
    /\ Matches(ask)
    /\ Nonce!Seen(ask.intent)
    /\ Note(ask, "replay", 0)
    /\ Leave(r)
    /\ UNCHANGED <<nonceVars, ledgerVars, keyVars, orderVars>>

(* 401 "invalid signature": the nonce is used up all the same.             *)
ConfirmUnsigned(r) ==
  \E ask \in Pending(r, "confirm") :
    /\ Matches(ask)
    /\ Nonce!Remember(ask.intent)
    /\ ~ask.transcript.signed
    /\ Leave(r)
    /\ UNCHANGED <<now, ledgerVars, keyVars, orderVars, answers>>

\* Mutants: the signature is not verified; set_transcript_hash comes first.
ConfirmSigned_Unverified(r) ==
  \E ask \in Pending(r, "confirm") :
    /\ Matches(ask)
    /\ Nonce!Remember(ask.intent)
    /\ Room(r, ask.endpoint)
    /\ Goto(r, "append", ask, 0)
    /\ UNCHANGED <<now, ledgerVars, keyVars, orderVars, answers>>

ConfirmSigned_HashFirst(r) ==
  \E ask \in Pending(r, "confirm") :
    /\ Matches(ask)
    /\ Nonce!Remember(ask.intent)
    /\ ask.transcript.signed
    /\ Room(r, ask.endpoint)
    /\ intents' = [intents EXCEPT ![ask.intent].transcript = ask.transcript]
    /\ Goto(r, "append", ask, 0)
    /\ UNCHANGED <<now, ledgerVars, keyVars, payments, issued, files, answers>>

ConfirmSigned(r) ==
  \E ask \in Pending(r, "confirm") :
    /\ Matches(ask)
    /\ Nonce!Remember(ask.intent)
    /\ ask.transcript.signed
    /\ Room(r, ask.endpoint)
    /\ Goto(r, "append", ask, 0)
    /\ UNCHANGED <<now, ledgerVars, keyVars, orderVars, answers>>

\* Mutants: every entry starts a chain; the handler ends with its entry.
AppendSelect_Unchained(r) ==
  /\ At(r, "append")
  /\ append[r] = Ledger!Idle
  /\ append' = [append EXCEPT ![r] =
       [step |-> "flush", content |-> req[r].ask.transcript, previous_hash |-> Ledger!NoHash]]
  /\ UNCHANGED <<nonceVars, entries, clock, keyVars, orderVars, req, answers>>

AppendCommit_LastStep(r) ==
  /\ At(r, "append")
  /\ Ledger!Commit(r)
  /\ Leave(r)
  /\ UNCHANGED <<nonceVars, keyVars, orderVars, answers>>

(* ConsentLedgerService.append_entry, await by await.                      *)
AppendSelect(r) ==
  /\ At(r, "append")
  /\ Ledger!SelectLatest(r, req[r].ask.transcript)
  /\ UNCHANGED <<nonceVars, keyVars, orderVars, req, answers>>

AppendFlush(r) ==
  /\ At(r, "append")
  /\ Ledger!Flush(r)
  /\ UNCHANGED <<nonceVars, keyVars, orderVars, req, answers>>

\* Mutant: the response is stored before the row gets its hash.
AppendCommit_StoreFirst(r) ==
  /\ At(r, "append")
  /\ Ledger!Commit(r)
  /\ Goto(r, IF req[r].ask.key = None THEN "set_hash" ELSE "store", req[r].ask,
          append[r].row.created_at)
  /\ UNCHANGED <<nonceVars, keyVars, orderVars, answers>>

AppendCommit(r) ==
  /\ At(r, "append")
  /\ Ledger!Commit(r)
  /\ Goto(r, "set_hash", req[r].ask, append[r].row.created_at)
  /\ UNCHANGED <<nonceVars, keyVars, orderVars, answers>>

(* After the last write of a handler: store its response, or answer.       *)
Respond(r) == IF req[r].ask.key = None THEN Leave(r)
              ELSE Goto(r, "store", req[r].ask, req[r].body)

\* Mutant: the row gets the intent's id in place of the hash.
SetTranscriptHash_IntentId(r) ==
  /\ At(r, "set_hash")
  /\ intents' = [intents EXCEPT ![req[r].ask.intent].transcript = req[r].ask.intent]
  /\ Respond(r)
  /\ UNCHANGED <<nonceVars, ledgerVars, keyVars, payments, issued, files, answers>>

SetTranscriptHash(r) ==
  /\ At(r, "set_hash")
  /\ UpdateFields(req[r].ask.intent,
       [intents[req[r].ask.intent] EXCEPT !.transcript = req[r].ask.transcript])
  /\ Respond(r)
  /\ UNCHANGED <<nonceVars, ledgerVars, keyVars, payments, issued, files, answers>>

-----------------------------------------------------------------------------
\* Mutants: an order without consent may be paid for; the authorization is
\* recorded before the PSP is asked.
Authorizable_Unconfirmed(ask) == Open(ask.intent) /\ Policy[ask.intent] # "DENY"

AuthorizeAllowed_AuthFirst(r) ==
  \E ask \in Pending(r, "authorize") :
    /\ Open(ask.intent)
    /\ intents[ask.intent].transcript = ask.transcript
    /\ Room(r, ask.endpoint)
    /\ issued' = issued + 1
    /\ intents' = [intents EXCEPT ![ask.intent].auth = issued + 1]
    /\ Goto(r, "psp", ask, 0)
    /\ UNCHANGED <<nonceVars, ledgerVars, keyVars, payments, files, answers>>

(* /authorize up to the call of the PSP, at the SELECT of its get.  The    *)
(* code looks at the clock once more when that session has closed: an      *)
(* intent that expired meanwhile is refused, which leaves what a decline   *)
(* of the PSP leaves here.                                                 *)
Authorizable(ask) == /\ Open(ask.intent)
                     /\ intents[ask.intent].transcript = ask.transcript
                     /\ Policy[ask.intent] # "DENY"

AuthorizeRefused(r) ==
  \E ask \in Pending(r, "authorize") :
    /\ ~Authorizable(ask)
    /\ Leave(r)
    /\ UNCHANGED <<nonceVars, ledgerVars, keyVars, orderVars, answers>>

AuthorizeAllowed(r) ==
  \E ask \in Pending(r, "authorize") :
    /\ Authorizable(ask)
    /\ Room(r, ask.endpoint)
    /\ Goto(r, "psp", ask, 0)
    /\ UNCHANGED <<nonceVars, ledgerVars, keyVars, orderVars, answers>>

PaymentOf(ask, number, auth, captured) ==
  [intent |-> ask.intent, transcript |-> ask.transcript, key |-> ask.key,
   number |-> number, auth |-> auth, captured |-> captured]

\* Mutant: the handler ends with the answer of the PSP.
PspConfirms_LastStep(r) ==
  /\ At(r, "psp")
  /\ issued' = issued + 1
  /\ payments' = payments \union {PaymentOf(req[r].ask, issued + 1, issued + 1, TRUE)}
  /\ Leave(r)
  /\ UNCHANGED <<nonceVars, ledgerVars, keyVars, intents, files, answers>>

(* The PSP's answer arrives and the authorization id is made: the handler  *)
(* reports the status of the payment intent and does not branch on it.     *)
PspConfirms(r) ==
  /\ At(r, "psp")
  /\ issued' = issued + 1
  /\ \E captured \in BOOLEAN :
       /\ captured \/ MayDefer
       /\ payments' = payments \union {PaymentOf(req[r].ask, issued + 1, issued + 1, captured)}
  /\ Goto(r, "set_auth", req[r].ask, issued + 1)
  /\ UNCHANGED <<nonceVars, ledgerVars, keyVars, intents, files, answers>>

(* The call raises: the PSP declines.                                      *)
PspDeclines(r) ==
  /\ At(r, "psp")
  /\ Leave(r)
  /\ UNCHANGED <<nonceVars, ledgerVars, keyVars, orderVars, answers>>

(* The PSP moves the money, and the call or the reading of its answer      *)
(* raises: charges.data is an empty list, a timeout.                       *)
PspAnswerLost(r) ==
  /\ MayFail
  /\ At(r, "psp")
  /\ issued' = issued + 1
  /\ payments' = payments \union {PaymentOf(req[r].ask, issued + 1, 0, TRUE)}
  /\ Leave(r)
  /\ UNCHANGED <<nonceVars, ledgerVars, keyVars, intents, files, answers>>

\* Mutant: the row gets the last authorization id made, of whatever order.
SetAuthorization_LastId(r) ==
  /\ At(r, "set_auth")
  /\ intents' = [intents EXCEPT ![req[r].ask.intent].auth = issued]
  /\ Respond(r)
  /\ UNCHANGED <<nonceVars, ledgerVars, keyVars, payments, issued, files, answers>>

SetAuthorization(r) ==
  /\ At(r, "set_auth")
  /\ UpdateFields(req[r].ask.intent,
       [intents[req[r].ask.intent] EXCEPT !.auth = req[r].body])
  /\ Respond(r)
  /\ UNCHANGED <<nonceVars, ledgerVars, keyVars, payments, issued, files, answers>>

-----------------------------------------------------------------------------
(* IdempotencyService.store, await by await, then the answer.              *)
StoreSelect(r) ==
  /\ At(r, "store")
  /\ Idem!Load(r, [key |-> RowKey(req[r].ask), payload |-> Payload(req[r].ask),
                   body |-> req[r].body])
  /\ Goto(r, "write", req[r].ask, req[r].body)
  /\ UNCHANGED <<nonceVars, ledgerVars, orderVars, answers>>

StoreWrite(r) ==
  /\ At(r, "write")
  /\ Idem!Write(r)
  /\ Note(req[r].ask, "ok", req[r].body)
  /\ Leave(r)
  /\ UNCHANGED <<nonceVars, ledgerVars, orderVars>>

StoreClash(r) ==
  /\ At(r, "write")
  /\ Idem!Clash(r)
  /\ Leave(r)
  /\ UNCHANGED <<nonceVars, ledgerVars, orderVars, answers>>

-----------------------------------------------------------------------------
\* Mutants: any authorization fulfils any order; an order is fulfilled again;
\* the file names do not hold the order's id.
Fulfillable_AnyAuth(i, auth) == Open(i) /\ ~intents[i].fulfilled

Fulfillable_Again(i, auth) == Open(i) /\ intents[i].auth = auth

GenerateReceipts_OneName(i, t) == files' = [j \in Intents |-> Append(files[j], t)]

(* /fulfil decides on the row that the SELECT of get answers.  The request *)
(* names an intent and an authorization id.                                *)
Fulfillable(i, auth) == Open(i) /\ intents[i].auth = auth /\ ~intents[i].fulfilled

FulfilRefused(r) ==
  /\ req[r] = Free
  /\ \E i \in Intents, auth \in 1 .. issued : ~Fulfillable(i, auth)
  /\ UNCHANGED vars

(* The bound: those let in already can all write their set.                *)
ReceiptsRoom(r, i) ==
  Len(files[i]) + Cardinality({s \in Slots \ {r} : At(s, "receipts") /\ req[s].ask.intent = i})
    < MaxReceipts

FulfilGets(r) ==
  /\ req[r] = Free
  /\ \E i \in Intents, auth \in 1 .. issued :
       /\ Fulfillable(i, auth)
       /\ ReceiptsRoom(r, i)
       /\ Goto(r, "receipts",
               [endpoint |-> "fulfil", key |-> None, intent |-> i,
                transcript |-> intents[i].transcript, rest |-> None], auth)
  /\ UNCHANGED <<nonceVars, ledgerVars, keyVars, orderVars, answers>>

(* get looks at the clock when its session has closed: the intent expired. *)
FulfilExpired(r) ==
  /\ At(r, "receipts")
  /\ ~Open(req[r].ask.intent)
  /\ Leave(r)
  /\ UNCHANGED <<nonceVars, ledgerVars, keyVars, orderVars, answers>>

(* The file names hold the order's id.                                     *)
GenerateReceipts(i, t) == files' = [files EXCEPT ![i] = Append(@, t)]

(* generate_receipts, of the row as get read it: others may have changed   *)
(* it while the session closed.                                            *)
FulfilWrites(r) ==
  /\ At(r, "receipts")
  /\ Open(req[r].ask.intent)
  /\ GenerateReceipts(req[r].ask.intent, req[r].ask.transcript)
  /\ Goto(r, "set_fulfilled", req[r].ask, req[r].body)
  /\ UNCHANGED <<nonceVars, ledgerVars, keyVars, intents, payments, issued, answers>>

SetFulfilled(r) ==
  /\ At(r, "set_fulfilled")
  /\ UpdateFields(req[r].ask.intent,
       [intents[req[r].ask.intent] EXCEPT !.fulfilled = TRUE])
  /\ Leave(r)
  /\ UNCHANGED <<nonceVars, ledgerVars, keyVars, payments, issued, files, answers>>

-----------------------------------------------------------------------------
(* An await raises: the handler ends with 500 and its session rolls back.  *)
Fail(r) ==
  /\ MayFail
  /\ ~At(r, "free")
  /\ Leave(r)
  /\ append' = [append EXCEPT ![r] = Ledger!Idle]
  /\ merge' = [merge EXCEPT ![r] = Idem!NoMerge]
  /\ UNCHANGED <<nonceVars, entries, clock, records, orderVars, answers>>

Tick ==
  /\ Nonce!Tick
  /\ UNCHANGED <<ledgerVars, keyVars, orderVars, req, answers>>

(* The process dies, wherever its handlers are, and starts again.          *)
Restart ==
  /\ MayRestart
  /\ Nonce!Restart
  /\ Ledger!Crash
  /\ merge' = [r \in Slots |-> Idem!NoMerge]
  /\ req' = [r \in Slots |-> Free]
  /\ UNCHANGED <<records, orderVars, answers>>

(* What a request in flight does next.                                     *)
Confirm(r) == \/ ConfirmRefused(r) \/ ConfirmReplayed(r) \/ ConfirmUnsigned(r)
              \/ ConfirmSigned(r) \/ AppendSelect(r) \/ AppendFlush(r)
              \/ AppendCommit(r) \/ SetTranscriptHash(r)

Authorize(r) == \/ AuthorizeRefused(r) \/ AuthorizeAllowed(r) \/ PspConfirms(r)
                \/ PspDeclines(r) \/ PspAnswerLost(r) \/ SetAuthorization(r)

Store(r) == StoreSelect(r) \/ StoreWrite(r) \/ StoreClash(r)

Fulfil(r) == \/ FulfilRefused(r) \/ FulfilGets(r) \/ FulfilExpired(r)
             \/ FulfilWrites(r) \/ SetFulfilled(r)

CheckExisting(r) == CheckedNew(r) \/ CheckedCached(r) \/ CheckedConflict(r)

Handler(r) == CheckExisting(r) \/ Confirm(r) \/ Authorize(r) \/ Store(r) \/ Fulfil(r)

Next ==
  \/ \E i \in Intents : CreateIntent(i)
  \/ \E r \in Slots : Handler(r) \/ Fail(r)
  \/ Tick
  \/ Restart

Spec == Init /\ [][Next]_vars

(* The event loop runs every coroutine that can go on, and the database    *)
(* and the PSP answer or fail every call.                                  *)
FairSpec == Spec /\ \A r \in Slots : WF_vars(~At(r, "free") /\ Handler(r))
-----------------------------------------------------------------------------
Logged == {e.content : e \in entries}

(* No payment without recorded consent: whatever fails or restarts, the    *)
(* PSP is asked to confirm only for a transcript that is signed, is of     *)
(* that very intent and nonce, and is in the consent ledger by then.       *)
ConsentBeforePayment ==
  \A c \in payments :
    /\ c.transcript \in Logged
    /\ c.transcript.signed
    /\ c.transcript.intent = c.intent
    /\ c.transcript.nonce = c.intent

(* An order never points at something that is not there: the transcript    *)
(* of its row is in the ledger, and its authorization is of a payment that *)
(* the PSP confirmed for this order.                                       *)
OrderIsBacked ==
  \A i \in Intents :
    /\ intents[i].transcript # None =>
         intents[i].transcript \in Logged /\ intents[i].transcript.intent = i
    /\ intents[i].auth # 0 =>
         \E c \in payments : c.intent = i /\ c.auth = intents[i].auth

(* No receipt without authorization: a receipt shows a consent in the      *)
(* ledger, and the PSP confirmed a payment for its order before.  Whether  *)
(* the payment was captured is not asked by /fulfil.                       *)
ReceiptAfterPayment ==
  \A i \in Intents : \A n \in DOMAIN files[i] :
    /\ files[i][n] \in Logged
    /\ \E c \in payments : c.intent = i

(* One consent per intent: the nonce of an intent is used once, so its     *)
(* customer consents to one transcript and the ledger holds it once.  It   *)
(* takes a process that lives as long as the intents, and a cache with     *)
(* room for the nonces of the intents of the last two lifetimes of one.    *)
OneConsentPerIntent ==
  \A e, f \in entries : e.content.intent = f.content.intent => e = f

(* A receipt shows what was paid for: the transcript on it is the one that *)
(* a payment of this order, known to the order and captured, was made for. *)
(* It takes the premises of OneConsentPerIntent and a PSP that captures    *)
(* what it confirms (~MayDefer).                                           *)
ReceiptShowsPayment ==
  \A i \in Intents : \A n \in DOMAIN files[i] :
    \E c \in payments : /\ c.intent = i
                        /\ c.transcript = files[i][n]
                        /\ c.captured /\ c.auth # 0

(* Clients that wait for an answer before they use its key again.          *)
OneRequestPerKey ==
  \A r, s \in Slots :
    /\ ~At(r, "free") /\ ~At(s, "free")
    /\ req[r].ask.key = req[s].ask.key /\ req[r].ask.key # None
    => r = s

(* One key, one payment: the requests of such clients that carry one       *)
(* Idempotency-Key make the PSP confirm once.  It takes awaits that return *)
(* and a process that lives (~MayFail, ~MayRestart): a request that ends   *)
(* between the PSP's answer and its record is paid for again by its retry. *)
OnePaymentPerKey ==
  []OneRequestPerKey => [](\A c, d \in payments : c.key = d.key /\ c.key # None => c = d)

(* The requests of one key that are answered 200 to such clients are alike *)
(* and are answered the same, for each endpoint on its own.  Alike is what *)
(* the code compares, the parsed payloads: the bodies as sent may differ,  *)
(* and in whether the signature is one of the body as sent.                *)
Alike(x, y) == /\ x.intent = y.intent
               /\ Parsed(x.transcript) = Parsed(y.transcript)
               /\ x.rest = y.rest

AnswersAgree ==
  []OneRequestPerKey =>
    [](\A a, b \in answers :
         RowKey(a.ask) = RowKey(b.ask) /\ a.status = "ok" /\ b.status = "ok"
           => Alike(a.ask, b.ask) /\ a.body = b.body)

(* An answer of 200 is of work that is done and stays done, whatever       *)
(* overlapped, failed or restarted, and whether it is the handler's own    *)
(* answer or a recorded one: the consent is in the ledger and the row has  *)
(* a transcript; the PSP confirmed the payment and the row has an          *)
(* authorization.  The signed consent in the ledger is the one asked for   *)
(* up to what parsing keeps: a recorded answer is given before the         *)
(* signature of the request is looked at.                                  *)
ConsentDone(ask) ==
  /\ intents[ask.intent].transcript # None
  /\ \E t \in Logged :
       t.signed /\ t.intent = ask.intent /\ Parsed(t) = Parsed(ask.transcript)

PaymentDone(ask) ==
  /\ intents[ask.intent].auth # 0
  /\ \E c \in payments : c.intent = ask.intent /\ c.transcript = ask.transcript

AnsweredIsDone ==
  \A a \in answers : a.status = "ok" =>
    IF a.ask.endpoint = "confirm" THEN ConsentDone(a.ask) ELSE PaymentDone(a.ask)

(* A key is concluded when /authorize answered 200 for it and no request   *)
(* in flight brings it to /authorize.  Such a key stays concluded and the  *)
(* PSP confirms for it no more, however its requests overlapped before,    *)
(* whatever comes with it later, and whatever fails or restarts.           *)
PaymentsWith(k) == {c \in payments : c.key = k}

Concluded(k) ==
  /\ \E a \in answers : RowKey(a.ask) = <<"authorize", k>> /\ a.status = "ok"
  /\ \A r \in Slots : ~At(r, "free") => RowKey(req[r].ask) # <<"authorize", k>>

ConcludedKeysPayNoMore ==
  [][\A k \in Keys : Concluded(k) => Concluded(k)' /\ UNCHANGED PaymentsWith(k)]_vars

(* "... so accidental retries return cached responses instead of tripping  *)
(* replay detections" (docs/ACP.md:60): a request that is answered 200 and *)
(* its retry with the same key and payload is not answered 409 for the     *)
(* nonce.                                                                  *)
RetriesNeverTripReplay ==
  \A a, b \in answers : a.ask = b.ask /\ a.status = "ok" => b.status # "replay"

(* 409 "order already fulfilled": an order is fulfilled once, so there is  *)
(* one set of receipt files.                                               *)
FulfilledOnce == \A i \in Intents : Len(files[i]) <= 1

(* Where the /fulfil requests of one order do not overlap, awaits return   *)
(* and the process lives (~MayFail, ~MayRestart), that is so.              *)
Fulfilling(r) == At(r, "receipts") \/ At(r, "set_fulfilled")

OneFulfilAtATime ==
  \A r, s \in Slots :
    Fulfilling(r) /\ Fulfilling(s) /\ req[r].ask.intent = req[s].ask.intent => r = s

SerialFulfilsOnce == []OneFulfilAtATime => []FulfilledOnce

(* The ledger under the handlers is the ledger component: what is shown of *)
(* ConsentLedger holds here.                                               *)
LedgerImplemented == Ledger!LedgerSpec

(* The order's row is filled in its order and never emptied: whatever an   *)
(* await lets in between a check and its write, an authorization comes to  *)
(* a row that has a transcript, and receipts to one that has an            *)
(* authorization.  This is the store that OrderUpdates implements too,     *)
(* statement by statement.                                                 *)
Columns == INSTANCE AtomicStore WITH
  Hashes <- Transcripts, Auths <- Nat \ {0}, Receipts <- {TRUE},
  transcript_hash <- [i \in Intents |-> intents[i].transcript],
  authorization_id <- [i \in Intents |->
                         IF intents[i].auth = 0 THEN None ELSE intents[i].auth],
  receipts <- [i \in Intents |-> IF intents[i].fulfilled THEN TRUE ELSE None]

StoreImplemented == Columns!AtomicSpec

(* While one process serves an order, the gateway implements the order's   *)
(* life: consent once, then payment, then receipts of that consent.        *)
ConsentOf(i) ==
  IF \E t \in Logged : t.intent = i THEN CHOOSE t \in Logged : t.intent = i ELSE None

Order == INSTANCE OrderLifecycle WITH
  Orders <- Intents, Contents <- Transcripts,
  consent <- [i \in Intents |-> ConsentOf(i)],
  paid <- {c.intent : c \in payments},
  shown <- [i \in Intents |-> {files[i][n] : n \in DOMAIN files[i]}]

LifecycleImplemented == Order!OrderSpec

(* A consent that reached the ledger counts: the order's row gets it.  And *)
(* a payment is not lost: the order's row gets an authorization.  Both     *)
(* rest on every await of the handler returning.                           *)
ConsentCounts ==
  \A i \in Intents : (\E t \in Logged : t.intent = i) ~> intents[i].transcript # None

PaymentCounts ==
  \A i \in Intents : (\E c \in payments : c.intent = i) ~> intents[i].auth # 0
=============================================================================
