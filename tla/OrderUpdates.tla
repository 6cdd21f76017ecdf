---------------------------- MODULE OrderUpdates ----------------------------
(***************************************************************************)
(* The rows of order_intents under concurrent handlers: what /confirm,     *)
(* /authorize and /fulfil do to the intent store and to the receipt files, *)
(* statement by statement.  A handler decides on the row that get gave it, *)
(* which others may have changed since, and its set_ method SELECTs the    *)
(* row anew.                                                               *)
(*                                                                         *)
(* Nonces, signatures, the ledger and the keys are in Gateway, which takes *)
(* a call of a set_ method for one step.  Here they forbid nothing: a      *)
(* transcript may be confirmed any number of times.                        *)
(***************************************************************************)
EXTENDS IntentStore, Sequences

CONSTANTS MaxAuth, MaxStem  \* bounds: the authorization ids and the stems made

ASSUME UpdateBounds == /\ {MaxAuth, MaxStem} \subseteq Nat
                       /\ Auths = 1 .. MaxAuth /\ Receipts = 1 .. MaxStem

VARIABLES disk, stem,  \* ReceiptsGenerator
          handler,     \* for each request, where its handler stands
          given,       \* the authorizations made, and what the PSP called each
          overlapped   \* history: the orders two set_authorization were in at once

R == INSTANCE ReceiptsGenerator WITH Orders <- Intents

vars == <<storeVars, disk, stem, handler, given, overlapped>>

(* authorization_id n is the n-th that was made: uuid4 is fresh.           *)
Given == [intent : Intents, payment_reference : References]

Free == [pc |-> "free"]
Handler == {Free}
           \union [pc : {"confirm", "psp"}, intent : Intents]
           \union [pc : {"receipts"}, intent : Intents, transcript_hash : Hashes]
           \union [pc : {"update"}]

UpdatesTypeOK ==
  /\ StoreTypeOK
  /\ R!ReceiptsTypeOK
  /\ handler \in [Requests -> Handler]
  /\ given \in Seq(Given) /\ Len(given) <= MaxAuth
  /\ overlapped \subseteq Intents

Init == /\ StoreInit
        /\ R!ReceiptsInit
        /\ handler = [r \in Requests |-> Free]
        /\ given = << >>
        /\ overlapped = {}

-----------------------------------------------------------------------------
At(r, pc) == handler[r].pc = pc
Goto(r, place) == handler' = [handler EXCEPT ![r] = place]

(* get, and the checks of the row it answers; a handler that they refuse   *)
(* leaves no trace.                                                        *)
ConfirmGets(r, i) ==
  /\ At(r, "free")
  /\ i \in open
  /\ Goto(r, [pc |-> "confirm", intent |-> i])
  /\ UNCHANGED <<storeVars, disk, stem, given, overlapped>>

\* Mutant: the handler does not ask for a transcript.
AuthorizeGets_Unconfirmed(r, i) ==
  /\ At(r, "free")
  /\ i \in open
  /\ Goto(r, [pc |-> "psp", intent |-> i])
  /\ UNCHANGED <<storeVars, disk, stem, given, overlapped>>

AuthorizeGets(r, i) ==
  /\ At(r, "free")
  /\ i \in open
  /\ rows[i].transcript_hash # None
  /\ Goto(r, [pc |-> "psp", intent |-> i])
  /\ UNCHANGED <<storeVars, disk, stem, given, overlapped>>

FulfilGets(r, i) ==
  /\ At(r, "free")
  /\ i \in open
  /\ rows[i].authorization_id # None
  /\ rows[i].receipts = None
  /\ Goto(r, [pc |-> "receipts", intent |-> i, transcript_hash |-> rows[i].transcript_hash])
  /\ UNCHANGED <<storeVars, disk, stem, given, overlapped>>

(* /confirm, past its ledger entry.                                        *)
Confirmed(r) ==
  /\ At(r, "confirm")
  /\ \E h \in Hashes : SetTranscriptHash(r, handler[r].intent, h)
  /\ Goto(r, [pc |-> "update"])
  /\ UNCHANGED <<rows, open, disk, stem, given, overlapped>>

(* The requests that are in a set_authorization of this order.             *)
Authorizing(i) ==
  {r \in Requests : /\ session[r] # NoSession
                    /\ session[r].intent = i
                    /\ "authorization_id" \in DOMAIN session[r].fields}

(* /authorize, with the answer of the PSP.  The reference is the id of the *)
(* first charge in it, or else of the payment intent: it may be one that   *)
(* an earlier authorization was given.                                     *)
Authorized(r) ==
  /\ At(r, "psp")
  /\ Len(given) < MaxAuth
  /\ LET i == handler[r].intent
     IN  /\ \E reference \in References :
              /\ given' = Append(given, [intent |-> i, payment_reference |-> reference])
              /\ SetAuthorization(r, i, Len(given) + 1, reference)
         /\ overlapped' = IF Authorizing(i) = {} THEN overlapped ELSE overlapped \union {i}
  /\ Goto(r, [pc |-> "update"])
  /\ UNCHANGED <<rows, open, disk, stem>>

(* /fulfil: generate_receipts returns.                                     *)
Fulfilled(r) ==
  /\ At(r, "receipts")
  /\ \E n \in R!Whole : R!Write(handler[r].intent, handler[r].transcript_hash, n)
  /\ SetFulfilled(r, handler[r].intent, stem + 1)
  /\ Goto(r, [pc |-> "update"])
  /\ UNCHANGED <<rows, open, given, overlapped>>

(* generate_receipts raises before its last file, or the process dies      *)
(* there, and the other handlers with it (Restart).                        *)
ReceiptsBreak(r) ==
  /\ At(r, "receipts")
  /\ \E n \in 0 .. 2 : R!Write(handler[r].intent, handler[r].transcript_hash, n)
  /\ Goto(r, Free)
  /\ UNCHANGED <<storeVars, given, overlapped>>

UpdateSelect(r) == Select(r) /\ UNCHANGED <<disk, stem, handler, given, overlapped>>

UpdateCommit(r) == Commit(r) /\ Goto(r, Free) /\ UNCHANGED <<disk, stem, given, overlapped>>

(* The handlers of some requests end with an error: a call raises and its  *)
(* session rolls back.  All of them end in a restart.                      *)
End(ending) ==
  /\ session' = [r \in Requests |-> IF r \in ending THEN NoSession ELSE session[r]]
  /\ handler' = [r \in Requests |-> IF r \in ending THEN Free ELSE handler[r]]
  /\ UNCHANGED <<rows, open, disk, stem, given, overlapped>>

Restart == End(Requests)

IntentOpens(i) ==
  Create(i) /\ UNCHANGED <<rows, session, disk, stem, handler, given, overlapped>>

IntentExpires(i) ==
  Expire(i) /\ UNCHANGED <<rows, session, disk, stem, handler, given, overlapped>>

Step(r) == \/ \E i \in Intents : ConfirmGets(r, i) \/ AuthorizeGets(r, i) \/ FulfilGets(r, i)
           \/ Confirmed(r) \/ Authorized(r) \/ Fulfilled(r) \/ ReceiptsBreak(r)
           \/ UpdateSelect(r) \/ UpdateCommit(r)
           \/ End({r})

Next == \/ \E r \in Requests : Step(r)
        \/ \E i \in Intents : IntentOpens(i) \/ IntentExpires(i)
        \/ Restart

Spec == Init /\ [][Next]_vars

-----------------------------------------------------------------------------
(* A row that names its receipts names a whole set: image, document and    *)
(* manifest of that order are on the disk, whatever broke before.          *)
ReceiptsComplete ==
  \A i \in Intents : rows[i].receipts # None => R!Complete(rows[i].receipts, i)

(* The row's payment reference is the one the PSP gave its authorization.  *)
Paired(i) ==
  LET a == rows[i].authorization_id
  IN  a # None => given[a] = [intent |-> i, payment_reference |-> rows[i].payment_reference]

(* The row's authorization and its payment reference are those of one      *)
(* answer of the PSP, whatever else is written to the row between the two  *)
(* statements.  There is one way out: calls of set_authorization for the   *)
(* order overlapped, and the PSP had given this reference to two of its    *)
(* authorizations.  A commit leaves alone a column it found as it wants    *)
(* it, and a third call may have changed it since.                         *)
PairsAgree ==
  \A i \in Intents :
    \/ Paired(i)
    \/ LET a == rows[i].authorization_id
       IN  i \in overlapped /\ \E b \in DOMAIN given \ {a} : given[b] = given[a]

(* A set_authorization or set_fulfilled that returns has put its id, or    *)
(* its receipts, into the row, over whatever others wrote there since its  *)
(* SELECT.  The UPDATE leaves out a column that looks unchanged: no call   *)
(* is lost by that since no two calls bring the same id or the same        *)
(* receipts.  Two set_transcript_hash may bring one hash, and the later of *)
(* them may write nothing.                                                 *)
CallsTakeEffect ==
  [][\A r \in Requests : UpdateCommit(r) =>
       \A c \in DOMAIN session[r].fields \intersect {"authorization_id", "receipts"} :
         rows'[session[r].intent][c] = session[r].fields[c]]_vars

(* What Gateway takes for granted: although each set_ method is two        *)
(* statements with others between, its column is assigned at once, no      *)
(* other update is lost, and order is kept.                                *)
Atomic == INSTANCE AtomicStore WITH
  transcript_hash <- [i \in Intents |-> rows[i].transcript_hash],
  authorization_id <- [i \in Intents |-> rows[i].authorization_id],
  receipts <- [i \in Intents |-> rows[i].receipts]

AtomicImplemented == Atomic!AtomicSpec
=============================================================================
