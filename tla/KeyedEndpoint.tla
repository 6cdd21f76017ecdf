--------------------------- MODULE KeyedEndpoint ---------------------------
(***************************************************************************)
(* How confirm_intent and authorize_payment use the idempotency service,   *)
(* whatever the handler between does: check_existing when the request      *)
(* arrives, a cached answer or a 409 if there is a row, else the work of   *)
(* the handler, then store, then the answer.  Requests overlap: a client   *)
(* that retries a request before it was answered, or two clients with one  *)
(* key, make two requests of a key run at once.                            *)
(***************************************************************************)
EXTENDS IdempotencyService

CONSTANTS MaxWork  \* bound: how many times the handlers do their work

ASSUME KeyedBounds == MaxWork \in Nat /\ Bodies = 1 .. MaxWork

VARIABLES call,    \* for each request in flight, what it asks
          worked,  \* how often a handler has done its work; a body is its number
          done,    \* history: the rows that handlers asked store to write
          answers  \* history: the 2xx answers given

keyedVars == <<records, merge, call, worked, done, answers>>

NoCall == [step |-> "none"]
Call == {NoCall} \union [step : {"work", "store"}, key : Keys, payload : Payloads]

KeyedTypeOK ==
  /\ RecordsTypeOK
  /\ call \in [Requests -> Call]
  /\ worked \in 0 .. MaxWork
  /\ done \subseteq Record
  /\ answers \subseteq Record

KeyedInit ==
  /\ RecordsInit
  /\ call = [r \in Requests |-> NoCall]
  /\ worked = 0
  /\ done = {}
  /\ answers = {}

-----------------------------------------------------------------------------
\* Mutant: the handler works without looking for a row.
CheckedNew_Unchecked(r, k, p) ==
  /\ call[r] = NoCall
  /\ call' = [call EXCEPT ![r] = [step |-> "work", key |-> k, payload |-> p]]
  /\ UNCHANGED <<records, merge, worked, done, answers>>

(* check_existing finds no row: the handler goes to work.                  *)
CheckedNew(r, k, p) ==
  /\ call[r] = NoCall
  /\ Unseen(k)
  /\ call' = [call EXCEPT ![r] = [step |-> "work", key |-> k, payload |-> p]]
  /\ UNCHANGED <<records, merge, worked, done, answers>>

(* check_existing finds the row of the same payload: its body is the       *)
(* answer.                                                                 *)
CheckedCached(r, k, p) ==
  /\ call[r] = NoCall
  /\ \E b \in Cached(k, p) :
       answers' = answers \union {[key |-> k, payload |-> p, body |-> b]}
  /\ UNCHANGED <<records, merge, call, worked, done>>

(* check_existing raises: 409.                                             *)
CheckedConflict(r, k, p) ==
  /\ call[r] = NoCall
  /\ Conflict(k, p)
  /\ UNCHANGED keyedVars

(* The handler has its response, and store SELECTs.                        *)
Stores(r) ==
  /\ call[r].step = "work"
  /\ worked < MaxWork
  /\ worked' = worked + 1
  /\ LET row == [key |-> call[r].key, payload |-> call[r].payload, body |-> worked + 1]
     IN  Load(r, row) /\ done' = done \union {row}
  /\ call' = [call EXCEPT ![r].step = "store"]
  /\ UNCHANGED answers

(* store commits, and the handler returns its response.                    *)
Answers(r) ==
  /\ call[r].step = "store"
  /\ Write(r)
  /\ answers' = answers \union {merge[r].row}
  /\ call' = [call EXCEPT ![r] = NoCall]
  /\ UNCHANGED <<worked, done>>

(* store raises IntegrityError after the handler's work was done: 500.     *)
StoreClashes(r) ==
  /\ call[r].step = "store"
  /\ Clash(r)
  /\ call' = [call EXCEPT ![r] = NoCall]
  /\ UNCHANGED <<worked, done, answers>>

(* The handler refuses the request, or raises, or the process dies: no     *)
(* row is written.                                                         *)
Fails(r) ==
  /\ call[r] # NoCall
  /\ call' = [call EXCEPT ![r] = NoCall]
  /\ \/ Abandon(r)
     \/ merge[r] = NoMerge /\ UNCHANGED <<records, merge>>
  /\ UNCHANGED <<worked, done, answers>>

KeyedNext ==
  \E r \in Requests :
    \/ \E k \in Keys, p \in Payloads :
         CheckedNew(r, k, p) \/ CheckedCached(r, k, p) \/ CheckedConflict(r, k, p)
    \/ Stores(r)
    \/ Answers(r)
    \/ StoreClashes(r)
    \/ Fails(r)

KeyedSpec == KeyedInit /\ [][KeyedNext]_keyedVars

-----------------------------------------------------------------------------
(* However requests overlap and fail, a key that was answered 2xx has a    *)
(* row: the next request with it is a replay or a conflict, and no handler *)
(* does the work of an answered key again.                                 *)
AnsweredIsRecorded == \A a \in answers : ~Unseen(a.key)

(* "Matching payloads replay cached responses": a row holds the response   *)
(* that some handler gave for the very payload the row is matched by.      *)
RecordsTruthful == records \subseteq done

(* Clients that wait for the answer, or the failure, of a request before   *)
(* they use its key again.                                                 *)
OneCallPerKey ==
  \A r, s \in Requests :
    call[r] # NoCall /\ call[s] # NoCall /\ call[r].key = call[s].key => r = s

(* For such clients a replay is truthful, whatever fails between.          *)
SerialRecordsTruthful == []OneCallPerKey => []RecordsTruthful

(* "Replays with different payloads are rejected; matching payloads replay *)
(* cached responses" (README): for such clients all the 2xx answers of a   *)
(* key are one and the same.                                               *)
ReplaysAgree ==
  []OneCallPerKey => [](\A a, b \in answers : a.key = b.key => a = b)
=============================================================================
