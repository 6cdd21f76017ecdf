--------------------------- MODULE ConsentLedger ---------------------------
(***************************************************************************)
(* The consent ledger of packages/shared/shared/ledger: the table          *)
(* consent_ledger and ConsentLedgerService.append_entry, run by several    *)
(* handlers at once.                                                       *)
(*                                                                         *)
(* One call of append_entry holds one database session and awaits three    *)
(* times: the SELECT of the latest entry_hash, the flush that INSERTs the  *)
(* row, and the commit.  Any other call may run between two of them, and   *)
(* under READ COMMITTED (the default of PostgreSQL) a row is visible to    *)
(* the others from its commit on.  Each await is an action below.          *)
(*                                                                         *)
(* SHA-256 is taken to be injective: the digest of a content and of the    *)
(* previous digest is the sequence of the contents it was made from, so    *)
(* NoHash, the missing previous_hash, is the empty sequence.               *)
(***************************************************************************)
EXTENDS Naturals, Sequences, FiniteSets

CONSTANTS Appenders,  \* the handlers that may call append_entry
          Contents,   \* what an entry records: transcript hash and payload
          MaxClock    \* bound: how many INSERTs a behaviour may make

ASSUME ClockBound == MaxClock \in Nat

VARIABLES entries,  \* the committed rows of consent_ledger
          clock,    \* the last created_at handed out; created_at is distinct
          append    \* for each appender, its session: where it stands

ledgerVars == <<entries, clock, append>>

NoHash == <<>>
Hashes == Seq(Contents)

\* Mutant: the digests are paired, not chained.
EntryHash_Paired(previous, content) == <<previous, content>>

EntryHash(previous, content) == Append(previous, content)

Entry == [content : Contents, previous_hash : Hashes, entry_hash : Hashes,
          created_at : Nat]

Idle == [step |-> "idle"]

Session == {Idle}
  \union [step : {"flush"}, content : Contents, previous_hash : Hashes]
  \union [step : {"commit"}, row : Entry]

LedgerTypeOK ==
  /\ entries \subseteq Entry
  /\ clock \in Nat
  /\ append \in [Appenders -> Session]

LedgerInit ==
  /\ entries = {}
  /\ clock = 0
  /\ append = [a \in Appenders |-> Idle]

-----------------------------------------------------------------------------
(* The entry_hash of the row with the greatest created_at, if there is one. *)
LatestHash(rows) ==
  IF rows = {} THEN NoHash
  ELSE (CHOOSE e \in rows :
          \A f \in rows : f.created_at <= e.created_at).entry_hash

Before(e) == {f \in entries : f.created_at < e.created_at}

(* verify_chain: walk the rows by created_at and recompute every hash from *)
(* the one before it.                                                      *)
ChainVerifies ==
  \A e \in entries : e.entry_hash = EntryHash(LatestHash(Before(e)), e.content)

(* The bound leaves room for the flush of every session past its SELECT.   *)
Room == clock + Cardinality({a \in Appenders : append[a].step = "flush"}) < MaxClock

\* Mutants: the SELECT sees rows that are not committed; the ORDER BY ascends.
SelectLatest_Dirty(a, c) ==
  /\ append[a] = Idle
  /\ Room
  /\ LET flushed == {append[b].row : b \in {x \in Appenders : append[x].step = "commit"}}
     IN  append' = [append EXCEPT ![a] =
           [step |-> "flush", content |-> c,
            previous_hash |-> LatestHash(entries \union flushed)]]
  /\ UNCHANGED <<entries, clock>>

SelectLatest_Ascending(a, c) ==
  /\ append[a] = Idle
  /\ Room
  /\ \E h \in {e.entry_hash : e \in {x \in entries : Before(x) = {}}}
              \union (IF entries = {} THEN {NoHash} ELSE {}) :
       append' = [append EXCEPT ![a] =
         [step |-> "flush", content |-> c, previous_hash |-> h]]
  /\ UNCHANGED <<entries, clock>>

SelectLatest(a, c) ==
  /\ append[a] = Idle
  /\ Room
  /\ append' = [append EXCEPT ![a] =
       [step |-> "flush", content |-> c, previous_hash |-> LatestHash(entries)]]
  /\ UNCHANGED <<entries, clock>>

Flush(a) ==
  /\ append[a].step = "flush"
  /\ clock' = clock + 1
  /\ append' = [append EXCEPT ![a] =
       [step |-> "commit",
        row  |-> [content       |-> append[a].content,
                  previous_hash |-> append[a].previous_hash,
                  entry_hash    |-> EntryHash(append[a].previous_hash, append[a].content),
                  created_at    |-> clock + 1]]]
  /\ UNCHANGED entries

Commit(a) ==
  /\ append[a].step = "commit"
  /\ entries' = entries \union {append[a].row}
  /\ append' = [append EXCEPT ![a] = Idle]
  /\ UNCHANGED clock

(* The statement or the commit raises: leaving the session rolls it back.  *)
Rollback(a) ==
  /\ append[a] # Idle
  /\ append' = [append EXCEPT ![a] = Idle]
  /\ UNCHANGED <<entries, clock>>

(* The process dies: every open session is rolled back by the database.    *)
Crash ==
  /\ append' = [a \in Appenders |-> Idle]
  /\ UNCHANGED <<entries, clock>>

LedgerNext ==
  \/ \E a \in Appenders :
       \/ \E c \in Contents : SelectLatest(a, c)
       \/ Flush(a)
       \/ Commit(a)
       \/ Rollback(a)
  \/ Crash

LedgerSpec == LedgerInit /\ [][LedgerNext]_ledgerVars

-----------------------------------------------------------------------------
(* append_entry chains onto a row that exists: the previous_hash of every  *)
(* entry is empty or is the entry_hash of an entry created before it, and  *)
(* the entry_hash extends it, however many handlers append at once.  The   *)
(* ledger is a forest rooted in the missing hash, and no hash is dangling. *)
PreviousIsEarlier ==
  \A e \in entries :
    /\ e.entry_hash = EntryHash(e.previous_hash, e.content)
    /\ \/ e.previous_hash = NoHash
       \/ \E f \in Before(e) : f.entry_hash = e.previous_hash

(* What the service still guarantees when appends overlap: verify_chain    *)
(* fails only for a fork, two rows that chain onto the same hash, which an *)
(* auditor can find by grouping on previous_hash.  An untouched ledger     *)
(* without a fork verifies.                                                *)
BrokenMeansForked ==
  ~ChainVerifies =>
    \E e, f \in entries : e # f /\ e.previous_hash = f.previous_hash

(* A fork is for ever: the ledger only grows, every append chains onto the *)
(* latest hash it saw, and no later append makes verify_chain pass again.  *)
ForkIsForever == [][~ChainVerifies => ~ChainVerifies']_ledgerVars

(* Appends that do not overlap, as those of an agent that goes through one *)
(* checkout after the other, whatever fails or crashes between, keep a     *)
(* ledger that verify_chain accepts.                                       *)
OneSession == \A a, b \in Appenders : append[a] # Idle /\ append[b] # Idle => a = b

SerialAppendsVerify == []OneSession => []ChainVerifies
=============================================================================
