------------------------ MODULE KeyedEndpointProofs ------------------------
(***************************************************************************)
(* Proofs about KeyedEndpoint and the idempotency service under it, for    *)
(* any requests, keys, payloads and bound.                                 *)
(***************************************************************************)
EXTENDS KeyedEndpoint, TLAPS

-----------------------------------------------------------------------------
(* What a request in flight and its session hold, by where they stand.     *)
LEMMA CallShape ==
  ASSUME NEW c \in Call
  PROVE  /\ c.step = "none" => c = NoCall
         /\ c # NoCall => c.step \in {"work", "store"} /\ c.key \in Keys /\ c.payload \in Payloads
  BY DEF Call, NoCall

LEMMA MergeShape ==
  ASSUME NEW m \in Merge
  PROVE  /\ m.step = "write" => m.row \in Record /\ m.loaded \in SUBSET Record
         /\ m # NoMerge => m.step = "write"
  BY DEF Merge, NoMerge

(* An UPDATE leaves the key of its row alone.                              *)
LEMMA UpdatedKeepsKey ==
  ASSUME NEW row \in Record, NEW loaded \in Record, NEW current \in Record
  PROVE  /\ Updated(row, loaded, current) \in Record
         /\ Updated(row, loaded, current).key = current.key
  BY DEF Updated, Record

(* A commit of store writes a row of the session's key and takes no key    *)
(* from the table.                                                         *)
LEMMA WriteEffect ==
  ASSUME RecordsTypeOK, NEW r \in Requests, Write(r)
  PROVE  /\ merge[r].row \in Record
         /\ merge' = [merge EXCEPT ![r] = NoMerge]
         /\ records' \subseteq Record
         /\ \E y \in records' : y.key = merge[r].row.key
         /\ \A x \in records : \E y \in records' : y.key = x.key
<1>1. merge[r].step = "write" /\ merge' = [merge EXCEPT ![r] = NoMerge]
  BY DEF Write, Insert, Update
<1>2. merge[r].row \in Record /\ merge[r].loaded \in SUBSET Record
  BY <1>1, MergeShape DEF RecordsTypeOK
<1>3. CASE Insert(r)
  BY <1>1, <1>2, <1>3 DEF Insert, RecordsTypeOK, Unseen, Find
<1>4. CASE Update(r)
  <2>1. PICK loaded \in merge[r].loaded, current \in Find(merge[r].row.key) :
          records' = (records \ {current})
                     \union {Updated(merge[r].row, loaded, current)}
    BY <1>4 DEF Update
  <2>2. current \in records /\ current.key = merge[r].row.key /\ current \in Record
    BY <2>1 DEF Find, RecordsTypeOK
  <2>3. /\ Updated(merge[r].row, loaded, current) \in Record
        /\ Updated(merge[r].row, loaded, current).key = current.key
    BY <1>2, <2>1, <2>2, UpdatedKeepsKey
  <2>4. QED
    BY <1>1, <1>2, <2>1, <2>2, <2>3 DEF RecordsTypeOK, Unseen, Find
<1>5. QED
  BY <1>3, <1>4 DEF Write

-----------------------------------------------------------------------------
(* The inductive invariant of the answers.                                 *)
KeyedInv == KeyedTypeOK /\ AnsweredIsRecorded

LEMMA KeyedStart == KeyedInit => KeyedInv
  BY KeyedBounds DEF KeyedInit, RecordsInit, KeyedInv, KeyedTypeOK, RecordsTypeOK,
                     AnsweredIsRecorded, Merge, NoMerge, Call, NoCall

(* The row of a cached answer.                                             *)
LEMMA CachedRow ==
  ASSUME RecordsTypeOK, NEW k, NEW p, NEW b \in Cached(k, p)
  PROVE  [key |-> k, payload |-> p, body |-> b] \in records
<1>1. PICK x \in records : x.key = k /\ x.payload = p /\ x.body = b
  BY DEF Cached, Find
<1>2. x = [key |-> x.key, payload |-> x.payload, body |-> x.body]
  BY DEF RecordsTypeOK, Record
<1>3. QED
  BY <1>1, <1>2

LEMMA KeyedStep == KeyedInv /\ [KeyedNext]_keyedVars => KeyedInv'
<1> SUFFICES ASSUME KeyedInv, [KeyedNext]_keyedVars
             PROVE  KeyedInv'
  OBVIOUS
<1>0. /\ records \subseteq Record /\ merge \in [Requests -> Merge]
      /\ call \in [Requests -> Call] /\ worked \in 0 .. MaxWork
      /\ done \subseteq Record /\ answers \subseteq Record
      /\ RecordsTypeOK
      /\ \A a \in answers : ~Unseen(a.key)
  BY DEF KeyedInv, KeyedTypeOK, RecordsTypeOK, AnsweredIsRecorded
<1>1. ASSUME NEW r \in Requests, NEW k \in Keys, NEW p \in Payloads, CheckedNew(r, k, p)
      PROVE  KeyedInv'
  <2>1. call' \in [Requests -> Call]
    BY <1>0, <1>1 DEF CheckedNew, Call
  <2>2. QED
    BY <1>0, <1>1, <2>1 DEF CheckedNew, KeyedInv, KeyedTypeOK, RecordsTypeOK,
                            AnsweredIsRecorded, Unseen, Find
<1>2. ASSUME NEW r \in Requests, NEW k \in Keys, NEW p \in Payloads, CheckedCached(r, k, p)
      PROVE  KeyedInv'
  <2>1. PICK b \in Cached(k, p) :
          answers' = answers \union {[key |-> k, payload |-> p, body |-> b]}
    BY <1>2 DEF CheckedCached
  <2>2. [key |-> k, payload |-> p, body |-> b] \in records
    BY <1>0, CachedRow
  <2>3. \A a \in answers' : a \in Record /\ ~Unseen(a.key)
    BY <1>0, <2>1, <2>2 DEF Unseen, Find
  <2>4. QED
    BY <1>0, <1>2, <2>3 DEF CheckedCached, KeyedInv, KeyedTypeOK, RecordsTypeOK,
                            AnsweredIsRecorded, Unseen, Find
<1>3. ASSUME NEW r \in Requests, Stores(r)
      PROVE  KeyedInv'
  <2> DEFINE row == [key |-> call[r].key, payload |-> call[r].payload, body |-> worked + 1]
  <2>1. /\ call[r].step = "work" /\ worked < MaxWork /\ worked' = worked + 1
        /\ Load(r, row) /\ done' = done \union {row}
        /\ call' = [call EXCEPT ![r].step = "store"] /\ answers' = answers
    BY <1>3 DEF Stores
  <2>2. call[r].key \in Keys /\ call[r].payload \in Payloads /\ call[r] \in Call
    BY <1>0, <2>1, CallShape DEF NoCall
  <2>3. row \in Record
    BY <1>0, <2>1, <2>2, KeyedBounds DEF Record
  <2>4. merge' \in [Requests -> Merge] /\ records' = records
    <3>1. Find(row.key) \in SUBSET Record
      BY <1>0 DEF Find
    <3>2. [step |-> "write", row |-> row, loaded |-> Find(row.key)] \in Merge
      BY <2>3, <3>1 DEF Merge
    <3>3. QED
      BY <1>0, <2>1, <3>2 DEF Load
  <2>5. call' \in [Requests -> Call]
    <3>1. [call[r] EXCEPT !.step = "store"] \in Call
      BY <2>1, <2>2 DEF Call, NoCall
    <3>2. QED
      BY <1>0, <2>1, <3>1
  <2>6. worked' \in 0 .. MaxWork
    BY <1>0, <2>1, KeyedBounds
  <2>7. QED
    BY <1>0, <2>1, <2>3, <2>4, <2>5, <2>6
       DEF KeyedInv, KeyedTypeOK, RecordsTypeOK, AnsweredIsRecorded, Unseen, Find
<1>4. ASSUME NEW r \in Requests, Answers(r)
      PROVE  KeyedInv'
  <2>1. /\ merge[r].row \in Record
        /\ merge' = [merge EXCEPT ![r] = NoMerge]
        /\ records' \subseteq Record
        /\ \E y \in records' : y.key = merge[r].row.key
        /\ \A x \in records : \E y \in records' : y.key = x.key
    BY <1>0, <1>4, WriteEffect DEF Answers
  <2>2. /\ answers' = answers \union {merge[r].row}
        /\ call' = [call EXCEPT ![r] = NoCall] /\ worked' = worked /\ done' = done
    BY <1>4 DEF Answers
  <2>3. AnsweredIsRecorded'
    BY <1>0, <2>1, <2>2 DEF AnsweredIsRecorded, Unseen, Find
  <2>4. merge' \in [Requests -> Merge] /\ call' \in [Requests -> Call]
    BY <1>0, <2>1, <2>2 DEF Merge, Call
  <2>5. QED
    BY <1>0, <2>1, <2>2, <2>3, <2>4 DEF KeyedInv, KeyedTypeOK, RecordsTypeOK
<1>5. ASSUME NEW r \in Requests, StoreClashes(r) \/ Fails(r)
      PROVE  KeyedInv'
  <2>1. /\ records' = records /\ worked' = worked /\ done' = done /\ answers' = answers
        /\ call' = [call EXCEPT ![r] = NoCall]
        /\ merge' = merge \/ merge' = [merge EXCEPT ![r] = NoMerge]
    BY <1>5 DEF StoreClashes, Fails, Clash, Abandon
  <2>2. merge' \in [Requests -> Merge] /\ call' \in [Requests -> Call]
    BY <1>0, <2>1 DEF Merge, Call
  <2>3. QED
    BY <1>0, <2>1, <2>2 DEF KeyedInv, KeyedTypeOK, RecordsTypeOK, AnsweredIsRecorded,
                            Unseen, Find
<1>6. CASE UNCHANGED keyedVars
  BY <1>0, <1>6 DEF keyedVars, KeyedInv, KeyedTypeOK, RecordsTypeOK, AnsweredIsRecorded,
                    Unseen, Find
<1>7. QED
  BY <1>1, <1>2, <1>3, <1>4, <1>5, <1>6 DEF KeyedNext, CheckedConflict

LEMMA KeyedInvariance == KeyedSpec => []KeyedInv
  BY KeyedStart, KeyedStep, PTL DEF KeyedSpec

(* However requests overlap and fail, an answered key has a row, so that   *)
(* no handler does its work again.                                         *)
THEOREM AnsweredKeysAreRecorded == KeyedSpec => []AnsweredIsRecorded
<1>1. KeyedInv => AnsweredIsRecorded
  BY DEF KeyedInv
<1>2. QED
  BY <1>1, KeyedInvariance, PTL

-----------------------------------------------------------------------------
(* The inductive invariant for clients that wait: the key of a request in  *)
(* flight has no row yet, so store inserts the response of the very        *)
(* request; every row is one that was asked for, and a key has one.        *)
Waiting(r) ==
  /\ call[r] # NoCall => Unseen(call[r].key)
  /\ IF call[r].step = "store"
     THEN /\ merge[r].step = "write" /\ merge[r].loaded = {}
          /\ merge[r].row \in done /\ merge[r].row.key = call[r].key
     ELSE merge[r] = NoMerge

SerialInv ==
  /\ KeyedInv
  /\ \A r \in Requests : Waiting(r)
  /\ records \subseteq done
  /\ \A x, y \in records : x.key = y.key => x = y
  /\ answers \subseteq records

LEMMA SerialStart == KeyedInit => SerialInv
  BY KeyedStart DEF KeyedInit, RecordsInit, SerialInv, Waiting, NoCall

LEMMA SerialStep == SerialInv /\ OneCallPerKey /\ [KeyedNext]_keyedVars => SerialInv'
<1> SUFFICES ASSUME SerialInv, OneCallPerKey, [KeyedNext]_keyedVars
             PROVE  SerialInv'
  OBVIOUS
<1>0. KeyedInv' /\ KeyedInv
  BY KeyedStep DEF SerialInv
<1>t. /\ RecordsTypeOK /\ records \subseteq Record
      /\ merge \in [Requests -> Merge] /\ call \in [Requests -> Call]
  BY <1>0 DEF KeyedInv, KeyedTypeOK, RecordsTypeOK
<1>1. ASSUME NEW r \in Requests, NEW k \in Keys, NEW p \in Payloads, CheckedNew(r, k, p)
      PROVE  SerialInv'
  <2>1. /\ call[r] = NoCall /\ Unseen(k)
        /\ call' = [call EXCEPT ![r] = [step |-> "work", key |-> k, payload |-> p]]
        /\ UNCHANGED <<records, merge, worked, done, answers>>
    BY <1>1 DEF CheckedNew
  <2>2. ASSUME NEW s \in Requests
        PROVE  Waiting(s)'
    <3>1. CASE s = r
      BY <1>t, <2>1, <3>1 DEF SerialInv, Waiting, NoCall, Unseen, Find
    <3>2. CASE s # r
      BY <1>t, <2>1, <3>2 DEF SerialInv, Waiting, Unseen, Find
    <3>3. QED
      BY <3>1, <3>2
  <2>3. QED
    BY <1>0, <2>1, <2>2 DEF SerialInv
<1>2. ASSUME NEW r \in Requests, NEW k \in Keys, NEW p \in Payloads, CheckedCached(r, k, p)
      PROVE  SerialInv'
  <2>1. PICK b \in Cached(k, p) :
          answers' = answers \union {[key |-> k, payload |-> p, body |-> b]}
    BY <1>2 DEF CheckedCached
  <2>2. [key |-> k, payload |-> p, body |-> b] \in records
    BY <1>t, CachedRow
  <2>3. UNCHANGED <<records, merge, call, worked, done>>
    BY <1>2 DEF CheckedCached
  <2>4. QED
    BY <1>0, <2>1, <2>2, <2>3 DEF SerialInv, Waiting, Unseen, Find
<1>3. ASSUME NEW r \in Requests, Stores(r)
      PROVE  SerialInv'
  <2> DEFINE row == [key |-> call[r].key, payload |-> call[r].payload, body |-> worked + 1]
  <2>1. /\ call[r].step = "work" /\ merge[r] = NoMerge
        /\ merge' = [merge EXCEPT ![r] =
             [step |-> "write", row |-> row, loaded |-> Find(row.key)]]
        /\ done' = done \union {row} /\ records' = records /\ answers' = answers
        /\ call' = [call EXCEPT ![r].step = "store"]
    BY <1>3 DEF Stores, Load
  <2>2. call[r] # NoCall /\ Unseen(call[r].key)
    BY <2>1 DEF SerialInv, Waiting, NoCall
  <2>3. Find(row.key) = {}
    BY <2>2 DEF Unseen
  <2>4. call'[r].step = "store" /\ call'[r].key = call[r].key
    BY <1>t, <2>1, <2>2, CallShape DEF Call, NoCall
  <2>5. ASSUME NEW s \in Requests
        PROVE  Waiting(s)'
    <3>1. CASE s = r
      <4>1. /\ merge'[r].step = "write" /\ merge'[r].loaded = {}
            /\ merge'[r].row = row
        BY <1>t, <2>1, <2>3
      <4>2. Unseen(call[r].key)'
        BY <2>1, <2>2 DEF Unseen, Find
      <4>3. QED
        BY <2>1, <2>4, <3>1, <4>1, <4>2 DEF Waiting
    <3>2. CASE s # r
      BY <1>t, <2>1, <3>2 DEF SerialInv, Waiting, Unseen, Find
    <3>3. QED
      BY <3>1, <3>2
  <2>6. QED
    BY <1>0, <2>1, <2>5 DEF SerialInv
<1>4. ASSUME NEW r \in Requests, Answers(r)
      PROVE  SerialInv'
  <2>1. /\ call[r].step = "store" /\ Write(r)
        /\ answers' = answers \union {merge[r].row}
        /\ call' = [call EXCEPT ![r] = NoCall] /\ done' = done
    BY <1>4 DEF Answers
  <2>2. /\ merge[r].loaded = {} /\ merge[r].row \in done
        /\ merge[r].row.key = call[r].key /\ Unseen(call[r].key)
    BY <2>1 DEF SerialInv, Waiting, NoCall
  <2>3. /\ records' = records \union {merge[r].row}
        /\ merge' = [merge EXCEPT ![r] = NoMerge]
    BY <2>1, <2>2 DEF Write, Insert, Update
  <2>4. \A x, y \in records' : x.key = y.key => x = y
    BY <2>2, <2>3 DEF SerialInv, Unseen, Find
  <2>5. ASSUME NEW s \in Requests
        PROVE  Waiting(s)'
    <3>1. CASE s = r
      BY <1>t, <2>1, <2>3, <3>1 DEF Waiting, NoCall
    <3>2. CASE s # r
      <4>1. call'[s] = call[s] /\ merge'[s] = merge[s] /\ Waiting(s)
        BY <1>t, <2>1, <2>3, <3>2 DEF SerialInv
      <4>2. call[s] # NoCall => call[s].key # call[r].key
        BY <2>1, <3>2 DEF OneCallPerKey, NoCall
      <4>3. call[s] # NoCall => Unseen(call[s].key)'
        BY <2>2, <2>3, <4>1, <4>2 DEF Waiting, Unseen, Find
      <4>4. QED
        BY <2>1, <4>1, <4>3 DEF Waiting
    <3>3. QED
      BY <3>1, <3>2
  <2>6. records' \subseteq done' /\ answers' \subseteq records'
    BY <2>1, <2>2, <2>3 DEF SerialInv
  <2>7. QED
    BY <1>0, <2>4, <2>5, <2>6 DEF SerialInv
<1>5. ASSUME NEW r \in Requests, StoreClashes(r)
      PROVE  SerialInv'
  BY <1>5 DEF StoreClashes, Clash, SerialInv, Waiting, NoCall
<1>6. ASSUME NEW r \in Requests, Fails(r)
      PROVE  SerialInv'
  <2>1. /\ records' = records /\ done' = done /\ answers' = answers
        /\ call' = [call EXCEPT ![r] = NoCall]
        /\ merge' = [merge EXCEPT ![r] = NoMerge]
    BY <1>t, <1>6 DEF Fails, Abandon
  <2>2. ASSUME NEW s \in Requests
        PROVE  Waiting(s)'
    <3>1. CASE s = r
      BY <1>t, <2>1, <3>1 DEF Waiting, NoCall
    <3>2. CASE s # r
      BY <1>t, <2>1, <3>2 DEF SerialInv, Waiting, Unseen, Find
    <3>3. QED
      BY <3>1, <3>2
  <2>3. QED
    BY <1>0, <2>1, <2>2 DEF SerialInv
<1>7. CASE UNCHANGED keyedVars
  BY <1>0, <1>7 DEF keyedVars, SerialInv, Waiting, Unseen, Find
<1>8. QED
  BY <1>1, <1>2, <1>3, <1>4, <1>5, <1>6, <1>7 DEF KeyedNext, CheckedConflict

(* For clients that wait, a row holds the response to the payload it is    *)
(* matched by.                                                             *)
THEOREM SerialRecordsAreTruthful == KeyedSpec => SerialRecordsTruthful
<1>1. SerialInv => RecordsTruthful
  BY DEF SerialInv, RecordsTruthful
<1>2. QED
  BY <1>1, SerialStart, SerialStep, PTL DEF KeyedSpec, SerialRecordsTruthful

(* For clients that wait, all the 2xx answers of a key are one and the     *)
(* same.                                                                   *)
THEOREM ReplaysAlwaysAgree == KeyedSpec => ReplaysAgree
<1>1. SerialInv => \A a, b \in answers : a.key = b.key => a = b
  BY DEF SerialInv
<1>2. QED
  BY <1>1, SerialStart, SerialStep, PTL DEF KeyedSpec, ReplaysAgree
=============================================================================
