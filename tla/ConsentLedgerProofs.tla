------------------------ MODULE ConsentLedgerProofs ------------------------
(***************************************************************************)
(* Proofs about ConsentLedger, for any handlers, contents and bound.       *)
(***************************************************************************)
EXTENDS ConsentLedger, SequenceTheorems, WellFoundedInduction, TLAPS

-----------------------------------------------------------------------------
(* What a session holds, by where it stands.                               *)
LEMMA SessionShape ==
  ASSUME NEW s \in Session
  PROVE  /\ s.step = "idle" => s = Idle
         /\ s.step = "flush" => s.content \in Contents /\ s.previous_hash \in Hashes
         /\ s.step = "commit" => s.row \in Entry
         /\ s # Idle => s.step \in {"flush", "commit"}
  BY DEF Session, Idle

(* Appending to a hash yields a hash that is not the missing one.          *)
LEMMA EntryHashType ==
  ASSUME NEW p \in Hashes, NEW c \in Contents
  PROVE  EntryHash(p, c) \in Hashes /\ EntryHash(p, c) # NoHash
<1>1. Append(p, c) \in Seq(Contents) /\ Append(p, c) # << >>
  BY AppendProperties DEF Hashes
<1>2. QED
  BY <1>1 DEF Hashes, EntryHash, NoHash

(* There is a latest entry as soon as there is one.                        *)
HasLatest ==
  entries # {} => \E e \in entries : \A f \in entries : f.created_at <= e.created_at

(* _get_latest_entry_hash returns the hash of an entry or none.            *)
LEMMA LatestHashIsHash ==
  ASSUME HasLatest, entries \subseteq Entry
  PROVE  /\ LatestHash(entries) \in Hashes
         /\ LatestHash(entries) = NoHash \/ \E f \in entries : f.entry_hash = LatestHash(entries)
<1>1. CASE entries = {}
  BY <1>1 DEF LatestHash, Hashes, NoHash
<1>2. CASE entries # {}
  <2> DEFINE Top(e) == e \in entries /\ \A f \in entries : f.created_at <= e.created_at
             top == CHOOSE e \in entries : \A f \in entries : f.created_at <= e.created_at
  <2>1. \E e : Top(e)
    BY <1>2 DEF HasLatest
  <2>2. top \in entries
    BY <2>1
  <2>3. LatestHash(entries) = top.entry_hash
    BY <1>2 DEF LatestHash
  <2>4. QED
    BY <2>2, <2>3 DEF Entry
<1>3. QED
  BY <1>1, <1>2

-----------------------------------------------------------------------------
(* The inductive invariant of the links.  Every entry, and every row that  *)
(* is flushed and not committed, chains onto an entry of an earlier        *)
(* created_at; a session before its flush holds the hash of an entry.      *)
Linked(row, rows, top) ==
  /\ row.created_at <= top
  /\ row.entry_hash = EntryHash(row.previous_hash, row.content)
  /\ \/ row.previous_hash = NoHash
     \/ \E f \in rows : f.created_at < row.created_at /\ f.entry_hash = row.previous_hash

LinkInv ==
  /\ LedgerTypeOK
  /\ HasLatest
  /\ \A e \in entries : Linked(e, entries, clock)
  /\ \A a \in Appenders :
       /\ append[a].step = "flush" =>
            \/ append[a].previous_hash = NoHash
            \/ \E f \in entries : f.entry_hash = append[a].previous_hash
       /\ append[a].step = "commit" => Linked(append[a].row, entries, clock)

LEMMA LinkInit == LedgerInit => LinkInv
  BY DEF LedgerInit, LinkInv, LedgerTypeOK, HasLatest, Session, Idle

LEMMA LinkStep == LinkInv /\ [LedgerNext]_ledgerVars => LinkInv'
<1> SUFFICES ASSUME LinkInv, [LedgerNext]_ledgerVars
             PROVE  LinkInv'
  OBVIOUS
<1> USE DEF LinkInv, LedgerTypeOK
<1>1. ASSUME NEW a \in Appenders, NEW c \in Contents, SelectLatest(a, c)
      PROVE  LinkInv'
  <2>1. /\ LatestHash(entries) \in Hashes
        /\ LatestHash(entries) = NoHash \/ \E f \in entries : f.entry_hash = LatestHash(entries)
    BY LatestHashIsHash
  <2>2. append' = [append EXCEPT ![a] =
          [step |-> "flush", content |-> c, previous_hash |-> LatestHash(entries)]]
    BY <1>1 DEF SelectLatest
  <2>3. entries' = entries /\ clock' = clock
    BY <1>1 DEF SelectLatest
  <2>4. append' \in [Appenders -> Session]
    BY <2>1, <2>2 DEF Session
  <2>5. QED
    BY <2>1, <2>2, <2>3, <2>4 DEF Linked, HasLatest
<1>2. ASSUME NEW a \in Appenders, Flush(a)
      PROVE  LinkInv'
  <2> DEFINE row == [content |-> append[a].content,
                     previous_hash |-> append[a].previous_hash,
                     entry_hash |-> EntryHash(append[a].previous_hash, append[a].content),
                     created_at |-> clock + 1]
  <2>1. /\ append[a].step = "flush"
        /\ clock' = clock + 1
        /\ append' = [append EXCEPT ![a] = [step |-> "commit", row |-> row]]
        /\ entries' = entries
    BY <1>2 DEF Flush
  <2>2. append[a].content \in Contents /\ append[a].previous_hash \in Hashes
    BY <2>1, SessionShape
  <2>3. row \in Entry
    BY <2>2, EntryHashType DEF Entry
  <2>4. append' \in [Appenders -> Session]
    BY <2>1, <2>3 DEF Session
  <2>5. \A f \in entries : f.created_at \in Nat /\ f.created_at < clock + 1
    BY DEF Linked, Entry
  <2>6. Linked(row, entries', clock')
    BY <2>1, <2>5 DEF Linked
  <2>7. \A e \in entries' : Linked(e, entries', clock')
    BY <2>1, <2>5 DEF Linked
  <2>8. ASSUME NEW b \in Appenders, append'[b].step = "commit"
        PROVE  Linked(append'[b].row, entries', clock')
    <3>1. CASE b = a
      BY <2>1, <2>6, <3>1
    <3>2. CASE b # a
      <4>1. append'[b] = append[b]
        BY <2>1, <3>2
      <4>2. Linked(append[b].row, entries, clock) /\ append[b].row \in Entry
        BY <4>1, <2>8, SessionShape
      <4>3. QED
        BY <4>1, <4>2, <2>1 DEF Linked, Entry
    <3>3. QED
      BY <3>1, <3>2
  <2>9. ASSUME NEW b \in Appenders, append'[b].step = "flush"
        PROVE  \/ append'[b].previous_hash = NoHash
               \/ \E f \in entries' : f.entry_hash = append'[b].previous_hash
    BY <2>1, <2>9
  <2>10. HasLatest'
    BY <2>1 DEF HasLatest
  <2>11. clock' \in Nat
    BY <2>1
  <2>12. QED
    BY <2>1, <2>4, <2>7, <2>8, <2>9, <2>10, <2>11
<1>3. ASSUME NEW a \in Appenders, Commit(a)
      PROVE  LinkInv'
  <2> DEFINE row == append[a].row
  <2>1. /\ append[a].step = "commit"
        /\ entries' = entries \union {row}
        /\ append' = [append EXCEPT ![a] = Idle]
        /\ clock' = clock
    BY <1>3 DEF Commit
  <2>2. row \in Entry /\ Linked(row, entries, clock)
    BY <2>1, SessionShape
  <2>3. entries' \subseteq Entry /\ append' \in [Appenders -> Session]
    BY <2>1, <2>2 DEF Session
  <2>4. HasLatest'
    <3>1. CASE entries = {}
      BY <2>1, <2>2, <3>1 DEF HasLatest, Entry
    <3>2. CASE entries # {}
      <4>1. PICK top \in entries : \A f \in entries : f.created_at <= top.created_at
        BY <3>2 DEF HasLatest
      <4>2. \A f \in entries' : f.created_at \in Nat
        BY <2>3 DEF Entry
      <4>3. CASE top.created_at <= row.created_at
        BY <2>1, <4>1, <4>2, <4>3 DEF HasLatest
      <4>4. CASE ~(top.created_at <= row.created_at)
        BY <2>1, <4>1, <4>2, <4>4 DEF HasLatest
      <4>5. QED
        BY <4>3, <4>4
    <3>3. QED
      BY <3>1, <3>2
  <2>5. ASSUME NEW x, Linked(x, entries, clock)
        PROVE  Linked(x, entries', clock')
    BY <2>1, <2>5 DEF Linked
  <2>6. \A e \in entries' : Linked(e, entries', clock')
    BY <2>1, <2>2, <2>5
  <2>7. ASSUME NEW b \in Appenders
        PROVE  /\ append'[b].step = "flush" =>
                    \/ append'[b].previous_hash = NoHash
                    \/ \E f \in entries' : f.entry_hash = append'[b].previous_hash
               /\ append'[b].step = "commit" => Linked(append'[b].row, entries', clock')
    <3>1. CASE b = a
      BY <2>1, <3>1 DEF Idle
    <3>2. CASE b # a
      <4>1. append'[b] = append[b]
        BY <2>1, <3>2
      <4>2. append[b].step = "commit" => Linked(append'[b].row, entries', clock')
        BY <4>1, <2>1 DEF Linked
      <4>3. QED
        BY <2>1, <4>1, <4>2
    <3>3. QED
      BY <3>1, <3>2
  <2>8. QED
    BY <2>1, <2>3, <2>4, <2>6, <2>7
<1>4. ASSUME NEW a \in Appenders, Rollback(a)
      PROVE  LinkInv'
  BY <1>4 DEF Rollback, Linked, HasLatest, Session, Idle
<1>5. ASSUME Crash
      PROVE  LinkInv'
  BY <1>5 DEF Crash, Linked, HasLatest, Session, Idle
<1>6. CASE UNCHANGED ledgerVars
  BY <1>6 DEF ledgerVars, Linked, HasLatest
<1>7. QED
  BY <1>1, <1>2, <1>3, <1>4, <1>5, <1>6 DEF LedgerNext

LEMMA LinkInvariance == LedgerSpec => []LinkInv
  BY LinkInit, LinkStep, PTL DEF LedgerSpec

(* The state of the ledger is always well-formed.                          *)
THEOREM LedgerTypeCorrect == LedgerSpec => []LedgerTypeOK
<1>1. LinkInv => LedgerTypeOK
  BY DEF LinkInv
<1>2. QED
  BY <1>1, LinkInvariance, PTL

(* However many handlers append at once, fail and crash, every entry is    *)
(* hashed from its content and its previous_hash, and that one resolves to *)
(* an entry of an earlier created_at.                                      *)
THEOREM EveryLinkResolves == LedgerSpec => []PreviousIsEarlier
<1>1. LinkInv => PreviousIsEarlier
  BY DEF LinkInv, Linked, PreviousIsEarlier, Before
<1>2. QED
  BY <1>1, LinkInvariance, PTL

-----------------------------------------------------------------------------
(* The inductive invariant of serial appends: the open session holds the   *)
(* latest hash, and its row, once flushed, is younger than every entry.    *)
SerialInv ==
  /\ LinkInv
  /\ ChainVerifies
  /\ \A a \in Appenders :
       /\ append[a].step = "flush" => append[a].previous_hash = LatestHash(entries)
       /\ append[a].step = "commit" =>
            /\ append[a].row.previous_hash = LatestHash(entries)
            /\ \A e \in entries : e.created_at < append[a].row.created_at

LEMMA SerialInit == LedgerInit => SerialInv
  BY LinkInit DEF LedgerInit, SerialInv, ChainVerifies, Idle

LEMMA SerialStep == SerialInv /\ OneSession /\ [LedgerNext]_ledgerVars => SerialInv'
<1> SUFFICES ASSUME SerialInv, OneSession, [LedgerNext]_ledgerVars
             PROVE  SerialInv'
  OBVIOUS
<1>0. LinkInv'
  BY LinkStep DEF SerialInv
<1>1. ASSUME entries' = entries
      PROVE  ChainVerifies'
  BY <1>1 DEF SerialInv, ChainVerifies, Before
<1>2. ASSUME NEW a \in Appenders, NEW c \in Contents, SelectLatest(a, c)
      PROVE  SerialInv'
  BY <1>0, <1>1, <1>2 DEF SelectLatest, SerialInv, LinkInv, LedgerTypeOK
<1>3. ASSUME NEW a \in Appenders, Flush(a)
      PROVE  SerialInv'
  <2>1. \A e \in entries : e.created_at < clock + 1
    BY DEF SerialInv, LinkInv, Linked, LedgerTypeOK, Entry
  <2>2. QED
    BY <1>0, <1>1, <1>3, <2>1 DEF Flush, SerialInv, LinkInv, LedgerTypeOK
<1>4. ASSUME NEW a \in Appenders, Commit(a)
      PROVE  SerialInv'
  <2> DEFINE row == append[a].row
  <2>1. /\ append[a].step = "commit"
        /\ entries' = entries \union {row}
        /\ append' = [append EXCEPT ![a] = Idle]
    BY <1>4 DEF Commit
  <2>2. \A b \in Appenders : b # a => append[b] = Idle
    BY <2>1 DEF OneSession, Idle
  <2>3. \A b \in Appenders : append'[b] = Idle
    BY <2>1, <2>2 DEF SerialInv, LinkInv, LedgerTypeOK
  <2>4. /\ row \in Entry
        /\ row.entry_hash = EntryHash(LatestHash(entries), row.content)
        /\ \A e \in entries : e.created_at < row.created_at
    BY <2>1, SessionShape DEF SerialInv, LinkInv, LedgerTypeOK, Linked
  <2>5. \A e \in entries : e.created_at \in Nat
    BY DEF SerialInv, LinkInv, LedgerTypeOK, Entry
  <2>6. row.created_at \in Nat
    BY <2>4 DEF Entry
  <2>7. {f \in entries' : f.created_at < row.created_at} = entries
    BY <2>1, <2>4, <2>6
  <2>8. ASSUME NEW e \in entries
        PROVE  {f \in entries' : f.created_at < e.created_at} = Before(e)
    BY <2>1, <2>4, <2>5, <2>6 DEF Before
  <2>9. ChainVerifies'
    <3> SUFFICES ASSUME NEW e \in entries'
                 PROVE  e.entry_hash =
                          EntryHash(LatestHash({f \in entries' : f.created_at < e.created_at}),
                                    e.content)
      BY DEF ChainVerifies, Before
    <3>1. CASE e = row
      BY <2>4, <2>7, <3>1
    <3>2. CASE e \in entries
      BY <2>8, <3>2 DEF SerialInv, ChainVerifies
    <3>3. QED
      BY <2>1, <3>1, <3>2
  <2>10. QED
    BY <1>0, <2>3, <2>9 DEF SerialInv, Idle
<1>5. ASSUME NEW a \in Appenders, Rollback(a)
      PROVE  SerialInv'
  BY <1>0, <1>1, <1>5 DEF Rollback, SerialInv, LinkInv, LedgerTypeOK, Idle
<1>6. ASSUME Crash
      PROVE  SerialInv'
  BY <1>0, <1>1, <1>6 DEF Crash, SerialInv, Idle
<1>7. CASE UNCHANGED ledgerVars
  BY <1>0, <1>1, <1>7 DEF ledgerVars, SerialInv
<1>8. QED
  BY <1>2, <1>3, <1>4, <1>5, <1>6, <1>7 DEF LedgerNext

(* Appends that do not overlap keep a ledger that verify_chain accepts,    *)
(* whatever fails or crashes between them.                                 *)
THEOREM SerialLedgerVerifies == LedgerSpec => SerialAppendsVerify
<1>1. SerialInv => ChainVerifies
  BY DEF SerialInv
<1>2. QED
  BY <1>1, SerialInit, SerialStep, PTL DEF LedgerSpec, SerialAppendsVerify

-----------------------------------------------------------------------------
(* The inductive invariant of the order: no two rows, committed or not,    *)
(* have one created_at.                                                    *)
StampInv ==
  /\ LinkInv
  /\ \A e, f \in entries : e.created_at = f.created_at => e = f
  /\ \A a \in Appenders : append[a].step = "commit" =>
       /\ \A e \in entries : e.created_at # append[a].row.created_at
       /\ \A b \in Appenders :
            append[b].step = "commit" /\ append[b].row.created_at = append[a].row.created_at
              => a = b

LEMMA StampStart == LedgerInit => StampInv
  BY LinkInit DEF LedgerInit, StampInv, Idle

LEMMA StampStep == StampInv /\ [LedgerNext]_ledgerVars => StampInv'
<1> SUFFICES ASSUME StampInv, [LedgerNext]_ledgerVars
             PROVE  StampInv'
  OBVIOUS
<1>0. LinkInv' /\ append \in [Appenders -> Session]
  BY LinkStep DEF StampInv, LinkInv, LedgerTypeOK
<1>1. ASSUME NEW a \in Appenders, NEW c \in Contents, SelectLatest(a, c)
      PROVE  StampInv'
  BY <1>0, <1>1 DEF SelectLatest, StampInv
<1>2. ASSUME NEW a \in Appenders, Flush(a)
      PROVE  StampInv'
  <2>1. /\ entries' = entries
        /\ append'[a].row.created_at = clock + 1
        /\ \A b \in Appenders : b # a => append'[b] = append[b]
    BY <1>0, <1>2 DEF Flush
  <2>2. /\ \A e \in entries : e.created_at # clock + 1
        /\ \A b \in Appenders :
             append[b].step = "commit" => append[b].row.created_at # clock + 1
    <3>1. clock \in Nat /\ \A e \in entries : e.created_at \in Nat /\ e.created_at <= clock
      BY DEF StampInv, LinkInv, LedgerTypeOK, Linked, Entry
    <3>2. ASSUME NEW b \in Appenders, append[b].step = "commit"
          PROVE  append[b].row.created_at \in Nat /\ append[b].row.created_at <= clock
      BY <1>0, <3>2, SessionShape DEF StampInv, LinkInv, Linked, Entry
    <3>3. QED
      BY <3>1, <3>2
  <2>3. QED
    BY <1>0, <2>1, <2>2 DEF StampInv
<1>3. ASSUME NEW a \in Appenders, Commit(a)
      PROVE  StampInv'
  <2>1. /\ append[a].step = "commit"
        /\ entries' = entries \union {append[a].row}
        /\ append' = [append EXCEPT ![a] = Idle]
    BY <1>3 DEF Commit
  <2>2. \A e, f \in entries' : e.created_at = f.created_at => e = f
    BY <2>1 DEF StampInv
  <2>3. QED
    BY <1>0, <2>1, <2>2 DEF StampInv, Idle
<1>4. ASSUME NEW a \in Appenders, Rollback(a)
      PROVE  StampInv'
  BY <1>0, <1>4 DEF Rollback, StampInv, Idle
<1>5. ASSUME Crash
      PROVE  StampInv'
  BY <1>0, <1>5 DEF Crash, StampInv, Idle
<1>6. CASE UNCHANGED ledgerVars
  BY <1>0, <1>6 DEF ledgerVars, StampInv
<1>7. QED
  BY <1>1, <1>2, <1>3, <1>4, <1>5, <1>6 DEF LedgerNext

LEMMA StampInvariance == LedgerSpec => []StampInv
  BY StampStart, StampStep, PTL DEF LedgerSpec

-----------------------------------------------------------------------------
(* Earliest and latest rows.                                               *)
LEMMA SmallestOf ==
  ASSUME NEW S \in SUBSET Nat, S # {}
  PROVE  \E m \in S : \A n \in S : m <= n
<1> DEFINE Less == {ss \in Nat \X Nat : ss[1] < ss[2]}
<1>1. IsWellFoundedOn(Less, Nat)
  BY NatLessThanWellFounded DEF OpToRel
<1> HIDE DEF Less
<1>2. PICK m \in S : \A n \in S : <<n, m>> \notin Less
  BY <1>1, WFMin
<1>3. \A n \in Nat : n < m => <<n, m>> \in Less
  BY DEF Less
<1>4. \A n \in S : ~(n < m)
  BY <1>2, <1>3
<1>5. QED
  BY <1>4

LEMMA Earliest ==
  ASSUME StampInv, NEW rows \in SUBSET entries, rows # {}
  PROVE  \E e \in rows : \A f \in rows : e.created_at <= f.created_at
<1>1. \A e \in rows : e.created_at \in Nat
  BY DEF StampInv, LinkInv, LedgerTypeOK, Entry
<1>2. {e.created_at : e \in rows} \in SUBSET Nat /\ {e.created_at : e \in rows} # {}
  BY <1>1
<1>3. PICK m \in {e.created_at : e \in rows} : \A n \in {e.created_at : e \in rows} : m <= n
  BY <1>2, SmallestOf
<1>4. QED
  BY <1>3

LEMMA LatestBefore ==
  ASSUME StampInv, NEW e \in entries, Before(e) # {}
  PROVE  \E top \in Before(e) : \A f \in Before(e) : f.created_at <= top.created_at
<1> DEFINE Age(f) == e.created_at - f.created_at
           Ages == {Age(f) : f \in Before(e)}
<1>1. /\ e.created_at \in Nat
      /\ \A f \in Before(e) : f.created_at \in Nat /\ f.created_at < e.created_at
  BY DEF StampInv, LinkInv, LedgerTypeOK, Entry, Before
<1>2. Ages \in SUBSET Nat /\ Ages # {}
  BY <1>1
<1> HIDE DEF Ages
<1>3. PICK m \in Ages : \A n \in Ages : m <= n
  BY <1>2, SmallestOf
<1>4. PICK top \in Before(e) : m = Age(top)
  BY <1>3 DEF Ages
<1>5. \A f \in Before(e) : Age(top) <= Age(f)
  BY <1>3, <1>4 DEF Ages
<1>6. QED
  BY <1>1, <1>5

(* The latest row of some is the one that no other is younger than.        *)
LEMMA LatestIs ==
  ASSUME StampInv, NEW rows \in SUBSET entries, NEW top \in rows,
         \A f \in rows : f.created_at <= top.created_at
  PROVE  LatestHash(rows) = top.entry_hash
<1> DEFINE chosen == CHOOSE e \in rows : \A f \in rows : f.created_at <= e.created_at
<1>1. chosen \in rows /\ \A f \in rows : f.created_at <= chosen.created_at
  OBVIOUS
<1> HIDE DEF chosen
<1>2. chosen.created_at = top.created_at
  BY <1>1 DEF StampInv, LinkInv, LedgerTypeOK, Entry
<1>3. chosen = top
  BY <1>1, <1>2 DEF StampInv
<1>4. QED
  BY <1>3 DEF chosen, LatestHash

(* An entry_hash determines the previous_hash, and is longer by one.       *)
LEMMA EntryHashInjective ==
  ASSUME NEW p \in Hashes, NEW q \in Hashes, NEW c \in Contents, NEW d \in Contents
  PROVE  /\ EntryHash(p, c) = EntryHash(q, d) => p = q
         /\ Len(p) \in Nat
         /\ Len(EntryHash(p, c)) = Len(p) + 1
  BY AppendInjective, AppendProperties, LenProperties DEF EntryHash, Hashes

(* Entry e passes verify_chain.                                            *)
Verified(e) == e.previous_hash = LatestHash(Before(e))

LEMMA VerifiedOrNot ==
  ASSUME StampInv, NEW e \in entries
  PROVE  /\ LatestHash(Before(e)) \in Hashes
         /\ e.entry_hash = EntryHash(LatestHash(Before(e)), e.content) <=> Verified(e)
         /\ e.entry_hash = EntryHash(e.previous_hash, e.content)
         /\ e.previous_hash \in Hashes /\ e.entry_hash \in Hashes /\ e.content \in Contents
<1>1. /\ e.entry_hash = EntryHash(e.previous_hash, e.content)
      /\ e.previous_hash \in Hashes /\ e.entry_hash \in Hashes /\ e.content \in Contents
  BY DEF StampInv, LinkInv, LedgerTypeOK, Linked, Entry
<1>2. LatestHash(Before(e)) \in Hashes
  <2>1. CASE Before(e) = {}
    BY <2>1 DEF LatestHash, NoHash, Hashes
  <2>2. CASE Before(e) # {}
    <3>1. PICK top \in Before(e) : \A f \in Before(e) : f.created_at <= top.created_at
      BY <2>2, LatestBefore
    <3>2. Before(e) \in SUBSET entries
      BY DEF Before
    <3>3. LatestHash(Before(e)) = top.entry_hash
      BY <3>1, <3>2, LatestIs
    <3>4. QED
      BY <3>2, <3>3 DEF StampInv, LinkInv, LedgerTypeOK, Entry
  <2>3. QED
    BY <2>1, <2>2
<1>3. QED
  BY <1>1, <1>2, EntryHashInjective DEF Verified

-----------------------------------------------------------------------------
(* A fork, as BrokenMeansForked has it.                                    *)
Forked == \E e, f \in entries : e # f /\ e.previous_hash = f.previous_hash

(* The first row that fails to verify chains onto what another row chains  *)
(* onto: the one that came next after what both of them saw.               *)
LEMMA BrokenIsForked ==
  ASSUME StampInv, ~ChainVerifies
  PROVE  Forked
<1> DEFINE Bad == {e \in entries : ~Verified(e)}
<1>1. Bad # {} /\ Bad \in SUBSET entries
  BY VerifiedOrNot DEF ChainVerifies
<1>2. PICK e \in Bad : \A f \in Bad : e.created_at <= f.created_at
  BY <1>1, Earliest
<1>t. \A f \in entries : f.created_at \in Nat
  BY DEF StampInv, LinkInv, LedgerTypeOK, Entry
<1>s. Before(e) \in SUBSET entries
  BY DEF Before
<1>3. \/ e.previous_hash = NoHash
      \/ \E f \in Before(e) : f.entry_hash = e.previous_hash
  BY <1>2 DEF StampInv, LinkInv, Linked, Before
<1>4. Before(e) # {}
  BY <1>2, <1>3 DEF Verified, LatestHash
<1>5. CASE e.previous_hash = NoHash
  <2>1. PICK g \in Before(e) : \A f \in Before(e) : g.created_at <= f.created_at
    BY <1>4, <1>s, Earliest
  <2>2. Before(g) = {}
    BY <2>1, <1>t, <1>2 DEF Before
  <2>3. g \in entries /\ g.previous_hash = NoHash
    BY <2>1, <2>2 DEF StampInv, LinkInv, Linked, Before
  <2>4. g # e
    BY <2>1, <1>t DEF Before
  <2>5. QED
    BY <1>2, <1>5, <2>3, <2>4 DEF Forked
<1>6. CASE \E f \in Before(e) : f.entry_hash = e.previous_hash
  <2>1. PICK f \in Before(e) : f.entry_hash = e.previous_hash
    BY <1>6
  <2>2. PICK top \in Before(e) : \A h \in Before(e) : h.created_at <= top.created_at
    BY <1>2, <1>4, LatestBefore
  <2>3. LatestHash(Before(e)) = top.entry_hash
    BY <1>s, <2>2, LatestIs
  <2>4. f # top
    BY <1>2, <2>1, <2>3 DEF Verified
  <2> DEFINE Later == {g \in Before(e) : f.created_at < g.created_at}
  <2>5. f.created_at # top.created_at /\ f.created_at <= top.created_at
    BY <2>1, <2>2, <2>4, <1>s DEF StampInv
  <2>6. top \in Later /\ Later \in SUBSET entries
    BY <2>1, <2>2, <2>5, <1>t, <1>s
  <2>7. PICK g \in Later : \A h \in Later : g.created_at <= h.created_at
    BY <2>6, Earliest
  <2>8. f \in Before(g) /\ \A h \in Before(g) : h.created_at <= f.created_at
    BY <2>1, <2>7, <1>t, <1>s, <1>2 DEF Before
  <2>9. g \in entries /\ g # e /\ Verified(g)
    BY <2>7, <1>t, <1>s, <1>2 DEF Before
  <2>10. Before(g) \in SUBSET entries
    BY DEF Before
  <2>11. LatestHash(Before(g)) = f.entry_hash
    BY <2>8, <2>10, LatestIs
  <2>12. QED
    BY <1>2, <2>1, <2>9, <2>11 DEF Verified, Forked
<1>7. QED
  BY <1>3, <1>5, <1>6

(* In a ledger that verifies the hash of a younger row is of a longer      *)
(* chain.                                                                  *)
LEMMA ChainGrows ==
  ASSUME StampInv, ChainVerifies,
         NEW x \in entries, NEW y \in entries, x.created_at < y.created_at
  PROVE  Len(x.entry_hash) < Len(y.entry_hash)
<1> DEFINE Longer(e, f) == Len(e.entry_hash) < Len(f.entry_hash)
           Bad == {f \in entries : \E e \in entries :
                     e.created_at < f.created_at /\ ~Longer(e, f)}
<1> SUFFICES ASSUME Bad # {}
             PROVE  FALSE
  OBVIOUS
<1>1. PICK f \in Bad : \A g \in Bad : f.created_at <= g.created_at
  <2>1. Bad \in SUBSET entries
    OBVIOUS
  <2>2. QED
    BY <2>1, Earliest
<1>2. PICK e \in entries : e.created_at < f.created_at /\ ~Longer(e, f)
  BY <1>1
<1>3. e \in Before(f) /\ f \in entries /\ Before(f) \in SUBSET entries
  BY <1>1, <1>2 DEF Before
<1>4. PICK top \in Before(f) : \A h \in Before(f) : h.created_at <= top.created_at
  BY <1>3, LatestBefore
<1>5. LatestHash(Before(f)) = top.entry_hash
  BY <1>3, <1>4, LatestIs
<1>6. top.entry_hash \in Hashes /\ e.entry_hash \in Hashes /\ f.content \in Contents
  BY <1>3, <1>4, VerifiedOrNot
<1>7. f.entry_hash = EntryHash(top.entry_hash, f.content)
  BY <1>3, <1>5 DEF ChainVerifies
<1>8. /\ Len(f.entry_hash) = Len(top.entry_hash) + 1
      /\ Len(top.entry_hash) \in Nat /\ Len(e.entry_hash) \in Nat
  BY <1>6, <1>7, EntryHashInjective
<1>t. \A g \in entries : g.created_at \in Nat
  BY DEF StampInv, LinkInv, LedgerTypeOK, Entry
<1>9. CASE e = top
  BY <1>2, <1>8, <1>9
<1>10. CASE e # top
  <2>1. e.created_at < top.created_at
    BY <1>3, <1>4, <1>10, <1>t DEF StampInv
  <2>2. top \notin Bad
    <3>1. top \in entries /\ top.created_at < f.created_at
      BY <1>3, <1>4 DEF Before
    <3>2. ~(f.created_at <= top.created_at)
      BY <1>3, <1>t, <3>1
    <3>3. QED
      BY <1>1, <3>2
  <2>3. Longer(e, top)
    BY <1>3, <1>4, <2>1, <2>2
  <2>4. QED
    BY <1>2, <1>8, <2>3
<1>11. QED
  BY <1>9, <1>10

(* Two rows that chain onto one hash cannot both verify.                   *)
LEMMA ForkedIsBroken ==
  ASSUME StampInv, Forked
  PROVE  ~ChainVerifies
<1> SUFFICES ASSUME ChainVerifies
             PROVE  FALSE
  OBVIOUS
<1>t. \A g \in entries : g.created_at \in Nat
  BY DEF StampInv, LinkInv, LedgerTypeOK, Entry
<1>1. PICK e \in entries, f \in entries :
        e # f /\ e.previous_hash = f.previous_hash /\ e.created_at < f.created_at
  <2>1. PICK e \in entries, f \in entries : e # f /\ e.previous_hash = f.previous_hash
    BY DEF Forked
  <2>2. e.created_at # f.created_at
    BY <2>1 DEF StampInv
  <2>3. e.created_at < f.created_at \/ f.created_at < e.created_at
    BY <2>2, <1>t
  <2>4. QED
    BY <2>1, <2>3
<1>2. e \in Before(f) /\ Before(f) \in SUBSET entries
  BY <1>1 DEF Before
<1>3. PICK top \in Before(f) : \A h \in Before(f) : h.created_at <= top.created_at
  BY <1>2, LatestBefore
<1>4. f.previous_hash = top.entry_hash
  <2>1. LatestHash(Before(f)) = top.entry_hash
    BY <1>2, <1>3, LatestIs
  <2>2. Verified(f)
    BY VerifiedOrNot DEF ChainVerifies
  <2>3. QED
    BY <2>1, <2>2 DEF Verified
<1>5. /\ e.entry_hash = EntryHash(e.previous_hash, e.content)
      /\ e.previous_hash \in Hashes /\ e.content \in Contents
      /\ top.entry_hash \in Hashes
  BY <1>2, <1>3, VerifiedOrNot
<1>6. /\ Len(e.entry_hash) = Len(top.entry_hash) + 1
      /\ Len(top.entry_hash) \in Nat
  BY <1>1, <1>4, <1>5, EntryHashInjective
<1>7. CASE e = top
  BY <1>6, <1>7
<1>8. CASE e # top
  <2>1. e.created_at < top.created_at
    BY <1>2, <1>3, <1>8, <1>t DEF StampInv
  <2>2. Len(e.entry_hash) < Len(top.entry_hash)
    BY <1>2, <1>3, <2>1, ChainGrows
  <2>3. QED
    BY <1>6, <2>2
<1>9. QED
  BY <1>7, <1>8

(* verify_chain rejects an untouched ledger for a fork only.               *)
THEOREM BrokenLedgersAreForked == LedgerSpec => []BrokenMeansForked
<1>1. StampInv => BrokenMeansForked
  BY BrokenIsForked DEF BrokenMeansForked, Forked
<1>2. QED
  BY <1>1, StampInvariance, PTL

(* No later append mends a ledger that verify_chain rejects.               *)
THEOREM ForksAreForever == LedgerSpec => ForkIsForever
<1>1. StampInv /\ StampInv' /\ [LedgerNext]_ledgerVars =>
        [~ChainVerifies => ~ChainVerifies']_ledgerVars
  <2> SUFFICES ASSUME StampInv, StampInv', LedgerNext, ~ChainVerifies
               PROVE  ~ChainVerifies'
    OBVIOUS
  <2>1. entries \subseteq entries'
    BY DEF LedgerNext, SelectLatest, Flush, Commit, Rollback, Crash
  <2>2. Forked
    BY BrokenIsForked
  <2>3. Forked'
    BY <2>1, <2>2 DEF Forked
  <2>4. QED
    BY <2>3, ForkedIsBroken, PTL
<1>2. QED
  BY <1>1, StampInvariance, PTL DEF LedgerSpec, ForkIsForever
=============================================================================
