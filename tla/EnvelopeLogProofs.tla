------------------------- MODULE EnvelopeLogProofs -------------------------
(***************************************************************************)
(* What the envelope log of a remote session (EnvelopeLog) guarantees for  *)
(* every policy, every number of envelopes and every interleaving of       *)
(* publications, acknowledgements, prunings and evictions.                 *)
(*                                                                         *)
(* The invariant LogInv says of the stored rows that each stream is a run  *)
(* without holes that ends at the sender's cursor, in the order of its     *)
(* creation times. Every deletion takes rows from the old end of a stream  *)
(* (LowerPart), and so keeps it (DeletionKeepsOrder).                      *)
(***************************************************************************)
EXTENDS EnvelopeLog, Counting, FiniteSetTheorems, TLAPS

\* A table whose streams end at the cursors and have no holes.
Ordered(table, newest, time) ==
    /\ \A r \in table : r.sequence <= newest[r.sender] /\ r.createdAt <= time
    /\ \A r, q \in table : r.sender = q.sender =>
          /\ r.sequence = q.sequence => r = q
          /\ r.sequence < q.sequence => r.createdAt <= q.createdAt
    /\ \A r \in table : \A n \in r.sequence..newest[r.sender] :
          \E q \in table : q.sender = r.sender /\ q.sequence = n

\* The deleted rows are older than what is kept of their stream.
LowerPart(table, deleted) ==
    \A r \in deleted, q \in table \ deleted :
        r.sender = q.sender => r.sequence < q.sequence

LogInv ==
    /\ LogTypeOK
    /\ IsFiniteSet(rows)
    /\ CountsCoherent
    /\ WithinCapacity
    /\ AcknowledgedRowsAreGone
    /\ Ordered(rows, cursors, now)

-----------------------------------------------------------------------------

LEMMA RowFields ==
    ASSUME NEW r \in Row
    PROVE  /\ r.sender \in Endpoints
           /\ r.sequence \in Nat
           /\ r.createdAt \in Nat
BY DEF Row

LEMMA OppositeIsEndpoint ==
    ASSUME NEW e \in Endpoints
    PROVE  /\ opposite(e) \in Endpoints
           /\ opposite(opposite(e)) = e
           /\ opposite(e) # e
BY DEF opposite, Endpoints

\* Deleting from the old end leaves the streams without holes.
LEMMA DeletionKeepsOrder ==
    ASSUME NEW table, table \subseteq Row,
           NEW newest \in [Endpoints -> Nat], NEW time \in Nat,
           Ordered(table, newest, time),
           NEW deleted \in SUBSET table, LowerPart(table, deleted)
    PROVE  Ordered(table \ deleted, newest, time)
<1> DEFINE kept == table \ deleted
<1>1. \A r \in kept : r.sequence <= newest[r.sender] /\ r.createdAt <= time
  BY DEF Ordered
<1>2. \A r, q \in kept : r.sender = q.sender =>
          /\ r.sequence = q.sequence => r = q
          /\ r.sequence < q.sequence => r.createdAt <= q.createdAt
  BY DEF Ordered
<1>3. ASSUME NEW r \in kept, NEW n \in r.sequence..newest[r.sender]
      PROVE  \E q \in kept : q.sender = r.sender /\ q.sequence = n
  <2>1. PICK q \in table : q.sender = r.sender /\ q.sequence = n
    BY DEF Ordered
  <2>2. q \notin deleted
    <3>1. r.sequence \in Nat /\ q.sequence \in Nat /\ r.sequence <= q.sequence
      BY <2>1, RowFields
    <3> QED BY <3>1, <2>1 DEF LowerPart
  <2> QED BY <2>1, <2>2
<1> QED BY <1>1, <1>2, <1>3 DEF Ordered

\* What the capacity limit deletes comes first in the order of deletion.
LEMMA OlderIsLower ==
    ASSUME NEW table, table \subseteq Row,
           NEW newest \in [Endpoints -> Nat], NEW time \in Nat,
           Ordered(table, newest, time),
           NEW deleted \in SUBSET table,
           \A r \in deleted, q \in table \ deleted : Older(r, q)
    PROVE  LowerPart(table, deleted)
<1> SUFFICES ASSUME NEW r \in deleted, NEW q \in table \ deleted,
                    r.sender = q.sender
             PROVE  r.sequence < q.sequence
  BY DEF LowerPart
<1>1. Older(r, q)
  OBVIOUS
<1>2. /\ r.sequence \in Nat /\ q.sequence \in Nat
      /\ r.createdAt \in Nat /\ q.createdAt \in Nat
      /\ r.sender \in Endpoints
  BY RowFields
<1>3. q.sequence < r.sequence => q.createdAt <= r.createdAt
  BY DEF Ordered
<1>4. q.sequence # r.sequence
  BY DEF Ordered
<1> QED BY <1>1, <1>2, <1>3, <1>4 DEF Older, Endpoints

\* pruneCapacity: when the count it is given is right it deletes as many of the
\* oldest rows as there are too many, and keeps counter and cache right.
LEMMA CapacityPruned ==
    ASSUME NEW table, IsFiniteSet(table),
           NEW cache \in {None, Cardinality(table)},
           PruneCapacity(table, Cardinality(table), cache)
    PROVE  \E deleted \in SUBSET table :
              /\ rows' = table \ deleted
              /\ \A r \in deleted, q \in table \ deleted : Older(r, q)
              /\ deleted # {} => Cardinality(table) > MaxStoredEnvelopes
              /\ IsFiniteSet(rows')
              /\ Cardinality(rows') <= MaxStoredEnvelopes
              /\ envelopeCount' = Cardinality(rows')
              /\ countCache' = Cardinality(rows')
<1> DEFINE count == Cardinality(table)
           overflow == Overflow(count)
<1>1. count \in Nat /\ MaxStoredEnvelopes \in Nat \ {0}
  BY FS_CardinalityType, PolicyAssumption
<1>2. (IF cache = None THEN count ELSE cache) = count
  OBVIOUS
<1>3. CASE overflow <= 0 /\ rows' = table /\ envelopeCount' = count /\ countCache' = count
  <2>1. count <= MaxStoredEnvelopes
    BY <1>1, <1>3 DEF Overflow
  <2> WITNESS {} \in SUBSET table
  <2> QED BY <1>3, <2>1
<1>4. CASE /\ overflow > 0
           /\ \E D \in OldestRows(table, overflow) :
                 /\ rows' = table \ D
                 /\ envelopeCount' = Larger(0, count - Cardinality(D))
                 /\ countCache' = Larger(0, count - Cardinality(D))
  <2>1. PICK D \in OldestRows(table, overflow) :
              /\ rows' = table \ D
              /\ envelopeCount' = Larger(0, count - Cardinality(D))
              /\ countCache' = Larger(0, count - Cardinality(D))
    BY <1>4
  <2>2. /\ D \in SUBSET table
        /\ Cardinality(D) = Smaller(overflow, count)
        /\ \A r \in D, q \in table \ D : Older(r, q)
    BY <2>1 DEF OldestRows
  <2>3. overflow \in Nat /\ overflow = count - MaxStoredEnvelopes /\ overflow < count
    BY <1>1, <1>4 DEF Overflow
  <2>4. Cardinality(D) = overflow
    BY <1>1, <2>2, <2>3 DEF Smaller
  <2>5. IsFiniteSet(D) /\ IsFiniteSet(table \ D)
    BY <2>2, FS_Subset
  <2>6. Cardinality(table \ D) = count - Cardinality(D)
    <3>1. /\ D \cup (table \ D) = table
          /\ D \cap (table \ D) = {}
      BY <2>2
    <3>2. Cardinality(table) = Cardinality(D) + Cardinality(table \ D) - Cardinality({})
      BY <3>1, <2>5, FS_Union
    <3>3. Cardinality({}) = 0 /\ Cardinality(table \ D) \in Nat
      BY <2>5, FS_EmptySet, FS_CardinalityType
    <3> QED BY <3>2, <3>3, <2>3, <2>4
  <2>7. Cardinality(table \ D) = MaxStoredEnvelopes
    BY <1>1, <2>3, <2>4, <2>6
  <2>8. Larger(0, count - Cardinality(D)) = Cardinality(table \ D)
    BY <1>1, <2>6, <2>7 DEF Larger
  <2>9. count > MaxStoredEnvelopes
    BY <1>1, <1>4, <2>3
  <2>10. /\ Cardinality(rows') <= MaxStoredEnvelopes
         /\ envelopeCount' = Cardinality(rows')
         /\ countCache' = Cardinality(rows')
    BY <1>1, <2>1, <2>7, <2>8
  <2> QED BY <2>1, <2>2, <2>5, <2>9, <2>10
<1> QED BY <1>2, <1>3, <1>4 DEF PruneCapacity

\* A counter that was right is right after the rows are deleted.
LEMMA CountAfterDeletion ==
    ASSUME NEW table, IsFiniteSet(table), NEW deleted \in SUBSET table
    PROVE  /\ IsFiniteSet(table \ deleted)
           /\ Cardinality(table \ deleted) \in Nat
           /\ Cardinality(table \ deleted) <= Cardinality(table)
           /\ CountAfterDeleting(Cardinality(table), deleted) = Cardinality(table \ deleted)
           /\ \A cache \in {None, Cardinality(table)} :
                 CacheAfterDeleting(cache, deleted) =
                    IF cache = None THEN None ELSE Cardinality(table \ deleted)
<1>1. IsFiniteSet(deleted) /\ IsFiniteSet(table \ deleted)
  BY FS_Subset
<1>2. /\ Cardinality(table) \in Nat
      /\ Cardinality(deleted) \in Nat
      /\ Cardinality(table \ deleted) \in Nat
  BY <1>1, FS_CardinalityType
<1>3. Cardinality(table \ deleted) = Cardinality(table) - Cardinality(deleted)
  <2>1. deleted \cup (table \ deleted) = table /\ deleted \cap (table \ deleted) = {}
    OBVIOUS
  <2>2. Cardinality(table) =
            Cardinality(deleted) + Cardinality(table \ deleted) - Cardinality({})
    BY <1>1, <2>1, FS_Union
  <2> QED BY <1>2, <2>2, FS_EmptySet
<1>4. Larger(0, Cardinality(table) - Cardinality(deleted)) = Cardinality(table \ deleted)
  BY <1>2, <1>3 DEF Larger
<1>5. CountAfterDeleting(Cardinality(table), deleted) = Cardinality(table \ deleted)
  BY <1>4 DEF CountAfterDeleting
<1>6. \A cache \in {None, Cardinality(table)} :
          CacheAfterDeleting(cache, deleted) =
             IF cache = None THEN None ELSE Cardinality(table \ deleted)
  BY <1>4 DEF CacheAfterDeleting
<1> QED BY <1>1, <1>2, <1>3, <1>5, <1>6

\* The caches answer what the tables hold.
LEMMA CachesAnswer ==
    ASSUME LogInv, NEW e \in Endpoints
    PROVE  /\ NewestSequence(e) = cursors[e]
           /\ AcknowledgedSequence(e) = acks[e]
           /\ cursors[e] \in Nat
           /\ acks[e] \in Nat
BY NoneAssumption
   DEF LogInv, LogTypeOK, CountsCoherent, NewestSequence, AcknowledgedSequence

-----------------------------------------------------------------------------
(* Each operation preserves the invariant.                                 *)

LEMMA InitEstablishes == Init => LogInv
<1> SUFFICES ASSUME Init PROVE LogInv
  OBVIOUS
<1>1. LogTypeOK
  BY DEF Init, LogTypeOK
<1>2. IsFiniteSet(rows) /\ Cardinality(rows) = 0
  BY FS_EmptySet DEF Init
<1>3. CountsCoherent
  BY <1>2 DEF Init, CountsCoherent
<1>4. WithinCapacity
  BY <1>2, PolicyAssumption DEF WithinCapacity
<1>5. AcknowledgedRowsAreGone
  BY OppositeIsEndpoint DEF Init, AcknowledgedRowsAreGone, Stored
<1>6. Ordered(rows, cursors, now)
  BY DEF Init, Ordered
<1> QED BY <1>1, <1>2, <1>3, <1>4, <1>5, <1>6 DEF LogInv

\* A publication that is not inserted only fills a cache.
LEMMA RefusedPublication ==
    ASSUME LogInv, UNCHANGED <<now, acks, ackCache>>, NEW e \in Endpoints,
           newestCache' = [newestCache EXCEPT ![e] = NewestSequence(e)],
           UNCHANGED <<rows, cursors, envelopeCount, countCache>>
    PROVE  LogInv'
<1>1. LogTypeOK'
  BY CachesAnswer DEF LogInv, LogTypeOK
<1>2. CountsCoherent'
  BY CachesAnswer DEF LogInv, LogTypeOK, CountsCoherent
<1> QED BY <1>1, <1>2
        DEF LogInv, WithinCapacity, AcknowledgedRowsAreGone, Ordered, Stored

\* The row of an inserted envelope extends its stream.
LEMMA InsertionKeepsOrder ==
    ASSUME LogInv, NEW e \in Endpoints, NEW p \in Payloads,
           NEW row, row = [sender |-> e, sequence |-> cursors[e] + 1,
                           payload |-> p, createdAt |-> now]
    PROVE  /\ row \in Row
           /\ row \notin rows
           /\ Ordered(rows \cup {row}, [cursors EXCEPT ![e] = @ + 1], now)
<1> DEFINE table == rows \cup {row}
           newest == [cursors EXCEPT ![e] = @ + 1]
<1>1. /\ cursors \in [Endpoints -> Nat] /\ cursors[e] \in Nat
      /\ now \in Nat /\ rows \subseteq Row
  BY DEF LogInv, LogTypeOK
<1>2. row \in Row
  BY <1>1 DEF Row
<1>3. \A r \in rows : /\ r.sender \in Endpoints /\ r.sequence \in Nat /\ r.createdAt \in Nat
                      /\ r.sequence <= cursors[r.sender] /\ r.createdAt <= now
  BY <1>1, RowFields DEF LogInv, Ordered
<1>4. row.sender = e /\ row.sequence = cursors[e] + 1 /\ row.createdAt = now
  OBVIOUS
<1>5. \A r \in rows : r.sender = e => r.sequence < row.sequence
  BY <1>1, <1>3, <1>4
<1>6. row \notin rows
  BY <1>1, <1>4, <1>5
<1>7. \A x \in Endpoints : newest[x] = IF x = e THEN cursors[e] + 1 ELSE cursors[x]
  BY <1>1
<1>8. \A r \in table : r.sequence <= newest[r.sender] /\ r.createdAt <= now
  BY <1>1, <1>3, <1>4, <1>7
<1>9. ASSUME NEW r \in table, NEW q \in table, r.sender = q.sender
      PROVE  /\ r.sequence = q.sequence => r = q
             /\ r.sequence < q.sequence => r.createdAt <= q.createdAt
  <2>1. CASE r \in rows /\ q \in rows
    BY <1>9, <2>1 DEF LogInv, Ordered
  <2>2. CASE r = row /\ q \in rows
    <3>1. q.sequence < r.sequence /\ q.sequence \in Nat /\ r.sequence \in Nat
      BY <1>1, <1>3, <1>4, <1>5, <1>9, <2>2
    <3> QED BY <3>1
  <2>3. CASE r \in rows /\ q = row
    <3>1. r.sequence < q.sequence /\ q.sequence \in Nat /\ r.sequence \in Nat
      BY <1>1, <1>3, <1>4, <1>5, <1>9, <2>3
    <3>2. r.createdAt <= q.createdAt
      BY <1>3, <1>4, <2>3
    <3> QED BY <3>1, <3>2
  <2>4. CASE r = row /\ q = row
    BY <1>1, <1>4, <2>4
  <2> QED BY <2>1, <2>2, <2>3, <2>4
<1>10. ASSUME NEW r \in table, NEW n \in r.sequence..newest[r.sender]
       PROVE  \E q \in table : q.sender = r.sender /\ q.sequence = n
  <2>1. CASE r = row
    <3>1. n = row.sequence
      BY <1>1, <1>4, <1>7, <2>1
    <3> QED BY <2>1, <3>1
  <2>2. CASE r \in rows /\ n <= cursors[r.sender]
    <3>1. n \in r.sequence..cursors[r.sender]
      BY <1>1, <1>3, <2>2
    <3> QED BY <2>2, <3>1 DEF LogInv, Ordered
  <2>3. CASE r \in rows /\ ~(n <= cursors[r.sender])
    <3>1. r.sender = e /\ n = row.sequence
      BY <1>1, <1>3, <1>4, <1>7, <2>3
    <3> QED BY <1>4, <3>1
  <2> QED BY <2>1, <2>2, <2>3
<1> QED BY <1>2, <1>6, <1>8, <1>9, <1>10 DEF Ordered

\* An insertion extends the table by its row, and then the oldest rows go, if any.
LEMMA InsertionPruned ==
    ASSUME LogInv,
           NEW e \in Endpoints, NEW s \in Nat, NEW p \in Payloads,
           PublishEnvelope(e, s, p), PublishResult(e, s, p) = "inserted",
           NEW row, row = [sender |-> e, sequence |-> cursors[e] + 1,
                           payload |-> p, createdAt |-> now]
    PROVE  /\ cursors' = [cursors EXCEPT ![e] = @ + 1]
           /\ newestCache' = [newestCache EXCEPT ![e] = cursors[e] + 1]
           /\ \E deleted \in SUBSET (rows \cup {row}) :
                 /\ rows' = (rows \cup {row}) \ deleted
                 /\ \A r \in deleted, q \in rows' : Older(r, q)
                 /\ deleted # {} => Cardinality(rows) = MaxStoredEnvelopes
                 /\ IsFiniteSet(rows')
                 /\ Cardinality(rows') <= MaxStoredEnvelopes
                 /\ envelopeCount' = Cardinality(rows')
                 /\ countCache' = Cardinality(rows')
<1> DEFINE table == rows \cup {row}
           cache == IF countCache = None THEN envelopeCount + 1 ELSE countCache + 1
<1>1. NewestSequence(e) = cursors[e] /\ cursors[e] \in Nat
  BY CachesAnswer
<1>2. s = cursors[e] + 1
  BY <1>1 DEF PublishResult
<1>3. /\ cursors' = [cursors EXCEPT ![e] = Larger(@, s)]
      /\ newestCache' = [newestCache EXCEPT ![e] = s]
      /\ PruneCapacity(table, envelopeCount + 1, cache)
  BY <1>2 DEF PublishEnvelope
<1>4. Larger(cursors[e], s) = cursors[e] + 1
  BY <1>1, <1>2 DEF Larger
<1>5. /\ IsFiniteSet(rows) /\ Cardinality(rows) = envelopeCount
      /\ Cardinality(rows) \in Nat /\ Cardinality(rows) <= MaxStoredEnvelopes
      /\ countCache \in {None, envelopeCount}
  BY FS_CardinalityType DEF LogInv, CountsCoherent, WithinCapacity
<1>6. /\ IsFiniteSet(table)
      /\ Cardinality(table) = envelopeCount + 1
      /\ cache \in {None, Cardinality(table)}
  <2>1. row \notin rows
    BY InsertionKeepsOrder
  <2>2. IsFiniteSet(table) /\ Cardinality(table) = envelopeCount + 1
    BY <1>5, <2>1, FS_AddElement
  <2> QED BY <1>5, <2>2
<1>7. PICK deleted \in SUBSET table :
          /\ rows' = table \ deleted
          /\ \A r \in deleted, q \in table \ deleted : Older(r, q)
          /\ deleted # {} => Cardinality(table) > MaxStoredEnvelopes
          /\ IsFiniteSet(rows')
          /\ Cardinality(rows') <= MaxStoredEnvelopes
          /\ envelopeCount' = Cardinality(rows')
          /\ countCache' = Cardinality(rows')
  <2>1. PruneCapacity(table, Cardinality(table), cache)
    BY <1>3, <1>6
  <2> HIDE DEF table, cache
  <2> QED BY <2>1, <1>6, CapacityPruned
<1>8. deleted # {} => Cardinality(rows) = MaxStoredEnvelopes
  BY <1>5, <1>6, <1>7, PolicyAssumption
<1> QED BY <1>2, <1>3, <1>4, <1>7, <1>8

LEMMA PublishPreserves ==
    ASSUME LogInv, UNCHANGED now,
           NEW e \in Endpoints, NEW s \in Nat, NEW p \in Payloads,
           PublishEnvelope(e, s, p)
    PROVE  LogInv'
<1> DEFINE row == [sender |-> e, sequence |-> cursors[e] + 1,
                   payload |-> p, createdAt |-> now]
           table == rows \cup {row}
<1>1. NewestSequence(e) = cursors[e] /\ cursors[e] \in Nat
  BY CachesAnswer
<1>2. CASE PublishResult(e, s, p) # "inserted"
  <2>1. /\ newestCache' = [newestCache EXCEPT ![e] = NewestSequence(e)]
        /\ UNCHANGED <<rows, cursors, envelopeCount, countCache, acks, ackCache>>
    BY <1>2 DEF PublishEnvelope
  <2> QED BY <2>1, RefusedPublication
<1>3. CASE PublishResult(e, s, p) = "inserted"
  <2>2. /\ UNCHANGED <<acks, ackCache>>
        /\ newestCache' = [newestCache EXCEPT ![e] = cursors[e] + 1]
        /\ cursors' = [cursors EXCEPT ![e] = @ + 1]
    BY <1>3, InsertionPruned DEF PublishEnvelope
  <2>4. /\ row \in Row
        /\ row \notin rows
        /\ Ordered(table, cursors', now)
    BY <2>2, InsertionKeepsOrder
  <2>6. PICK deleted \in SUBSET table :
            /\ rows' = table \ deleted
            /\ \A r \in deleted, q \in table \ deleted : Older(r, q)
            /\ IsFiniteSet(rows')
            /\ Cardinality(rows') <= MaxStoredEnvelopes
            /\ envelopeCount' = Cardinality(rows')
            /\ countCache' = Cardinality(rows')
    <3>1. row = [sender |-> e, sequence |-> cursors[e] + 1,
                 payload |-> p, createdAt |-> now]
      OBVIOUS
    <3> HIDE DEF row
    <3> QED BY <1>3, <3>1, InsertionPruned
  <2>7. table \subseteq Row /\ cursors' \in [Endpoints -> Nat] /\ now \in Nat
    BY <1>1, <2>2, <2>4 DEF LogInv, LogTypeOK
  <2>8. Ordered(rows', cursors', now')
    <3> HIDE DEF table
    <3>1. LowerPart(table, deleted)
      BY <2>4, <2>6, <2>7, OlderIsLower
    <3> QED BY <2>4, <2>6, <2>7, <3>1, DeletionKeepsOrder
  <2>9. LogTypeOK'
    <3>1. envelopeCount' \in Nat /\ countCache' \in Nat
      BY <2>6, FS_CardinalityType
    <3>2. newestCache' \in [Endpoints -> Nat \cup {None}]
      BY <2>2 DEF LogInv, LogTypeOK
    <3>3. rows' \subseteq Row
      BY <2>6, <2>7
    <3> QED BY <3>1, <3>2, <3>3, <2>2, <2>7 DEF LogInv, LogTypeOK
  <2>10. CountsCoherent'
    <3>1. \A x \in Endpoints : newestCache'[x] \in {None, cursors'[x]}
      BY <1>1, <2>2 DEF LogInv, LogTypeOK, CountsCoherent
    <3>2. \A x \in Endpoints : ackCache'[x] \in {None, acks'[x]}
      BY <2>2 DEF LogInv, CountsCoherent
    <3> QED BY <2>6, <3>1, <3>2 DEF CountsCoherent
  <2>11. AcknowledgedRowsAreGone'
    <3> SUFFICES ASSUME NEW x \in Endpoints
                 PROVE  /\ acks'[x] <= cursors'[opposite(x)]
                        /\ \A r \in Stored(opposite(x))' : r.sequence > acks'[x]
      BY DEF AcknowledgedRowsAreGone
    <3>1. /\ acks[x] <= cursors[opposite(x)]
          /\ \A r \in rows : r.sender = opposite(x) => r.sequence > acks[x]
          /\ acks[x] \in Nat /\ cursors[opposite(x)] \in Nat
      BY CachesAnswer, OppositeIsEndpoint DEF LogInv, AcknowledgedRowsAreGone, Stored
    <3>2. acks'[x] = acks[x]
      BY <2>2
    <3>3. acks'[x] <= cursors'[opposite(x)]
      <4>1. cursors'[opposite(x)] =
               IF opposite(x) = e THEN cursors[e] + 1 ELSE cursors[opposite(x)]
        BY <2>2, OppositeIsEndpoint DEF LogInv, LogTypeOK
      <4> QED BY <1>1, <3>1, <3>2, <4>1
    <3>4. ASSUME NEW r \in Stored(opposite(x))' PROVE r.sequence > acks'[x]
      <4>1. r \in table /\ r.sender = opposite(x)
        BY <2>6 DEF Stored
      <4>2. CASE r = row
        BY <1>1, <3>1, <3>2, <4>1, <4>2
      <4>3. CASE r \in rows
        BY <3>1, <3>2, <4>1, <4>3
      <4> QED BY <4>1, <4>2, <4>3
    <3> QED BY <3>3, <3>4
  <2> QED BY <2>6, <2>8, <2>9, <2>10, <2>11 DEF LogInv, WithinCapacity
<1> QED BY <1>2, <1>3

\* acknowledge() deletes the start of the opposite stream, up to what was published.
LEMMA AcknowledgePreserves ==
    ASSUME LogInv, UNCHANGED now,
           NEW e \in Endpoints, NEW n \in Nat,
           Acknowledge(e, n)
    PROVE  LogInv'
<1> DEFINE source == opposite(e)
           upTo == AcknowledgedUpTo(e, n)
           deleted == {r \in Stored(source) : r.sequence <= upTo}
<1>1. /\ acks' = [acks EXCEPT ![e] = Larger(@, upTo)]
      /\ rows' = rows \ deleted
      /\ envelopeCount' = CountAfterDeleting(envelopeCount, deleted)
      /\ countCache' = CacheAfterDeleting(countCache, deleted)
      /\ ackCache' = [ackCache EXCEPT ![e] = upTo]
      /\ newestCache' = [newestCache EXCEPT ![source] = NewestSequence(source)]
      /\ cursors' = cursors
  BY DEF Acknowledge
<1>2. /\ source \in Endpoints /\ opposite(source) = e /\ source # e
      /\ NewestSequence(source) = cursors[source] /\ cursors[source] \in Nat
      /\ AcknowledgedSequence(e) = acks[e] /\ acks[e] \in Nat
      /\ acks[e] <= cursors[source]
  BY OppositeIsEndpoint, CachesAnswer DEF LogInv, AcknowledgedRowsAreGone
<1>3. upTo \in Nat /\ acks[e] <= upTo /\ upTo <= cursors[source]
  BY <1>2 DEF AcknowledgedUpTo, Larger, Smaller
<1>4. acks' = [acks EXCEPT ![e] = upTo]
  <2>1. Larger(acks[e], upTo) = upTo
    BY <1>2, <1>3 DEF Larger
  <2> QED BY <1>1, <2>1
<1>5. deleted \in SUBSET rows
  BY DEF Stored
<1>6. rows \subseteq Row /\ IsFiniteSet(rows) /\ envelopeCount = Cardinality(rows)
      /\ Ordered(rows, cursors, now) /\ cursors \in [Endpoints -> Nat] /\ now \in Nat
  BY DEF LogInv, LogTypeOK, CountsCoherent
<1>7. Ordered(rows', cursors', now')
  <2>1. LowerPart(rows, deleted)
    <3> SUFFICES ASSUME NEW r \in deleted, NEW q \in rows \ deleted, r.sender = q.sender
                 PROVE  r.sequence < q.sequence
      BY DEF LowerPart
    <3>1. r.sender = source /\ r.sequence <= upTo /\ r.sequence \in Nat /\ q.sequence \in Nat
      BY <1>5, <1>6, RowFields DEF Stored
    <3>2. ~(q.sequence <= upTo)
      BY <3>1 DEF Stored
    <3> QED BY <1>3, <3>1, <3>2
  <2> HIDE DEF deleted
  <2> QED BY <1>1, <1>5, <1>6, <2>1, DeletionKeepsOrder
<1>8. /\ IsFiniteSet(rows')
      /\ Cardinality(rows') \in Nat
      /\ Cardinality(rows') <= Cardinality(rows)
      /\ envelopeCount' = Cardinality(rows')
      /\ countCache' \in {None, envelopeCount'}
  <2> HIDE DEF deleted
  <2>1. /\ IsFiniteSet(rows \ deleted)
        /\ Cardinality(rows \ deleted) \in Nat
        /\ Cardinality(rows \ deleted) <= Cardinality(rows)
        /\ CountAfterDeleting(Cardinality(rows), deleted) = Cardinality(rows \ deleted)
        /\ \A cache \in {None, Cardinality(rows)} :
              CacheAfterDeleting(cache, deleted) =
                 IF cache = None THEN None ELSE Cardinality(rows \ deleted)
    BY <1>5, <1>6, CountAfterDeletion
  <2>2. countCache \in {None, Cardinality(rows)}
    BY DEF LogInv, CountsCoherent
  <2> QED BY <1>1, <1>6, <2>1, <2>2
<1>9. WithinCapacity'
  <2>1. Cardinality(rows) \in Nat /\ Cardinality(rows) <= MaxStoredEnvelopes
    BY <1>6, FS_CardinalityType DEF LogInv, WithinCapacity
  <2> QED BY <1>8, <2>1, PolicyAssumption DEF WithinCapacity
<1>10. LogTypeOK'
  <2>1. /\ acks' \in [Endpoints -> Nat]
        /\ ackCache' \in [Endpoints -> Nat \cup {None}]
        /\ newestCache' \in [Endpoints -> Nat \cup {None}]
    BY <1>1, <1>2, <1>3, <1>4 DEF LogInv, LogTypeOK
  <2>2. rows' \subseteq Row
    BY <1>1, <1>6
  <2> QED BY <1>1, <1>6, <1>8, <2>1, <2>2 DEF LogTypeOK
<1>11. CountsCoherent'
  <2>1. \A x \in Endpoints : newestCache'[x] \in {None, cursors'[x]}
    BY <1>1, <1>2 DEF LogInv, LogTypeOK, CountsCoherent
  <2>2. \A x \in Endpoints : ackCache'[x] \in {None, acks'[x]}
    BY <1>1, <1>4 DEF LogInv, LogTypeOK, CountsCoherent
  <2> QED BY <1>8, <2>1, <2>2 DEF CountsCoherent
<1>12. AcknowledgedRowsAreGone'
  <2> SUFFICES ASSUME NEW x \in Endpoints
               PROVE  /\ acks'[x] <= cursors'[opposite(x)]
                      /\ \A r \in Stored(opposite(x))' : r.sequence > acks'[x]
    BY DEF AcknowledgedRowsAreGone
  <2>1. CASE x = e
    <3>1. acks'[x] = upTo
      BY <1>4, <2>1 DEF LogInv, LogTypeOK
    <3>2. ASSUME NEW r \in Stored(opposite(x))' PROVE r.sequence > acks'[x]
      <4>1. r \in rows /\ r \notin deleted /\ r.sender = source
        BY <1>1, <2>1 DEF Stored
      <4>2. r.sequence \in Nat /\ ~(r.sequence <= upTo)
        BY <1>6, <4>1, RowFields DEF Stored
      <4> QED BY <1>3, <3>1, <4>2
    <3> QED BY <1>1, <1>3, <2>1, <3>1, <3>2
  <2>2. CASE x # e
    <3>1. acks'[x] = acks[x]
      BY <1>4, <2>2 DEF LogInv, LogTypeOK
    <3>2. Stored(opposite(x))' \subseteq Stored(opposite(x))
      BY <1>1 DEF Stored
    <3> QED BY <1>1, <3>1, <3>2 DEF LogInv, AcknowledgedRowsAreGone
  <2> QED BY <2>1, <2>2
<1> QED BY <1>7, <1>8, <1>9, <1>10, <1>11, <1>12 DEF LogInv

\* Fewer rows and the same cursors and acknowledgements.
LEMMA DeletionKeepsAcknowledged ==
    ASSUME AcknowledgedRowsAreGone, rows' \subseteq rows, UNCHANGED <<cursors, acks>>
    PROVE  AcknowledgedRowsAreGone'
<1>1. \A x \in Endpoints : Stored(opposite(x))' \subseteq Stored(opposite(x))
  BY DEF Stored
<1> QED BY <1>1 DEF AcknowledgedRowsAreGone

\* The retention period ends for the start of each stream, and then the capacity
\* limit finds nothing left to delete, or again the oldest.
LEMMA PruneExpiredPreserves ==
    ASSUME LogInv, UNCHANGED now, PruneExpired
    PROVE  /\ LogInv'
           /\ \A r \in rows \ rows' : r.createdAt <= RetentionCutoff
<1> DEFINE expired == {r \in rows : r.createdAt <= RetentionCutoff}
           count == CountAfterDeleting(envelopeCount, expired)
           cache == IF countCache = None THEN count
                    ELSE CacheAfterDeleting(countCache, expired)
           table == rows \ expired
<1>1. /\ PruneCapacity(table, count, cache)
      /\ UNCHANGED <<cursors, acks, newestCache, ackCache>>
  BY DEF PruneExpired
<1>2. /\ rows \subseteq Row /\ IsFiniteSet(rows) /\ envelopeCount = Cardinality(rows)
      /\ Ordered(rows, cursors, now) /\ cursors \in [Endpoints -> Nat] /\ now \in Nat
      /\ countCache \in {None, Cardinality(rows)}
      /\ Cardinality(rows) \in Nat /\ Cardinality(rows) <= MaxStoredEnvelopes
  BY FS_CardinalityType DEF LogInv, LogTypeOK, CountsCoherent, WithinCapacity
<1>3. expired \in SUBSET rows
  OBVIOUS
<1>4. RetentionCutoff \in Int
  BY <1>2, PolicyAssumption DEF RetentionCutoff
<1>5. Ordered(table, cursors, now)
  <2>1. LowerPart(rows, expired)
    <3> SUFFICES ASSUME NEW r \in expired, NEW q \in rows \ expired, r.sender = q.sender
                 PROVE  r.sequence < q.sequence
      BY DEF LowerPart
    <3>1. /\ r.createdAt \in Nat /\ q.createdAt \in Nat
          /\ r.sequence \in Nat /\ q.sequence \in Nat
      BY <1>2, RowFields
    <3>2. r.createdAt < q.createdAt
      BY <1>4, <3>1
    <3>3. q.sequence < r.sequence => q.createdAt <= r.createdAt
      BY <1>2 DEF Ordered
    <3>4. q.sequence # r.sequence
      BY <1>2, <3>1, <3>2 DEF Ordered
    <3> QED BY <3>1, <3>2, <3>3, <3>4
  <2> HIDE DEF expired
  <2> QED BY <1>2, <1>3, <2>1, DeletionKeepsOrder
<1>6. /\ IsFiniteSet(table)
      /\ Cardinality(table) \in Nat
      /\ Cardinality(table) <= MaxStoredEnvelopes
      /\ count = Cardinality(table)
      /\ cache = Cardinality(table)
  <2> HIDE DEF expired
  <2>1. /\ IsFiniteSet(rows \ expired)
        /\ Cardinality(rows \ expired) \in Nat
        /\ Cardinality(rows \ expired) <= Cardinality(rows)
        /\ CountAfterDeleting(Cardinality(rows), expired) = Cardinality(rows \ expired)
        /\ \A c \in {None, Cardinality(rows)} :
              CacheAfterDeleting(c, expired) =
                 IF c = None THEN None ELSE Cardinality(rows \ expired)
    BY <1>2, <1>3, CountAfterDeletion
  <2> QED BY <1>2, <2>1, PolicyAssumption
<1>7. PICK deleted \in SUBSET table :
          /\ rows' = table \ deleted
          /\ \A r \in deleted, q \in table \ deleted : Older(r, q)
          /\ deleted # {} => Cardinality(table) > MaxStoredEnvelopes
          /\ IsFiniteSet(rows')
          /\ Cardinality(rows') <= MaxStoredEnvelopes
          /\ envelopeCount' = Cardinality(rows')
          /\ countCache' = Cardinality(rows')
  <2>1. PruneCapacity(table, Cardinality(table), cache)
    BY <1>1, <1>6
  <2>2. cache \in {None, Cardinality(table)}
    BY <1>6
  <2> HIDE DEF table, cache
  <2> QED BY <1>6, <2>1, <2>2, CapacityPruned
<1>8. deleted = {}
  BY <1>6, <1>7, PolicyAssumption
<1>9. rows' = table
  BY <1>7, <1>8
<1>10. \A r \in rows \ rows' : r.createdAt <= RetentionCutoff
  BY <1>9
<1>11. LogTypeOK'
  <2>1. envelopeCount' \in Nat /\ countCache' \in Nat
    BY <1>7, FS_CardinalityType
  <2> QED BY <1>1, <1>9, <2>1 DEF LogInv, LogTypeOK
<1>12. CountsCoherent'
  BY <1>1, <1>7 DEF LogInv, CountsCoherent
<1>13. AcknowledgedRowsAreGone'
  BY <1>1, <1>9, DeletionKeepsAcknowledged DEF LogInv
<1> QED BY <1>1, <1>5, <1>7, <1>9, <1>10, <1>11, <1>12, <1>13 DEF LogInv, WithinCapacity

\* Resume, Hello and Evict touch nothing but caches.
LEMMA CacheStepPreserves ==
    ASSUME LogInv,
           \/ \E e \in Endpoints : Resume(e)
           \/ \E e \in Endpoints : Hello(e)
           \/ Evict,
           UNCHANGED now
    PROVE  LogInv'
<1>1. UNCHANGED <<rows, cursors, acks, envelopeCount>>
  BY DEF Resume, Hello, Evict
<1>2. /\ newestCache' \in [Endpoints -> Nat \cup {None}]
      /\ ackCache' \in [Endpoints -> Nat \cup {None}]
      /\ countCache' \in {None, envelopeCount}
      /\ \A x \in Endpoints : newestCache'[x] \in {None, cursors[x]}
      /\ \A x \in Endpoints : ackCache'[x] \in {None, acks[x]}
  BY CachesAnswer DEF LogInv, LogTypeOK, CountsCoherent, Resume, Hello, Evict
<1>3. LogTypeOK'
  BY <1>1, <1>2 DEF LogInv, LogTypeOK
<1>4. CountsCoherent'
  BY <1>1, <1>2 DEF LogInv, CountsCoherent
<1>5. AcknowledgedRowsAreGone'
  BY <1>1, DeletionKeepsAcknowledged DEF LogInv
<1> QED BY <1>1, <1>3, <1>4, <1>5 DEF LogInv, WithinCapacity

LEMMA TickPreserves == LogInv /\ Tick => LogInv'
<1> SUFFICES ASSUME LogInv, Tick PROVE LogInv'
  OBVIOUS
<1>1. UNCHANGED logVars /\ now' = now + 1 /\ now \in Nat /\ rows \subseteq Row
  BY DEF Tick, LogInv, LogTypeOK
<1>2. LogTypeOK'
  BY <1>1 DEF LogInv, LogTypeOK, logVars
<1>3. CountsCoherent' /\ WithinCapacity'
  BY <1>1 DEF LogInv, CountsCoherent, WithinCapacity, logVars
<1>4. AcknowledgedRowsAreGone'
  BY <1>1, DeletionKeepsAcknowledged DEF LogInv, logVars
<1>5. Ordered(rows, cursors, now + 1)
  <2>1. \A r \in rows : r.createdAt <= now + 1
    BY <1>1, RowFields DEF LogInv, Ordered
  <2> QED BY <2>1 DEF LogInv, Ordered
<1> QED BY <1>1, <1>2, <1>3, <1>4, <1>5 DEF LogInv, logVars

LEMMA NextPreserves == LogInv /\ [Next]_vars => LogInv'
<1> SUFFICES ASSUME LogInv, [Next]_vars PROVE LogInv'
  OBVIOUS
<1>1. ASSUME NEW e \in Endpoints, NEW s \in 1..MaxSequence, NEW p \in Payloads,
             PublishEnvelope(e, s, p), UNCHANGED now
      PROVE  LogInv'
  BY <1>1, BoundAssumption, PublishPreserves
<1>2. ASSUME NEW e \in Endpoints, NEW n \in 0..MaxSequence, Acknowledge(e, n), UNCHANGED now
      PROVE  LogInv'
  BY <1>2, BoundAssumption, AcknowledgePreserves
<1>3. CASE PruneExpired /\ UNCHANGED now
  BY <1>3, PruneExpiredPreserves
<1>4. ASSUME NEW e \in Endpoints, Resume(e) \/ Hello(e), UNCHANGED now
      PROVE  LogInv'
  BY <1>4, CacheStepPreserves
<1>5. CASE Evict /\ UNCHANGED now
  BY <1>5, CacheStepPreserves
<1>6. CASE Tick
  BY <1>6, TickPreserves
<1>7. CASE UNCHANGED vars
  BY <1>7 DEF vars, logVars, LogInv, LogTypeOK, CountsCoherent, WithinCapacity,
              AcknowledgedRowsAreGone, Ordered, Stored
<1> QED BY <1>1, <1>2, <1>3, <1>4, <1>5, <1>6, <1>7 DEF Next, Operation

-----------------------------------------------------------------------------
(* Replay.                                                                 *)

\* The sequences stored of one stream: naturals, finitely many, a run that ends at
\* the cursor.
LEMMA StoredRun ==
    ASSUME LogInv, NEW source \in Endpoints
    PROVE  /\ StoredSequences(source) \in SUBSET Nat
           /\ \A n \in StoredSequences(source) : n >= 1 /\ n <= cursors[source]
           /\ \A n \in StoredSequences(source) : n..cursors[source] \subseteq StoredSequences(source)
<1>1. \A r \in Stored(source) :
          /\ r \in rows /\ r.sender = source /\ r.sequence \in Nat
          /\ r.sequence <= cursors[source]
          /\ r.sequence > acks[opposite(source)]
  BY OppositeIsEndpoint, RowFields
     DEF LogInv, LogTypeOK, Ordered, Stored, AcknowledgedRowsAreGone
<1>2. acks[opposite(source)] \in Nat
  BY OppositeIsEndpoint DEF LogInv, LogTypeOK
<1>3. ASSUME NEW n \in StoredSequences(source), NEW m \in n..cursors[source]
      PROVE  m \in StoredSequences(source)
  <2>1. PICK r \in Stored(source) : r.sequence = n
    BY DEF StoredSequences
  <2>2. \E q \in rows : q.sender = source /\ q.sequence = m
    BY <1>1, <2>1 DEF LogInv, Ordered
  <2> QED BY <2>2 DEF StoredSequences, Stored
<1>4. StoredSequences(source) \in SUBSET Nat
  BY <1>1 DEF StoredSequences
<1>5. \A n \in StoredSequences(source) : n >= 1 /\ n <= cursors[source]
  BY <1>1, <1>2 DEF StoredSequences
<1> QED BY <1>3, <1>4, <1>5

LEMMA InvariantImpliesReplayGapFree == LogInv => ReplayGapFree
<1> SUFFICES ASSUME LogInv, NEW e \in Endpoints, NEW requested \in 0..MaxSequence
             PROVE  LET source == opposite(e)
                        frames == ReplayFrames(e, requested)
                        stored == StoredSequences(source)
                    IN  /\ \A s \in frames.sent :
                              \A t \in (frames.cursor + 1)..s :
                                  t \in frames.sent \/ (frames.truncated /\ t \notin stored)
                        /\ (stored # {} /\ frames.cursor < cursors[source]) => frames.sent # {}
                        /\ ~frames.more =>
                              (stored = {} \/ frames.cursor >= cursors[source]
                                           \/ cursors[source] \in frames.sent)
  BY DEF ReplayGapFree
<1> DEFINE source == opposite(e)
           stored == StoredSequences(source)
           cursor == Larger(requested, AcknowledgedSequence(e))
           oldest == IF stored = {} THEN 0
                     ELSE CHOOSE s \in stored : \A t \in stored : s <= t
           pending == {s \in stored : s > cursor}
           upTo(s) == {t \in pending : t <= s}
           page == {s \in pending : Cardinality(upTo(s)) <= MaxReplayEnvelopes}
           frames == ReplayFrames(e, requested)
<1>1. /\ frames.cursor = cursor
      /\ frames.truncated = (oldest > 0 /\ cursor < oldest - 1)
      /\ frames.sent = page
      /\ frames.more = (page # pending)
  BY DEF ReplayFrames
<1>2. /\ source \in Endpoints /\ cursors[source] \in Nat
      /\ cursor \in Nat /\ MaxReplayEnvelopes \in Nat \ {0}
  <2>1. AcknowledgedSequence(e) \in Nat
    BY CachesAnswer
  <2>2. requested \in Nat
    BY BoundAssumption
  <2> QED BY <2>1, <2>2, CachesAnswer, OppositeIsEndpoint, PolicyAssumption DEF Larger
<1>3. /\ stored \in SUBSET Nat
      /\ \A n \in stored : n >= 1 /\ n <= cursors[source]
      /\ \A n \in stored : n..cursors[source] \subseteq stored
  BY <1>2, StoredRun
<1>4. stored # {} => oldest \in stored /\ \A t \in stored : oldest <= t
  BY <1>3, LeastNatural
<1>5. IsFiniteSet(pending) /\ pending \in SUBSET Nat
  <2>1. \A n \in pending : n <= cursors[source]
    BY <1>3
  <2>2. pending \in SUBSET Nat
    BY <1>3
  <2> HIDE DEF pending
  <2> QED BY <1>2, <2>1, <2>2, FS_BoundedSetOfNaturals
<1>6. ASSUME NEW s \in page, NEW t \in (cursor + 1)..s
      PROVE  t \in page \/ ((oldest > 0 /\ cursor < oldest - 1) /\ t \notin stored)
  <2>1. s \in stored /\ s \in Nat /\ t \in Nat /\ t > cursor /\ t <= s
    BY <1>2, <1>3
  <2>2. CASE t \in stored
    <3>1. t \in pending
      BY <2>1, <2>2
    <3>2. upTo(t) \in SUBSET upTo(s) /\ upTo(s) \in SUBSET pending
      BY <1>5, <2>1
    <3>3. /\ IsFiniteSet(upTo(s)) /\ IsFiniteSet(upTo(t))
          /\ Cardinality(upTo(t)) <= Cardinality(upTo(s))
      <4> HIDE DEF upTo, pending
      <4> QED BY <1>5, <3>2, FS_Subset
    <3>4. Cardinality(upTo(s)) \in Nat /\ Cardinality(upTo(t)) \in Nat
      <4> HIDE DEF upTo
      <4> QED BY <3>3, FS_CardinalityType
    <3>5. Cardinality(upTo(s)) <= MaxReplayEnvelopes
      OBVIOUS
    <3>6. Cardinality(upTo(t)) <= MaxReplayEnvelopes
      <4> HIDE DEF upTo
      <4> QED BY <1>2, <3>3, <3>4, <3>5
    <3> QED BY <3>1, <3>6
  <2>3. CASE t \notin stored
    <3>1. oldest \in stored /\ oldest \in Nat /\ oldest >= 1
      BY <1>3, <1>4, <2>1
    <3>2. t < oldest
      <4>1. SUFFICES ASSUME oldest <= t PROVE FALSE
        BY <2>1, <3>1
      <4>2. t \in oldest..cursors[source]
        BY <1>2, <1>3, <2>1, <3>1, <4>1
      <4> HIDE DEF oldest, stored
      <4> QED BY <1>3, <2>3, <3>1, <4>2
    <3> HIDE DEF oldest
    <3> QED BY <1>2, <2>1, <2>3, <3>1, <3>2
  <2> QED BY <2>2, <2>3
<1>7. ASSUME stored # {}, cursor < cursors[source]
      PROVE  page # {} /\ cursors[source] \in pending
  <2> DEFINE first == Larger(oldest, cursor + 1)
  <2>1. oldest \in stored /\ oldest \in Nat /\ oldest <= cursors[source]
    BY <1>3, <1>4, <1>7
  <2>2. /\ first \in oldest..cursors[source]
        /\ first > cursor /\ first \in Nat
        /\ first = oldest \/ first = cursor + 1
    <3> HIDE DEF oldest
    <3> QED BY <1>2, <1>7, <2>1 DEF Larger
  <2>3. first \in pending /\ cursors[source] \in pending
    <3> HIDE DEF oldest, stored, first
    <3>1. first \in stored
      BY <1>3, <2>1, <2>2
    <3>2. cursors[source] \in stored
      BY <1>2, <1>3, <2>1
    <3> QED BY <1>7, <2>2, <3>1, <3>2
  <2>4. \A t \in pending : first <= t
    <3>1. ASSUME NEW t \in pending PROVE first <= t
      <4>1. oldest <= t /\ cursor + 1 <= t /\ t \in Nat
        BY <1>2, <1>3, <1>4
      <4> HIDE DEF oldest
      <4> QED BY <2>2, <4>1
    <3> QED BY <3>1
  <2>5. upTo(first) = {first}
    <3> HIDE DEF first, pending
    <3>1. first \in upTo(first)
      BY <2>2, <2>3
    <3>2. ASSUME NEW t \in upTo(first) PROVE t = first
      BY <1>5, <2>2, <2>4
    <3> QED BY <3>1, <3>2
  <2>6. Cardinality(upTo(first)) = 1
    <3> HIDE DEF upTo, first
    <3> QED BY <2>5, FS_Singleton
  <2>7. first \in page
    <3> HIDE DEF upTo, first, pending
    <3> QED BY <1>2, <2>3, <2>6
  <2> QED BY <2>3, <2>7
<1>8. \A s \in frames.sent :
          \A t \in (frames.cursor + 1)..s :
              t \in frames.sent \/ (frames.truncated /\ t \notin stored)
  <2> HIDE DEF frames, page, pending, oldest, stored, cursor
  <2> QED BY <1>1, <1>6
<1>9. (stored # {} /\ frames.cursor < cursors[source]) => frames.sent # {}
  <2> HIDE DEF frames, page, pending, oldest, stored, cursor
  <2> QED BY <1>1, <1>7
<1>10. ~frames.more => (stored = {} \/ frames.cursor >= cursors[source]
                                    \/ cursors[source] \in frames.sent)
  <2>1. ~frames.more => page = pending
    BY ONLY <1>1, Zenon
  <2>2. ~(cursor < cursors[source]) => cursor >= cursors[source]
    BY <1>2
  <2> HIDE DEF frames, page, pending, oldest, stored, cursor
  <2> QED BY <1>1, <1>7, <2>1, <2>2
<1> QED BY <1>8, <1>9, <1>10

-----------------------------------------------------------------------------
(* The theorems.                                                           *)

\* The inductive invariant.
THEOREM LogInvariant == Spec => []LogInv
BY InitEstablishes, NextPreserves, PTL DEF Spec

\* Tables, counters and caches keep their types.
THEOREM LogTypeCorrect == Spec => []LogTypeOK
<1>1. LogInv => LogTypeOK
  BY DEF LogInv
<1> QED BY <1>1, LogInvariant, PTL

\* The counter beside the table and the three caches never disagree with the tables,
\* wherever evictions fall.
THEOREM CountsStayCoherent == Spec => []CountsCoherent
<1>1. LogInv => CountsCoherent
  BY DEF LogInv
<1> QED BY <1>1, LogInvariant, PTL

\* The table never outgrows the policy.
THEOREM CapacityIsKept == Spec => []WithinCapacity
<1>1. LogInv => WithinCapacity
  BY DEF LogInv
<1> QED BY <1>1, LogInvariant, PTL

\* Acknowledgements never run ahead of the opposite stream, and what is acknowledged
\* is deleted.
THEOREM AcknowledgedStayGone == Spec => []AcknowledgedRowsAreGone
<1>1. LogInv => AcknowledgedRowsAreGone
  BY DEF LogInv
<1> QED BY <1>1, LogInvariant, PTL

\* replay() skips no stored envelope, whatever is requested.
THEOREM ReplayIsGapFree == Spec => []ReplayGapFree
BY LogInvariant, InvariantImpliesReplayGapFree, PTL

\* A sequence number is never given to a second envelope, and neither cursors nor
\* acknowledgements go back.
THEOREM SequencesAreNotReused == Spec => NoSequenceReuse
<1> DEFINE Fresh == /\ \A r \in rows' \ rows : r.sequence > cursors[r.sender]
                    /\ \A e \in Endpoints : cursors'[e] >= cursors[e] /\ acks'[e] >= acks[e]
<1>1. LogInv /\ [Next]_vars => [Fresh]_vars
  <2> SUFFICES ASSUME LogInv, Next PROVE Fresh
    OBVIOUS
  <2>1. /\ cursors \in [Endpoints -> Nat] /\ acks \in [Endpoints -> Nat]
        /\ rows \subseteq Row
    BY DEF LogInv, LogTypeOK
  <2>2. ASSUME NEW e \in Endpoints, NEW s \in 1..MaxSequence, NEW p \in Payloads,
               PublishEnvelope(e, s, p)
        PROVE  Fresh
    <3> DEFINE row == [sender |-> e, sequence |-> NewestSequence(e) + 1,
                       payload |-> p, createdAt |-> now]
    <3>1. NewestSequence(e) = cursors[e] /\ s \in Nat
      BY CachesAnswer, BoundAssumption
    <3>2. acks' = acks /\ (cursors' = cursors \/ cursors' = [cursors EXCEPT ![e] = Larger(@, s)])
      BY <2>2 DEF PublishEnvelope
    <3>3. rows' \subseteq rows \cup {row}
      <4>1. CASE PublishResult(e, s, p) # "inserted"
        BY <2>2, <4>1 DEF PublishEnvelope
      <4>2. CASE PublishResult(e, s, p) = "inserted"
        <5>1. s = NewestSequence(e) + 1
          BY <2>1, <3>1, <4>2 DEF PublishResult
        <5>2. \E count, cache : PruneCapacity(rows \cup {row}, count, cache)
          BY <2>2, <4>2, <5>1 DEF PublishEnvelope
        <5> HIDE DEF row
        <5> QED BY <5>2 DEF PruneCapacity
      <4> QED BY <4>1, <4>2
    <3>4. row.sequence > cursors[row.sender]
      BY <2>1, <3>1
    <3>5. \A x \in Endpoints : cursors'[x] >= cursors[x] /\ acks'[x] >= acks[x]
      BY <2>1, <3>1, <3>2 DEF Larger
    <3> HIDE DEF row
    <3> QED BY <3>3, <3>4, <3>5
  <2>3. ASSUME NEW e \in Endpoints, NEW n \in 0..MaxSequence, Acknowledge(e, n)
        PROVE  Fresh
    <3>1. /\ rows' \subseteq rows /\ cursors' = cursors
          /\ acks' = [acks EXCEPT ![e] = Larger(@, AcknowledgedUpTo(e, n))]
      BY <2>3 DEF Acknowledge
    <3>2. NewestSequence(opposite(e)) \in Nat /\ AcknowledgedSequence(e) \in Nat /\ n \in Nat
      BY CachesAnswer, OppositeIsEndpoint, BoundAssumption
    <3>3. AcknowledgedUpTo(e, n) \in Nat
      BY <3>2 DEF AcknowledgedUpTo, Larger, Smaller
    <3> QED BY <2>1, <3>1, <3>3 DEF Larger
  <2>4. CASE PruneExpired
    <3>1. rows' \subseteq rows /\ UNCHANGED <<cursors, acks>>
      BY <2>4 DEF PruneExpired, PruneCapacity
    <3> QED BY <2>1, <3>1
  <2>5. CASE UNCHANGED <<rows, cursors, acks>>
    BY <2>1, <2>5
  <2> HIDE DEF Fresh
  <2> QED BY <2>2, <2>3, <2>4, <2>5 DEF Next, Operation, Resume, Hello, Evict, Tick, logVars
<1> QED BY <1>1, LogInvariant, PTL DEF Spec, NoSequenceReuse

\* An envelope that is not acknowledged is dropped only at the end of its retention
\* period, or as the oldest one of a full table.
THEOREM EnvelopesAreNotLostEarly == Spec => NoEarlyLoss
<1> DEFINE Justified(r) ==
               \/ r.sequence <= acks'[opposite(r.sender)]
               \/ r.createdAt + RetentionSeconds <= now
               \/ /\ Cardinality(rows) = MaxStoredEnvelopes
                  /\ \A q \in rows' : Older(r, q)
           Kept == \A r \in rows \ rows' : Justified(r)
<1>1. LogInv /\ [Next]_vars => [Kept]_vars
  <2> SUFFICES ASSUME LogInv, Next PROVE Kept
    OBVIOUS
  <2>1. ASSUME NEW e \in Endpoints, NEW s \in 1..MaxSequence, NEW p \in Payloads,
               PublishEnvelope(e, s, p)
        PROVE  Kept
    <3>1. CASE PublishResult(e, s, p) # "inserted"
      BY <2>1, <3>1 DEF PublishEnvelope
    <3>2. CASE PublishResult(e, s, p) = "inserted"
      <4> DEFINE row == [sender |-> e, sequence |-> cursors[e] + 1,
                         payload |-> p, createdAt |-> now]
      <4>1. s \in Nat
        BY BoundAssumption
      <4>2. PICK deleted \in SUBSET (rows \cup {row}) :
                /\ rows' = (rows \cup {row}) \ deleted
                /\ \A r \in deleted, q \in rows' : Older(r, q)
                /\ deleted # {} => Cardinality(rows) = MaxStoredEnvelopes
        <5>1. row = [sender |-> e, sequence |-> cursors[e] + 1,
                     payload |-> p, createdAt |-> now]
          OBVIOUS
        <5> HIDE DEF row, Kept
        <5> QED BY <2>1, <3>2, <4>1, <5>1, InsertionPruned
      <4> HIDE DEF row
      <4> QED BY <4>2
    <3> QED BY <3>1, <3>2
  <2>2. ASSUME NEW e \in Endpoints, NEW n \in 0..MaxSequence, Acknowledge(e, n)
        PROVE  Kept
    <3> SUFFICES ASSUME NEW r \in rows \ rows' PROVE r.sequence <= acks'[opposite(r.sender)]
      OBVIOUS
    <3>1. r.sender = opposite(e) /\ r.sequence <= AcknowledgedUpTo(e, n)
      BY <2>2 DEF Acknowledge, Stored
    <3>2. acks'[e] = Larger(acks[e], AcknowledgedUpTo(e, n))
      BY <2>2 DEF Acknowledge, LogInv, LogTypeOK
    <3>3. /\ NewestSequence(opposite(e)) \in Nat /\ AcknowledgedSequence(e) \in Nat
          /\ acks[e] \in Nat /\ n \in Nat /\ r.sequence \in Nat
      BY CachesAnswer, OppositeIsEndpoint, BoundAssumption, RowFields DEF LogInv, LogTypeOK
    <3>4. AcknowledgedUpTo(e, n) \in Nat
      BY <3>3 DEF AcknowledgedUpTo, Larger, Smaller
    <3>5. r.sequence <= acks'[e]
      BY <3>1, <3>2, <3>3, <3>4 DEF Larger
    <3> QED BY <3>1, <3>5, OppositeIsEndpoint
  <2>3. CASE PruneExpired /\ UNCHANGED now
    <3> SUFFICES ASSUME NEW r \in rows \ rows' PROVE r.createdAt + RetentionSeconds <= now
      OBVIOUS
    <3>1. r.createdAt <= RetentionCutoff /\ r.createdAt \in Nat /\ now \in Nat
      BY <2>3, PruneExpiredPreserves, RowFields DEF LogInv, LogTypeOK
    <3> QED BY <3>1, PolicyAssumption DEF RetentionCutoff
  <2>4. CASE rows' = rows
    BY <2>4
  <2> HIDE DEF Kept
  <2> QED BY <2>1, <2>2, <2>3, <2>4 DEF Next, Operation, Resume, Hello, Evict, Tick, logVars
<1> QED BY <1>1, LogInvariant, PTL DEF Spec, NoEarlyLoss

=============================================================================
