---------------------------- MODULE EnvelopeLog ----------------------------
(***************************************************************************)
(* The durable envelope log of one remote session, as the Durable Object   *)
(* SessionTunnelObject keeps it (apps/device-relay/src/session-tunnel.ts): *)
(* two streams of opaque envelopes, one per sender, each numbered from 1.  *)
(* The sender's cursor survives the rows: a row disappears when the other  *)
(* endpoint acknowledges it, when it is older than the retention period or *)
(* when the object holds too many, and its number is never used again.     *)
(*                                                                         *)
(* Three values are cached in memory and lost when the object is evicted:  *)
(* the newest sequence and the acknowledgement of each endpoint, and the   *)
(* row count, which is itself a counter kept beside the table.             *)
(*                                                                         *)
(* Who may publish is SessionTunnel's business, not this module's.         *)
(***************************************************************************)
EXTENDS Integers, FiniteSets

CONSTANTS
    Payloads,             \* what an envelope may carry: opaque, told apart by equality
    MaxStoredEnvelopes,   \* TUNNEL_POLICY.maxStoredEnvelopes
    MaxReplayEnvelopes,   \* TUNNEL_POLICY.maxReplayEnvelopes
    RetentionSeconds,     \* TUNNEL_POLICY.retentionSeconds
    MaxSequence,          \* bound: the highest sequence a sender tries
    MaxTime,              \* bound: the clock stops here
    None                  \* an empty cache, an absent row

ASSUME PolicyAssumption ==
    /\ MaxStoredEnvelopes \in Nat \ {0}
    /\ MaxReplayEnvelopes \in Nat \ {0}
    /\ RetentionSeconds \in Nat \ {0}

ASSUME BoundAssumption == MaxSequence \in Nat /\ MaxTime \in Nat

ASSUME NoneAssumption == None \notin Int

Endpoints == {"desktop", "device"}

opposite(endpoint) == IF endpoint = "desktop" THEN "device" ELSE "desktop"

VARIABLES
    now,              \* the wall clock the object reads, in seconds
    rows,             \* encrypted_envelopes
    cursors,          \* sequence_cursors: sender -> newest accepted sequence
    acks,             \* acknowledgements: endpoint -> newest acknowledged sequence
    envelopeCount,    \* tunnel_counters.envelope_count
    countCache,       \* envelopeCountCache
    newestCache,      \* newestSequenceCache
    ackCache          \* acknowledgementCache

logVars == <<rows, cursors, acks, envelopeCount, countCache, newestCache, ackCache>>
vars == <<now, logVars>>

Row == [sender: Endpoints, sequence: Nat, payload: Payloads, createdAt: Nat]

Larger(a, b) == IF a >= b THEN a ELSE b
Smaller(a, b) == IF a <= b THEN a ELSE b

Stored(sender) == {r \in rows : r.sender = sender}
StoredSequences(sender) == {r.sequence : r \in Stored(sender)}

Init ==
    /\ now = 0
    /\ rows = {}
    /\ cursors = [e \in Endpoints |-> 0]
    /\ acks = [e \in Endpoints |-> 0]
    /\ envelopeCount = 0
    /\ countCache = None
    /\ newestCache = [e \in Endpoints |-> None]
    /\ ackCache = [e \in Endpoints |-> None]

-----------------------------------------------------------------------------
(* Reads that go through a cache; the caller's action also fills the cache. *)

\* Mutant: the newest sequence is taken from the rows instead of the cursor.
NewestSequenceFromRows(sender) ==
    IF StoredSequences(sender) = {} THEN 0
    ELSE CHOOSE s \in StoredSequences(sender) :
            \A t \in StoredSequences(sender) : t <= s

NewestSequence(sender) ==
    IF newestCache[sender] # None THEN newestCache[sender] ELSE cursors[sender]

AcknowledgedSequence(endpoint) ==
    IF ackCache[endpoint] # None THEN ackCache[endpoint] ELSE acks[endpoint]

-----------------------------------------------------------------------------
(* Bounded capacity: the rows beyond the limit are deleted in the order    *)
(* created_at, sender, sequence. 'desktop' sorts before 'device'.          *)

\* Mutant: the newest rows are dropped first.
OlderReversed(r, q) ==
    \/ r.createdAt > q.createdAt
    \/ /\ r.createdAt = q.createdAt
       /\ \/ r.sender = "device" /\ q.sender = "desktop"
          \/ r.sender = q.sender /\ r.sequence > q.sequence

Older(r, q) ==
    \/ r.createdAt < q.createdAt
    \/ /\ r.createdAt = q.createdAt
       /\ \/ r.sender = "desktop" /\ q.sender = "device"
          \/ r.sender = q.sender /\ r.sequence < q.sequence

OldestRows(table, n) ==
    {D \in SUBSET table :
        /\ Cardinality(D) = Smaller(n, Cardinality(table))
        /\ \A r \in D, q \in table \ D : Older(r, q)}

\* Mutant: one row too many is tolerated.
OverflowOffByOne(known) == known - MaxStoredEnvelopes - 1

Overflow(known) == known - MaxStoredEnvelopes

\* What pruneCapacity leaves of a table, its counter and the cached count.
PruneCapacity(table, count, cache) ==
    LET known == IF cache = None THEN count ELSE cache
        overflow == Overflow(known)
    IN  \/ /\ overflow <= 0
           /\ rows' = table
           /\ envelopeCount' = count
           /\ countCache' = known
        \/ /\ overflow > 0
           /\ \E D \in OldestRows(table, overflow) :
                /\ rows' = table \ D
                /\ envelopeCount' = Larger(0, count - Cardinality(D))
                /\ countCache' = Larger(0, known - Cardinality(D))

-----------------------------------------------------------------------------
(* Operations.                                                             *)

PublishResult(sender, sequence, payload) ==
    LET newest == NewestSequence(sender)
    IN  CASE sequence > newest + 1 -> "sequence-gap"
          [] sequence = newest + 1 -> "inserted"
          [] sequence <= newest ->
               IF \E r \in Stored(sender) : r.sequence = sequence /\ r.payload = payload
               THEN "duplicate" ELSE "sequence-conflict"

PublishEnvelope(sender, sequence, payload) ==
    LET newest == NewestSequence(sender)
        row == [sender |-> sender, sequence |-> sequence,
                payload |-> payload, createdAt |-> now]
    IN  /\ UNCHANGED <<acks, ackCache>>
        /\ \/ /\ PublishResult(sender, sequence, payload) # "inserted"
              /\ newestCache' = [newestCache EXCEPT ![sender] = newest]
              /\ UNCHANGED <<rows, cursors, envelopeCount, countCache>>
           \/ /\ PublishResult(sender, sequence, payload) = "inserted"
              /\ cursors' = [cursors EXCEPT ![sender] = Larger(@, sequence)]
              /\ newestCache' = [newestCache EXCEPT ![sender] = sequence]
              /\ PruneCapacity(rows \cup {row}, envelopeCount + 1,
                               IF countCache = None THEN envelopeCount + 1
                                                    ELSE countCache + 1)

\* Mutant: the request is not clamped to what was published.
AcknowledgedUpToUnclamped(endpoint, requested) ==
    Larger(requested, AcknowledgedSequence(endpoint))

AcknowledgedUpTo(endpoint, requested) ==
    Larger(Smaller(requested, NewestSequence(opposite(endpoint))),
           AcknowledgedSequence(endpoint))

\* Mutant: the counter goes down by the acknowledged sequence, which counts
\* rows that earlier acknowledgements or prunings had already deleted.
CountAfterDeletingBySequence(count, deleted) ==
    IF deleted = {} THEN count
    ELSE count - (CHOOSE n \in {r.sequence : r \in deleted} :
                     \A r \in deleted : r.sequence <= n)

CountAfterDeleting(count, deleted) ==
    IF deleted = {} THEN count ELSE Larger(0, count - Cardinality(deleted))

\* Mutant: the cached count is left as it was.
CacheAfterDeletingStale(cache, deleted) == cache

CacheAfterDeleting(cache, deleted) ==
    IF cache = None THEN None ELSE Larger(0, cache - Cardinality(deleted))

Acknowledge(endpoint, requested) ==
    LET source == opposite(endpoint)
        acknowledged == AcknowledgedUpTo(endpoint, requested)
        deleted == {r \in Stored(source) : r.sequence <= acknowledged}
    IN  /\ acks' = [acks EXCEPT ![endpoint] = Larger(@, acknowledged)]
        /\ rows' = rows \ deleted
        /\ envelopeCount' = CountAfterDeleting(envelopeCount, deleted)
        /\ countCache' = CacheAfterDeleting(countCache, deleted)
        /\ ackCache' = [ackCache EXCEPT ![endpoint] = acknowledged]
        /\ newestCache' = [newestCache EXCEPT ![source] = NewestSequence(source)]
        /\ UNCHANGED cursors

\* Mutant: rows expire one second early.
RetentionCutoffEarly == now - RetentionSeconds + 1

RetentionCutoff == now - RetentionSeconds

\* The part of alarm() that prunes the log: the retention period, then capacity.
PruneExpired ==
    LET expired == {r \in rows : r.createdAt <= RetentionCutoff}
        count == CountAfterDeleting(envelopeCount, expired)
    IN  /\ PruneCapacity(rows \ expired, count,
                         IF countCache = None THEN count
                         ELSE CacheAfterDeleting(countCache, expired))
        /\ UNCHANGED <<cursors, acks, newestCache, ackCache>>

(* replay() sends frames and changes nothing durable. `oldest` is 0 when no *)
(* row is stored, and then no truncation is reported.                       *)
ReplayFrames(endpoint, requested) ==
    LET source == opposite(endpoint)
        cursor == Larger(requested, AcknowledgedSequence(endpoint))
        stored == StoredSequences(source)
        oldest == IF stored = {} THEN 0
                  ELSE CHOOSE s \in stored : \A t \in stored : s <= t
        pending == {s \in stored : s > cursor}
        page == {s \in pending :
                    Cardinality({t \in pending : t <= s}) <= MaxReplayEnvelopes}
    IN  [cursor    |-> cursor,
         truncated |-> oldest > 0 /\ cursor < oldest - 1,
         sent      |-> page,
         more      |-> page # pending]

\* The answer to a `resume` message: replay() reads the acknowledgement.
Resume(endpoint) ==
    /\ ackCache' = [ackCache EXCEPT ![endpoint] = AcknowledgedSequence(endpoint)]
    /\ UNCHANGED <<rows, cursors, acks, envelopeCount, countCache, newestCache>>

\* The hello frame of a new connection also reads the endpoint's own newest
\* sequence, from which that endpoint will continue to publish.
Hello(endpoint) ==
    /\ newestCache' = [newestCache EXCEPT ![endpoint] = NewestSequence(endpoint)]
    /\ ackCache' = [ackCache EXCEPT ![endpoint] = AcknowledgedSequence(endpoint)]
    /\ UNCHANGED <<rows, cursors, acks, envelopeCount, countCache>>

\* The runtime evicts the object: the tables stay, the caches do not.
Evict ==
    /\ countCache' = None
    /\ newestCache' = [e \in Endpoints |-> None]
    /\ ackCache' = [e \in Endpoints |-> None]
    /\ UNCHANGED <<rows, cursors, acks, envelopeCount>>

Tick ==
    /\ now < MaxTime
    /\ now' = now + 1
    /\ UNCHANGED logVars

Operation ==
    \/ \E e \in Endpoints, s \in 1..MaxSequence, p \in Payloads : PublishEnvelope(e, s, p)
    \/ \E e \in Endpoints, s \in 0..MaxSequence : Acknowledge(e, s)
    \/ PruneExpired
    \/ \E e \in Endpoints : Resume(e)
    \/ \E e \in Endpoints : Hello(e)
    \/ Evict

Next == (Operation /\ UNCHANGED now) \/ Tick

Spec == Init /\ [][Next]_vars

-----------------------------------------------------------------------------
(* Properties.                                                             *)

\* The type of every table, counter and cache of the object.
LogTypeOK ==
    /\ now \in Nat
    /\ rows \subseteq Row
    /\ cursors \in [Endpoints -> Nat]
    /\ acks \in [Endpoints -> Nat]
    /\ envelopeCount \in Nat
    /\ countCache \in Nat \cup {None}
    /\ newestCache \in [Endpoints -> Nat \cup {None}]
    /\ ackCache \in [Endpoints -> Nat \cup {None}]

\* replay() never skips a stored envelope: whatever cursor an endpoint resumes
\* from, the page it is sent is a run without holes that starts at the next
\* envelope (or, after a truncation notice, at the oldest one stored), is not
\* empty while something newer is stored, and says `more` unless it reaches the
\* newest. It relies on publish, acknowledge and both prunings together leaving
\* a suffix of each stream.
ReplayGapFree ==
    \A e \in Endpoints, requested \in 0..MaxSequence :
        LET source == opposite(e)
            frames == ReplayFrames(e, requested)
            stored == StoredSequences(source)
        IN  /\ \A s \in frames.sent :
                  \A t \in (frames.cursor + 1)..s :
                      t \in frames.sent \/ (frames.truncated /\ t \notin stored)
            /\ (stored # {} /\ frames.cursor < cursors[source]) => frames.sent # {}
            /\ ~frames.more =>
                  (stored = {} \/ frames.cursor >= cursors[source]
                               \/ cursors[source] \in frames.sent)

\* The counter kept beside the table equals the number of rows, and every cache
\* is either empty or equal to the stored value, across evictions at any point.
CountsCoherent ==
    /\ envelopeCount = Cardinality(rows)
    /\ countCache \in {None, envelopeCount}
    /\ \A e \in Endpoints : newestCache[e] \in {None, cursors[e]}
    /\ \A e \in Endpoints : ackCache[e] \in {None, acks[e]}

\* Publishing prunes before it returns: no more rows than the policy allows are
\* ever kept.
WithinCapacity == Cardinality(rows) <= MaxStoredEnvelopes

\* An acknowledgement never runs ahead of what the other endpoint published,
\* and no acknowledged envelope takes room in the table.
AcknowledgedRowsAreGone ==
    \A e \in Endpoints :
        /\ acks[e] <= cursors[opposite(e)]
        /\ \A r \in Stored(opposite(e)) : r.sequence > acks[e]

\* A sequence number is bound to one envelope for ever: a retransmission that
\* arrives after its row was acknowledged or pruned is not stored again, and
\* neither the cursors nor the acknowledgements go back.
NoSequenceReuse ==
    [][/\ \A r \in rows' \ rows : r.sequence > cursors[r.sender]
       /\ \A e \in Endpoints : cursors'[e] >= cursors[e] /\ acks'[e] >= acks[e]]_vars

\* An envelope the reader still needs is dropped only when the retention period
\* is over or the table is full and nothing older is kept.
NoEarlyLoss ==
    [][\A r \in rows \ rows' :
          \/ r.sequence <= acks'[opposite(r.sender)]
          \/ r.createdAt + RetentionSeconds <= now
          \/ /\ Cardinality(rows) = MaxStoredEnvelopes
             /\ \A q \in rows' : Older(r, q)]_vars

\* What the README promises of recovery ("A replay-gap response means the
\* desktop must stop the turn and report recovery failure"): an endpoint that
\* resumes behind a hole is told so. replay() derives the notice from the oldest
\* stored row, so it does not hold once every row of the stream was pruned.
ReplayGapReported ==
    \A e \in Endpoints, requested \in 0..MaxSequence :
        LET frames == ReplayFrames(e, requested)
            next == frames.cursor + 1
        IN  (next <= cursors[opposite(e)] /\ next \notin StoredSequences(opposite(e)))
                => frames.truncated

=============================================================================
