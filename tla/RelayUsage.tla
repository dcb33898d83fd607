----------------------------- MODULE RelayUsage -----------------------------
(***************************************************************************)
(* The usage ledger of one account (RelayUsageObject, apps/device-relay/   *)
(* src/usage.ts) with the three that use it: the worker that admits a      *)
(* connection (admitTunnelConnection, src/index.ts), the tunnel object     *)
(* that pays for the frames of its sockets out of chunks it reserves       *)
(* (meterTransfer), and the close of a socket, which returns what is left  *)
(* (webSocketClose, both src/session-tunnel.ts).                           *)
(*                                                                         *)
(* A call to the ledger is atomic there; its answer arrives at the caller  *)
(* in a later step, and other messages, closes and seconds come between.   *)
(*                                                                         *)
(* The ledger counts every byte as received and as sent, always both by    *)
(* the same number: one counter stands for the two, and twice its value is *)
(* compared with the quota. The attempt windows of the IP address are      *)
(* those of the client: both are keys beside the account's.                *)
(***************************************************************************)
EXTENDS Integers, Sequences, FiniteSets

CONSTANTS
    Connections,        \* usageAttachmentIds, one drawn for each connection
    Devices, Clients, Account, None,
    QuotaBytes, ReservationBytes, FrameSizes,
    MaxConcurrent,      \* maximumConcurrentClientsPerDevice
    MaxAttempts,        \* maximumAttachmentAttemptsPerMinute
    WindowSeconds, FenceSeconds,
    GrantSeconds,       \* for how long a connection may be granted
    MaxTime, MaxQueued  \* bounds: the clock, the frames of a socket being metered

ASSUME UsageKeys == Account \notin Clients

ASSUME NoneIsNothing == None \notin Nat \cup [device: Devices, expiresAt: Nat]

ASSUME FinitelyManyConnections == IsFiniteSet(Connections)

ASSUME FinitelyManyDevices == IsFiniteSet(Devices)

ASSUME PolicyNumbers ==
    /\ QuotaBytes \in Nat /\ ReservationBytes \in Nat \ {0}
    /\ FrameSizes \subseteq Nat \ {0}
    /\ MaxConcurrent \in Nat \ {0} /\ MaxAttempts \in Nat \ {0}
    /\ WindowSeconds \in Nat \ {0} /\ FenceSeconds \in Nat \ {0}
    /\ GrantSeconds \subseteq Nat \ {0}
    /\ MaxTime \in Nat /\ MaxQueued \in Nat

VARIABLES
    now,
    \* The ledger's tables.
    account,        \* account_usage
    deviceUsage,    \* device_usage
    active,         \* active_attachments: the device and the expiry of each, or None
    released,       \* released_attachments: when, or None
    windows,        \* attempt_windows, or None
    \* The connections.
    connections,    \* what became of each; its socket's attachment
    meters,         \* the frames of its socket in meterTransfer, in order
    \* What happened, for the properties.
    metered,        \* per device, the bytes whose transfer was recorded
    torn            \* sockets that expired or were closed with a frame in meterTransfer, or
                    \* whose reservation was made and its answer lost

ledgerVars == <<account, deviceUsage, active, released, windows>>
history == <<metered, torn>>
vars == <<now, ledgerVars, connections, meters, history>>

Keys == {Account} \cup Clients

Phases == {"new", "admitted", "open", "closing", "gone"}

NewConnection(d) ==
    [phase |-> "new", device |-> d, expiresAt |-> 0, remaining |-> 0,
     refunded |-> None, closedAt |-> None]

\* The types; with them, that the account never exceeds its quota and that no refund and
\* no transfer takes a counter or a socket's remaining bytes below zero.
UsageTypeOK ==
    /\ now \in 0..MaxTime
    /\ account \in Nat /\ 2 * account <= QuotaBytes
    /\ deviceUsage \in [Devices -> Nat]
    /\ active \in [Connections -> [device: Devices, expiresAt: Nat] \cup {None}]
    /\ released \in [Connections -> Nat \cup {None}]
    /\ windows \in [Keys -> [startedAt: Nat, attempts: Nat \ {0}] \cup {None}]
    /\ connections \in [Connections ->
          [phase: Phases, device: Devices, expiresAt: Nat, remaining: Nat,
           refunded: Nat \cup {None}, closedAt: Nat \cup {None}]]
    /\ meters \in [Connections ->
          Seq([bytes: FrameSizes, current: Nat,
               status: {"queued", "asked", "answered"}, granted: Nat])]
    /\ metered \in [Devices -> Nat]
    /\ torn \subseteq Connections

Init ==
    /\ now = 0
    /\ account = 0
    /\ deviceUsage = [d \in Devices |-> 0]
    /\ active = [c \in Connections |-> None]
    /\ released = [c \in Connections |-> None]
    /\ windows = [k \in Keys |-> None]
    /\ \E device \in [Connections -> Devices] :
          connections = [c \in Connections |-> NewConnection(device[c])]
    /\ meters = [c \in Connections |-> <<>>]
    /\ metered = [d \in Devices |-> 0]
    /\ torn = {}

-----------------------------------------------------------------------------
(* The ledger's operations.                                                *)

\* The prunings at the head of admit.
Unexpired == [c \in Connections |->
    IF active[c] # None /\ active[c].expiresAt > now THEN active[c] ELSE None]

\* Mutant: the fence of an admission is dropped once the admission has expired.
FencesOfUnexpired == [c \in Connections |->
    IF connections[c].expiresAt > now THEN released[c] ELSE None]

Fences == [c \in Connections |->
    IF released[c] # None /\ released[c] > now - FenceSeconds THEN released[c] ELSE None]

Recent(k) == windows[k] # None /\ windows[k].startedAt > now - WindowSeconds

\* An attempt counts for the account and the client, admitted or not.
Attempted(client) == [k \in Keys |->
    CASE k \notin {Account, client} -> IF Recent(k) THEN windows[k] ELSE None
      [] OTHER -> IF Recent(k) THEN [windows[k] EXCEPT !.attempts = @ + 1]
                               ELSE [startedAt |-> now, attempts |-> 1]]

RowsOf(rows, d) == {c \in Connections : rows[c] # None /\ rows[c].device = d}

\* Mutant: the attachments are counted with the new one left out of account.
AdmitsOneMore(d) ==
    /\ 2 * account < QuotaBytes
    /\ Cardinality(RowsOf(Unexpired, d)) <= MaxConcurrent

\* The conditions of the INSERT.
Admits(d) ==
    /\ 2 * account < QuotaBytes
    /\ Cardinality(RowsOf(Unexpired, d)) < MaxConcurrent

RateLimited(client) == \E k \in {Account, client} : Attempted(client)[k].attempts > MaxAttempts

\* Mutant: the chunk is taken from the quota once, not in both directions.
AffordableOneWay(bytes) == account + bytes <= QuotaBytes

Affordable(bytes) == 2 * account + 2 * bytes <= QuotaBytes

\* What reserveTransfer can have: the chunk, else the frame, else nothing.
Reservation(bytes) ==
    LET target == IF bytes > ReservationBytes THEN bytes ELSE ReservationBytes
    IN  IF Affordable(target) THEN target
        ELSE IF Affordable(bytes) THEN bytes
        ELSE 0

Minus(a, b) == IF a > b THEN a - b ELSE 0

\* Mutant: a second release refunds again.
ReleasedAlways(c, d, unused) ==
    /\ active' = [active EXCEPT ![c] = None]
    /\ released' = [released EXCEPT ![c] = now]
    /\ account' = Minus(account, unused)
    /\ deviceUsage' = [deviceUsage EXCEPT ![d] = Minus(@, unused)]
    /\ UNCHANGED windows

release(c, d, unused) ==
    /\ active' = [active EXCEPT ![c] = None]
    /\ released' = [released EXCEPT ![c] = IF @ = None THEN now ELSE @]
    /\ IF released[c] = None
       THEN /\ account' = Minus(account, unused)
            /\ deviceUsage' = [deviceUsage EXCEPT ![d] = Minus(@, unused)]
       ELSE UNCHANGED <<account, deviceUsage>>
    /\ UNCHANGED windows

-----------------------------------------------------------------------------
(* The worker.                                                             *)

\* The chain of a socket's frames runs on without the event loop: nothing else
\* happens while a frame could go on.
Runnable(c) == meters[c] # <<>> /\ meters[c][1].status = "queued"

Idle == \A c \in Connections : ~Runnable(c)

Becomes(c, phase) == connections' = [connections EXCEPT ![c].phase = phase]

\* The id is a new one each time, so that no row of it can exist.
admit(c, client, seconds) ==
    LET d == connections[c].device
        admitted == ~RateLimited(client) /\ Admits(d)
    IN  /\ connections[c].phase = "new"
        /\ Idle
        /\ released' = Fences
        /\ windows' = Attempted(client)
        /\ active' = [Unexpired EXCEPT ![c] =
              IF admitted THEN [device |-> d, expiresAt |-> now + seconds] ELSE None]
        /\ connections' = [connections EXCEPT
              ![c].phase = IF admitted THEN "admitted" ELSE "gone",
              ![c].expiresAt = now + seconds]
        /\ UNCHANGED <<now, account, deviceUsage, meters, history>>

\* The preparation fails, the device is offline or the upgrade is refused.
admissionRefused(c) ==
    /\ connections[c].phase = "admitted"
    /\ Idle
    /\ release(c, connections[c].device, 0)
    /\ Becomes(c, "gone")
    /\ UNCHANGED <<now, meters, history>>

\* One of these calls rejects: the row stays until it expires.
admissionFails(c) ==
    /\ connections[c].phase = "admitted"
    /\ Idle
    /\ Becomes(c, "gone")
    /\ UNCHANGED <<now, ledgerVars, meters, history>>

fetch(c) ==
    /\ connections[c].phase = "admitted"
    /\ Idle
    /\ connections[c].expiresAt > now
    /\ Becomes(c, "open")
    /\ UNCHANGED <<now, ledgerVars, meters, history>>

-----------------------------------------------------------------------------
(* The tunnel: frames, and the close.                                      *)

Expired(c) == connections[c].expiresAt <= now

receiveEnvelope(c, bytes) ==
    /\ connections[c].phase = "open"
    /\ Idle
    /\ ~Expired(c)
    /\ Len(meters[c]) < MaxQueued
    /\ meters' = [meters EXCEPT ![c] = Append(@,
          [bytes |-> bytes, current |-> connections[c].remaining,
           status |-> "queued", granted |-> 0])]
    /\ UNCHANGED <<now, ledgerVars, connections, history>>

\* The attachment as it is now or, once the socket has expired, which closes it, the
\* one the handler read when the frame arrived.
Current(c) == IF Expired(c) THEN meters[c][1].current ELSE connections[c].remaining

ClosedIf(condition, connection) ==
    IF condition /\ connection.phase = "open"
    THEN [connection EXCEPT !.phase = "closing"] ELSE connection

Record(c, remaining) ==
    /\ connections' = [connections EXCEPT ![c] =
          ClosedIf(Expired(c), [connections[c] EXCEPT !.remaining = remaining])]
    /\ meters' = [meters EXCEPT ![c] = Tail(@)]
    /\ metered' = [metered EXCEPT ![connections[c].device] = @ + meters[c][1].bytes]

\* meterTransfer with enough left.
spend(c) ==
    /\ Runnable(c)
    /\ Current(c) >= meters[c][1].bytes
    /\ Record(c, Current(c) - meters[c][1].bytes)
    /\ UNCHANGED <<now, ledgerVars, torn>>

\* meterTransfer with too little left: the ledger is asked.
ask(c) ==
    /\ Runnable(c)
    /\ Current(c) < meters[c][1].bytes
    /\ meters' = [meters EXCEPT ![c] =
          [@ EXCEPT ![1].status = "asked", ![1].current = Current(c)]]
    /\ connections' = [connections EXCEPT ![c] = ClosedIf(Expired(c), connections[c])]
    /\ UNCHANGED <<now, ledgerVars, history>>

reserveTransfer(c) ==
    /\ Idle
    /\ meters[c] # <<>> /\ meters[c][1].status = "asked"
    /\ LET bytes == Reservation(meters[c][1].bytes)
       IN  /\ meters' = [meters EXCEPT ![c] =
                 [@ EXCEPT ![1].status = "answered", ![1].granted = bytes]]
           /\ account' = account + bytes
           /\ deviceUsage' = [deviceUsage EXCEPT ![connections[c].device] = @ + bytes]
    /\ UNCHANGED <<now, active, released, windows, connections, history>>

\* The answer: what is left goes back to the attachment of the socket, which may be
\* closed by now, or the quota is exceeded and the socket is closed.
answered(c) ==
    /\ Idle
    /\ meters[c] # <<>> /\ meters[c][1].status = "answered"
    /\ LET frame == meters[c][1]
       IN  \/ /\ frame.granted > 0
              /\ Record(c, frame.current + frame.granted - frame.bytes)
           \/ /\ frame.granted = 0
              /\ connections' = [connections EXCEPT ![c] = ClosedIf(TRUE, connections[c])]
              /\ meters' = [meters EXCEPT ![c] = Tail(@)]
              /\ UNCHANGED metered
    /\ UNCHANGED <<now, ledgerVars, torn>>

\* The call rejects before or after the ledger made the reservation: the handler ends,
\* and the next frame goes on.
reservationFails(c) ==
    /\ Idle
    /\ meters[c] # <<>>
    /\ meters' = [meters EXCEPT ![c] = Tail(@)]
    /\ torn' = torn \cup {x \in {c} : meters[x][1].granted > 0}
    /\ UNCHANGED <<now, ledgerVars, connections, metered>>

\* The peer closes, the connection is replaced or revoked, or it expires.
close(c) ==
    /\ connections[c].phase = "open"
    /\ Idle
    /\ Becomes(c, "closing")
    /\ UNCHANGED <<now, ledgerVars, meters, history>>

webSocketClose(c) ==
    /\ connections[c].phase = "closing"
    /\ Idle
    /\ release(c, connections[c].device, connections[c].remaining)
    /\ connections' = [connections EXCEPT
          ![c].phase = "gone", ![c].refunded = connections[c].remaining, ![c].closedAt = now]
    /\ torn' = torn \cup {x \in {c} : meters[x] # <<>>}
    /\ UNCHANGED <<now, meters, metered>>

\* The call of webSocketClose is delivered again, while the fence is meant to hold.
releaseAgain(c) ==
    /\ connections[c].closedAt # None
    /\ Idle
    /\ now < connections[c].closedAt + FenceSeconds
    /\ release(c, connections[c].device, connections[c].refunded)
    /\ UNCHANGED <<now, connections, meters, history>>

tick ==
    /\ now < MaxTime
    /\ Idle
    /\ now' = now + 1
    /\ torn' = torn \cup
          {c \in Connections : connections[c].expiresAt = now' /\ meters[c] # <<>>}
    /\ UNCHANGED <<ledgerVars, connections, meters, metered>>

-----------------------------------------------------------------------------

Next ==
    \/ \E c \in Connections :
          \/ \E client \in Clients, seconds \in GrantSeconds : admit(c, client, seconds)
          \/ admissionRefused(c)
          \/ admissionFails(c)
          \/ fetch(c)
          \/ \E bytes \in FrameSizes : receiveEnvelope(c, bytes)
          \/ spend(c)
          \/ ask(c)
          \/ reserveTransfer(c)
          \/ answered(c)
          \/ reservationFails(c)
          \/ close(c)
          \/ webSocketClose(c)
          \/ releaseAgain(c)
    \/ tick

Spec == Init /\ [][Next]_vars

-----------------------------------------------------------------------------
(* Properties.                                                             *)

\* As many units as the numbers have together.
SumOf(f, S) == Cardinality(UNION {{x} \X (1..f[x]) : x \in S})

\* The account is charged what its devices are charged together: a refund that is
\* clamped at zero in one table and not in the other would break it.
AccountIsSumOfDevices == account = SumOf(deviceUsage, Devices)

\* The bytes the sockets of a device would return if they were closed now.
Refundable(d) ==
    SumOf([c \in Connections |-> connections[c].remaining],
          {c \in Connections : /\ connections[c].device = d
                               /\ connections[c].phase \in {"open", "closing"}})

\* No refund meets the clamp at zero: a device is charged at least what its sockets would
\* return together, also when a close is reported twice, when a reservation is answered
\* after the close, and when a socket expires under the frames it still has to pay for.
RefundsAreCovered == \A d \in Devices : deviceUsage[d] >= Refundable(d)

\* The bytes reserved for frames whose answer is on its way.
Granted(d) ==
    SumOf([c \in Connections |-> IF meters[c] = <<>> THEN 0 ELSE meters[c][1].granted],
          {c \in Connections : connections[c].device = d})

\* "reserves transfer chunks and refunds the unused tail on close" (usage.test.ts:73): a
\* device is charged exactly the bytes that were transferred and those its sockets may
\* still spend, unless a socket expired or was closed with a frame in meterTransfer, or
\* the answer of a reservation was lost. Then the ledger may be too high (the reservation
\* reaches no attachment, or one that was refunded already) and too low (the frames behind
\* it spend bytes that were refunded).
ChargedIsTransferred ==
    \A d \in Devices :
        (\A c \in torn : connections[c].device # d) =>
            deviceUsage[d] = metered[d] + Refundable(d) + Granted(d)

\* A device never has more live connections than maximumConcurrentClientsPerDevice,
\* whatever was released, refused or pruned in between ("enforces durable concurrency
\* while keeping attachment retries idempotent", usage.test.ts).
ConcurrencyIsBounded ==
    \A d \in Devices :
        Cardinality({c \in Connections :
            /\ connections[c].device = d
            /\ connections[c].phase \in {"admitted", "open"}
            /\ ~Expired(c)}) <= MaxConcurrent

=============================================================================
