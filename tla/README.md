# Formal models of jingler's remote sessions

jingler runs coding agents. A desktop can drive an agent that lives on another
machine ("device") through a relay that only sees ciphertext, or through a
managed cloud runtime. This directory holds TLA+ models of the parts of that
machinery where steps of several actors, restarts and retries meet, the TLC
configurations that check them, and theorems checked by TLAPS.

Paths below are relative to the repository root. All definitions keep the names
the source uses where TLA+ allows it; `PROJECT.json` maps each definition to the
lines it stands for.

    desktop (cli-adapters)          relay (device-relay, Durable Objects)          device (device-agent)
    remote-session.ts   --HTTP-->   index.ts: prepareConnection, fetch
      [DesktopSession]  ==WS==>     session-tunnel.ts  [ControllerLease]   <==WS== session-tunnel.ts  [DeviceTunnel]
                                                       [EnvelopeLog]               session-handler.ts [CommandLedger]
                                    device-registry.ts <-- control socket ------   control-connection.ts
                                    usage.ts           [RelayUsage]

## 1. The system

### Device relay: the session tunnel (`apps/device-relay/src/session-tunnel.ts`)

One Durable Object for each remote session.

| | |
|---|---|
| State | SQLite tables: `encrypted_envelopes`, `sequence_cursors`, `acknowledgements`, `tunnel_counters`, `client_attachments`, `controller_lease`, `tunnel_metadata`, `tunnel_revocations`; in memory: four caches, `transferMeters`; with the runtime: accepted sockets with a serialized attachment, one alarm |
| Operations | `initialize`, `attachClient`, `acquireController`, `releaseController`, `prepareConnection`, `fetch` (upgrade), `inventoryEntry`, `revokeDevice`, `webSocketMessage` (`publish`, `ack`, `resume`), `webSocketClose`, `alarm` |
| Talks to | the worker (`index.ts`: `prepareConnection`, then `notifySession` of the registry, then `fetch`), `RELAY_USAGE` (`meterTransfer`), the device registry (`revokeDevice`) |
| Hard | an admission is two calls with another call between them; an envelope awaits its metering and everything it was checked against may change; leases vacate lazily, in whichever handler reads them first; counters and caches are kept beside the tables through six kinds of write; the object may be evicted between any two events; everything that expires hangs on one alarm |
| Correct when | one controller at a time and its generation fences the desktop stream; no socket of an old or revoked generation; replays without holes; no sequence number bound twice; nothing lost before its time; counters and caches agree with the tables; the alarm covers what expires |

### Device agent: the command ledger (`apps/device-agent/src/session-handler.ts`)

| | |
|---|---|
| State | one file: persisted commands (scope, status, plaintext events, numbered ciphertexts), the adopted controller scope, four transport counters; in memory: `#inFlight` |
| Operations | `#initialize`, `adoptControllerScope`, `handle` (admission, execution, `#appendEvent`, `#settle`), `prepareOutgoingEnvelopes`, `prepareAllOutgoingEnvelopes`, `acknowledgeOutgoing` |
| Talks to | the device's `session-tunnel.ts`, which calls every operation and sends what is prepared; `device-executor.ts`, which runs the command |
| Hard | every command goes through several operations on the file, those of concurrent commands and of two tunnels interleave, the daemon may stop between any two, and the relay replays every command that is not acknowledged |
| Correct when | a command is executed at most once and in fence order; responses have unique numbers without holes until consumed; the relay is told that a command is done only when it is |

### Device agent: the session tunnel (`apps/device-agent/src/session-tunnel.ts`)

| | |
|---|---|
| State | for each tunnel: its scope and session key, the number the relay expects next, a gate for flushes, the listener it has registered with the ledger; several tunnels of one session may exist |
| Operations | `runDeviceSessionTunnel` (adopt, connect, first flush, peer acknowledgements, dispatch), `flushCommand` |
| Talks to | the ledger (every operation), the relay's tunnel, the control connection that asks for tunnels |
| Hard | each tunnel has its own gate but all flush one numbering; a listener outlives its connection; a flush prepares first and sends later; the relay replays to each tunnel what is not acknowledged; a refusal of one command ends the tunnel for all |
| Correct when | whatever overlaps and is lost, the relay gets every response once, under one number, in order, and a command is executed once |

### Desktop: the remote session (`packages/cli-adapters/src/remote-session.ts`)

| | |
|---|---|
| State | in the document of secrets: next number, acknowledgement, pending commands; in memory: the active connection, subscribers and backlog, claimed commands |
| Operations | `establish`, `prepareCommand`, `ownedExecute`, `sendPendingRemoteCommand`, `consumeConnection`, `forget` |
| Talks to | the relay, the device through it, callers in the main process |
| Hard | callers share one connection and one document whose operations queue; a command may be taken up again by another caller; an event is acknowledged before it is delivered |
| Correct when | each caller gets the events of its own command, once and to the end |

### Relay usage (`apps/device-relay/src/usage.ts`)

| | |
|---|---|
| State | one object for each account: `account_usage`, `device_usage`, `active_attachments`, `released_attachments`, `attempt_windows`; in the tunnel: the unspent bytes in each socket's attachment, `transferMeters` |
| Operations | `admit`, `reserveTransfer`, `release`; the tunnel's `meterTransfer`, `webSocketClose` |
| Talks to | the worker (admission), the tunnels (reservations, refunds) |
| Hard | a reservation is in flight while the socket closes or expires; rows are pruned by time before their release arrives; calls may be lost, rejected or repeated |
| Correct when | the quota and the limit of connections are kept; each refund happens once and is covered; what is charged is what was transferred |

### The rest

| Component | State | Operations | Hard, and what makes it correct |
|---|---|---|---|
| Device registry (`device-relay/src/device-registry.ts`) | devices, sessions, challenges, presence | enrol, rotate, verify, revoke, notify, catalogue | reads before awaits and uses after them; revocation fan-out that fails half way |
| Relay worker (`device-relay/src/index.ts`, `auth.ts`) | none | routes, grants | admission over three objects (modelled in ControllerLease and RelayUsage) |
| Device control connection, executor | sockets, processes | reconnect, run | I/O; the executor is an external actor of CommandLedger |
| Managed runtime (`managed-runtime/src/session-journal.ts`, `session-runtime.ts`) | journal, lanes | begin, append, settle, restart | at-most-once with a journal that forgets |
| Managed offload (`offload-store.ts`, `offload-workflow.ts`) | job, sandbox lease | start, checkpoint, cancel, clean up | crashes between a side effect and its record |
| Auth state (`auth-state/src`) | credentials, leases | acquire, renew, commit | refresh races, lost leases |
| GitHub relay (`github-relay/src`) | event log, cursors | ingest, subscribe | webhook duplicates, cursor gaps |
| Server (`apps/server/src`) | SQL database | HTTP routes | transactions of the database |
| Agent runtime (`cli-adapters/src/runtime`) | retained sessions, run trees, journals | retain, supervise, stop | ownership of runs across windows; run-tree reducer |
| Auth broker, background tasks, workspaces, desktop, shared packages | | | see `PROJECT.json` |

`PROJECT.json` lists 40 hazards, at the lines where they bite, and the property
that would catch each or the reason why none does.

## 2. The modules

| Module | Models | Proofs |
|---|---|---|
| `EnvelopeLog` | the tunnel's stored envelopes, cursors, acknowledgements, counter and caches | `EnvelopeLogProofs` |
| `ControllerLease` | the tunnel's admissions, attachments, lease, sockets, revocation, and the envelopes that await their metering | `ControllerLeaseProofs` |
| `SessionTunnel` | the tunnel as a whole: the two above step together; the alarm, close events, hibernation and restarts | `SessionTunnelProofs` |
| `CommandLedger` | the device's ledger of commands | `CommandLedgerProofs` |
| `DeviceTunnel` | the daemon's tunnels over that ledger, and the relay as they see it | `DeviceTunnelProofs`, `DeviceStreamProofs` |
| `RemoteCommands` | the abstract promise to a desktop: executed in order and once, answered by events and a terminal event | that `DeviceTunnel` implements it: `DeviceStreamProofs` |
| `DesktopSession` | the desktop's callers, connections and persisted state | |
| `RelayUsage` | the usage ledger of an account, with worker, meters and closes | `RelayUsageProofs` |
| `Counting` | lemmas: a set of naturals has a least element; the places of the members of a finite ordered set are the numbers up to its size | itself |
| `MC*` | TLC instances: symmetry and the scopes of the ledger | |

### EnvelopeLog

`rows`, `cursors`, `acks`, `envelopeCount` are the tables, `countCache`,
`newestCache`, `ackCache` the memory beside them (`None` after an eviction).
`PublishEnvelope`, `Acknowledge`, `Hello`, `Resume`, `PruneExpired` and `Evict`
are whole handlers: `PublishEnvelope` contains the capacity pruning that
`publishEnvelope` ends with, `PruneExpired` is what `alarm` does to the log.
`ReplayFrames` is what `replay` sends. The payload is a model value: the code
only compares it. The clock is a variable that never goes back.

### ControllerLease

A grant is a record chosen from all that a worker may present. `admissions`
holds what stands between `prepareConnection` and `fetch`; `meters` what stands
between the receipt of an envelope and its publication, with the attachment that
the handler read before the await. A socket is kept with the admission it was
accepted under. `Normalized` is `normalizedLease`, which every reader of the
lease applies; so a refused call still vacates an expired lease, as in the code.
`authors` is a history variable: who published each desktop envelope under
which generation. The sessions' identity checks reduce to one session, device
and account. A usage reservation is granted or refused by choice
(`meterRefused`). That every call is one step rests on the input gates of a
Durable Object: storage operations hold other events back, calls to other
objects do not, and at exactly those calls the model splits the handler.

### SessionTunnel

Each action conjoins a step of `Control` (an instance of the module with its
theorems) with one of `Storage`, or leaves one half alone; `alarmAt`,
`scheduledAlarmAt` and `closing` are the composition's own state. `alarmAt` is
the alarm in storage, `scheduledAlarmAt` what the object remembers of it
(`Undefined` after an eviction): `scheduleAlarm` writes storage only when the
wanted time differs from what it remembers, and reads storage only when it
remembers nothing, so a stale copy would lose an alarm in the model as in the
code. `closing` holds the sockets that were closed and whose `webSocketClose` has
not run; `getWebSockets` may still list any of them, which is the runtime's
choice (`listed` in `ScheduleFrom`). `publishAuthorizedEnvelope` inserts
into the log if and only if the control half authorises the envelope, and the
control half records the author if and only if the log inserted it.
`hibernate` drops the caches and keeps the sockets, `restart` drops both; the
alarm in storage survives both.

### CommandLedger

An operation on the file (`#withLedger`) is one step; a `handle` is
`handle` (admission, start of the executor), any number of `emit`,
`appendTerminal`, `settle`. Calls that join one in flight, replay what was
settled or are refused change nothing and are left out. `crash` forgets the
process; nothing but `initialize` runs before the next start is complete.
`prepareAllOutgoingEnvelopes` numbers the waiting events command by command and
event by event; since it encrypts every one of them, an event's number is the
next one plus the number of events before it (`EncryptedBefore`), which is how
`EventNumber` is written. The
relay may acknowledge any number below the next one. `executions` is a history
variable. Ciphertext keeps the kind of its event, no text.

### DeviceTunnel

It instantiates `CommandLedger` (`Ledger`) on the same variables: every step of
a tunnel that touches the file is a step of the ledger. A tunnel is
`connecting` (adopted, not yet open), `opened` (its first flush to come),
`serving` or `closing` (its connection ended, its listener still registered).
`flushCommand` is two kinds of steps: `flushAll`, `flushOf` and `flushClosing`
take the gate, prepare and read the expected number; `send` sends one envelope
and has the relay's answer; the answer to a gap names no write of the tunnel's,
so such a send has none, and the flush keeps the gate until the connection ends
(`Unanswered`). `admit`, `join` and `reject` are what `handle` does
with the next command of the desktop's stream; a rejection ends the tunnel.
`Announce` is `#notifyPersisted`, which waits for all listeners (`Announced`),
so a command goes on only when its last event has been flushed or refused.
The relay is reduced to what a device sees, and a lost connection may leave one
envelope on its way (`delayed`), which `arrive` delivers later, after whatever
the next tunnel did.

`RemoteCommands` is the abstract specification: the published commands, how
often each was started, and the device's stream. The refinement mapping drops
the numbers of the envelopes; the rest is the same.

### DesktopSession

`queue` is the serial queue of the document of secrets: an operation is appended
when it is asked for and done when it comes to the head, so that what the code
does with a value it has read comes after everything that was queued meanwhile.
A caller's phases are the awaits of `ownedExecute`; a connection's steps are
those of `establish` (`reading`, `restoring`, `connecting`) and of
`consumeConnection` (`idle`, `received`, `persisting`, `persisted`). The device
is `answer`: it answers what the relay has taken.
A write under a number that another command has, or whose own row the relay no
longer keeps, is answered by a conflict and rejected (`sendConflicts`).

### RelayUsage

The ledger's calls are atomic (one object, one transaction); the caller learns
the answer in a later step. `receiveEnvelope` puts a frame behind those its
socket is metering; `spend`, or `ask`, `reserveTransfer` and `answered`, are
`meterTransfer`. A chain of frames that have enough left runs without the event
loop (`Idle`). Bytes are counted once: the ledger counts them in both
directions, always by the same number. `torn` remembers the sockets for which
the code itself gives the exact account up; see section 5.

## 3. What is checked

`tlc -workers 2 -config <cfg> <module>`; each takes a few seconds to three minutes.

| Run | Shows |
|---|---|
| `envelope_log` | `ReplayGapFree`: from whatever cursor a reader resumes, the page it is sent has no hole. `CountsCoherent`: counter and caches agree with the tables. `WithinCapacity`, `AcknowledgedRowsAreGone`, `NoSequenceReuse`, `NoEarlyLoss` |
| `controller_lease` | `DesktopStreamIsFenced`: the stream never returns to an older generation and a generation has one author. `ControlAgrees`: at most the lease's owner is in controller mode, sockets are of the current generation, one for an endpoint. `HandoverAdvancesGeneration` |
| `session_tunnel` | `AlarmCoversExpiry`: an owned lease and every attachment have an alarm that is due no later (nothing is said of rows and of sockets without one: `publishEnvelope` and `fetch` do not schedule). `ScheduledAlarmIsCurrent`: what the object remembers of the alarm is never stale. `NoRevokedSocket`: no socket of a revoked generation is open, wherever in an admission the revocation comes |
| `command_ledger` | `ExecutedAtMostOnce`, `ExecutionIsFenced`, `OutgoingNumbersAreUnique`, `UnconsumedRunIsComplete`, `AcknowledgedWhenAnswered`; `TerminalEventFits`: a running command always has room for its terminal event. `SettledIsFinal`: a settled command changes neither status nor events |
| `device_tunnel` | `ImplementsRemoteCommands`: two overlapping tunnels over lossy connections keep the promise of `RemoteCommands`. `ResendsAreIdentical`: a number stands for one response wherever it is sent, kept or on its way. `StreamIsPersisted`: the relay never has a number the ledger has not, and what it lacks is still in the ledger. `FirstFlushIsComplete`: what a tunnel's first flush sends leaves no number out, so the flush it depends on for serving at all never waits for the answer to a gap |
| `device_recovery` | the same promise with a restart of the daemon, and `TerminalEventsReachRelay`: the terminal event of a command that emitted nothing before it reaches the relay, whatever tunnels come and go |
| `relay_usage` | `ChargedIsTransferred`, `RefundsAreCovered`, `AccountIsSumOfDevices`, `ConcurrencyIsBounded`, and in `UsageTypeOK` that the quota is kept |
| `replay_gap`, `unfenced_device`, `pruned_unsent`, `second_terminal`, `answer_taken` | disagreements between the code and its comments or README, see section 5 |

Each property of a passing run has a mutant, a definition changed the way a
plausible bug would change it, under which the run finds a violation. Mutants
stand before the definition they mutate and are used by nothing else.

### Bounds, and why they suffice

* `envelope_log`: 2 payloads (a retransmission and a conflict), sequences up to
  3, 3 stored rows (six may be published, so capacity pruning takes rows of
  both streams), pages of 2 (so `more` occurs), a clock of 0..2 with a
  retention of 1 (rows of three ages). Payloads are symmetric: they are only
  compared.
* `controller_lease`: 2 clients, so takeovers; leases up to generation 3, two
  handovers; 2 sockets over a run and 2 envelopes in flight, so a socket is
  replaced while the old one's envelope waits; 1 admission at a time; a clock
  of 0..1, so grants, attachments and the lease expire. Clients are symmetric.
* `session_tunnel`: one of each, since the halves are checked on their own and
  the run is about what exists between them: alarm, close events, eviction; two
  device generations, so that a revocation has something to fence.
  `unfenced_device` has two clients, so that one takes over from the other.
* `command_ledger`: 3 commands with the limits at 2 (both are reached: the third
  command waits until one is pruned, a command has one event beside the terminal
  one), 1 restart, 3 scopes: a client, its reattachment, and a second client with
  a newer lease.
* `device_tunnel`: 2 tunnels, so every overlap of two; 2 commands, the first of
  which also emits an intermediate event, so flushes of two commands compete for
  numbers; a reattachment, so scopes differ; any number of lost connections.
  Tunnels are symmetric. No restart: that is `device_recovery`, with one scope
  and no intermediate events (see fairness), but a restart anywhere.
* `relay_usage`: 2 connections on 1 or 2 devices; a quota of three chunks of one
  byte in both directions, so the chunk, the fallback to the frame and the
  refusal all occur; two frames of a socket in the meter; one connection for
  each device; a clock of 0..2 with grants of 1 or 2 seconds, a window of 1 and
  a fence of 2, so that rows, windows and fences are pruned.
* `answer_taken`: 2 callers of one operation and 2 connections are enough.

What bounds a run and not the code is named `Max...` and marked `bound:` in the
CONSTANTS; policies of the code (`MaxStoredEnvelopes`, `MaxRetainedCommands`,
...) are constants too. The runs of `CommandLedger`, `DeviceTunnel`, `DesktopSession` and `RelayUsage`
have `CHECK_DEADLOCK FALSE`: when the bounded commands, restarts, connections
and seconds are used up nothing is left to do, which in the code is an idle
process. The other runs check deadlock.

### Fairness

`DeviceTunnel!FairSpec` is the only specification with fairness, and
`TerminalEventsReachRelay` the only liveness claimed.

* `WF(DaemonStep)`: while the daemon can dispatch, flush, settle or open the
  tunnel it is asked for, it does. These are promises of one process that
  nothing else blocks. It includes that a new tunnel is asked for when there is
  none: "a failed session tunnel is independently retried by the desktop with a
  fresh scoped grant" (`control-connection.ts:292`). It does not include the
  executor, which may run for ever.
* `SF` of a first flush and of a send: connections may be lost again and again,
  but if tunnels keep being opened, some first flush and some next envelope get
  through. Weak fairness would let every connection be lost just before.

The claim is of terminal events, and of commands that emit nothing before
(`Commands \ Emitters`), because TLC refutes more. An intermediate event may
never arrive: a notified flush whose first number is not the tunnel's next one
fails, the failure is swallowed (`session-handler.ts:253`), and a command that
runs on without another event keeps this one until the next tunnel; a flush that
meets a gap later waits as long as the connection lasts (section 5). And the
terminal event of a command that did emit can be pruned before it is sent
(`pruned_unsent`). After a terminal event dispatch flushes again, which is why
the claim holds.
"Every command is answered" is not claimed: it is false in general
(`pruned_unsent`), and after a takeover a command that still runs or is not yet
acknowledged makes each tunnel of the new scope fail until it is.

## 4. What is proved

`tlapm <module>` proves every obligation of the proof modules, for all values of
the constants that satisfy the named assumptions of the models. What these say,
and why the code justifies it:

* `PolicyAssumption`, `PolicyIsPositive`, `PolicyNumbers`: limits, windows and
  sizes are positive numbers, as the source's constants are.
* `BoundAssumption`, `BoundsAreNumbers`: what bounds a run is a natural number.
* `GenerationsAreNumbers`: the relay counts generations.
* `ScopesAreGrantedInTurn`: two scopes of a session differ in their generations,
  because a lease has one client and its attachments are numbered
  (`ControllerLeaseProofs` shows that a handover advances the generation).
* `FinitelyManyConnections`, `FinitelyManyDevices`: an account has finitely many.
* `OutcomesSettle`: an executor ends with one of the terminal events.
* `UsageKeys`: a client is not called as the account's key.
* `NoneAssumption`, `NoneIsNoValue`, `NoneIsNothing`, `NoneIsNoTunnel`,
  `NoneIsNoRecord`: `None`, the models' `undefined`, is none of the values it
  stands beside.

Besides, the clock never goes back, which is part of the models (`tick`). Every
invariant, action property and refinement that a passing run checks is also a
theorem.

* **EnvelopeLogProofs.** `ReplayGapFree` is not inductive: what makes it true is
  that each stream's rows are always a run without holes ending at the sender's
  cursor, in the order of their creation times (`Ordered`). `LogInv` adds it to
  the checked invariants. Every deletion (acknowledgement, retention, capacity)
  takes a lower part of a stream (`LowerPart`), and `DeletionKeepsOrder` shows
  once that this keeps `Ordered`. Capacity pruning needs the creation times:
  it deletes by time over both streams, and only their monotonicity makes that
  a lower part of each. All seven checked properties of the log follow
  (`LogTypeCorrect`, `CountsStayCoherent`, `CapacityIsKept`,
  `AcknowledgedStayGone`, `ReplayIsGapFree`, `SequencesAreNotReused`,
  `EnvelopesAreNotLostEarly`).
* **ControllerLeaseProofs.** `ControlInv` strengthens the fence by
  `AuthorsFollowLease`: no author is of a generation newer than the lease, and
  an author of the lease's own generation is its owner. Every handler
  changes the record of lease, attachments and sockets by composing a few
  operators (`Normalized`, `WithAttachment`, `WithController`, `Vacated`), so
  the proof shows once for each of them that it is a `Sound` change (keeps the
  agreement, never lowers the generation, never changes an owner within a
  generation), and that sound changes compose. `StreamIsFenced`,
  `ControlStaysInAgreement`, `HandoverAdvances`, `RevokedStayOut` and
  `TypeCorrect` follow.
* **SessionTunnelProofs.** The object implements both halves:
  `ImplementsControl` is `Spec => Control!Spec` and `ImplementsStorage`
  `Spec => Storage!Spec`, with the identity as refinement mapping, since each
  step is a step of a half or leaves it alone. `ObjectIsFenced` and
  `ObjectReplays` carry the halves' theorems over. `AuthorsAreNumbered` ties
  the two together: `authors` has exactly one entry for each number of the
  desktop stream, so the fence is a statement about sequence numbers.
* **CommandLedgerProofs.** `ExecutesAtMostOnce` from `AdmissionsAreCounted`;
  `ExecutesUnderTheFence` from `Fenced`, which adds that a running command is
  still admitted in the ledger (so it cannot be pruned and admitted again) and
  that retained scopes are bounded by the adopted one. The adopted scope is in
  the file, which is why a restart does not matter.

  `AcknowledgesWhatIsAnswered` adds `Acknowledged` to `Fenced`: an acknowledged
  command has ended, and its entry, while kept, holds a response. A command that
  is running is above the acknowledgement because the loop stops at it.

  The whole is `LedgerInvariant`, `Fenced /\ Acknowledged /\ Typed /\ Numbered`.
  `LedgerIsTyped` says the types and that acknowledgements stay behind what was
  received and given. `SettledStaysSettled` follows because a settled command has
  no call and the next admission is of a later one. `TerminalEventAlwaysFits` is
  inductive beside `LedgerInvariant`: only `emit` and `appendTerminal` of a running
  command and a restart change a command's count, since a preparation moves
  events from plaintext to ciphertext and adds none (`PreparingKeepsCount`).
  `NumbersAreGivenOnce` and
  `UnconsumedIsKept` are one invariant, since a number is free only because
  those in use form a run that ends below `nextOutgoing`. A preparation gives
  the waiting events the next numbers by counting those before each, so
  `Counting` (`PlacesAscend`, `PlacesAreComplete`) shows that it leaves none out
  and gives none twice: no induction over the loop is needed. An
  acknowledgement removes a lower part of the run, and pruning only commands of
  which nothing is left in it.
  `EventsStep` says what a step does to the ledger's responses: none changes its
  number or kind, and new ones come behind.
* **SessionTunnelProofs**, the alarm: `RememberedAlarmIsCurrent` says that the
  copy in memory is unknown or equal to storage, through firing, eviction and
  restart. `AlarmCoversEveryExpiry` rests on it: because the copy is current,
  a call of `scheduleAlarm` leaves in storage the least of the expiries
  (`LeastNatural` of `Counting`, from the well-foundedness of `<`) whether it
  writes or not; every action that makes a lease or an attachment expire calls
  it, and every other action leaves those expiries or removes some. `RevokedSocketsStayOut` carries
  the control half's theorem over.
* **RelayUsageProofs.** `UsageTypeCorrect` includes the quota and that nothing
  goes below zero. It needs `Covered`: a reservation that was granted is at
  least its frame, so what is left is a natural number; and that a queued
  frame's stale attachment is one. `ConcurrencyCorrect` rests on a fact that
  ties the two sides together: a connection that is admitted or open and not
  expired has its row. Admission counts rows, so the connections that are alive
  are among them; a release or an expiry removes a row only with its connection.

  `AccountCorrect`, `RefundsCorrect` and `TransfersCorrect` are about sums, and
  a sum is written as the cardinality of a set of units (`SumOf`): what one call
  changes in it is then a fact about one element (`SumChanges` and its
  relatives), without induction over the account's devices or sockets.
  `BookingInv` has `AccountIsSumOfDevices`; that a device's charge is the sum of
  a charge for each of its connections that covers what the connection may
  still refund or spend (`ChargeInv`); and that it is exactly what was
  transferred, held and granted where no socket is torn (`TransferInv`). It
  rests on `SocketInv`: a socket has nothing before it is open, is refunded once,
  and a frame of a socket that is not torn finds the attachment that its handler
  read.
* **DeviceTunnelProofs.** `ImplementsLedger` is `Spec => Ledger!Spec`. Most steps
  are steps of the ledger or leave it alone by definition; that a flush prepares
  nothing but retained commands, and an acknowledgement is in the ledger's range,
  needs `TunnelInvariant`: what tunnels want, wait for and flush are commands,
  and the desktop's stream is within the bound. `DaemonExecutesOnceAndFenced` is
  then the ledger's theorems about the daemon behind its tunnels.
* **DeviceStreamProofs.** The properties about numbers in flight
  (`NumbersNameOneEnvelope`, `RelayHoldsWhatWasPersisted`,
  `FirstFlushLeavesNoGap`, `TunnelsAreTyped`) follow from `StreamInv`: the table
  of tunnels, the relay's stream, and that no two envelopes share a number
  wherever they are. It is inductive only beside the ledger's numbering: what a
  flush takes is in the ledger, later numbers are larger, so what was sent and
  has since been pruned cannot be met by another response.

  `KeepsThePromise` is `Spec => ImplementsRemoteCommands`. That commands are
  executed in order and once comes from the fence. That a command's answers are
  events, a terminal event and at most one failure needs `AnswersInOrder`,
  which ranges over everything that is answered to a command and not only over
  what the relay has: the envelopes sent or kept, at their numbers, and behind
  them the events that have none. Of these at most two are terminal, the later
  one is a failure and nothing comes behind it; a command that is still admitted
  has nothing behind a terminal event, and a running one has none. Appending an
  event, a terminal event or a restart's failure keeps it by the command's
  status; numbering keeps it because new numbers are above those given; what is
  pruned or lost only takes answers away. The step that delivers an envelope is
  then `answer`: all terminal answers of its command with a smaller number are
  in the stream.

Only model-checked: `TerminalEventsReachRelay`, because liveness under fairness and
ENABLED are out of the prover's reach, and the five runs that end in a
violation. `DesktopSession` has no theorem: what it would promise is what
`answer_taken` refutes.

## 5. Where the code and its documentation disagree

1. **A reader is not told of a gap when the stream is empty** (`replay_gap`).
   `replay` derives the truncation notice from the oldest stored row; after the
   retention period has removed all rows there is none, although
   `sequence_cursors` still holds the newest number. The relay's README expects a
   replay-gap response.
2. **Device envelopes are not re-checked after their metering**
   (`unfenced_device`). The comment at `session-tunnel.ts:1232` says the mutating
   publish paths re-check their generation fence; only desktop envelopes do. In the
   trace a second client takes the lease over between the receipt and the
   publication, which closes the device's socket, and the envelope is stored.
3. **A settled command can be pruned with its terminal event unsent**
   (`pruned_unsent`). Acknowledgement and pruning look at ciphertexts and not at
   events still to be encrypted.
4. **A restart can add a second terminal event** (`second_terminal`). The
   terminal event and the status are two writes; `#initialize` treats what lies
   between them as interrupted. (Had the command used its whole event limit, it
   would then exceed it, by this one event: `TerminalEventFits` allows for it.)
5. **A caller can lose its answer to another caller** (`answer_taken`). Between
   the check of a terminal event and its persistence the command is pending and
   claimed by nobody; a second caller of the same operation takes it up, its own
   request is never sent, and one of the two waits without a limit. The same
   property fails when a connection closes after an event was persisted and
   before it was acknowledged: it is then never delivered.

Also seen, and not a finding of a run:

* The usage ledger is exact only for sockets that end with an idle meter. A
  close during a reservation refunds what the attachment had; the answer then
  writes bytes into an attachment that is refunded already, and frames behind it
  spend them: the charge ends too low. A reservation whose answer is lost, or
  that nothing is queued behind, leaves it too high. `ChargedIsTransferred`
  therefore excludes these sockets; `RefundsAreCovered` does not.
* "A long Agent.run cannot block pruning" (`session-tunnel.ts:117` of the device):
  it does not block the handling of acknowledgements, but a command is pruned
  only up to `acknowledgedDesktopSequence`, which stops at a running command. At
  `maxRetainedCommands` the next command is then refused, which ends the tunnel.
* A notified flush prepares the events of its own command only. When those of
  another have smaller numbers and are not sent yet, it passes the check of its
  first number and later sends past a number that the relay lacks. The relay's
  answer to that names no sequence, so no pending write of the tunnel is settled
  by it: the send waits until the connection ends, and the tunnel's later
  flushes wait behind it. `send` models this; the runs meet it only with two
  commands that emit events, which is too large for `device_tunnel` (one
  emits), so no property is stated of it.

## 6. Not modelled, and the plan

Left out inside the modelled parts: frame parsing and signatures, the ledger's
migration of files without scopes, failing disks, wrong session or device
identifiers (rejected before any state is read), byte accounting of the meter,
messages that a peer still sends after the relay closed its socket, and alarm
handlers that fail and are run again.

In `DesktopSession`: `forget`, a device whose key changes, SSH, managed sessions,
replay pages and the batching of acknowledgements. It has no passing run: what
it would promise a caller is what `answer_taken` refutes. In `DeviceTunnel`: the
direct SSH server, and the relay's retention and capacity pruning (`EnvelopeLog`
has them), so a device envelope is never lost at the relay there. In
`RelayUsage`: `recordTransfer`, `snapshot` and the telemetry.

Left out for good: cryptography, HTTP and SQL plumbing, user interface, model
and provider I/O, git and process work: either no protocol state or state that
another system keeps.

Not modelled yet, in the order in which it would be worth it:

1. **DeviceRegistry**: enrolment, challenges read before an await, rotation,
   presence, revocation fan-out with failing calls, catalogue requests.
2. **ManagedSession** (journal and lanes), against `RemoteCommands` like the
   device, then **OffloadJob**.
3. **CredentialLease** (auth state), **SessionEvents** (GitHub relay).
4. Agent runtime: retained session registry, subagent supervision, run-tree
   reducer, background tasks.

The map covers a small share of the repository because most of it is of the
kinds named above (generated clients, RPC plumbing, user interface, adapters of
external commands); the modules cover the remote session protocol, which is
where several processes share state.
