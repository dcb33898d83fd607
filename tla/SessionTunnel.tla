--------------------------- MODULE SessionTunnel ---------------------------
(***************************************************************************)
(* SessionTunnelObject (apps/device-relay/src/session-tunnel.ts) as a      *)
(* whole: every call, socket event and alarm is one atomic step on both of *)
(* its halves, the control state (ControllerLease) and the envelope log    *)
(* (EnvelopeLog). What only exists between the two is here: which envelope *)
(* the log is asked to insert, the alarm with the copy of its time that    *)
(* the object keeps in memory, and the webSocketClose events of closed     *)
(* sockets, after which the alarm is scheduled again.                      *)
(*                                                                         *)
(* Every step is a step of each half or leaves it alone, so what holds of  *)
(* the halves holds of the object: SessionTunnelProofs shows that this     *)
(* specification implements Control!Spec and Storage!Spec.                 *)
(***************************************************************************)
EXTENDS Integers, FiniteSets, Sequences

CONSTANTS
    Clients, Payloads, None, Undefined,
    MaxStoredEnvelopes, MaxReplayEnvelopes, RetentionSeconds,
    MaxSequence, MaxTime, MaxDeviceGeneration, MaxAttachmentGeneration,
    MaxLeaseGeneration, MaxGrantSeconds, MaxAdmissions, MaxSockets, MaxInFlight

\* The assumptions of the two halves.
ASSUME NoneIsNoValue == None \notin Clients /\ None \notin Int

ASSUME UndefinedIsNoTime == Undefined # None /\ Undefined \notin Int

ASSUME PolicyAssumption ==
    /\ MaxStoredEnvelopes \in Nat \ {0}
    /\ MaxReplayEnvelopes \in Nat \ {0}
    /\ RetentionSeconds \in Nat \ {0}

ASSUME BoundsAreNumbers ==
    {MaxTime, MaxDeviceGeneration, MaxAttachmentGeneration, MaxLeaseGeneration,
     MaxGrantSeconds, MaxAdmissions, MaxSockets, MaxInFlight, MaxSequence} \subseteq Nat

VARIABLES
    now,
    rows, cursors, acks, envelopeCount, countCache, newestCache, ackCache,
    deviceGeneration, revokedGeneration, lease, attachments, sockets, accepted,
    admissions, meters, authors,
    closing,            \* sockets that were closed and whose webSocketClose has not run
    alarmAt,            \* the alarm in storage, or None
    scheduledAlarmAt    \* what the object remembers of alarmAt; Undefined: nothing

Envelopes == [sequence: 1..MaxSequence, payload: Payloads]

\* The halves come with the theorems about them.
Storage == INSTANCE EnvelopeLogProofs
Control == INSTANCE ControllerLeaseProofs WITH MaxPublished <- MaxSequence

storageVars == <<rows, cursors, acks, envelopeCount, countCache, newestCache, ackCache>>
vars == <<now, storageVars, deviceGeneration, revokedGeneration, lease, attachments,
          sockets, accepted, admissions, meters, authors, closing, alarmAt,
          scheduledAlarmAt>>

Init ==
    /\ Storage!Init
    /\ Control!Init
    /\ closing = {}
    /\ alarmAt = None
    /\ scheduledAlarmAt = Undefined

-----------------------------------------------------------------------------
(* The alarm is scheduled for the earliest expiry of anything kept.        *)

\* Mutant: the expiry of the attachments is forgotten.
ExpiriesOfSocketsAndRows ==
    {s.admission.expiresAt : s \in sockets}
        \cup {r.createdAt + RetentionSeconds : r \in rows}
        \cup ({lease.expiresAt} \ {None})

Expiries ==
    {s.admission.expiresAt : s \in sockets}
        \cup {r.createdAt + RetentionSeconds : r \in rows}
        \cup {attachments[c].expiresAt : c \in {x \in Clients : attachments[x] # None}}
        \cup ({lease.expiresAt} \ {None})

Earliest(times) ==
    IF times = {} THEN None ELSE CHOOSE t \in times : \A u \in times : t <= u

\* The alarm in storage is only written when it differs from what is remembered of it,
\* and only read when nothing is. getWebSockets may still list sockets that were closed
\* until their peers answer, and their expiries count.
ScheduleFrom(stored, remembered) ==
    \E listed \in SUBSET (closing \cup closing') :
        LET next == Earliest(Expiries' \cup {s.admission.expiresAt : s \in listed})
            current == IF remembered = Undefined THEN stored ELSE remembered
        IN  /\ alarmAt' = IF current # next THEN next ELSE stored
            /\ scheduledAlarmAt' = next

scheduleAlarm == ScheduleFrom(alarmAt, scheduledAlarmAt)

scheduleAlarmIf(condition) ==
    \/ condition /\ scheduleAlarm
    \/ ~condition /\ UNCHANGED <<alarmAt, scheduledAlarmAt>>

\* Mutant: the handler does not forget the alarm that has just fired.
RememberedAsScheduled == scheduledAlarmAt

\* The runtime takes a firing alarm out of storage, and the handler forgets it.
RememberedAfterFiring == None

\* Every socket the step closed will be reported to webSocketClose.
ReportClosed == closing' = closing \cup (sockets \ sockets')

-----------------------------------------------------------------------------
(* Steps of the control state that leave the log alone.                    *)

initialize(generation) ==
    /\ Control!initialize(generation)
    /\ UNCHANGED <<storageVars, closing>>
    /\ scheduleAlarm

attachClient(a) ==
    /\ Control!attachClient(a)
    /\ UNCHANGED storageVars
    /\ ReportClosed
    /\ scheduleAlarmIf(Control!Attaches(a))

acquireController(a, takeover) ==
    /\ Control!acquireController(a, takeover)
    /\ UNCHANGED storageVars
    /\ ReportClosed
    /\ scheduleAlarmIf(Control!Acquires(a, takeover))

releaseController(a) ==
    /\ Control!releaseController(a)
    /\ UNCHANGED storageVars
    /\ ReportClosed
    /\ scheduleAlarmIf(Control!Releases(a))

prepareConnection(a) ==
    /\ Control!prepareConnection(a)
    /\ UNCHANGED storageVars
    /\ ReportClosed
    /\ scheduleAlarm

revokeDevice(generation) ==
    /\ Control!revokeDevice(generation)
    /\ UNCHANGED storageVars
    /\ ReportClosed
    /\ scheduleAlarm

\* Calls and events that end without scheduling the alarm.
unscheduled ==
    /\ \/ \E a \in admissions : Control!abandonAdmission(a)
       \/ Control!inventoryEntry
       \/ \E s \in sockets : Control!messageOnExpiredSocket(s)
       \/ \E s \in sockets, envelope \in Envelopes : Control!receiveEnvelope(s, envelope)
       \/ \E i \in DOMAIN meters : Control!meterRefused(i)
       \/ \E s \in sockets : Control!peerCloses(s)
    /\ UNCHANGED <<storageVars, alarmAt, scheduledAlarmAt>>
    /\ ReportClosed

webSocketClose(s) ==
    /\ closing' = closing \ {s}
    /\ UNCHANGED <<now, storageVars, deviceGeneration, revokedGeneration, lease,
                   attachments, sockets, accepted, admissions, meters, authors>>
    /\ scheduleAlarm

-----------------------------------------------------------------------------
(* Steps of both.                                                          *)

\* An accepted socket is greeted with the state of both streams and a replay.
fetch(a) ==
    /\ Control!fetch(a)
    /\ \/ Control!Upgrades(a) /\ Storage!Hello(a.endpoint)
       \/ ~Control!Upgrades(a) /\ UNCHANGED storageVars
    /\ ReportClosed
    /\ UNCHANGED <<alarmAt, scheduledAlarmAt>>

\* `resume` and `ack` messages need no more than an unexpired socket.
readerMessage(s) ==
    /\ ~Control!Expired(s)
    /\ \/ Storage!Resume(s.admission.endpoint)
       \/ \E n \in 0..MaxSequence : Storage!Acknowledge(s.admission.endpoint, n)
    /\ UNCHANGED <<now, deviceGeneration, revokedGeneration, lease, attachments, sockets,
                   accepted, admissions, meters, authors, closing, alarmAt,
                   scheduledAlarmAt>>

publishAuthorizedEnvelope(i) ==
    LET sender == meters[i].socket.admission.endpoint
        envelope == meters[i].envelope
    IN  /\ IF Control!Authorised(i)
           THEN Storage!PublishEnvelope(sender, envelope.sequence, envelope.payload)
           ELSE UNCHANGED storageVars
        /\ Control!publishAuthorizedEnvelope(i, cursors'[sender] # cursors[sender])
        /\ ReportClosed
        /\ UNCHANGED <<alarmAt, scheduledAlarmAt>>

alarm ==
    /\ alarmAt # None
    /\ alarmAt <= now
    /\ Control!alarm
    /\ Storage!PruneExpired
    /\ ReportClosed
    /\ ScheduleFrom(None, RememberedAfterFiring)

\* An idle object is evicted while its sockets hibernate: only the caches go. A
\* call in flight prevents it.
hibernate ==
    /\ meters = <<>>
    /\ Storage!Evict
    /\ scheduledAlarmAt' = Undefined
    /\ UNCHANGED <<now, deviceGeneration, revokedGeneration, lease, attachments, sockets,
                   accepted, admissions, meters, authors, closing, alarmAt>>

restart ==
    /\ Control!restart
    /\ Storage!Evict
    /\ closing' = {}
    /\ scheduledAlarmAt' = Undefined
    /\ UNCHANGED alarmAt

tick ==
    /\ Control!tick
    /\ UNCHANGED <<storageVars, closing, alarmAt, scheduledAlarmAt>>

-----------------------------------------------------------------------------

Next ==
    /\ \/ \E g \in 1..MaxDeviceGeneration : initialize(g)
       \/ \E a \in Control!CurrentGrants("desktop") : attachClient(a)
       \/ \E a \in Control!CurrentGrants("desktop"), takeover \in BOOLEAN :
             acquireController(a, takeover)
       \/ \E a \in Control!CurrentGrants("desktop") : releaseController(a)
       \/ \E a \in Control!Grants("desktop") \cup Control!Grants("device") :
             prepareConnection(a)
       \/ \E g \in 2..MaxDeviceGeneration : revokeDevice(g)
       \/ unscheduled
       \/ \E s \in closing : webSocketClose(s)
       \/ \E a \in admissions : fetch(a)
       \/ \E s \in sockets : readerMessage(s)
       \/ \E i \in DOMAIN meters : publishAuthorizedEnvelope(i)
       \/ alarm
       \/ hibernate
       \/ restart
       \/ tick
    /\ Control!LeaseGenerationBound

Spec == Init /\ [][Next]_vars

-----------------------------------------------------------------------------
(* Properties.                                                             *)

\* An owned lease and an attachment have an alarm that is due no later than they expire.
\* Only these two: an envelope is inserted, and a socket accepted, without scheduling.
AlarmCoversExpiry ==
    /\ lease.expiresAt # None => alarmAt # None /\ alarmAt <= lease.expiresAt
    /\ \A c \in Clients : attachments[c] # None =>
          alarmAt # None /\ alarmAt <= attachments[c].expiresAt

\* What the object remembers of the alarm is the alarm in storage: a stale copy would make
\* scheduleAlarm skip setAlarm or deleteAlarm. The copy is read and written by every call
\* that schedules, lost by evictions and restarts, and must be reset when the alarm fires.
ScheduledAlarmIsCurrent == scheduledAlarmAt # Undefined => scheduledAlarmAt = alarmAt

\* A device that was revoked has no socket of the revoked generation, in whatever order
\* the revocation meets admissions, upgrades, alarms and restarts: revokeDevice closes the
\* sockets there are and fetch checks the persisted tombstone.
NoRevokedSocket == Control!NoRevokedSocket

\* "The mutating publish paths still re-check their durable generation fence"
\* (session-tunnel.ts:1232-1233): nothing is inserted that was received under an earlier
\* controller generation, at least not when another client has the lease by then. It does
\* not hold of an envelope of the device that awaits its metering while another client
\* takes the lease over: publishAuthorizedEnvelope publishes it unchecked although its
\* socket is closed.
PublishIsFenced ==
    [][\A e \in Storage!Endpoints : cursors'[e] # cursors[e] =>
          \E i \in DOMAIN meters :
              LET a == meters[i].socket.admission
              IN  /\ a.endpoint = e
                  /\ \/ lease'.owner \in {None, a.client}
                     \/ a.leaseGeneration = lease'.generation]_vars

=============================================================================
