------------------------- MODULE SessionTunnelProofs -------------------------
(***************************************************************************)
(* The Durable Object implements both of its halves, so the theorems about *)
(* ControllerLease and EnvelopeLog hold of it. Each step is mapped to the  *)
(* step of the half it names, or leaves the half alone. For the log this   *)
(* needs the types that ControllerLease guarantees: the endpoint of an     *)
(* admission or a socket, and the envelope that awaits its metering.       *)
(***************************************************************************)
EXTENDS SessionTunnel, Counting, SequenceTheorems, TLAPS

\* Every step of the object is a step of the control state or leaves it alone.
THEOREM ImplementsControl == Spec => Control!Spec
<1>1. Init => Control!Init
  BY DEF Init
<1>2. [Next]_vars => [Control!Next]_(Control!vars)
  <2> SUFFICES ASSUME [Next]_vars PROVE [Control!Next]_(Control!vars)
    OBVIOUS
  <2>1. CASE UNCHANGED vars
    BY <2>1 DEF vars, Control!vars, Control!controlVars
  <2>2. CASE Next
    <3> SUFFICES Control!Next \/ UNCHANGED Control!vars
      OBVIOUS
    <3>1. Control!LeaseGenerationBound
      BY <2>2 DEF Next
    <3>2. ASSUME Control!WorkerCall \/ Control!SocketEvent \/ Control!alarm
                   \/ Control!restart \/ Control!tick
          PROVE  Control!Next
      BY <3>1, <3>2 DEF Control!Next
    <3>3. CASE \E g \in 1..MaxDeviceGeneration : initialize(g)
      BY <3>2, <3>3 DEF initialize, Control!WorkerCall
    <3>4. CASE \E a \in Control!CurrentGrants("desktop") : attachClient(a)
      BY <3>2, <3>4 DEF attachClient, Control!WorkerCall
    <3>5. CASE \E a \in Control!CurrentGrants("desktop"), takeover \in BOOLEAN :
                  acquireController(a, takeover)
      BY <3>2, <3>5 DEF acquireController, Control!WorkerCall
    <3>6. CASE \E a \in Control!CurrentGrants("desktop") : releaseController(a)
      BY <3>2, <3>6 DEF releaseController, Control!WorkerCall
    <3>7. CASE \E a \in Control!Grants("desktop") \cup Control!Grants("device") :
                  prepareConnection(a)
      BY <3>2, <3>7 DEF prepareConnection, Control!WorkerCall
    <3>8. CASE \E g \in 2..MaxDeviceGeneration : revokeDevice(g)
      BY <3>2, <3>8 DEF revokeDevice, Control!WorkerCall
    <3>9. CASE unscheduled
      BY <3>2, <3>9 DEF unscheduled, Control!WorkerCall, Control!SocketEvent
    <3>10. CASE \E s \in closing : webSocketClose(s)
      BY <3>10 DEF webSocketClose, Control!vars, Control!controlVars
    <3>11. CASE \E a \in admissions : fetch(a)
      BY <3>2, <3>11 DEF fetch, Control!WorkerCall
    <3>12. CASE \E s \in sockets : readerMessage(s)
      BY <3>12 DEF readerMessage, Control!vars, Control!controlVars
    <3>13. CASE \E i \in DOMAIN meters : publishAuthorizedEnvelope(i)
      <4>1. PICK i \in DOMAIN meters : publishAuthorizedEnvelope(i)
        BY <3>13
      <4> DEFINE sender == meters[i].socket.admission.endpoint
                 inserted == cursors'[sender] # cursors[sender]
      <4>2. Control!publishAuthorizedEnvelope(i, inserted) /\ inserted \in BOOLEAN
        BY <4>1 DEF publishAuthorizedEnvelope
      <4> HIDE DEF inserted
      <4> QED BY <3>2, <4>2 DEF Control!SocketEvent
    <3>14. CASE alarm
      BY <3>2, <3>14 DEF alarm
    <3>15. CASE hibernate
      BY <3>15 DEF hibernate, Control!vars, Control!controlVars
    <3>16. CASE restart
      BY <3>2, <3>16 DEF restart
    <3>17. CASE tick
      BY <3>2, <3>17 DEF tick
    <3> QED BY <2>2, <3>3, <3>4, <3>5, <3>6, <3>7, <3>8, <3>9, <3>10, <3>11, <3>12,
               <3>13, <3>14, <3>15, <3>16, <3>17 DEF Next
  <2> QED BY <2>1, <2>2
<1> QED BY <1>1, <1>2, PTL DEF Spec, Control!Spec

LEMMA ControlTyped == Spec => []Control!TypeOK
BY ImplementsControl, Control!TypeCorrect, NoneIsNoValue, BoundsAreNumbers, PTL

-----------------------------------------------------------------------------
(* The log.                                                                *)

\* What the types of the control state say of the steps that reach the log.
LEMMA ReachesLog ==
    ASSUME Control!TypeOK
    PROVE  /\ \A a \in admissions : a.endpoint \in Storage!Endpoints
           /\ \A s \in sockets : s.admission.endpoint \in Storage!Endpoints
           /\ \A i \in DOMAIN meters :
                 /\ meters[i].socket.admission.endpoint \in Storage!Endpoints
                 /\ meters[i].envelope \in Envelopes
<1>1. \A a \in Control!Admission : a.endpoint \in Storage!Endpoints
  BY DEF Control!Admission, Control!Endpoints, Storage!Endpoints
<1>2. \A s \in Control!Socket : s.admission \in Control!Admission
  BY DEF Control!Socket
<1>3. admissions \subseteq Control!Admission /\ sockets \subseteq Control!Socket
  BY DEF Control!TypeOK
<1>4. \A i \in DOMAIN meters : meters[i].socket \in Control!Socket
                               /\ meters[i].envelope \in Envelopes
  <2> DEFINE InFlight == [socket: Control!Socket, envelope: Envelopes]
  <2>1. meters \in Seq(InFlight)
    BY DEF Control!TypeOK
  <2>2. \A m \in InFlight : m.socket \in Control!Socket /\ m.envelope \in Envelopes
    OBVIOUS
  <2> HIDE DEF InFlight
  <2> QED BY <2>1, <2>2, LenProperties
<1> QED BY <1>1, <1>2, <1>3, <1>4

\* A step of the control state that is not a tick takes no time.
LEMMA ControlTakesNoTime ==
    ASSUME Control!WorkerCall \/ Control!SocketEvent \/ Control!alarm \/ Control!restart
    PROVE  now' = now
<1>1. CASE Control!WorkerCall
  BY <1>1 DEF Control!WorkerCall, Control!initialize, Control!attachClient,
     Control!acquireController, Control!releaseController, Control!prepareConnection,
     Control!abandonAdmission, Control!fetch, Control!inventoryEntry, Control!revokeDevice
<1>2. CASE Control!SocketEvent
  BY <1>2 DEF Control!SocketEvent, Control!messageOnExpiredSocket, Control!receiveEnvelope,
     Control!meterRefused, Control!publishAuthorizedEnvelope, Control!peerCloses,
     Control!CloseSocket
<1>3. CASE Control!alarm \/ Control!restart
  BY <1>3 DEF Control!alarm, Control!restart
<1> QED BY <1>1, <1>2, <1>3

\* Every step of the object is an operation of the log, a tick, or leaves it alone.
LEMMA LogStep ==
    ASSUME Control!TypeOK, [Next]_vars
    PROVE  [Storage!Next]_(Storage!vars)
<1>1. CASE UNCHANGED vars
  BY <1>1 DEF vars, storageVars, Storage!vars, Storage!logVars
<1>2. CASE Next
  <2> SUFFICES Storage!Next \/ UNCHANGED Storage!vars
    OBVIOUS
  <2>1. ASSUME Storage!Operation, now' = now
        PROVE  Storage!Next
    BY <2>1 DEF Storage!Next
  <2>2. ASSUME UNCHANGED storageVars, now' = now
        PROVE  UNCHANGED Storage!vars
    BY <2>2 DEF storageVars, Storage!vars, Storage!logVars
  <2>3. CASE \/ \E g \in 1..MaxDeviceGeneration : initialize(g)
             \/ \E a \in Control!CurrentGrants("desktop") : attachClient(a)
             \/ \E a \in Control!CurrentGrants("desktop"), takeover \in BOOLEAN :
                   acquireController(a, takeover)
             \/ \E a \in Control!CurrentGrants("desktop") : releaseController(a)
             \/ \E a \in Control!Grants("desktop") \cup Control!Grants("device") :
                   prepareConnection(a)
             \/ \E g \in 2..MaxDeviceGeneration : revokeDevice(g)
    <3>1. UNCHANGED storageVars
      BY <2>3 DEF initialize, attachClient, acquireController, releaseController,
         prepareConnection, revokeDevice
    <3>2. Control!WorkerCall
      BY <2>3 DEF initialize, attachClient, acquireController, releaseController,
         prepareConnection, revokeDevice, Control!WorkerCall
    <3> QED BY <2>2, <3>1, <3>2, ControlTakesNoTime
  <2>4. CASE unscheduled
    <3>1. UNCHANGED storageVars /\ (Control!WorkerCall \/ Control!SocketEvent)
      BY <2>4 DEF unscheduled, Control!WorkerCall, Control!SocketEvent
    <3> QED BY <2>2, <3>1, ControlTakesNoTime
  <2>5. CASE \E s \in closing : webSocketClose(s)
    BY <2>2, <2>5 DEF webSocketClose
  <2>6. ASSUME NEW a \in admissions, fetch(a)
        PROVE  Storage!Next \/ UNCHANGED Storage!vars
    <3>1. now' = now
      BY <2>6, ControlTakesNoTime DEF fetch, Control!WorkerCall
    <3>2. Storage!Hello(a.endpoint) \/ UNCHANGED storageVars
      BY <2>6 DEF fetch
    <3> QED BY <2>1, <2>2, <3>1, <3>2, ReachesLog DEF Storage!Operation
  <2>7. ASSUME NEW s \in sockets, readerMessage(s)
        PROVE  Storage!Next
    <3>1. now' = now /\ s.admission.endpoint \in Storage!Endpoints
      BY <2>7, ReachesLog DEF readerMessage
    <3>2. \/ Storage!Resume(s.admission.endpoint)
          \/ \E n \in 0..MaxSequence : Storage!Acknowledge(s.admission.endpoint, n)
      BY <2>7 DEF readerMessage
    <3> QED BY <2>1, <3>1, <3>2 DEF Storage!Operation
  <2>8. ASSUME NEW i \in DOMAIN meters, publishAuthorizedEnvelope(i)
        PROVE  Storage!Next \/ UNCHANGED Storage!vars
    <3> DEFINE sender == meters[i].socket.admission.endpoint
               envelope == meters[i].envelope
               inserted == cursors'[sender] # cursors[sender]
    <3>1. Control!publishAuthorizedEnvelope(i, inserted) /\ inserted \in BOOLEAN
      BY <2>8 DEF publishAuthorizedEnvelope
    <3>2. now' = now
      BY <3>1, ControlTakesNoTime DEF Control!SocketEvent
    <3>3. \/ Storage!PublishEnvelope(sender, envelope.sequence, envelope.payload)
          \/ UNCHANGED storageVars
      BY <2>8 DEF publishAuthorizedEnvelope
    <3>4. sender \in Storage!Endpoints /\ envelope.sequence \in 1..MaxSequence
          /\ envelope.payload \in Payloads
      BY ReachesLog DEF Envelopes
    <3> HIDE DEF sender, envelope, inserted
    <3> QED BY <2>1, <2>2, <3>2, <3>3, <3>4 DEF Storage!Operation
  <2>9. CASE alarm
    <3>1. now' = now /\ Storage!PruneExpired
      BY <2>9, ControlTakesNoTime DEF alarm
    <3> QED BY <2>1, <3>1 DEF Storage!Operation
  <2>10. CASE hibernate
    BY <2>1, <2>10 DEF hibernate, Storage!Operation
  <2>11. CASE restart
    <3>1. now' = now /\ Storage!Evict
      BY <2>11, ControlTakesNoTime DEF restart
    <3> QED BY <2>1, <3>1 DEF Storage!Operation
  <2>12. CASE tick
    BY <2>12 DEF tick, Control!tick, storageVars, Storage!Tick, Storage!logVars, Storage!Next
  <2> QED BY <1>2, <2>3, <2>4, <2>5, <2>6, <2>7, <2>8, <2>9, <2>10, <2>11, <2>12 DEF Next
<1> QED BY <1>1, <1>2

\* Every step of the object is a step of the envelope log or leaves it alone.
THEOREM ImplementsStorage == Spec => Storage!Spec
<1>1. Init => Storage!Init
  BY DEF Init
<1> QED BY <1>1, LogStep, ControlTyped, PTL DEF Spec, Storage!Spec

-----------------------------------------------------------------------------
(* What the halves guarantee, of the object.                               *)

\* The object keeps the desktop stream fenced by the controller generation, its
\* control state in agreement and revoked sockets out (ControllerLease).
THEOREM ObjectIsFenced ==
    Spec => [](Control!DesktopStreamIsFenced /\ Control!ControlAgrees /\ Control!NoRevokedSocket)
BY ImplementsControl, Control!StreamIsFenced, Control!ControlStaysInAgreement,
   Control!RevokedStayOut, NoneIsNoValue, BoundsAreNumbers, PTL

\* The object's log never skips a stored envelope in a replay, keeps its counters
\* right, stays within capacity and never uses a number twice (EnvelopeLog).
THEOREM ObjectReplays ==
    Spec => /\ [](Storage!ReplayGapFree /\ Storage!CountsCoherent /\ Storage!WithinCapacity)
            /\ Storage!NoSequenceReuse
<1>1. /\ MaxSequence \in Nat /\ MaxTime \in Nat
  BY BoundsAreNumbers
<1> QED BY <1>1, ImplementsStorage, Storage!ReplayIsGapFree, Storage!CountsStayCoherent,
           Storage!CapacityIsKept, Storage!SequencesAreNotReused, NoneIsNoValue,
           PolicyAssumption, PTL

\* The n-th author published sequence n: this ties the fence, which speaks of the
\* order of the authors, to the order in which the device receives the envelopes.
AuthorsNumberTheStream == Len(authors) = cursors["desktop"]

\* Only a publication touches the cursors or the authors.
LEMMA OnlyPublicationNumbers ==
    ASSUME Next, ~ \E i \in DOMAIN meters : publishAuthorizedEnvelope(i)
    PROVE  UNCHANGED <<cursors, authors>>
<1>1. CASE \/ \E g \in 1..MaxDeviceGeneration : initialize(g)
           \/ \E a \in Control!CurrentGrants("desktop") : attachClient(a)
           \/ \E a \in Control!CurrentGrants("desktop"), takeover \in BOOLEAN :
                 acquireController(a, takeover)
           \/ \E a \in Control!CurrentGrants("desktop") : releaseController(a)
           \/ \E a \in Control!Grants("desktop") \cup Control!Grants("device") :
                 prepareConnection(a)
           \/ \E g \in 2..MaxDeviceGeneration : revokeDevice(g)
  BY <1>1 DEF initialize, attachClient, acquireController, releaseController,
     prepareConnection, revokeDevice, storageVars, Control!initialize,
     Control!attachClient, Control!acquireController, Control!releaseController,
     Control!prepareConnection, Control!revokeDevice
<1>2. CASE unscheduled
  BY <1>2 DEF unscheduled, storageVars, Control!abandonAdmission, Control!inventoryEntry,
     Control!messageOnExpiredSocket, Control!receiveEnvelope, Control!meterRefused,
     Control!peerCloses, Control!CloseSocket
<1>3. CASE (\E a \in admissions : fetch(a)) \/ (\E s \in sockets : readerMessage(s))
  BY <1>3 DEF fetch, readerMessage, storageVars, Control!fetch, Storage!Hello,
     Storage!Resume, Storage!Acknowledge
<1>4. CASE (\E s \in closing : webSocketClose(s)) \/ tick
  BY <1>4 DEF webSocketClose, tick, storageVars, Control!tick
<1>5. CASE alarm \/ hibernate \/ restart
  BY <1>5 DEF alarm, hibernate, restart, Control!alarm, Control!restart,
     Storage!PruneExpired, Storage!Evict
<1> QED BY <1>1, <1>2, <1>3, <1>4, <1>5 DEF Next

LEMMA PublicationNumbers ==
    ASSUME Control!TypeOK, Storage!LogTypeOK, Storage!CountsCoherent,
           AuthorsNumberTheStream, NEW i \in DOMAIN meters, publishAuthorizedEnvelope(i)
    PROVE  AuthorsNumberTheStream'
<1> DEFINE sender == meters[i].socket.admission.endpoint
           sequence == meters[i].envelope.sequence
           payload == meters[i].envelope.payload
           inserted == cursors'[sender] # cursors[sender]
           author == [client |-> meters[i].socket.admission.client,
                      leaseGeneration |-> meters[i].socket.admission.leaseGeneration]
<1>1. /\ sender \in Storage!Endpoints /\ "desktop" \in Storage!Endpoints
      /\ cursors \in [Storage!Endpoints -> Nat] /\ sequence \in Nat
  BY ReachesLog, BoundsAreNumbers DEF Storage!LogTypeOK, Storage!Endpoints, Envelopes
<1>2. authors' = IF inserted /\ sender = "desktop" THEN Append(authors, author)
                 ELSE authors
  BY DEF publishAuthorizedEnvelope, Control!publishAuthorizedEnvelope
<1>3. Len(Append(authors, author)) = Len(authors) + 1
  <2> DEFINE Author == [client: Clients, leaseGeneration: Nat \ {0}]
  <2>1. authors \in Seq(Author)
    BY DEF Control!TypeOK
  <2> HIDE DEF Author, author
  <2> QED BY <2>1, AppendProperties, LenProperties
<1>4. CASE cursors' = cursors
  <2>1. authors' = authors
    BY <1>2, <1>4
  <2> QED BY <1>4, <2>1 DEF AuthorsNumberTheStream
<1>5. CASE cursors' # cursors
  <2>1. Storage!PublishEnvelope(sender, sequence, payload)
    BY <1>5 DEF publishAuthorizedEnvelope, storageVars
  <2>2. /\ cursors' = [cursors EXCEPT ![sender] = Storage!Larger(@, sequence)]
        /\ Storage!PublishResult(sender, sequence, payload) = "inserted"
    BY <1>5, <2>1 DEF Storage!PublishEnvelope
  <2>3. Storage!NewestSequence(sender) = cursors[sender]
    BY <1>1 DEF Storage!CountsCoherent, Storage!NewestSequence
  <2>4. sequence = cursors[sender] + 1
    <3> HIDE DEF sender, sequence, payload
    <3>1. Storage!PublishResult(sender, sequence, payload) = "inserted"
              => sequence = Storage!NewestSequence(sender) + 1
      BY <1>1, <2>3 DEF Storage!PublishResult
    <3> QED BY <2>2, <2>3, <3>1
  <2>5. cursors' = [cursors EXCEPT ![sender] = cursors[sender] + 1]
    <3> DEFINE before == cursors[sender]
    <3>1. before \in Nat /\ sequence = before + 1
      BY <1>1, <2>4
    <3>2. cursors' = [cursors EXCEPT ![sender] = Storage!Larger(before, sequence)]
      BY <2>2
    <3> HIDE DEF before, sequence
    <3>3. Storage!Larger(before, sequence) = before + 1
      BY <3>1 DEF Storage!Larger
    <3>4. cursors' = [cursors EXCEPT ![sender] = before + 1]
      BY <3>2, <3>3
    <3> QED BY <3>4 DEF before
  <2> HIDE DEF sender, author
  <2>6. CASE sender = "desktop"
    BY <1>1, <1>2, <1>3, <2>5, <2>6 DEF AuthorsNumberTheStream
  <2>7. CASE sender # "desktop"
    BY <1>1, <1>2, <2>5, <2>7 DEF AuthorsNumberTheStream
  <2> QED BY <2>6, <2>7
<1> QED BY <1>4, <1>5

\* The desktop stream has one author for each of its sequence numbers
\* (publishAuthorizedEnvelope, publishEnvelope).
THEOREM AuthorsAreNumbered == Spec => []AuthorsNumberTheStream
<1>1. Init => AuthorsNumberTheStream
  BY DEF Init, Control!Init, Storage!Init, Storage!Endpoints, AuthorsNumberTheStream
<1>2. /\ Control!TypeOK /\ Storage!LogTypeOK /\ Storage!CountsCoherent
      /\ AuthorsNumberTheStream /\ [Next]_vars
      => AuthorsNumberTheStream'
  <2> SUFFICES ASSUME Control!TypeOK, Storage!LogTypeOK, Storage!CountsCoherent,
                      AuthorsNumberTheStream, [Next]_vars
               PROVE  AuthorsNumberTheStream'
    OBVIOUS
  <2>1. CASE UNCHANGED vars
    BY <2>1 DEF vars, storageVars, AuthorsNumberTheStream
  <2>2. CASE Next /\ ~ \E i \in DOMAIN meters : publishAuthorizedEnvelope(i)
    BY <2>2, OnlyPublicationNumbers DEF AuthorsNumberTheStream
  <2>3. CASE \E i \in DOMAIN meters : publishAuthorizedEnvelope(i)
    BY <2>3, PublicationNumbers
  <2> QED BY <2>1, <2>2, <2>3
<1>3. MaxSequence \in Nat /\ MaxTime \in Nat
  BY BoundsAreNumbers
<1> QED BY <1>1, <1>2, <1>3, ControlTyped, ImplementsStorage, Storage!LogTypeCorrect,
           Storage!CountsStayCoherent, NoneIsNoValue, PolicyAssumption, PTL DEF Spec

-----------------------------------------------------------------------------
(* The alarm.                                                              *)

\* Every expiry that scheduleAlarm collects is a point in time.
LEMMA ExpiriesAreTimes ==
    ASSUME Control!TypeOK', Storage!LogTypeOK'
    PROVE  Expiries' \subseteq Nat
<1>1. \A s \in sockets' : s.admission.expiresAt \in Nat
  BY DEF Control!TypeOK, Control!Socket, Control!Admission
<1>2. \A r \in rows' : r.createdAt + RetentionSeconds \in Nat
  BY PolicyAssumption, BoundsAreNumbers DEF Storage!LogTypeOK, Storage!Row
<1>3. \A c \in Clients : attachments'[c] # None => attachments'[c].expiresAt \in Nat
  BY DEF Control!TypeOK, Control!Attachment
<1>4. lease'.expiresAt # None => lease'.expiresAt \in Nat
  BY DEF Control!TypeOK, Control!Lease
<1> QED BY <1>1, <1>2, <1>3, <1>4 DEF Expiries

LEMMA EarliestIsEarliest ==
    ASSUME NEW times \in SUBSET Nat, NEW t \in times
    PROVE  Earliest(times) \in Nat /\ Earliest(times) <= t
<1>1. \E n \in times : \A m \in times : n <= m
  BY LeastNatural
<1>2. /\ Earliest(times) \in times
      /\ \A u \in times : Earliest(times) <= u
  BY <1>1 DEF Earliest
<1> QED BY <1>2

\* The sockets that may still be listed after they were closed.
ClosingAreSockets == closing \subseteq Control!Socket

LEMMA ClosingStaysTyped ==
    ASSUME Control!TypeOK, ClosingAreSockets, [Next]_vars
    PROVE  ClosingAreSockets'
<1>1. sockets \subseteq Control!Socket
  BY DEF Control!TypeOK
<1>2. closing' \subseteq closing \cup sockets
  BY DEF Next, vars, initialize, attachClient, acquireController, releaseController,
     prepareConnection, revokeDevice, unscheduled, webSocketClose, fetch, readerMessage,
     publishAuthorizedEnvelope, alarm, hibernate, restart, tick, ReportClosed
<1> QED BY <1>1, <1>2 DEF ClosingAreSockets

\* A step that leaves the alarm due at or before everything that may expire.
SchedulesEarliest ==
    \E listed \in SUBSET (closing \cup closing') :
        alarmAt' = Earliest(Expiries' \cup {s.admission.expiresAt : s \in listed})

LEMMA SchedulingCovers ==
    ASSUME Control!TypeOK', Storage!LogTypeOK', ClosingAreSockets, ClosingAreSockets',
           SchedulesEarliest
    PROVE  AlarmCoversExpiry'
<1>1. PICK listed \in SUBSET (closing \cup closing') :
         alarmAt' = Earliest(Expiries' \cup {s.admission.expiresAt : s \in listed})
  BY DEF SchedulesEarliest
<1> DEFINE times == Expiries' \cup {s.admission.expiresAt : s \in listed}
<1>2. Expiries' \subseteq Nat
  BY ExpiriesAreTimes
<1>3. \A s \in listed : s.admission.expiresAt \in Nat
  BY DEF ClosingAreSockets, Control!Socket, Control!Admission
<1>4. times \in SUBSET Nat /\ alarmAt' = Earliest(times)
  BY <1>1, <1>2, <1>3
<1>5. \A t \in Expiries' : t \in times
  OBVIOUS
<1> HIDE DEF times
<1>6. \A t \in Expiries' : alarmAt' # None /\ alarmAt' <= t
  <2>1. \A t \in times : Earliest(times) \in Nat /\ Earliest(times) <= t
    BY <1>4, EarliestIsEarliest
  <2>2. \A t \in times : alarmAt' \in Nat /\ alarmAt' <= t
    BY <1>4, <2>1
  <2>3. \A t \in Expiries' : alarmAt' \in Nat /\ alarmAt' <= t
    BY <1>5, <2>2
  <2> QED BY <2>3, NoneIsNoValue
<1>7. lease'.expiresAt # None => lease'.expiresAt \in Expiries'
  BY DEF Expiries
<1>8. \A c \in Clients : attachments'[c] # None => attachments'[c].expiresAt \in Expiries'
  BY DEF Expiries
<1> QED BY <1>6, <1>7, <1>8 DEF AlarmCoversExpiry

\* What is remembered of the alarm is right or nothing: then scheduleAlarm has the alarm
\* in storage at the earliest expiry, whether it wrote it or skipped the write.
LEMMA ScheduleFromStoresEarliest ==
    ASSUME NEW stored, NEW remembered, remembered \in {Undefined, stored},
           ScheduleFrom(stored, remembered)
    PROVE  SchedulesEarliest /\ scheduledAlarmAt' = alarmAt'
BY DEF ScheduleFrom, SchedulesEarliest

LEMMA SchedulingStoresEarliest ==
    ASSUME ScheduledAlarmIsCurrent,
           scheduleAlarm \/ ScheduleFrom(None, RememberedAfterFiring)
    PROVE  SchedulesEarliest /\ scheduledAlarmAt' = alarmAt'
BY ScheduleFromStoresEarliest
   DEF scheduleAlarm, ScheduledAlarmIsCurrent, RememberedAfterFiring

\* A step that does not schedule the alarm may vacate the lease and touch the modes of
\* the attachments, but nothing it leaves expires earlier.
KeepsExpiries ==
    /\ alarmAt' = alarmAt
    /\ lease'.expiresAt \in {lease.expiresAt, None}
    /\ \A c \in Clients : attachments'[c] # None =>
          attachments[c] # None /\ attachments'[c].expiresAt = attachments[c].expiresAt

LEMMA KeptExpiriesAreCovered ==
    ASSUME AlarmCoversExpiry, KeepsExpiries
    PROVE  AlarmCoversExpiry'
BY DEF AlarmCoversExpiry, KeepsExpiries

\* normalizedLease and closing sockets keep the expiries.
LEMMA NormalizationKeepsExpiries ==
    ASSUME Control!TypeOK, NEW ctl, alarmAt' = alarmAt, Control!SetControl(ctl),
           \E socks : ctl \in {[Control!Control EXCEPT !.sockets = socks],
                               [Control!Normalized(Control!Control) EXCEPT !.sockets = socks]}
    PROVE  KeepsExpiries
<1>1. PICK socks : ctl \in {[Control!Control EXCEPT !.sockets = socks],
                            [Control!Normalized(Control!Control) EXCEPT !.sockets = socks]}
  OBVIOUS
<1>2. lease' = ctl.lease /\ attachments' = ctl.attachments
  BY DEF Control!SetControl
<1>3. lease \in Control!Lease /\ attachments \in [Clients -> Control!Attachment \cup {None}]
  BY DEF Control!TypeOK
<1>4. CASE \/ ctl = [Control!Control EXCEPT !.sockets = socks]
           \/ ~Control!LeaseExpired(lease)
  <2>1. ctl.lease = lease /\ ctl.attachments = attachments
    BY <1>1, <1>4 DEF Control!Control, Control!Normalized
  <2> QED BY <1>2, <2>1 DEF KeepsExpiries
<1>5. CASE /\ ctl = [Control!Normalized(Control!Control) EXCEPT !.sockets = socks]
           /\ Control!LeaseExpired(lease)
  <2>1. /\ ctl.lease.expiresAt = None
        /\ ctl.attachments =
             Control!Reassigned(attachments, None, Control!VacatedGeneration(lease.generation))
    BY <1>5 DEF Control!Control, Control!Normalized, Control!Vacated
  <2>2. \A c \in Clients : ctl.attachments[c] # None =>
           attachments[c] # None /\ ctl.attachments[c].expiresAt = attachments[c].expiresAt
    BY <1>3, <2>1 DEF Control!Reassigned, Control!Attachment
  <2> QED BY <1>2, <2>1, <2>2 DEF KeepsExpiries
<1> QED BY <1>1, <1>4, <1>5

LEMMA UntouchedKeepsExpiries ==
    ASSUME alarmAt' = alarmAt, UNCHANGED Control!controlVars
    PROVE  KeepsExpiries
BY DEF KeepsExpiries, Control!controlVars

LEMMA NormalizedIsRecord ==
    /\ Control!Control = [Control!Control EXCEPT !.sockets = Control!Control.sockets]
    /\ Control!Normalized(Control!Control) =
          [Control!Normalized(Control!Control) EXCEPT
              !.sockets = Control!Normalized(Control!Control).sockets]
BY DEF Control!Control, Control!Normalized, Control!Vacated

LEMMA StepSchedulesOrKeeps ==
    ASSUME Control!TypeOK, Next
    PROVE  scheduleAlarm \/ ScheduleFrom(None, RememberedAfterFiring) \/ KeepsExpiries
<1> DEFINE current == Control!Control
           normalized == Control!Normalized(Control!Control)
\* The control state a step leaves: as it is, normalised, or one of these with
\* sockets closed or accepted.
<1>1. ASSUME NEW ctl, alarmAt' = alarmAt, Control!SetControl(ctl),
             \/ ctl = current \/ ctl = normalized
             \/ \E socks : ctl = [current EXCEPT !.sockets = socks]
             \/ \E socks : ctl = [normalized EXCEPT !.sockets = socks]
      PROVE  KeepsExpiries
  <2>1. \E socks : ctl \in {[current EXCEPT !.sockets = socks],
                            [normalized EXCEPT !.sockets = socks]}
    BY <1>1, NormalizedIsRecord
  <2> QED BY <1>1, <2>1, NormalizationKeepsExpiries
<1> HIDE DEF current, normalized
<1>2. CASE \/ \E g \in 1..MaxDeviceGeneration : initialize(g)
           \/ \E a \in Control!Grants("desktop") \cup Control!Grants("device") :
                 prepareConnection(a)
           \/ \E g \in 2..MaxDeviceGeneration : revokeDevice(g)
           \/ (\E s \in closing : webSocketClose(s)) \/ alarm
  BY <1>2 DEF initialize, prepareConnection, revokeDevice, webSocketClose, alarm
<1>3. CASE \/ \E a \in Control!CurrentGrants("desktop") : attachClient(a)
           \/ \E a \in Control!CurrentGrants("desktop"), takeover \in BOOLEAN :
                 acquireController(a, takeover)
           \/ \E a \in Control!CurrentGrants("desktop") : releaseController(a)
  <2>1. scheduleAlarm \/ (alarmAt' = alarmAt /\ Control!SetControl(normalized))
    BY <1>3 DEF attachClient, acquireController, releaseController, scheduleAlarmIf,
       Control!attachClient, Control!acquireController, Control!releaseController, normalized
  <2> QED BY <1>1, <2>1
<1>4. ASSUME NEW s, Control!CloseSocket(s), alarmAt' = alarmAt
      PROVE  KeepsExpiries
  <2>1. Control!SetControl([current EXCEPT !.sockets = Control!Control.sockets \ {s}])
    BY <1>4 DEF Control!CloseSocket, current
  <2> QED BY <1>1, <1>4, <2>1
<1>5. CASE unscheduled
  <2>1. alarmAt' = alarmAt
    BY <1>5 DEF unscheduled
  <2>2. CASE \/ \E a \in admissions : Control!abandonAdmission(a)
             \/ \E s \in sockets, envelope \in Envelopes : Control!receiveEnvelope(s, envelope)
    BY <2>1, <2>2, UntouchedKeepsExpiries DEF Control!abandonAdmission, Control!receiveEnvelope
  <2>3. CASE Control!inventoryEntry
    BY <1>1, <2>1, <2>3 DEF Control!inventoryEntry, normalized
  <2>4. CASE \/ \E s \in sockets : Control!messageOnExpiredSocket(s)
             \/ \E i \in DOMAIN meters : Control!meterRefused(i)
             \/ \E s \in sockets : Control!peerCloses(s)
    <3>1. \E s : Control!CloseSocket(s)
      BY <2>4 DEF Control!messageOnExpiredSocket, Control!meterRefused, Control!peerCloses
    <3> QED BY <1>4, <2>1, <3>1
  <2> QED BY <1>5, <2>2, <2>3, <2>4 DEF unscheduled
<1>6. ASSUME NEW a \in admissions, fetch(a)
      PROVE  KeepsExpiries
  <2>1. alarmAt' = alarmAt /\ Control!fetch(a)
    BY <1>6 DEF fetch
  <2>2. \/ \E socks : Control!SetControl([normalized EXCEPT !.sockets = socks])
        \/ Control!SetControl(normalized) \/ Control!SetControl(current)
    BY <2>1 DEF Control!fetch, normalized, current
  <2> QED BY <1>1, <2>1, <2>2
<1>7. ASSUME NEW i \in DOMAIN meters, publishAuthorizedEnvelope(i)
      PROVE  KeepsExpiries
  <2> DEFINE sender == meters[i].socket.admission.endpoint
             inserted == cursors'[sender] # cursors[sender]
  <2>1. alarmAt' = alarmAt /\ Control!publishAuthorizedEnvelope(i, inserted)
    BY <1>7 DEF publishAuthorizedEnvelope
  <2> HIDE DEF inserted
  <2>2. PICK closed \in BOOLEAN : Control!SetControl(Control!AfterPublish(i, closed))
    BY <2>1 DEF Control!publishAuthorizedEnvelope
  <2>3. \/ Control!AfterPublish(i, closed) \in {current, normalized}
        \/ \E socks : Control!AfterPublish(i, closed) = [current EXCEPT !.sockets = socks]
        \/ \E socks : Control!AfterPublish(i, closed) = [normalized EXCEPT !.sockets = socks]
    BY DEF Control!AfterPublish, normalized, current
  <2> QED BY <1>1, <2>1, <2>2, <2>3
<1>8. CASE (\E s \in sockets : readerMessage(s)) \/ hibernate \/ tick
  BY <1>8, UntouchedKeepsExpiries
     DEF readerMessage, hibernate, tick, Control!tick, Control!controlVars
<1>9. CASE restart
  <2>1. alarmAt' = alarmAt /\ Control!SetControl([current EXCEPT !.sockets = {}])
    BY <1>9 DEF restart, Control!restart, current
  <2> QED BY <1>1, <2>1
<1> QED BY <1>2, <1>3, <1>5, <1>6, <1>7, <1>8, <1>9 DEF Next

\* The object's copy of the alarm is the alarm in storage, through every call that
\* schedules, every firing and every eviction (scheduledAlarmAt, scheduleAlarm, alarm).
THEOREM RememberedAlarmIsCurrent == Spec => []ScheduledAlarmIsCurrent
<1>1. Init => ScheduledAlarmIsCurrent
  BY DEF Init, ScheduledAlarmIsCurrent
<1>2. ScheduledAlarmIsCurrent /\ [Next]_vars => ScheduledAlarmIsCurrent'
  <2> SUFFICES ASSUME ScheduledAlarmIsCurrent, [Next]_vars
               PROVE  ScheduledAlarmIsCurrent'
    OBVIOUS
  <2>1. \/ scheduleAlarm \/ ScheduleFrom(None, RememberedAfterFiring)
        \/ UNCHANGED <<alarmAt, scheduledAlarmAt>> \/ scheduledAlarmAt' = Undefined
    BY DEF Next, vars, initialize, attachClient, acquireController, releaseController,
       prepareConnection, revokeDevice, unscheduled, webSocketClose, fetch, readerMessage,
       publishAuthorizedEnvelope, alarm, hibernate, restart, tick, scheduleAlarmIf
  <2> QED BY <2>1, SchedulingStoresEarliest DEF ScheduledAlarmIsCurrent
<1> QED BY <1>1, <1>2, PTL DEF Spec

\* An owned lease and every attachment have an alarm due no later than they expire. A
\* step that adds such an expiry schedules the alarm anew, which by the theorem above puts
\* it into storage although the write may be skipped; the others leave no earlier expiry
\* (scheduleAlarm, normalizedLease).
THEOREM AlarmCoversEveryExpiry == Spec => []AlarmCoversExpiry
<1>1. Init => AlarmCoversExpiry /\ ClosingAreSockets
  BY DEF Init, Control!Init, AlarmCoversExpiry, ClosingAreSockets
<1>2. ASSUME AlarmCoversExpiry, ClosingAreSockets, Control!TypeOK, Control!TypeOK',
             Storage!LogTypeOK', ScheduledAlarmIsCurrent, [Next]_vars
      PROVE  AlarmCoversExpiry' /\ ClosingAreSockets'
  <2>1. ClosingAreSockets'
    BY <1>2, ClosingStaysTyped
  <2>2. CASE scheduleAlarm \/ ScheduleFrom(None, RememberedAfterFiring)
    BY <1>2, <2>1, <2>2, SchedulingStoresEarliest, SchedulingCovers
  <2>3. CASE KeepsExpiries
    BY <1>2, <2>1, <2>3, KeptExpiriesAreCovered
  <2>4. CASE UNCHANGED vars
    BY <1>2, <2>1, <2>4 DEF vars, AlarmCoversExpiry
  <2> QED BY <1>2, <2>2, <2>3, <2>4, StepSchedulesOrKeeps
<1>3. MaxSequence \in Nat /\ MaxTime \in Nat
  BY BoundsAreNumbers
<1> QED BY <1>1, <1>2, <1>3, RememberedAlarmIsCurrent, ControlTyped, ImplementsStorage,
           Storage!LogTypeCorrect, NoneIsNoValue, PolicyAssumption, PTL DEF Spec

\* Revoked sockets stay out of the object: what ControllerLease guarantees.
THEOREM RevokedSocketsStayOut == Spec => []NoRevokedSocket
BY ImplementsControl, Control!RevokedStayOut, NoneIsNoValue, BoundsAreNumbers, PTL
   DEF NoRevokedSocket

=============================================================================
