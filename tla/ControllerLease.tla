--------------------------- MODULE ControllerLease ---------------------------
(***************************************************************************)
(* Who may use a remote session: the control state of SessionTunnelObject  *)
(* (apps/device-relay/src/session-tunnel.ts), the Durable Object between a *)
(* session's desktop clients and its device. It keeps                      *)
(*   - the attachments of the desktop client instances and the controller  *)
(*     lease, which exactly one of them may hold and whose generation is   *)
(*     the fence for everything the desktop side publishes;                *)
(*   - the accepted sockets, each with the admission it was accepted under;*)
(*   - the generation of the device, and the generation it was revoked to. *)
(* A request reaches the object in several calls: the worker awaits        *)
(* prepareConnection, then notifies the device, then calls fetch           *)
(* (index.ts), so an admission lives between the two. A received envelope  *)
(* awaits meterTransfer, a call to another object, before it is published, *)
(* so an envelope lives between the two as well. Each call is atomic: the  *)
(* storage operations it awaits hold every other event back.               *)
(*                                                                         *)
(* One session, one device, one account: the identity comparisons of       *)
(* initialize, matchesAdmission and fetch reduce to `initialised or not`.  *)
(* The envelopes themselves are EnvelopeLog's; the alarm and the object's  *)
(* life are SessionTunnel's, which composes the two.                       *)
(***************************************************************************)
EXTENDS Integers, FiniteSets, Sequences

CONSTANTS
    Clients,                   \* desktop client instances
    Envelopes,                 \* what a socket may send: opaque here
    None,                      \* no owner, no row
    MaxTime,                   \* bound: the clock stops here
    MaxDeviceGeneration,       \* bound: device generations 1..this
    MaxAttachmentGeneration,   \* bound: attachment generations in a grant
    MaxLeaseGeneration,        \* bound: controller generations
    MaxGrantSeconds,           \* bound: how long a grant is valid
    MaxAdmissions,             \* bound: requests between prepareConnection and fetch
    MaxSockets,                \* bound: sockets accepted over a run
    MaxInFlight,               \* bound: envelopes awaiting their metering
    MaxPublished               \* bound: envelopes in the desktop stream

ASSUME NoneIsNoValue == None \notin Clients /\ None \notin Int

ASSUME BoundsAreNumbers ==
    {MaxTime, MaxDeviceGeneration, MaxAttachmentGeneration, MaxLeaseGeneration,
     MaxGrantSeconds, MaxAdmissions, MaxSockets, MaxInFlight, MaxPublished} \subseteq Nat

Endpoints == {"desktop", "device"}

VARIABLES
    now,                 \* the wall clock the object reads, in seconds
    deviceGeneration,    \* tunnel_metadata.device_generation, 0 before initialize
    revokedGeneration,   \* tunnel_revocations, 0 when the device was never revoked
    lease,               \* controller_lease
    attachments,         \* client_attachments: client -> row or None
    sockets,             \* open sockets, with their serialized attachment
    accepted,            \* how many sockets were ever accepted
    admissions,          \* prepared by prepareConnection, not yet in fetch
    meters,              \* envelopes received and not yet metered, oldest first
    authors              \* history: who published each envelope of the desktop stream

controlVars == <<lease, attachments, sockets>>
vars == <<now, deviceGeneration, revokedGeneration, controlVars,
          accepted, admissions, meters, authors>>

Lease == [owner: Clients \cup {None}, generation: Nat \ {0}, expiresAt: Nat \cup {None}]

Attachment == [mode: {"passive", "controller"}, generation: Nat \ {0},
               leaseGeneration: Nat \ {0}, expiresAt: Nat]

\* What a grant says, and the endpoint it is used for (AttachmentAdmission).
Admission == [endpoint: Endpoints, client: Clients, deviceGeneration: Nat \ {0},
              attachmentGeneration: Nat \ {0}, leaseGeneration: Nat \ {0},
              expiresAt: Nat]

\* TunnelSocketAttachment: the admission a socket was accepted under.
Socket == [id: Nat \ {0}, admission: Admission]

\* The grants a worker may present now: one may expire on its way to the object.
Grants(endpoint) ==
    [endpoint: {endpoint}, client: Clients, deviceGeneration: 1..MaxDeviceGeneration,
     attachmentGeneration: 1..MaxAttachmentGeneration,
     leaseGeneration: 1..MaxLeaseGeneration, expiresAt: now..(now + MaxGrantSeconds)]

\* Calls that follow their own initialize and do not carry the device generation.
CurrentGrants(endpoint) ==
    {a \in Grants(endpoint) : a.deviceGeneration = deviceGeneration}

Larger(a, b) == IF a >= b THEN a ELSE b

Init ==
    /\ now = 0
    /\ deviceGeneration = 0
    /\ revokedGeneration = 0
    /\ lease = [owner |-> None, generation |-> 1, expiresAt |-> None]
    /\ attachments = [c \in Clients |-> None]
    /\ sockets = {}
    /\ accepted = 0
    /\ admissions = {}
    /\ meters = <<>>
    /\ authors = <<>>

-----------------------------------------------------------------------------
(* The controller lease, the attachments and the sockets change together:  *)
(* the operators below map a record of the three to its next value.        *)

Control == [lease |-> lease, attachments |-> attachments, sockets |-> sockets]

SetControl(ctl) ==
    /\ lease' = ctl.lease
    /\ attachments' = ctl.attachments
    /\ sockets' = ctl.sockets

\* closeStaleControllerSockets: only sockets of this generation stay open.
OfGeneration(socks, generation) ==
    {s \in socks : s.admission.leaseGeneration = generation}

\* The UPDATE of client_attachments that follows every change of the lease.
Reassigned(table, owner, generation) ==
    [c \in Clients |->
        IF table[c] = None THEN None
        ELSE [table[c] EXCEPT !.mode = IF c = owner THEN "controller" ELSE "passive",
                              !.leaseGeneration = generation]]

\* Mutant: a lease given up starts over.
VacatedGenerationReset(generation) == 0

VacatedGeneration(generation) == generation + 1

\* Ownership given up, by expiry or release: a new generation that nobody owns.
Vacated(ctl) ==
    LET generation == VacatedGeneration(ctl.lease.generation)
    IN  [lease |-> [owner |-> None, generation |-> generation, expiresAt |-> None],
         attachments |-> Reassigned(ctl.attachments, None, generation),
         sockets |-> OfGeneration(ctl.sockets, generation)]

LeaseExpired(l) == l.owner # None /\ l.expiresAt # None /\ l.expiresAt <= now

\* normalizedLease: an owned lease that has expired is vacated by its first reader.
Normalized(ctl) == IF LeaseExpired(ctl.lease) THEN Vacated(ctl) ELSE ctl

\* attachClient's upsert: an existing row keeps its mode and its later expiry.
WithAttachment(ctl, a) ==
    LET old == ctl.attachments[a.client]
        row == [mode |-> IF old = None THEN "passive" ELSE old.mode,
                generation |-> a.attachmentGeneration,
                leaseGeneration |-> a.leaseGeneration,
                expiresAt |-> IF old = None THEN a.expiresAt
                              ELSE Larger(old.expiresAt, a.expiresAt)]
    IN  [ctl EXCEPT !.attachments = [@ EXCEPT ![a.client] = row]]

\* An attachment keeps its generation or takes the next one; a new one is 1.
NextAttachment(ctl, a) ==
    IF ctl.attachments[a.client] = None THEN a.attachmentGeneration = 1
    ELSE a.attachmentGeneration \in
            {ctl.attachments[a.client].generation,
             ctl.attachments[a.client].generation + 1}

\* The row is there, has not expired and is of the generation the admission
\* names: what acquireController, assertAttachment and
\* publishAuthorizedEnvelope require of it.
CurrentAttachment(ctl, a) ==
    /\ ctl.attachments[a.client] # None
    /\ ctl.attachments[a.client].expiresAt > now
    /\ ctl.attachments[a.client].generation = a.attachmentGeneration

\* Mutant: a takeover keeps the generation of the lease it takes.
TakeoverGenerationKept(l, client) == l.generation

TakeoverGeneration(l, client) ==
    IF l.owner \notin {None, client} THEN l.generation + 1 ELSE l.generation

\* acquireController's transaction and the read of the lease it answers with.
WithController(ctl, a) ==
    LET generation == TakeoverGeneration(ctl.lease, a.client)
    IN  Normalized(
            [lease |-> [owner |-> a.client, generation |-> generation,
                        expiresAt |-> a.expiresAt],
             attachments |-> Reassigned(ctl.attachments, a.client, generation),
             sockets |-> IF generation = ctl.lease.generation THEN ctl.sockets
                         ELSE OfGeneration(ctl.sockets, generation)])

-----------------------------------------------------------------------------
(* Calls from the worker. A call that is refused still leaves the lease    *)
(* normalised when it got as far as reading it.                            *)

Initialises(generation) == generation >= revokedGeneration

initialize(generation) ==
    /\ Initialises(generation)
    /\ deviceGeneration' = Larger(deviceGeneration, generation)
    /\ UNCHANGED <<now, revokedGeneration, controlVars, accepted, admissions, meters,
                   authors>>

Attaches(a) ==
    LET ctl == Normalized(Control)
    IN  a.leaseGeneration = ctl.lease.generation /\ NextAttachment(ctl, a)

attachClient(a) ==
    /\ deviceGeneration # 0
    /\ SetControl(IF Attaches(a) THEN WithAttachment(Normalized(Control), a)
                                 ELSE Normalized(Control))
    /\ UNCHANGED <<now, deviceGeneration, revokedGeneration, accepted, admissions,
                   meters, authors>>

Acquires(a, takeover) ==
    LET l == Normalized(Control).lease
    IN  /\ CurrentAttachment(Control, a)
        /\ a.leaseGeneration = l.generation
        /\ l.owner \in {None, a.client} \/ takeover

acquireController(a, takeover) ==
    /\ deviceGeneration # 0
    /\ CurrentAttachment(Control, a)
    /\ SetControl(IF Acquires(a, takeover) THEN WithController(Normalized(Control), a)
                                           ELSE Normalized(Control))
    /\ UNCHANGED <<now, deviceGeneration, revokedGeneration, accepted, admissions,
                   meters, authors>>

NamesAttachment(a) ==
    /\ attachments[a.client] # None
    /\ attachments[a.client].generation = a.attachmentGeneration

Releases(a) ==
    LET l == Normalized(Control).lease
    IN  NamesAttachment(a) /\ a.leaseGeneration = l.generation /\ l.owner = a.client

releaseController(a) ==
    /\ deviceGeneration # 0
    /\ NamesAttachment(a)
    /\ SetControl(IF Releases(a) THEN Vacated(Normalized(Control))
                                 ELSE Normalized(Control))
    /\ UNCHANGED <<now, deviceGeneration, revokedGeneration, accepted, admissions,
                   meters, authors>>

\* What prepareConnection leaves of the control state, and the controller
\* generation the worker passes on to fetch, None when the request is refused. A
\* desktop attaches and takes the lease over; a device is admitted under the
\* current generation, whatever its grant says.
Prepared(a) ==
    LET ctl == Normalized(Control)
        attached == WithAttachment(ctl, a)
        taken == WithController(attached, a)
    IN  IF a.endpoint = "device"
        THEN [control |-> ctl,
              generation |-> IF CurrentAttachment(ctl, a) THEN ctl.lease.generation
                             ELSE None]
        ELSE IF ~Attaches(a) THEN [control |-> ctl, generation |-> None]
        ELSE IF ~CurrentAttachment(attached, a)
        THEN [control |-> attached, generation |-> None]
        ELSE [control |-> taken, generation |-> taken.lease.generation]

prepareConnection(a) ==
    /\ Cardinality(admissions) < MaxAdmissions
    /\ \/ /\ ~Initialises(a.deviceGeneration)
          /\ UNCHANGED <<deviceGeneration, controlVars, admissions>>
       \/ /\ Initialises(a.deviceGeneration)
          /\ deviceGeneration' = Larger(deviceGeneration, a.deviceGeneration)
          /\ SetControl(Prepared(a).control)
          /\ admissions' =
                IF Prepared(a).generation = None THEN admissions
                ELSE admissions \cup
                        {[a EXCEPT !.leaseGeneration = Prepared(a).generation]}
    /\ UNCHANGED <<now, revokedGeneration, accepted, meters, authors>>

\* The worker gives up between the two calls: notifySession found no device.
abandonAdmission(a) ==
    /\ admissions' = admissions \ {a}
    /\ UNCHANGED <<now, deviceGeneration, revokedGeneration, controlVars, accepted,
                   meters, authors>>

\* Mutant: the upgrade trusts the generation that prepareConnection returned.
SameGenerationUnchecked(a) == TRUE

SameGeneration(a) == a.leaseGeneration = Normalized(Control).lease.generation

\* Mutant: the upgrade does not look at the revocation again.
UnrevokedUnchecked(a) == TRUE

Unrevoked(a) == a.deviceGeneration >= revokedGeneration

Admits(a) ==
    /\ a.expiresAt > now
    /\ a.deviceGeneration = deviceGeneration
    /\ Unrevoked(a)
    /\ CurrentAttachment(Control, a)

Upgrades(a) == Admits(a) /\ SameGeneration(a)

Replaced(socks, s) ==
    {t \in socks : t.admission.endpoint # s.admission.endpoint} \cup {s}

\* The upgrade: the admission is checked again, the endpoint's previous sockets
\* are closed and the new one is accepted.
fetch(a) ==
    /\ accepted < MaxSockets
    /\ admissions' = admissions \ {a}
    /\ \/ /\ Upgrades(a)
          /\ SetControl([Normalized(Control) EXCEPT !.sockets =
                Replaced(@, [id |-> accepted + 1, admission |-> a])])
          /\ accepted' = accepted + 1
       \/ /\ ~Upgrades(a)
          /\ SetControl(IF Admits(a) THEN Normalized(Control) ELSE Control)
          /\ UNCHANGED accepted
    /\ UNCHANGED <<now, deviceGeneration, revokedGeneration, meters, authors>>

\* inventoryEntry reads the lease, and so normalises it.
inventoryEntry ==
    /\ deviceGeneration # 0
    /\ SetControl(Normalized(Control))
    /\ UNCHANGED <<now, deviceGeneration, revokedGeneration, accepted, admissions,
                   meters, authors>>

\* Every socket carries the tag of the session's one device.
revokeDevice(generation) ==
    /\ revokedGeneration' = Larger(revokedGeneration, generation)
    /\ SetControl([Control EXCEPT !.sockets = {}])
    /\ UNCHANGED <<now, deviceGeneration, accepted, admissions, meters, authors>>

-----------------------------------------------------------------------------
(* Events of an accepted socket.                                           *)

Expired(s) == s.admission.expiresAt <= now

CloseSocket(s) ==
    /\ SetControl([Control EXCEPT !.sockets = @ \ {s}])
    /\ UNCHANGED <<now, deviceGeneration, revokedGeneration, accepted, admissions,
                   authors>>

\* attachment(): a message on a socket whose grant has expired closes it.
messageOnExpiredSocket(s) ==
    /\ Expired(s)
    /\ CloseSocket(s)
    /\ UNCHANGED meters

\* The handler keeps the attachment it read before it awaits meterTransfer.
receiveEnvelope(s, envelope) ==
    /\ ~Expired(s)
    /\ Len(meters) < MaxInFlight
    /\ meters' = Append(meters, [socket |-> s, envelope |-> envelope])
    /\ UNCHANGED <<now, deviceGeneration, revokedGeneration, controlVars, accepted,
                   admissions, authors>>

\* transferMeters chains the envelopes of one socket; sockets overtake each other.
Metered(i) ==
    /\ \A j \in 1..(i - 1) : meters[j].socket # meters[i].socket
    /\ meters' = SubSeq(meters, 1, i - 1) \o SubSeq(meters, i + 1, Len(meters))

\* RELAY_USAGE refuses the reservation: the envelope is dropped, the socket closed.
meterRefused(i) ==
    /\ Metered(i)
    /\ CloseSocket(meters[i].socket)

\* Mutant: the lease is not compared again after the await.
HoldsLeaseUnchecked(a) == TRUE

HoldsLease(a) ==
    /\ Normalized(Control).lease.owner = a.client
    /\ Normalized(Control).lease.generation = a.leaseGeneration

\* A desktop envelope is checked against the attachment and the lease as they are
\* after the await; a device envelope is not.
Authorised(i) ==
    LET a == meters[i].socket.admission
    IN  a.endpoint = "device"
          \/ /\ CurrentAttachment(Control, a)
             /\ HoldsLease(a)
             /\ Normalized(Control).attachments[a.client].mode = "controller"

\* The control state after the checks, which read the lease when they get to it. The
\* socket is closed on the way if its grant had expired when its metering began.
AfterPublish(i, closed) ==
    LET s == meters[i].socket
        ctl == IF s.admission.endpoint = "desktop"
                    /\ CurrentAttachment(Control, s.admission)
               THEN Normalized(Control) ELSE Control
    IN  IF closed THEN [ctl EXCEPT !.sockets = @ \ {s}] ELSE ctl

\* publishAuthorizedEnvelope. The log refuses an envelope out of sequence, so an
\* authorised one is inserted or not.
publishAuthorizedEnvelope(i, inserted) ==
    LET a == meters[i].socket.admission
    IN  /\ Metered(i)
        /\ inserted => Authorised(i) /\ Len(authors) < MaxPublished
        /\ \E closed \in BOOLEAN : /\ closed => Expired(meters[i].socket)
                                  /\ SetControl(AfterPublish(i, closed))
        /\ authors' = IF inserted /\ a.endpoint = "desktop"
                      THEN Append(authors, [client |-> a.client,
                                            leaseGeneration |-> a.leaseGeneration])
                      ELSE authors
        /\ UNCHANGED <<now, deviceGeneration, revokedGeneration, accepted, admissions>>

peerCloses(s) ==
    /\ CloseSocket(s)
    /\ UNCHANGED meters

-----------------------------------------------------------------------------
(* The alarm, time and the life of the object.                             *)

Lapsed(table, client) == table[client] = None \/ table[client].expiresAt <= now

alarm ==
    LET ctl == Normalized(Control)
        open == {s \in ctl.sockets :
                    ~Expired(s) /\ ~Lapsed(ctl.attachments, s.admission.client)}
        kept == [c \in Clients |-> IF Lapsed(ctl.attachments, c) THEN None
                                   ELSE ctl.attachments[c]]
    IN  /\ SetControl([ctl EXCEPT !.sockets = open, !.attachments = kept])
        /\ UNCHANGED <<now, deviceGeneration, revokedGeneration, accepted, admissions,
                       meters, authors>>

\* The object is restarted: sockets and envelopes in flight are lost. (An object
\* that hibernates keeps its sockets and their attachments, and so this state.)
restart ==
    /\ SetControl([Control EXCEPT !.sockets = {}])
    /\ meters' = <<>>
    /\ UNCHANGED <<now, deviceGeneration, revokedGeneration, accepted, admissions,
                   authors>>

tick ==
    /\ now < MaxTime
    /\ now' = now + 1
    /\ UNCHANGED <<deviceGeneration, revokedGeneration, controlVars, accepted,
                   admissions, meters, authors>>

-----------------------------------------------------------------------------

WorkerCall ==
    \/ \E g \in 1..MaxDeviceGeneration : initialize(g)
    \/ \E a \in CurrentGrants("desktop") : attachClient(a)
    \/ \E a \in CurrentGrants("desktop"), takeover \in BOOLEAN :
          acquireController(a, takeover)
    \/ \E a \in CurrentGrants("desktop") : releaseController(a)
    \/ \E a \in Grants("desktop") \cup Grants("device") : prepareConnection(a)
    \/ \E a \in admissions : abandonAdmission(a)
    \/ \E a \in admissions : fetch(a)
    \/ inventoryEntry
    \/ \E g \in 2..MaxDeviceGeneration : revokeDevice(g)

SocketEvent ==
    \/ \E s \in sockets : messageOnExpiredSocket(s)
    \/ \E s \in sockets, envelope \in Envelopes : receiveEnvelope(s, envelope)
    \/ \E i \in DOMAIN meters : meterRefused(i)
    \/ \E i \in DOMAIN meters, inserted \in BOOLEAN : publishAuthorizedEnvelope(i, inserted)
    \/ \E s \in sockets : peerCloses(s)

LeaseGenerationBound == lease'.generation <= MaxLeaseGeneration

Next ==
    /\ WorkerCall \/ SocketEvent \/ alarm \/ restart \/ tick
    /\ LeaseGenerationBound

Spec == Init /\ [][Next]_vars

-----------------------------------------------------------------------------
(* Properties.                                                             *)

\* The type of every variable of the control state.
TypeOK ==
    /\ now \in Nat
    /\ deviceGeneration \in Nat
    /\ revokedGeneration \in Nat
    /\ lease \in Lease
    /\ attachments \in [Clients -> Attachment \cup {None}]
    /\ sockets \subseteq Socket
    /\ accepted \in Nat
    /\ admissions \subseteq Admission
    /\ meters \in Seq([socket: Socket, envelope: Envelopes])
    /\ authors \in Seq([client: Clients, leaseGeneration: Nat \ {0}])

\* The controller generation fences the desktop stream: in the order of their
\* sequence numbers the envelopes never go back to an older generation, and one
\* generation has one author. It holds across takeovers, releases and expiries
\* between the receipt of an envelope and its publication after the await
\* (publishAuthorizedEnvelope's second look at attachment and lease).
DesktopStreamIsFenced ==
    \A i, j \in DOMAIN authors : i < j =>
        /\ authors[i].leaseGeneration <= authors[j].leaseGeneration
        /\ authors[i].leaseGeneration = authors[j].leaseGeneration =>
              authors[i].client = authors[j].client

\* Lease, attachments and sockets agree: at most the owner's attachment is in
\* controller mode, every attachment follows the lease's generation, no socket of
\* an older generation is left open and an endpoint has one socket, although
\* admission and upgrade are two calls (closeStaleControllerSockets, and fetch's
\* second look at the generation that prepareConnection returned).
ControlAgrees ==
    /\ \A c \in Clients : attachments[c] # None =>
          /\ attachments[c].leaseGeneration = lease.generation
          /\ attachments[c].mode = "controller" => lease.owner = c
    /\ \A s \in sockets : s.admission.leaseGeneration = lease.generation
    /\ \A s, t \in sockets : s.admission.endpoint = t.admission.endpoint => s = t

\* A lease changes hands only under a new generation, and generations never go back.
HandoverAdvancesGeneration ==
    [][/\ lease'.generation >= lease.generation
       /\ (lease.owner # None /\ lease'.owner # lease.owner)
             => lease'.generation > lease.generation]_vars

\* No open socket was accepted under a device generation that has been revoked:
\* a revocation may come before an admission, between it and the upgrade (fetch
\* looks again), or after.
NoRevokedSocket ==
    \A s \in sockets : s.admission.deviceGeneration >= revokedGeneration

=============================================================================
