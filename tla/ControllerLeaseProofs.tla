----------------------- MODULE ControllerLeaseProofs -----------------------
(***************************************************************************)
(* What the control state of a remote session (ControllerLease) guarantees *)
(* for any set of desktop clients and any interleaving of calls, socket    *)
(* events, expiries and restarts.                                          *)
(*                                                                         *)
(* Every step takes the control record (lease, attachments, sockets) to    *)
(* one built by Normalized, Vacated, WithAttachment and WithController.    *)
(* Each of the four keeps the record's type, lets the lease only move      *)
(* forward (Forward) and keeps its three parts in agreement (Agrees). The  *)
(* fence needs two more facts: no author is of a newer generation than the *)
(* lease, and an author of the lease's own generation is its owner.        *)
(***************************************************************************)
EXTENDS ControllerLease, SequenceTheorems, TLAPS

ControlRecord ==
    [lease: Lease, attachments: [Clients -> Attachment \cup {None}],
     sockets: SUBSET Socket]

\* A lease never goes back, and changes hands only under a new generation.
Forward(l, m) ==
    /\ m.generation >= l.generation
    /\ (l.owner # None /\ m.owner # l.owner) => m.generation > l.generation

Agrees(ctl) ==
    /\ \A c \in Clients : ctl.attachments[c] # None =>
          /\ ctl.attachments[c].leaseGeneration = ctl.lease.generation
          /\ ctl.attachments[c].mode = "controller" => ctl.lease.owner = c
    /\ \A s \in ctl.sockets : s.admission.leaseGeneration = ctl.lease.generation
    /\ \A s, t \in ctl.sockets : s.admission.endpoint = t.admission.endpoint => s = t

\* The two facts that tie the authors to the lease.
AuthorsFollowLease ==
    \A i \in DOMAIN authors :
        /\ authors[i].leaseGeneration <= lease.generation
        /\ authors[i].leaseGeneration = lease.generation => authors[i].client = lease.owner

ControlInv ==
    /\ TypeOK
    /\ ControlAgrees
    /\ DesktopStreamIsFenced
    /\ AuthorsFollowLease

\* How a step may change the control record.
Sound(ctl, next) ==
    /\ next \in ControlRecord
    /\ Forward(ctl.lease, next.lease)
    /\ Agrees(next)

-----------------------------------------------------------------------------
(* The operators on control records.                                       *)

LEMMA LeaseFields ==
    ASSUME NEW l \in Lease
    PROVE  /\ l.owner \in Clients \cup {None}
           /\ l.generation \in Nat \ {0}
           /\ l.expiresAt \in Nat \cup {None}
BY DEF Lease

LEMMA AdmissionFields ==
    ASSUME NEW a \in Admission
    PROVE  /\ a.endpoint \in Endpoints
           /\ a.client \in Clients
           /\ a.deviceGeneration \in Nat \ {0}
           /\ a.attachmentGeneration \in Nat \ {0}
           /\ a.leaseGeneration \in Nat \ {0}
           /\ a.expiresAt \in Nat
BY DEF Admission

LEMMA ForwardTransitive ==
    ASSUME NEW l \in Lease, NEW m \in Lease, NEW n \in Lease,
           Forward(l, m), Forward(m, n)
    PROVE  Forward(l, n)
BY LeaseFields DEF Forward

LEMMA ReassignedType ==
    ASSUME NEW table \in [Clients -> Attachment \cup {None}],
           NEW owner, NEW generation \in Nat \ {0}
    PROVE  /\ Reassigned(table, owner, generation) \in [Clients -> Attachment \cup {None}]
           /\ \A c \in Clients : Reassigned(table, owner, generation)[c] # None =>
                 /\ Reassigned(table, owner, generation)[c].leaseGeneration = generation
                 /\ Reassigned(table, owner, generation)[c].mode = "controller" => owner = c
<1> DEFINE row(c) == [table[c] EXCEPT !.mode = IF c = owner THEN "controller" ELSE "passive",
                                      !.leaseGeneration = generation]
<1>1. ASSUME NEW c \in Clients, table[c] # None
      PROVE  /\ row(c) \in Attachment
             /\ row(c).leaseGeneration = generation
             /\ row(c).mode = "controller" => owner = c
  <2>1. table[c] \in Attachment
    BY <1>1
  <2> QED BY <2>1 DEF Attachment
<1>2. \A c \in Clients : Reassigned(table, owner, generation)[c] =
          IF table[c] = None THEN None ELSE row(c)
  BY DEF Reassigned
<1>3. Reassigned(table, owner, generation) \in [Clients -> Attachment \cup {None}]
  BY <1>1 DEF Reassigned
<1> HIDE DEF row
<1> QED BY <1>1, <1>2, <1>3

LEMMA VacatedSound ==
    ASSUME NEW ctl \in ControlRecord, Agrees(ctl)
    PROVE  Sound(ctl, Vacated(ctl))
<1> DEFINE generation == ctl.lease.generation + 1
           table == Reassigned(ctl.attachments, None, generation)
           next == Vacated(ctl)
<1>1. /\ next.lease = [owner |-> None, generation |-> generation, expiresAt |-> None]
      /\ next.attachments = table
      /\ next.sockets = {s \in ctl.sockets : s.admission.leaseGeneration = generation}
      /\ next = [lease |-> next.lease, attachments |-> next.attachments,
                 sockets |-> next.sockets]
  BY DEF Vacated, VacatedGeneration, OfGeneration
<1>2. /\ ctl.lease \in Lease /\ ctl.attachments \in [Clients -> Attachment \cup {None}]
      /\ ctl.sockets \in SUBSET Socket
  BY DEF ControlRecord
<1>3. generation \in Nat \ {0} /\ generation > ctl.lease.generation
  BY <1>2, LeaseFields
<1>4. /\ table \in [Clients -> Attachment \cup {None}]
      /\ \A c \in Clients : table[c] # None =>
            /\ table[c].leaseGeneration = generation
            /\ table[c].mode = "controller" => None = c
  <2> HIDE DEF generation
  <2> QED BY <1>2, <1>3, ReassignedType
<1>5. next \in ControlRecord
  <2>1. next.lease \in Lease
    BY <1>1, <1>3 DEF Lease
  <2>2. next.sockets \in SUBSET Socket
    BY <1>1, <1>2
  <2> HIDE DEF next, table
  <2> QED BY <1>1, <1>4, <2>1, <2>2 DEF ControlRecord
<1>6. Forward(ctl.lease, next.lease)
  BY <1>1, <1>3, <1>2, LeaseFields DEF Forward
<1>7. Agrees(next)
  <2>1. next.lease.generation = generation /\ next.lease.owner = None
    BY <1>1
  <2> HIDE DEF next, table, generation
  <2> QED BY <1>1, <1>4, <2>1 DEF Agrees
<1> QED BY <1>5, <1>6, <1>7 DEF Sound

LEMMA NormalizedSound ==
    ASSUME NEW ctl \in ControlRecord, Agrees(ctl)
    PROVE  Sound(ctl, Normalized(ctl))
<1>1. CASE LeaseExpired(ctl.lease)
  BY <1>1, VacatedSound DEF Normalized
<1>2. CASE ~LeaseExpired(ctl.lease)
  <2>1. Normalized(ctl) = ctl
    BY <1>2 DEF Normalized
  <2>2. Forward(ctl.lease, ctl.lease)
    BY LeaseFields DEF Forward, ControlRecord
  <2> QED BY <2>1, <2>2 DEF Sound
<1> QED BY <1>1, <1>2

LEMMA WithAttachmentSound ==
    ASSUME NEW ctl \in ControlRecord, Agrees(ctl),
           NEW a \in Admission, a.leaseGeneration = ctl.lease.generation
    PROVE  /\ Sound(ctl, WithAttachment(ctl, a))
           /\ WithAttachment(ctl, a).lease = ctl.lease
<1> DEFINE old == ctl.attachments[a.client]
           row == [mode |-> IF old = None THEN "passive" ELSE old.mode,
                   generation |-> a.attachmentGeneration,
                   leaseGeneration |-> a.leaseGeneration,
                   expiresAt |-> IF old = None THEN a.expiresAt
                                 ELSE Larger(old.expiresAt, a.expiresAt)]
           next == WithAttachment(ctl, a)
<1>1. /\ ctl.lease \in Lease /\ ctl.attachments \in [Clients -> Attachment \cup {None}]
      /\ ctl.sockets \in SUBSET Socket
  BY DEF ControlRecord
<1>2. /\ next.lease = ctl.lease
      /\ next.sockets = ctl.sockets
      /\ next.attachments = [ctl.attachments EXCEPT ![a.client] = row]
      /\ next = [lease |-> next.lease, attachments |-> next.attachments,
                 sockets |-> next.sockets]
  BY DEF WithAttachment, ControlRecord
<1>3. old # None => old.mode \in {"passive", "controller"} /\ old.expiresAt \in Nat
  BY <1>1, AdmissionFields DEF Attachment
<1>4. row \in Attachment
  <2>1. row.mode \in {"passive", "controller"}
    BY <1>3
  <2>2. row.expiresAt \in Nat
    BY <1>3, AdmissionFields DEF Larger
  <2>3. row.generation \in Nat \ {0} /\ row.leaseGeneration \in Nat \ {0}
    BY AdmissionFields
  <2> QED BY <2>1, <2>2, <2>3 DEF Attachment
<1>5. /\ row.leaseGeneration = ctl.lease.generation
      /\ row.mode = "controller" => ctl.lease.owner = a.client
  BY AdmissionFields DEF Agrees
<1>6. next \in ControlRecord
  <2> HIDE DEF next, row
  <2>1. next.attachments \in [Clients -> Attachment \cup {None}]
    BY <1>1, <1>2, <1>4
  <2> QED BY <1>1, <1>2, <2>1 DEF ControlRecord
<1>7. Agrees(next)
  <2> HIDE DEF next, row
  <2>1. ASSUME NEW c \in Clients, next.attachments[c] # None
        PROVE  /\ next.attachments[c].leaseGeneration = next.lease.generation
               /\ next.attachments[c].mode = "controller" => next.lease.owner = c
    <3>1. CASE c = a.client
      <4>1. next.attachments[c] = row
        BY <1>1, <1>2, <3>1
      <4> QED BY <1>2, <1>5, <3>1, <4>1
    <3>2. CASE c # a.client
      <4>1. next.attachments[c] = ctl.attachments[c]
        BY <1>1, <1>2, <3>2
      <4> QED BY <1>2, <2>1, <4>1 DEF Agrees
    <3> QED BY <3>1, <3>2
  <2> QED BY <1>2, <2>1 DEF Agrees
<1>8. Forward(ctl.lease, next.lease)
  BY <1>1, <1>2, LeaseFields DEF Forward
<1> QED BY <1>2, <1>6, <1>7, <1>8 DEF Sound

LEMMA WithControllerSound ==
    ASSUME NEW ctl \in ControlRecord, Agrees(ctl), NEW a \in Admission
    PROVE  Sound(ctl, WithController(ctl, a))
<1> DEFINE generation == TakeoverGeneration(ctl.lease, a.client)
           table == Reassigned(ctl.attachments, a.client, generation)
           taken == [lease |-> [owner |-> a.client, generation |-> generation,
                                expiresAt |-> a.expiresAt],
                     attachments |-> table,
                     sockets |-> IF generation = ctl.lease.generation THEN ctl.sockets
                                 ELSE OfGeneration(ctl.sockets, generation)]
<1>1. /\ ctl.lease \in Lease /\ ctl.attachments \in [Clients -> Attachment \cup {None}]
      /\ ctl.sockets \in SUBSET Socket /\ a.client \in Clients /\ a.expiresAt \in Nat
  BY AdmissionFields DEF ControlRecord
<1>2. /\ generation \in Nat \ {0}
      /\ generation >= ctl.lease.generation
      /\ (ctl.lease.owner # None /\ a.client # ctl.lease.owner)
            => generation > ctl.lease.generation
  BY <1>1, LeaseFields DEF TakeoverGeneration
<1>3. /\ table \in [Clients -> Attachment \cup {None}]
      /\ \A c \in Clients : table[c] # None =>
            /\ table[c].leaseGeneration = generation
            /\ table[c].mode = "controller" => a.client = c
  <2> HIDE DEF generation
  <2> QED BY <1>1, <1>2, ReassignedType
<1>4. /\ taken.sockets \in SUBSET ctl.sockets
      /\ \A s \in taken.sockets : s.admission.leaseGeneration = generation
  BY <1>1 DEF OfGeneration, Agrees
<1>5. taken \in ControlRecord
  <2>1. taken.lease \in Lease
    BY <1>1, <1>2 DEF Lease
  <2> HIDE DEF table, generation
  <2> QED BY <1>1, <1>3, <1>4, <2>1 DEF ControlRecord
<1>6. Forward(ctl.lease, taken.lease)
  <2> HIDE DEF generation
  <2> QED BY <1>2 DEF Forward
<1>7. Agrees(taken)
  <2>1. \A s, t \in taken.sockets : s.admission.endpoint = t.admission.endpoint => s = t
    BY <1>4 DEF Agrees
  <2>2. taken.lease.generation = generation /\ taken.lease.owner = a.client
        /\ taken.attachments = table
    OBVIOUS
  <2> HIDE DEF taken, table, generation
  <2> QED BY <1>3, <1>4, <2>1, <2>2 DEF Agrees
<1>8. WithController(ctl, a) = Normalized(taken)
  BY DEF WithController
<1> HIDE DEF taken
<1>9. Sound(taken, Normalized(taken))
  BY <1>5, <1>7, NormalizedSound
<1>10. Forward(ctl.lease, Normalized(taken).lease)
  BY <1>1, <1>5, <1>6, <1>9, ForwardTransitive DEF Sound, ControlRecord
<1> QED BY <1>8, <1>9, <1>10 DEF Sound

LEMMA SoundTransitive ==
    ASSUME NEW x \in ControlRecord, NEW y, NEW z, Sound(x, y), Sound(y, z)
    PROVE  Sound(x, z)
<1>1. x.lease \in Lease /\ y.lease \in Lease /\ z.lease \in Lease
  BY DEF Sound, ControlRecord
<1> QED BY <1>1, ForwardTransitive DEF Sound

\* Closing sockets, and forgetting attachments.
LEMMA RemovalSound ==
    ASSUME NEW ctl \in ControlRecord, Agrees(ctl),
           NEW open \in SUBSET ctl.sockets,
           NEW kept \in [Clients -> Attachment \cup {None}],
           \A c \in Clients : kept[c] \in {None, ctl.attachments[c]}
    PROVE  /\ Sound(ctl, [ctl EXCEPT !.sockets = open, !.attachments = kept])
           /\ Sound(ctl, [ctl EXCEPT !.sockets = open])
<1>1. /\ ctl.lease \in Lease /\ ctl.attachments \in [Clients -> Attachment \cup {None}]
      /\ ctl.sockets \in SUBSET Socket
  BY DEF ControlRecord
<1>2. Forward(ctl.lease, ctl.lease)
  BY <1>1, LeaseFields DEF Forward
<1>3. ASSUME NEW next, next.lease = ctl.lease, next.sockets = open,
             next.attachments \in {kept, ctl.attachments}
      PROVE  Agrees(next)
  <2>1. \A c \in Clients : next.attachments[c] \in {None, ctl.attachments[c]}
    BY <1>3
  <2> QED BY <1>3, <2>1 DEF Agrees
<1>4. /\ [ctl EXCEPT !.sockets = open, !.attachments = kept] \in ControlRecord
      /\ [ctl EXCEPT !.sockets = open] \in ControlRecord
  BY <1>1 DEF ControlRecord
<1>5. /\ Agrees([ctl EXCEPT !.sockets = open, !.attachments = kept])
      /\ Agrees([ctl EXCEPT !.sockets = open])
  BY <1>3 DEF ControlRecord
<1> QED BY <1>2, <1>4, <1>5 DEF Sound, ControlRecord

LEMMA NormalizedControl ==
    ASSUME ControlInv
    PROVE  /\ Control \in ControlRecord /\ Agrees(Control)
           /\ Control.lease = lease /\ Control.attachments = attachments
           /\ Control.sockets = sockets
           /\ Sound(Control, Control)
           /\ Sound(Control, Normalized(Control))
           /\ Normalized(Control) \in ControlRecord /\ Agrees(Normalized(Control))
<1>1. Control \in ControlRecord
  BY DEF ControlInv, TypeOK, Control, ControlRecord
<1>2. Agrees(Control)
  BY DEF ControlInv, ControlAgrees, Control, Agrees
<1>3. Sound(Control, Normalized(Control))
  BY <1>1, <1>2, NormalizedSound
<1>4. Control.lease = lease /\ Control.attachments = attachments /\ Control.sockets = sockets
  BY DEF Control
<1>5. Sound(Control, Control)
  BY <1>1, <1>2, LeaseFields DEF Sound, Forward, ControlRecord
<1> QED BY <1>1, <1>2, <1>3, <1>4, <1>5 DEF Sound

-----------------------------------------------------------------------------
(* Steps.                                                                  *)

InFlight == [socket: Socket, envelope: Envelopes]

Author == [client: Clients, leaseGeneration: Nat \ {0}]

\* What a step must show besides a sound change of the control record.
RestTyped ==
    /\ now' \in Nat /\ deviceGeneration' \in Nat /\ revokedGeneration' \in Nat
    /\ accepted' \in Nat /\ admissions' \subseteq Admission
    /\ meters' \in Seq(InFlight)

Good == ControlInv' /\ Forward(lease, lease')

LEMMA TypedRest ==
    ControlInv => /\ now \in Nat /\ deviceGeneration \in Nat /\ revokedGeneration \in Nat
                  /\ accepted \in Nat /\ admissions \subseteq Admission
                  /\ meters \in Seq(InFlight)
                  /\ authors \in Seq([client: Clients, leaseGeneration: Nat \ {0}])
BY DEF ControlInv, TypeOK, InFlight

\* The lease moves forward: the authors stay behind it.
LEMMA AuthorsStayBehind ==
    ASSUME ControlInv, NEW next, Sound(Control, next)
    PROVE  \A i \in DOMAIN authors :
              /\ authors[i].leaseGeneration <= next.lease.generation
              /\ authors[i].leaseGeneration = next.lease.generation
                    => authors[i].client = next.lease.owner
<1> SUFFICES ASSUME NEW i \in DOMAIN authors
             PROVE  /\ authors[i].leaseGeneration <= next.lease.generation
                    /\ authors[i].leaseGeneration = next.lease.generation
                          => authors[i].client = next.lease.owner
  OBVIOUS
<1>1. authors[i] \in Author
  <2>1. authors \in Seq(Author)
    BY TypedRest DEF Author
  <2> QED BY <2>1, LenProperties
<1>2. /\ authors[i].client \in Clients /\ authors[i].leaseGeneration \in Nat
      /\ lease \in Lease /\ next.lease \in Lease
  BY <1>1, NormalizedControl DEF Sound, ControlRecord, Author
<1>3. /\ authors[i].leaseGeneration <= lease.generation
      /\ authors[i].leaseGeneration = lease.generation => authors[i].client = lease.owner
  BY DEF ControlInv, AuthorsFollowLease
<1>4. Forward(lease, next.lease)
  BY NormalizedControl DEF Sound
<1> QED BY <1>2, <1>3, <1>4, LeaseFields, NoneIsNoValue DEF Forward

LEMMA SoundStep ==
    ASSUME ControlInv, NEW next, Sound(Control, next), SetControl(next),
           RestTyped, authors' = authors
    PROVE  Good
<1>1. /\ lease' = next.lease /\ attachments' = next.attachments /\ sockets' = next.sockets
      /\ next \in ControlRecord
  BY DEF SetControl, Sound
<1>2. TypeOK'
  BY <1>1, TypedRest DEF RestTyped, TypeOK, ControlRecord, InFlight
<1>3. ControlAgrees'
  BY <1>1 DEF Sound, Agrees, ControlAgrees
<1>4. AuthorsFollowLease'
  BY <1>1, AuthorsStayBehind DEF AuthorsFollowLease
<1>5. DesktopStreamIsFenced'
  BY DEF ControlInv, DesktopStreamIsFenced
<1>6. Forward(lease, lease')
  BY <1>1, NormalizedControl DEF Sound
<1> QED BY <1>2, <1>3, <1>4, <1>5, <1>6 DEF Good, ControlInv

\* A step that leaves the control record alone.
LEMMA QuietStep ==
    ASSUME ControlInv, UNCHANGED controlVars, RestTyped, authors' = authors
    PROVE  Good
<1>1. Sound(Control, Control) /\ SetControl(Control)
  BY NormalizedControl DEF SetControl, controlVars
<1> QED BY <1>1, SoundStep

LEMMA GrantsAreAdmissions ==
    ASSUME ControlInv, NEW e \in Endpoints
    PROVE  /\ Grants(e) \subseteq Admission
           /\ CurrentGrants(e) \subseteq Admission
           /\ \A a \in Grants(e) : a.endpoint = e
<1>1. /\ MaxDeviceGeneration \in Nat /\ MaxAttachmentGeneration \in Nat
      /\ MaxLeaseGeneration \in Nat /\ MaxGrantSeconds \in Nat /\ now \in Nat
  BY BoundsAreNumbers, TypedRest
<1> QED BY <1>1 DEF Grants, CurrentGrants, Admission

LEMMA AttachPreserves ==
    ASSUME ControlInv, NEW a \in Admission, attachClient(a)
    PROVE  Good
<1> DEFINE next == IF Attaches(a) THEN WithAttachment(Normalized(Control), a)
                                  ELSE Normalized(Control)
<1>1. Sound(Control, next)
  <2>1. CASE Attaches(a)
    <3>1. Sound(Normalized(Control), WithAttachment(Normalized(Control), a))
      BY <2>1, NormalizedControl, WithAttachmentSound DEF Attaches
    <3> QED BY <2>1, <3>1, NormalizedControl, SoundTransitive
  <2>2. CASE ~Attaches(a)
    BY <2>2, NormalizedControl
  <2> QED BY <2>1, <2>2
<1>2. SetControl(next) /\ RestTyped /\ authors' = authors
  BY TypedRest DEF attachClient, RestTyped
<1> HIDE DEF next
<1> QED BY <1>1, <1>2, SoundStep

LEMMA AcquirePreserves ==
    ASSUME ControlInv, NEW a \in Admission, NEW takeover, acquireController(a, takeover)
    PROVE  Good
<1> DEFINE next == IF Acquires(a, takeover) THEN WithController(Normalized(Control), a)
                                            ELSE Normalized(Control)
<1>1. Sound(Control, next)
  <2>1. Sound(Normalized(Control), WithController(Normalized(Control), a))
    BY NormalizedControl, WithControllerSound
  <2> QED BY <2>1, NormalizedControl, SoundTransitive
<1>2. SetControl(next) /\ RestTyped /\ authors' = authors
  BY TypedRest DEF acquireController, RestTyped
<1> HIDE DEF next
<1> QED BY <1>1, <1>2, SoundStep

LEMMA ReleasePreserves ==
    ASSUME ControlInv, NEW a \in Admission, releaseController(a)
    PROVE  Good
<1> DEFINE next == IF Releases(a) THEN Vacated(Normalized(Control))
                                  ELSE Normalized(Control)
<1>1. Sound(Control, next)
  <2>1. Sound(Normalized(Control), Vacated(Normalized(Control)))
    BY NormalizedControl, VacatedSound
  <2> QED BY <2>1, NormalizedControl, SoundTransitive
<1>2. SetControl(next) /\ RestTyped /\ authors' = authors
  BY TypedRest DEF releaseController, RestTyped
<1> HIDE DEF next
<1> QED BY <1>1, <1>2, SoundStep

LEMMA PreparePreserves ==
    ASSUME ControlInv, NEW a \in Admission, prepareConnection(a)
    PROVE  Good
<1>1. CASE ~Initialises(a.deviceGeneration)
  <2>1. UNCHANGED controlVars /\ RestTyped /\ authors' = authors
    BY <1>1, TypedRest DEF prepareConnection, RestTyped, controlVars
  <2> QED BY <2>1, QuietStep
<1>2. CASE Initialises(a.deviceGeneration)
  <2> DEFINE ctl == Normalized(Control)
             attached == WithAttachment(ctl, a)
             taken == WithController(attached, a)
             prepared == Prepared(a)
  <2>1. ctl \in ControlRecord /\ Agrees(ctl) /\ Sound(Control, ctl)
    BY NormalizedControl
  <2>2. Attaches(a) => Sound(Control, attached) /\ Sound(Control, taken)
    <3> HAVE Attaches(a)
    <3>1. Sound(ctl, attached)
      BY <2>1, WithAttachmentSound DEF Attaches
    <3>2. Sound(attached, taken)
      BY <3>1, WithControllerSound DEF Sound
    <3> QED BY <2>1, <3>1, <3>2, NormalizedControl, SoundTransitive
  <2>3. \/ /\ prepared.control = ctl
           /\ prepared.generation \in {None, ctl.lease.generation}
        \/ /\ Attaches(a)
           /\ prepared.control \in {attached, taken}
           /\ prepared.generation \in {None, taken.lease.generation}
    BY DEF Prepared
  <2>4. Sound(Control, prepared.control)
    <3> HIDE DEF prepared, ctl, attached, taken
    <3> QED BY <2>1, <2>2, <2>3
  <2>5. prepared.generation # None => prepared.generation \in Nat \ {0}
    <3>1. ctl.lease.generation \in Nat \ {0}
      BY <2>1, LeaseFields DEF ControlRecord
    <3>2. Attaches(a) => taken.lease.generation \in Nat \ {0}
      BY <2>2, LeaseFields DEF Sound, ControlRecord
    <3> HIDE DEF prepared, ctl, attached, taken
    <3> QED BY <2>3, <3>1, <3>2
  <2>6. /\ SetControl(prepared.control)
        /\ deviceGeneration' = Larger(deviceGeneration, a.deviceGeneration)
        /\ admissions' = IF prepared.generation = None THEN admissions
                         ELSE admissions \cup
                                 {[a EXCEPT !.leaseGeneration = prepared.generation]}
        /\ UNCHANGED <<now, revokedGeneration, accepted, meters, authors>>
    BY <1>2 DEF prepareConnection
  <2> HIDE DEF prepared
  <2>7. admissions' \subseteq Admission
    <3>1. prepared.generation # None =>
              [a EXCEPT !.leaseGeneration = prepared.generation] \in Admission
      BY <2>5 DEF Admission
    <3> QED BY <2>6, <3>1, TypedRest
  <2>8. deviceGeneration' \in Nat
    BY <2>6, TypedRest, AdmissionFields DEF Larger
  <2>9. RestTyped /\ authors' = authors
    BY <2>6, <2>7, <2>8, TypedRest DEF RestTyped
  <2> QED BY <2>4, <2>6, <2>9, SoundStep
<1> QED BY <1>1, <1>2

\* The new socket is of the lease's generation, and the only one of its endpoint.
LEMMA FetchPreserves ==
    ASSUME ControlInv, NEW a \in Admission, fetch(a)
    PROVE  Good
<1> DEFINE ctl == Normalized(Control)
           s == [id |-> accepted + 1, admission |-> a]
           next == [ctl EXCEPT !.sockets = Replaced(@, s)]
<1>1. ctl \in ControlRecord /\ Agrees(ctl) /\ Sound(Control, ctl)
  BY NormalizedControl
<1>2. /\ now' \in Nat /\ deviceGeneration' \in Nat /\ revokedGeneration' \in Nat
      /\ admissions' \subseteq Admission /\ meters' \in Seq(InFlight)
      /\ authors' = authors
  BY TypedRest DEF fetch
<1>3. CASE Upgrades(a)
  <2>1. SetControl(next) /\ accepted' = accepted + 1
    BY <1>3 DEF fetch
  <2>2. s \in Socket
    BY TypedRest DEF Socket
  <2>3. s.admission = a /\ a.leaseGeneration = ctl.lease.generation
    BY <1>3 DEF Upgrades, SameGeneration
  <2>4. /\ ctl.lease \in Lease /\ ctl.attachments \in [Clients -> Attachment \cup {None}]
        /\ ctl.sockets \in SUBSET Socket
    BY <1>1 DEF ControlRecord
  <2>5. /\ next.lease = ctl.lease /\ next.attachments = ctl.attachments
        /\ next.sockets = Replaced(ctl.sockets, s)
        /\ next = [lease |-> next.lease, attachments |-> next.attachments,
                   sockets |-> next.sockets]
    BY <1>1 DEF ControlRecord
  <2> HIDE DEF next, s, ctl
  <2>6. \A t \in next.sockets : t = s \/ /\ t \in ctl.sockets
                                         /\ t.admission.endpoint # s.admission.endpoint
    BY <2>5 DEF Replaced
  <2>7. next \in ControlRecord
    <3>1. next.sockets \in SUBSET Socket
      BY <2>2, <2>4, <2>6
    <3> QED BY <2>4, <2>5, <3>1 DEF ControlRecord
  <2>8. Agrees(next)
    <3>1. \A t \in next.sockets : t.admission.leaseGeneration = next.lease.generation
      BY <1>1, <2>3, <2>5, <2>6 DEF Agrees
    <3>2. \A t, u \in next.sockets :
              t.admission.endpoint = u.admission.endpoint => t = u
      BY <1>1, <2>6 DEF Agrees
    <3> QED BY <1>1, <2>5, <3>1, <3>2 DEF Agrees
  <2>9. Sound(Control, next)
    BY <1>1, <2>5, <2>7, <2>8 DEF Sound
  <2>10. RestTyped
    BY <1>2, <2>1, TypedRest DEF RestTyped
  <2> QED BY <1>2, <2>1, <2>9, <2>10, SoundStep
<1>4. CASE ~Upgrades(a)
  <2> DEFINE refused == IF Admits(a) THEN ctl ELSE Control
  <2>1. SetControl(refused) /\ accepted' = accepted
    BY <1>4 DEF fetch
  <2>2. Sound(Control, refused)
    BY <1>1, NormalizedControl
  <2>3. RestTyped
    BY <1>2, <2>1, TypedRest DEF RestTyped
  <2> HIDE DEF refused
  <2> QED BY <1>2, <2>1, <2>2, <2>3, SoundStep
<1> QED BY <1>3, <1>4

LEMMA QuietCallsPreserve ==
    ASSUME ControlInv,
           \/ \E g \in 1..MaxDeviceGeneration : initialize(g)
           \/ \E a \in admissions : abandonAdmission(a)
           \/ tick
    PROVE  Good
<1>1. UNCHANGED controlVars /\ authors' = authors
  BY DEF initialize, abandonAdmission, tick
<1>2. RestTyped
  <2>1. ASSUME NEW g \in 1..MaxDeviceGeneration, initialize(g)
        PROVE  RestTyped
    BY <2>1, TypedRest, BoundsAreNumbers DEF initialize, Larger, RestTyped
  <2>2. ASSUME NEW a \in admissions, abandonAdmission(a)
        PROVE  RestTyped
    BY <2>2, TypedRest DEF abandonAdmission, RestTyped
  <2>3. CASE tick
    BY <2>3, TypedRest DEF tick, RestTyped
  <2> QED BY <2>1, <2>2, <2>3
<1> QED BY <1>1, <1>2, QuietStep

LEMMA InventoryPreserves ==
    ASSUME ControlInv, inventoryEntry
    PROVE  Good
<1>1. SetControl(Normalized(Control)) /\ RestTyped /\ authors' = authors
  BY TypedRest DEF inventoryEntry, RestTyped
<1> QED BY <1>1, NormalizedControl, SoundStep

LEMMA RevokePreserves ==
    ASSUME ControlInv, NEW g \in 2..MaxDeviceGeneration, revokeDevice(g)
    PROVE  Good
<1> DEFINE next == [Control EXCEPT !.sockets = {}]
<1>1. Sound(Control, next)
  <2>1. {} \in SUBSET Control.sockets /\ Control.attachments \in [Clients -> Attachment \cup {None}]
    BY NormalizedControl DEF ControlRecord
  <2> QED BY <2>1, NormalizedControl, RemovalSound
<1>2. SetControl(next) /\ authors' = authors
  BY DEF revokeDevice
<1>3. RestTyped
  <2>1. g \in Nat /\ Larger(revokedGeneration, g) \in Nat
    BY TypedRest, BoundsAreNumbers DEF Larger
  <2>2. /\ revokedGeneration' = Larger(revokedGeneration, g)
        /\ UNCHANGED <<now, deviceGeneration, accepted, admissions, meters>>
    BY DEF revokeDevice
  <2> QED BY <2>1, <2>2, TypedRest DEF RestTyped
<1> HIDE DEF next
<1> QED BY <1>1, <1>2, <1>3, SoundStep

\* What is left of a sequence of envelopes without the i-th.
LEMMA MeteredTyped ==
    ASSUME ControlInv, NEW i \in DOMAIN meters, Metered(i)
    PROVE  /\ meters' \in Seq(InFlight)
           /\ meters[i].socket \in Socket
           /\ meters[i].socket.admission \in Admission
<1>1. /\ meters \in Seq(InFlight) /\ Len(meters) \in Nat /\ i \in 1..Len(meters)
      /\ \A j \in 1..Len(meters) : meters[j] \in InFlight
  BY TypedRest, LenProperties, ElementOfSeq
<1>2. SubSeq(meters, 1, i - 1) \in Seq(InFlight)
  BY <1>1, SubSeqProperties
<1>3. SubSeq(meters, i + 1, Len(meters)) \in Seq(InFlight)
  BY <1>1, SubSeqProperties
<1>4. meters' \in Seq(InFlight)
  BY <1>2, <1>3, ConcatProperties DEF Metered
<1> QED BY <1>1, <1>4 DEF InFlight, Socket

LEMMA ClosePreserves ==
    ASSUME ControlInv, NEW s, CloseSocket(s), meters' \in Seq(InFlight)
    PROVE  Good
<1> DEFINE next == [Control EXCEPT !.sockets = @ \ {s}]
<1>1. Sound(Control, next)
  <2>1. Control.sockets \ {s} \in SUBSET Control.sockets
        /\ Control.attachments \in [Clients -> Attachment \cup {None}]
    BY NormalizedControl DEF ControlRecord
  <2> QED BY <2>1, NormalizedControl, RemovalSound
<1>2. SetControl(next) /\ RestTyped /\ authors' = authors
  BY TypedRest DEF CloseSocket, RestTyped
<1> HIDE DEF next
<1> QED BY <1>1, <1>2, SoundStep

LEMMA ReceivePreserves ==
    ASSUME ControlInv, NEW s \in sockets, NEW envelope \in Envelopes,
           receiveEnvelope(s, envelope)
    PROVE  Good
<1>1. [socket |-> s, envelope |-> envelope] \in InFlight
  BY NormalizedControl DEF ControlRecord, InFlight
<1>2. meters' \in Seq(InFlight)
  BY <1>1, TypedRest, AppendProperties DEF receiveEnvelope
<1>3. UNCHANGED controlVars /\ RestTyped /\ authors' = authors
  BY <1>2, TypedRest DEF receiveEnvelope, RestTyped, controlVars
<1> QED BY <1>3, QuietStep

LEMMA AfterPublishSound ==
    ASSUME ControlInv, NEW i \in DOMAIN meters, NEW closed \in BOOLEAN
    PROVE  Sound(Control, AfterPublish(i, closed))
<1> DEFINE s == meters[i].socket
           ctl == IF s.admission.endpoint = "desktop"
                       /\ CurrentAttachment(Control, s.admission)
                  THEN Normalized(Control) ELSE Control
<1>1. Sound(Control, ctl)
  BY NormalizedControl
<1>2. AfterPublish(i, closed) = IF closed THEN [ctl EXCEPT !.sockets = @ \ {s}] ELSE ctl
  BY DEF AfterPublish
<1> HIDE DEF ctl, s
<1>3. Sound(ctl, [ctl EXCEPT !.sockets = @ \ {s}])
  <2>1. ctl.sockets \ {s} \in SUBSET ctl.sockets
        /\ ctl.attachments \in [Clients -> Attachment \cup {None}]
    BY <1>1 DEF Sound, ControlRecord
  <2> QED BY <1>1, <2>1, RemovalSound DEF Sound
<1>4. Sound(Control, [ctl EXCEPT !.sockets = @ \ {s}])
  BY <1>1, <1>3, NormalizedControl, SoundTransitive
<1> QED BY <1>1, <1>2, <1>4

\* The author of an inserted desktop envelope is the owner of the lease as it is
\* after the step, in the lease's generation.
LEMMA InsertedByOwner ==
    ASSUME ControlInv, NEW i \in DOMAIN meters, Authorised(i), NEW closed \in BOOLEAN,
           meters[i].socket.admission.endpoint = "desktop"
    PROVE  /\ AfterPublish(i, closed).lease.owner = meters[i].socket.admission.client
           /\ AfterPublish(i, closed).lease.generation = meters[i].socket.admission.leaseGeneration
<1> DEFINE a == meters[i].socket.admission
<1>1. CurrentAttachment(Control, a) /\ HoldsLease(a)
  BY DEF Authorised
<1>2. AfterPublish(i, closed).lease = Normalized(Control).lease
  BY <1>1, NormalizedControl DEF AfterPublish, ControlRecord
<1> QED BY <1>1, <1>2 DEF HoldsLease

LEMMA PublishPreserves ==
    ASSUME ControlInv, NEW i \in DOMAIN meters, NEW inserted \in BOOLEAN,
           publishAuthorizedEnvelope(i, inserted)
    PROVE  Good
<1> PICK closed \in BOOLEAN : SetControl(AfterPublish(i, closed))
  BY DEF publishAuthorizedEnvelope
<1> DEFINE a == meters[i].socket.admission
           next == AfterPublish(i, closed)
           author == [client |-> a.client, leaseGeneration |-> a.leaseGeneration]
<1>1. Sound(Control, next) /\ SetControl(next)
  BY AfterPublishSound DEF publishAuthorizedEnvelope
<1>2. RestTyped /\ a \in Admission
  <2>1. meters' \in Seq(InFlight) /\ a \in Admission
    BY MeteredTyped DEF publishAuthorizedEnvelope
  <2> QED BY <2>1, TypedRest DEF publishAuthorizedEnvelope, RestTyped
<1>3. CASE ~(inserted /\ a.endpoint = "desktop")
  <2>1. authors' = authors
    BY <1>3 DEF publishAuthorizedEnvelope
  <2> HIDE DEF next
  <2> QED BY <1>1, <1>2, <2>1, SoundStep
<1>4. CASE inserted /\ a.endpoint = "desktop"
  <2>1. authors' = Append(authors, author)
    BY <1>4 DEF publishAuthorizedEnvelope
  <2>2. next.lease.owner = a.client /\ next.lease.generation = a.leaseGeneration
    BY <1>4, InsertedByOwner DEF publishAuthorizedEnvelope
  <2>3. lease' = next.lease /\ attachments' = next.attachments /\ sockets' = next.sockets
        /\ next \in ControlRecord
    BY <1>1 DEF SetControl, Sound
  <2>4. author \in Author
    BY <1>2, AdmissionFields DEF Author
  <2>5. /\ authors \in Seq(Author) /\ Len(authors) \in Nat
        /\ DOMAIN authors = 1..Len(authors)
        /\ \A k \in DOMAIN authors : authors[k] \in Author
    <3>1. authors \in Seq(Author)
      BY TypedRest DEF Author
    <3> QED BY <3>1, LenProperties, ElementOfSeq
  <2>6. /\ authors' \in Seq(Author)
        /\ DOMAIN authors' = 1..(Len(authors) + 1)
        /\ \A k \in DOMAIN authors : authors'[k] = authors[k]
        /\ authors'[Len(authors) + 1] = author
    <3> HIDE DEF author
    <3> QED BY <2>1, <2>4, <2>5, AppendProperties, LenProperties
  <2>7. author.client = a.client /\ author.leaseGeneration = a.leaseGeneration
    OBVIOUS
  <2>8. \A k \in DOMAIN authors :
           /\ authors[k].leaseGeneration <= next.lease.generation
           /\ authors[k].leaseGeneration = next.lease.generation
                 => authors[k].client = next.lease.owner
    BY <1>1, AuthorsStayBehind
  <2>9. a.leaseGeneration \in Nat
    BY <1>2, AdmissionFields
  <2> HIDE DEF author, a, next
  <2>10. TypeOK'
    BY <1>2, <2>3, <2>6 DEF RestTyped, TypeOK, ControlRecord, InFlight, Author
  <2>11. ControlAgrees'
    BY <1>1, <2>3 DEF Sound, Agrees, ControlAgrees
  <2>12. AuthorsFollowLease'
    <3> SUFFICES ASSUME NEW k \in DOMAIN authors'
                 PROVE  /\ authors'[k].leaseGeneration <= lease'.generation
                        /\ authors'[k].leaseGeneration = lease'.generation
                              => authors'[k].client = lease'.owner
      BY DEF AuthorsFollowLease
    <3>1. CASE k \in DOMAIN authors
      BY <2>3, <2>6, <2>8, <3>1
    <3>2. CASE k = Len(authors) + 1
      BY <2>2, <2>3, <2>6, <2>7, <2>9, <3>2
    <3> QED BY <2>5, <2>6, <3>1, <3>2
  <2>13. DesktopStreamIsFenced'
    <3> SUFFICES ASSUME NEW j \in DOMAIN authors', NEW k \in DOMAIN authors', j < k
                 PROVE  /\ authors'[j].leaseGeneration <= authors'[k].leaseGeneration
                        /\ authors'[j].leaseGeneration = authors'[k].leaseGeneration
                              => authors'[j].client = authors'[k].client
      BY DEF DesktopStreamIsFenced
    <3>1. j \in DOMAIN authors
      BY <2>5, <2>6
    <3>2. CASE k \in DOMAIN authors
      BY <2>6, <3>1, <3>2 DEF ControlInv, DesktopStreamIsFenced
    <3>3. CASE k = Len(authors) + 1
      BY <2>2, <2>6, <2>7, <2>8, <3>1, <3>3
    <3> QED BY <2>5, <2>6, <3>2, <3>3
  <2>14. Forward(lease, lease')
    BY <1>1, <2>3, NormalizedControl DEF Sound
  <2> QED BY <2>10, <2>11, <2>12, <2>13, <2>14 DEF Good, ControlInv
<1> QED BY <1>3, <1>4

LEMMA AlarmPreserves ==
    ASSUME ControlInv, alarm
    PROVE  Good
<1> DEFINE ctl == Normalized(Control)
           open == {s \in ctl.sockets :
                       ~Expired(s) /\ ~Lapsed(ctl.attachments, s.admission.client)}
           kept == [c \in Clients |-> IF Lapsed(ctl.attachments, c) THEN None
                                      ELSE ctl.attachments[c]]
           next == [ctl EXCEPT !.sockets = open, !.attachments = kept]
<1>1. Sound(ctl, next)
  <2>1. ctl \in ControlRecord /\ Agrees(ctl)
    BY NormalizedControl
  <2>2. open \in SUBSET ctl.sockets
    OBVIOUS
  <2>3. /\ kept \in [Clients -> Attachment \cup {None}]
        /\ \A c \in Clients : kept[c] \in {None, ctl.attachments[c]}
    <3>1. ctl.attachments \in [Clients -> Attachment \cup {None}]
      BY <2>1 DEF ControlRecord
    <3> HIDE DEF ctl
    <3> QED BY <3>1
  <2> HIDE DEF ctl, open, kept
  <2> QED BY <2>1, <2>2, <2>3, RemovalSound
<1>2. Sound(Control, next)
  <2> HIDE DEF ctl, next
  <2>1. Sound(Control, ctl)
    BY NormalizedControl DEF ctl
  <2> QED BY <1>1, <2>1, NormalizedControl, SoundTransitive
<1>3. SetControl(next) /\ RestTyped /\ authors' = authors
  BY TypedRest DEF alarm, RestTyped
<1> HIDE DEF next
<1> QED BY <1>2, <1>3, SoundStep

LEMMA RestartPreserves ==
    ASSUME ControlInv, restart
    PROVE  Good
<1> DEFINE next == [Control EXCEPT !.sockets = {}]
<1>1. Sound(Control, next)
  <2>1. {} \in SUBSET Control.sockets /\ Control.attachments \in [Clients -> Attachment \cup {None}]
    BY NormalizedControl DEF ControlRecord
  <2> QED BY <2>1, NormalizedControl, RemovalSound
<1>2. SetControl(next) /\ RestTyped /\ authors' = authors
  BY TypedRest, EmptySeq DEF restart, RestTyped
<1> HIDE DEF next
<1> QED BY <1>1, <1>2, SoundStep

-----------------------------------------------------------------------------
(* The specification.                                                      *)

LEMMA InitEstablishes == Init => ControlInv
<1> SUFFICES ASSUME Init PROVE ControlInv
  OBVIOUS
<1>1. authors = <<>> /\ DOMAIN authors = {}
  BY DEF Init
<1>2. TypeOK
  <2>1. lease \in Lease
    BY DEF Init, Lease
  <2> QED BY <2>1 DEF Init, TypeOK
<1>3. ControlAgrees
  BY DEF Init, ControlAgrees
<1> QED BY <1>1, <1>2, <1>3 DEF ControlInv, DesktopStreamIsFenced, AuthorsFollowLease

LEMMA StepPreserves ==
    ASSUME ControlInv, Next
    PROVE  Good
<1>1. \A e \in Endpoints : Grants(e) \subseteq Admission /\ CurrentGrants(e) \subseteq Admission
  BY GrantsAreAdmissions
<1>2. "desktop" \in Endpoints /\ "device" \in Endpoints
  BY DEF Endpoints
<1>3. CASE WorkerCall
  <2>1. CASE \E g \in 1..MaxDeviceGeneration : initialize(g)
    BY <2>1, QuietCallsPreserve
  <2>2. ASSUME NEW a \in CurrentGrants("desktop"), attachClient(a)
        PROVE  Good
    BY <1>1, <1>2, <2>2, AttachPreserves
  <2>3. ASSUME NEW a \in CurrentGrants("desktop"), NEW takeover \in BOOLEAN,
               acquireController(a, takeover)
        PROVE  Good
    BY <1>1, <1>2, <2>3, AcquirePreserves
  <2>4. ASSUME NEW a \in CurrentGrants("desktop"), releaseController(a)
        PROVE  Good
    BY <1>1, <1>2, <2>4, ReleasePreserves
  <2>5. ASSUME NEW a \in Grants("desktop") \cup Grants("device"), prepareConnection(a)
        PROVE  Good
    BY <1>1, <1>2, <2>5, PreparePreserves
  <2>6. CASE \E a \in admissions : abandonAdmission(a)
    BY <2>6, QuietCallsPreserve
  <2>7. ASSUME NEW a \in admissions, fetch(a)
        PROVE  Good
    BY <2>7, TypedRest, FetchPreserves
  <2>8. CASE inventoryEntry
    BY <2>8, InventoryPreserves
  <2>9. ASSUME NEW g \in 2..MaxDeviceGeneration, revokeDevice(g)
        PROVE  Good
    BY <2>9, RevokePreserves
  <2> QED BY <1>3, <2>1, <2>2, <2>3, <2>4, <2>5, <2>6, <2>7, <2>8, <2>9 DEF WorkerCall
<1>4. CASE SocketEvent
  <2>1. ASSUME NEW s \in sockets, messageOnExpiredSocket(s)
        PROVE  Good
    BY <2>1, TypedRest, ClosePreserves DEF messageOnExpiredSocket
  <2>2. ASSUME NEW s \in sockets, NEW envelope \in Envelopes, receiveEnvelope(s, envelope)
        PROVE  Good
    BY <2>2, ReceivePreserves
  <2>3. ASSUME NEW i \in DOMAIN meters, meterRefused(i)
        PROVE  Good
    BY <2>3, MeteredTyped, ClosePreserves DEF meterRefused
  <2>4. ASSUME NEW i \in DOMAIN meters, NEW inserted \in BOOLEAN,
               publishAuthorizedEnvelope(i, inserted)
        PROVE  Good
    BY <2>4, PublishPreserves
  <2>5. ASSUME NEW s \in sockets, peerCloses(s)
        PROVE  Good
    BY <2>5, TypedRest, ClosePreserves DEF peerCloses
  <2> QED BY <1>4, <2>1, <2>2, <2>3, <2>4, <2>5 DEF SocketEvent
<1>5. CASE alarm
  BY <1>5, AlarmPreserves
<1>6. CASE restart
  BY <1>6, RestartPreserves
<1>7. CASE tick
  BY <1>7, QuietCallsPreserve
<1> QED BY <1>3, <1>4, <1>5, <1>6, <1>7 DEF Next

LEMMA StutterPreserves ==
    ASSUME ControlInv, UNCHANGED vars
    PROVE  Good
<1>1. UNCHANGED controlVars /\ authors' = authors /\ RestTyped
  BY TypedRest DEF vars, RestTyped
<1> QED BY <1>1, QuietStep

\* The inductive invariant holds throughout.
THEOREM ControlInvariant == Spec => []ControlInv
<1>1. ControlInv /\ [Next]_vars => ControlInv'
  BY StepPreserves, StutterPreserves DEF Good
<1> QED BY InitEstablishes, <1>1, PTL DEF Spec

\* Every variable of the control state keeps its type.
THEOREM TypeCorrect == Spec => []TypeOK
<1>1. ControlInv => TypeOK
  BY DEF ControlInv
<1> QED BY ControlInvariant, <1>1, PTL

\* The desktop stream is fenced by the controller generation: whatever is awaited
\* between the receipt of an envelope and its publication, no envelope follows
\* one of a newer generation and a generation has one author
\* (publishAuthorizedEnvelope, acquireController, normalizedLease).
THEOREM StreamIsFenced == Spec => []DesktopStreamIsFenced
<1>1. ControlInv => DesktopStreamIsFenced
  BY DEF ControlInv
<1> QED BY ControlInvariant, <1>1, PTL

\* Lease, attachments and sockets agree after every call and event
\* (closeStaleControllerSockets, fetch, attachClient).
THEOREM ControlStaysInAgreement == Spec => []ControlAgrees
<1>1. ControlInv => ControlAgrees
  BY DEF ControlInv
<1> QED BY ControlInvariant, <1>1, PTL

\* Every change of the controller comes with a new generation
\* (acquireController, releaseController, normalizedLease).
THEOREM HandoverAdvances == Spec => HandoverAdvancesGeneration
<1>1. ControlInv /\ [Next]_vars =>
        [/\ lease'.generation >= lease.generation
         /\ (lease.owner # None /\ lease'.owner # lease.owner)
               => lease'.generation > lease.generation]_vars
  BY StepPreserves DEF Good, Forward
<1> QED BY ControlInvariant, <1>1, PTL DEF Spec, HandoverAdvancesGeneration

-----------------------------------------------------------------------------
(* Revocation. Only the upgrade adds a socket, after a look at the revoked *)
(* generation; only revokeDevice moves that, and it closes every socket.   *)

LEMMA NormalizedShrinks ==
    ASSUME NEW ctl
    PROVE  Normalized(ctl).sockets \subseteq ctl.sockets
BY DEF Normalized, Vacated, OfGeneration

LEMMA WithControllerShrinks ==
    ASSUME NEW ctl, NEW a
    PROVE  WithController(ctl, a).sockets \subseteq ctl.sockets
<1> DEFINE generation == TakeoverGeneration(ctl.lease, a.client)
           taken == [lease |-> [owner |-> a.client, generation |-> generation,
                                expiresAt |-> a.expiresAt],
                     attachments |-> Reassigned(ctl.attachments, a.client, generation),
                     sockets |-> IF generation = ctl.lease.generation THEN ctl.sockets
                                 ELSE OfGeneration(ctl.sockets, generation)]
<1>1. taken.sockets \subseteq ctl.sockets
  BY DEF OfGeneration
<1>2. WithController(ctl, a) = Normalized(taken)
  BY DEF WithController
<1> HIDE DEF taken
<1> QED BY <1>1, <1>2, NormalizedShrinks

LEMMA WithAttachmentSockets ==
    ASSUME NEW ctl \in ControlRecord, NEW a
    PROVE  WithAttachment(ctl, a).sockets = ctl.sockets
BY DEF WithAttachment, ControlRecord

\* Every step but the upgrade and a revocation only closes sockets.
LEMMA SocketsShrink ==
    ASSUME ControlInv, Next,
           ~ \E a \in admissions : fetch(a) /\ Upgrades(a),
           ~ \E g \in 2..MaxDeviceGeneration : revokeDevice(g)
    PROVE  sockets' \subseteq sockets /\ revokedGeneration' = revokedGeneration
<1> DEFINE ctl == Normalized(Control)
<1>1. ctl.sockets \subseteq sockets /\ Control.sockets = sockets /\ ctl \in ControlRecord
  BY NormalizedControl, NormalizedShrinks
<1>2. \A a : /\ WithAttachment(ctl, a).sockets = ctl.sockets
              /\ WithController(ctl, a).sockets \subseteq ctl.sockets
              /\ WithController(WithAttachment(ctl, a), a).sockets \subseteq ctl.sockets
  BY <1>1, WithAttachmentSockets, WithControllerShrinks
<1>3. Vacated(ctl).sockets \subseteq ctl.sockets
  BY DEF Vacated, OfGeneration
<1>4. ASSUME NEW a, attachClient(a) \/ releaseController(a)
                     \/ \E takeover \in BOOLEAN : acquireController(a, takeover)
      PROVE  sockets' \subseteq sockets /\ revokedGeneration' = revokedGeneration
  <2> HIDE DEF ctl
  <2> QED BY <1>1, <1>2, <1>3, <1>4
          DEF attachClient, releaseController, acquireController, SetControl, ctl
<1>5. ASSUME NEW a, prepareConnection(a)
      PROVE  sockets' \subseteq sockets /\ revokedGeneration' = revokedGeneration
  <2>1. Prepared(a).control.sockets \subseteq ctl.sockets
    BY <1>2 DEF Prepared
  <2> HIDE DEF ctl
  <2> QED BY <1>1, <1>5, <2>1 DEF prepareConnection, SetControl, controlVars
<1>6. ASSUME NEW a \in admissions, fetch(a)
      PROVE  sockets' \subseteq sockets /\ revokedGeneration' = revokedGeneration
  BY <1>1, <1>6 DEF fetch, SetControl
<1>7. ASSUME NEW s, CloseSocket(s)
      PROVE  sockets' \subseteq sockets /\ revokedGeneration' = revokedGeneration
  BY <1>1, <1>7 DEF CloseSocket, SetControl, Control
<1>8. ASSUME NEW i, NEW inserted, publishAuthorizedEnvelope(i, inserted)
      PROVE  sockets' \subseteq sockets /\ revokedGeneration' = revokedGeneration
  <2>1. \A closed \in BOOLEAN : AfterPublish(i, closed).sockets \subseteq sockets
    <3> TAKE closed \in BOOLEAN
    <3> DEFINE s == meters[i].socket
               after == IF s.admission.endpoint = "desktop"
                             /\ CurrentAttachment(Control, s.admission)
                        THEN ctl ELSE Control
    <3>1. after.sockets \subseteq sockets /\ after \in ControlRecord
      BY <1>1, NormalizedControl
    <3>2. AfterPublish(i, closed) = IF closed THEN [after EXCEPT !.sockets = @ \ {s}]
                                    ELSE after
      BY DEF AfterPublish
    <3> HIDE DEF after, s
    <3>3. [after EXCEPT !.sockets = @ \ {s}].sockets \subseteq sockets
      BY <3>1 DEF ControlRecord
    <3> QED BY <3>1, <3>2, <3>3
  <2> QED BY <1>8, <2>1 DEF publishAuthorizedEnvelope, SetControl
<1>9. CASE alarm
  <2>1. sockets' \subseteq ctl.sockets
    BY <1>1, <1>9 DEF alarm, SetControl, ControlRecord
  <2> QED BY <1>1, <1>9, <2>1 DEF alarm
<1>10. CASE restart
  BY <1>10, NormalizedControl DEF restart, SetControl, Control
<1>11. ASSUME UNCHANGED <<sockets, revokedGeneration>>
       PROVE  sockets' \subseteq sockets /\ revokedGeneration' = revokedGeneration
  BY <1>11
<1>12. CASE WorkerCall
  <2>1. CASE \E g \in 1..MaxDeviceGeneration : initialize(g)
    BY <1>11, <2>1 DEF initialize, controlVars
  <2>2. CASE \E a \in admissions : abandonAdmission(a)
    BY <1>11, <2>2 DEF abandonAdmission, controlVars
  <2>3. CASE inventoryEntry
    BY <1>1, <2>3 DEF inventoryEntry, SetControl
  <2> QED BY <1>4, <1>5, <1>6, <1>12, <2>1, <2>2, <2>3 DEF WorkerCall
<1>13. CASE SocketEvent
  <2>1. ASSUME NEW s \in sockets, NEW envelope \in Envelopes, receiveEnvelope(s, envelope)
        PROVE  sockets' \subseteq sockets /\ revokedGeneration' = revokedGeneration
    BY <1>11, <2>1 DEF receiveEnvelope, controlVars
  <2> QED BY <1>7, <1>8, <1>13, <2>1
          DEF SocketEvent, messageOnExpiredSocket, meterRefused, peerCloses
<1>14. CASE tick
  BY <1>11, <1>14 DEF tick, controlVars
<1> QED BY <1>9, <1>10, <1>12, <1>13, <1>14 DEF Next

\* No open socket was accepted under a revoked device generation, however the
\* revocation and the two calls of an admission interleave (revokeDevice, fetch).
THEOREM RevokedStayOut == Spec => []NoRevokedSocket
<1>1. Init => NoRevokedSocket
  BY DEF Init, NoRevokedSocket
<1>2. ASSUME ControlInv, NoRevokedSocket, [Next]_vars
      PROVE  NoRevokedSocket'
  <2>1. CASE UNCHANGED vars
    BY <1>2, <2>1 DEF vars, controlVars, NoRevokedSocket
  <2>2. ASSUME NEW a \in admissions, fetch(a), Upgrades(a)
        PROVE  NoRevokedSocket'
    <3> DEFINE s == [id |-> accepted + 1, admission |-> a]
    <3>1. sockets' = Replaced(Normalized(Control).sockets, s)
          /\ revokedGeneration' = revokedGeneration
      BY <1>2, <2>2, NormalizedControl DEF fetch, SetControl, ControlRecord
    <3>2. \A t \in sockets' : t = s \/ t \in sockets
      <4>1. Normalized(Control).sockets \subseteq sockets
        BY <1>2, NormalizedControl, NormalizedShrinks
      <4> HIDE DEF s
      <4> QED BY <3>1, <4>1 DEF Replaced
    <3>3. s.admission.deviceGeneration >= revokedGeneration
      BY <2>2 DEF Upgrades, Admits, Unrevoked
    <3> HIDE DEF s
    <3> QED BY <1>2, <3>1, <3>2, <3>3 DEF NoRevokedSocket
  <2>3. ASSUME NEW g \in 2..MaxDeviceGeneration, revokeDevice(g)
        PROVE  NoRevokedSocket'
    BY <1>2, <2>3, NormalizedControl DEF revokeDevice, SetControl, NoRevokedSocket, Control
  <2>4. CASE /\ Next
             /\ ~ \E a \in admissions : fetch(a) /\ Upgrades(a)
             /\ ~ \E g \in 2..MaxDeviceGeneration : revokeDevice(g)
    BY <1>2, <2>4, SocketsShrink DEF NoRevokedSocket
  <2> QED BY <1>2, <2>1, <2>2, <2>3, <2>4
<1> QED BY <1>1, <1>2, ControlInvariant, PTL DEF Spec

=============================================================================
