-------------------------- MODULE RelayUsageProofs --------------------------
(***************************************************************************)
(* The types of RelayUsage, with them the quota and that no socket spends  *)
(* more than it has; the bound on the live connections of a device; and    *)
(* the books: what the account, its devices and their sockets are charged, *)
(* hold and have transferred.                                              *)
(***************************************************************************)
EXTENDS RelayUsage, FiniteSetTheorems, SequenceTheorems, TLAPS

Connection ==
    {connection \in [phase: Phases, device: Devices, expiresAt: Nat, remaining: Nat,
                     refunded: Nat \cup {None}, closedAt: Nat \cup {None}] :
        connection.closedAt # None => connection.refunded # None}

Row == [device: Devices, expiresAt: Nat]

Frame == [bytes: FrameSizes, current: Nat,
          status: {"queued", "asked", "answered"}, granted: Nat]

-----------------------------------------------------------------------------
(* Types.                                                                  *)

\* A reservation covers the frame it was made for, or is none.
Covered(frame) == frame.status = "answered" => frame.granted = 0 \/ frame.granted >= frame.bytes

TypeInv ==
    /\ UsageTypeOK
    /\ \A c \in Connections :
          connections[c].closedAt # None => connections[c].refunded # None
    /\ \A c \in Connections : meters[c] # <<>> => Covered(meters[c][1])
    /\ \A c \in Connections : \A i \in 2..Len(meters[c]) : meters[c][i].status = "queued"

\* The parts of the invariant for the tables and for the connections.
TablesTyped ==
    /\ account \in Nat /\ 2 * account <= QuotaBytes
    /\ deviceUsage \in [Devices -> Nat]
    /\ active \in [Connections -> Row \cup {None}]
    /\ released \in [Connections -> Nat \cup {None}]
    /\ windows \in [Keys -> [startedAt: Nat, attempts: Nat \ {0}] \cup {None}]

FramesTyped ==
    /\ meters \in [Connections -> Seq(Frame)]
    /\ \A c \in Connections : meters[c] # <<>> => Covered(meters[c][1])
    /\ \A c \in Connections : \A i \in 2..Len(meters[c]) : meters[c][i].status = "queued"

ConnectionsTyped ==
    /\ connections \in [Connections -> Connection]
    /\ metered \in [Devices -> Nat]
    /\ torn \subseteq Connections

LEMMA TypeInvParts ==
    TypeInv <=> now \in 0..MaxTime /\ TablesTyped /\ FramesTyped /\ ConnectionsTyped
BY DEF TypeInv, UsageTypeOK, TablesTyped, FramesTyped, ConnectionsTyped, Row, Frame, Connection

LEMMA TypeInvPartsNext ==
    ASSUME now' \in 0..MaxTime, TablesTyped', FramesTyped', ConnectionsTyped'
    PROVE  TypeInv'
BY DEF TypeInv, UsageTypeOK, TablesTyped, FramesTyped, ConnectionsTyped, Row, Frame, Connection

LEMMA ReservationCovers ==
    ASSUME TablesTyped, NEW bytes \in FrameSizes
    PROVE  /\ Reservation(bytes) \in Nat
           /\ Reservation(bytes) = 0 \/ Reservation(bytes) >= bytes
           /\ 2 * (account + Reservation(bytes)) <= QuotaBytes
BY PolicyNumbers DEF Reservation, Affordable, TablesTyped

LEMMA MinusIs ==
    ASSUME NEW a \in Nat, NEW b \in Nat
    PROVE  Minus(a, b) \in Nat /\ Minus(a, b) <= a
BY DEF Minus

LEMMA ReleaseTyped ==
    ASSUME TypeInv, NEW c \in Connections, NEW d \in Devices, NEW unused \in Nat,
           release(c, d, unused)
    PROVE  TablesTyped'
<1>1. TablesTyped /\ now \in Nat
  BY TypeInvParts, PolicyNumbers
<1>2. /\ active' \in [Connections -> Row \cup {None}]
      /\ released' \in [Connections -> Nat \cup {None}]
      /\ windows' = windows
  BY <1>1 DEF release, TablesTyped
<1>3. CASE released[c] = None
  <2>1. account' = Minus(account, unused)
    BY <1>3 DEF release
  <2>2. deviceUsage' = [deviceUsage EXCEPT ![d] = Minus(deviceUsage[d], unused)]
    BY <1>3 DEF release
  <2>3. account' \in Nat /\ account' <= account
    BY <1>1, <2>1, MinusIs DEF TablesTyped
  <2>4. deviceUsage' \in [Devices -> Nat]
    BY <1>1, <2>2, MinusIs DEF TablesTyped
  <2>5. 2 * account' <= QuotaBytes
    <3>1. \A x, y, q \in Nat : y <= x /\ 2 * x <= q => 2 * y <= q
      OBVIOUS
    <3> QED BY <1>1, <2>3, <3>1, PolicyNumbers DEF TablesTyped
  <2> QED BY <1>1, <1>2, <2>3, <2>4, <2>5 DEF TablesTyped
<1>4. CASE released[c] # None
  BY <1>1, <1>2, <1>4 DEF release, TablesTyped
<1> QED BY <1>3, <1>4

\* What a frame in meterTransfer brings or has left.
LEMMA FrameFacts ==
    ASSUME TypeInv, NEW c \in Connections, meters[c] # <<>>
    PROVE  /\ meters[c] \in Seq(Frame) /\ Len(meters[c]) \in Nat \ {0}
           /\ meters[c][1] \in Frame
           /\ meters[c][1].bytes \in FrameSizes /\ meters[c][1].bytes \in Nat
           /\ meters[c][1].current \in Nat /\ meters[c][1].granted \in Nat
           /\ Current(c) \in Nat
           /\ connections[c].device \in Devices
<1>1. meters[c] \in Seq(Frame) /\ Len(meters[c]) \in Nat \ {0}
  BY TypeInvParts, EmptySeq, LenProperties DEF FramesTyped
<1>2. meters[c][1] \in Frame
  BY <1>1, ElementOfSeq
<1>3. connections[c] \in Connection
  BY TypeInvParts DEF ConnectionsTyped
<1> QED BY <1>1, <1>2, <1>3, PolicyNumbers DEF Frame, Connection, Current

LEMMA FramesAppended ==
    ASSUME TypeInv, NEW c \in Connections, NEW frame \in Frame, frame.status = "queued",
           meters' = [meters EXCEPT ![c] = Append(@, frame)]
    PROVE  FramesTyped'
<1>1. FramesTyped
  BY TypeInvParts
<1>2. meters' \in [Connections -> Seq(Frame)]
  BY <1>1, AppendProperties DEF FramesTyped
<1>3. \A x \in Connections \ {c} : meters'[x] = meters[x]
  BY <1>1 DEF FramesTyped
<1>4. /\ meters'[c] = Append(meters[c], frame)
      /\ meters[c] \in Seq(Frame) /\ Len(meters[c]) \in Nat
  BY <1>1, LenProperties DEF FramesTyped
<1>5. /\ Len(meters'[c]) = Len(meters[c]) + 1
      /\ \A i \in 1..Len(meters[c]) : meters'[c][i] = meters[c][i]
      /\ meters'[c][Len(meters[c]) + 1] = frame
  BY <1>4, AppendProperties
<1>6. \A i \in 2..Len(meters'[c]) : meters'[c][i].status = "queued"
  BY <1>1, <1>4, <1>5 DEF FramesTyped
<1>7. Covered(meters'[c][1])
  <2>1. CASE meters[c] = <<>>
    <3>1. meters'[c][1] = frame
      BY <1>4, <1>5, <2>1, EmptySeq
    <3> QED BY <3>1 DEF Covered
  <2>2. CASE meters[c] # <<>>
    <3>1. meters'[c][1] = meters[c][1]
      BY <1>4, <1>5, <2>2, EmptySeq
    <3> QED BY <1>1, <2>2, <3>1 DEF FramesTyped
  <2> QED BY <2>1, <2>2
<1> QED BY <1>1, <1>2, <1>3, <1>6, <1>7 DEF FramesTyped

LEMMA FrameDone ==
    ASSUME TypeInv, NEW c \in Connections, meters[c] # <<>>,
           meters' = [meters EXCEPT ![c] = Tail(@)]
    PROVE  FramesTyped'
<1>1. FramesTyped /\ meters[c] \in Seq(Frame)
  BY TypeInvParts, FrameFacts
<1>2. /\ Tail(meters[c]) \in Seq(Frame)
      /\ Len(Tail(meters[c])) = Len(meters[c]) - 1
      /\ \A i \in 1..Len(Tail(meters[c])) : Tail(meters[c])[i] = meters[c][i + 1]
  BY <1>1, HeadTailProperties
<1>3. /\ meters' \in [Connections -> Seq(Frame)]
      /\ meters'[c] = Tail(meters[c])
      /\ \A x \in Connections \ {c} : meters'[x] = meters[x]
  BY <1>1, <1>2 DEF FramesTyped
<1>4. Len(meters[c]) \in Nat
  BY <1>1, LenProperties
<1>5. \A i \in 1..Len(meters'[c]) : meters'[c][i].status = "queued"
  BY <1>1, <1>2, <1>3, <1>4 DEF FramesTyped
<1>6. meters'[c] # <<>> => Covered(meters'[c][1])
  <2>1. Len(meters'[c]) \in Nat /\ (meters'[c] # <<>> => Len(meters'[c]) # 0)
    BY <1>2, <1>3, LenProperties, EmptySeq
  <2> QED BY <1>5, <2>1 DEF Covered
<1> QED BY <1>1, <1>3, <1>5, <1>6 DEF FramesTyped

LEMMA FrameChanged ==
    ASSUME TypeInv, NEW c \in Connections, meters[c] # <<>>,
           NEW frame \in Frame, Covered(frame),
           meters' = [meters EXCEPT ![c] = [@ EXCEPT ![1] = frame]]
    PROVE  FramesTyped'
<1>1. FramesTyped /\ meters[c] \in Seq(Frame) /\ Len(meters[c]) \in Nat \ {0}
  BY TypeInvParts, FrameFacts
<1> DEFINE changed == [meters[c] EXCEPT ![1] = frame]
<1>2. /\ changed \in Seq(Frame) /\ Len(changed) = Len(meters[c])
      /\ changed[1] = frame
      /\ \A i \in 2..Len(meters[c]) : changed[i] = meters[c][i]
  BY <1>1, ExceptSeq
<1>3. /\ meters' = [meters EXCEPT ![c] = changed]
  OBVIOUS
<1> HIDE DEF changed
<1>4. /\ meters' \in [Connections -> Seq(Frame)]
      /\ meters'[c] = changed
      /\ \A x \in Connections \ {c} : meters'[x] = meters[x]
  BY <1>1, <1>2, <1>3 DEF FramesTyped
<1> QED BY <1>1, <1>2, <1>4 DEF FramesTyped

LEMMA AdmitTyped ==
    ASSUME TypeInv, NEW c \in Connections, NEW client \in Clients, NEW seconds \in GrantSeconds,
           admit(c, client, seconds)
    PROVE  TablesTyped' /\ FramesTyped' /\ ConnectionsTyped'
<1> DEFINE d == connections[c].device
           admitted == ~RateLimited(client) /\ Admits(d)
           row == IF admitted THEN [device |-> d, expiresAt |-> now + seconds] ELSE None
           phase == IF admitted THEN "admitted" ELSE "gone"
<1>1. TablesTyped /\ FramesTyped /\ ConnectionsTyped /\ now \in Nat /\ now + seconds \in Nat
  BY TypeInvParts, PolicyNumbers
<1>2. connections[c] \in Connection /\ d \in Devices
  BY <1>1 DEF ConnectionsTyped, Connection
<1>3. active' \in [Connections -> Row \cup {None}]
  <2>1. Unexpired \in [Connections -> Row \cup {None}]
    BY <1>1 DEF Unexpired, TablesTyped
  <2>2. active' = [Unexpired EXCEPT ![c] = row]
    BY DEF admit
  <2>3. row \in Row \cup {None}
    BY <1>1, <1>2 DEF Row
  <2> HIDE DEF row
  <2> QED BY <2>1, <2>2, <2>3
<1>4. released' \in [Connections -> Nat \cup {None}]
  BY <1>1 DEF admit, Fences, TablesTyped
<1>5. windows' \in [Keys -> [startedAt: Nat, attempts: Nat \ {0}] \cup {None}]
  <2> DEFINE Window == [startedAt: Nat, attempts: Nat \ {0}]
  <2>1. \A k \in Keys : Recent(k) => windows[k] \in Window
    BY <1>1 DEF Recent, TablesTyped
  <2>2. \A k \in Keys : Recent(k) => [windows[k] EXCEPT !.attempts = @ + 1] \in Window
    BY <2>1
  <2>3. [startedAt |-> now, attempts |-> 1] \in Window
    BY <1>1
  <2>4. \A k \in Keys : Attempted(client)[k] \in Window \cup {None}
    BY <2>1, <2>2, <2>3 DEF Attempted
  <2>5. windows' = Attempted(client)
    BY DEF admit
  <2>6. Attempted(client) = [k \in Keys |-> Attempted(client)[k]]
    BY DEF Attempted
  <2> QED BY <2>4, <2>5, <2>6
<1>6. connections' \in [Connections -> Connection]
  <2>1. connections' = [connections EXCEPT ![c].phase = phase, ![c].expiresAt = now + seconds]
    BY DEF admit
  <2>2. phase \in Phases
    BY DEF Phases
  <2> HIDE DEF phase
  <2> QED BY <1>1, <1>2, <2>1, <2>2 DEF ConnectionsTyped, Connection
<1>7. UNCHANGED <<account, deviceUsage, meters, metered, torn>>
  BY DEF admit, history
<1> QED BY <1>1, <1>3, <1>4, <1>5, <1>6, <1>7 DEF TablesTyped, FramesTyped, ConnectionsTyped

LEMMA ReserveTyped ==
    ASSUME TypeInv, NEW c \in Connections, reserveTransfer(c)
    PROVE  TablesTyped' /\ FramesTyped'
<1> DEFINE frame == meters[c][1]
           bytes == Reservation(frame.bytes)
           answer == [frame EXCEPT !.status = "answered", !.granted = bytes]
<1>1. TablesTyped /\ frame \in Frame /\ frame.bytes \in FrameSizes /\ frame.bytes \in Nat
      /\ connections[c].device \in Devices
  BY TypeInvParts, FrameFacts DEF reserveTransfer
<1>2. bytes \in Nat /\ (bytes = 0 \/ bytes >= frame.bytes) /\ 2 * (account + bytes) <= QuotaBytes
  BY <1>1, ReservationCovers
<1>3. /\ account' = account + bytes
      /\ deviceUsage' = [deviceUsage EXCEPT ![connections[c].device] = @ + bytes]
      /\ UNCHANGED <<active, released, windows>>
      /\ meters[c] # <<>>
      /\ meters' = [meters EXCEPT ![c] = [@ EXCEPT ![1].status = "answered", ![1].granted = bytes]]
  BY DEF reserveTransfer
<1>4. TablesTyped'
  BY <1>1, <1>2, <1>3 DEF TablesTyped
<1>5. meters' = [meters EXCEPT ![c] = [@ EXCEPT ![1] = answer]]
  <2>1. [meters[c] EXCEPT ![1].status = "answered", ![1].granted = bytes]
          = [meters[c] EXCEPT ![1] = answer]
    BY <1>1, FrameFacts, <1>3 DEF Frame
  <2> QED BY <1>3, <2>1
<1>6. answer \in Frame /\ Covered(answer)
  BY <1>1, <1>2 DEF Frame, Covered
<1> QED BY <1>3, <1>4, <1>5, <1>6, FrameChanged

LEMMA ClosedIfTyped ==
    ASSUME NEW connection \in Connection, NEW condition \in BOOLEAN
    PROVE  ClosedIf(condition, connection) \in Connection
BY DEF ClosedIf, Connection, Phases

LEMMA BecomesTyped ==
    ASSUME ConnectionsTyped, NEW c \in Connections, NEW phase \in Phases, Becomes(c, phase)
    PROVE  connections' \in [Connections -> Connection]
BY DEF ConnectionsTyped, Becomes, Connection

LEMMA RecordTyped ==
    ASSUME TypeInv, NEW c \in Connections, meters[c] # <<>>, NEW remaining \in Nat,
           Record(c, remaining), torn' = torn
    PROVE  FramesTyped' /\ ConnectionsTyped'
<1> DEFINE connection == [connections[c] EXCEPT !.remaining = remaining]
<1>1. ConnectionsTyped /\ connections[c] \in Connection /\ connections[c].device \in Devices
  BY TypeInvParts, FrameFacts DEF ConnectionsTyped
<1>2. connection \in Connection
  BY <1>1 DEF Connection
<1>3. ClosedIf(Expired(c), connection) \in Connection
  BY <1>2 DEF ClosedIf, Connection, Phases
<1>4. /\ connections' = [connections EXCEPT ![c] = ClosedIf(Expired(c), connection)]
      /\ meters' = [meters EXCEPT ![c] = Tail(@)]
      /\ metered' = [metered EXCEPT ![connections[c].device] = @ + meters[c][1].bytes]
  BY DEF Record
<1> HIDE DEF connection
<1>5. connections' \in [Connections -> Connection]
  BY <1>1, <1>3, <1>4 DEF ConnectionsTyped
<1>6. metered' \in [Devices -> Nat]
  BY <1>1, <1>4, FrameFacts DEF ConnectionsTyped
<1> QED BY <1>1, <1>4, <1>5, <1>6, FrameDone DEF ConnectionsTyped

LEMMA AskTyped ==
    ASSUME TypeInv, NEW c \in Connections, ask(c)
    PROVE  FramesTyped' /\ ConnectionsTyped'
<1> DEFINE question == [meters[c][1] EXCEPT !.status = "asked", !.current = Current(c)]
<1>1. meters[c] # <<>> /\ ConnectionsTyped /\ connections[c] \in Connection
  BY TypeInvParts DEF ask, Runnable, ConnectionsTyped
<1>2. question \in Frame /\ Covered(question)
  BY <1>1, FrameFacts DEF Frame, Covered
<1>3. meters' = [meters EXCEPT ![c] = [@ EXCEPT ![1] = question]]
  <2>1. [meters[c] EXCEPT ![1].status = "asked", ![1].current = Current(c)]
          = [meters[c] EXCEPT ![1] = question]
    BY <1>1, FrameFacts DEF Frame
  <2>2. meters' = [meters EXCEPT ![c] =
                     [@ EXCEPT ![1].status = "asked", ![1].current = Current(c)]]
    BY DEF ask
  <2> QED BY <2>1, <2>2
<1>4. ClosedIf(Expired(c), connections[c]) \in Connection
  BY <1>1 DEF ClosedIf, Connection, Phases
<1>5. /\ connections' = [connections EXCEPT ![c] = ClosedIf(Expired(c), connections[c])]
      /\ UNCHANGED history
  BY DEF ask
<1>6. ConnectionsTyped'
  BY <1>1, <1>4, <1>5 DEF ConnectionsTyped, history
<1> QED BY <1>1, <1>2, <1>3, <1>6, FrameChanged

LEMMA AnsweredTyped ==
    ASSUME TypeInv, NEW c \in Connections, answered(c)
    PROVE  FramesTyped' /\ ConnectionsTyped'
<1> DEFINE frame == meters[c][1]
<1>1. /\ meters[c] # <<>> /\ frame.status = "answered" /\ torn' = torn
      /\ ConnectionsTyped /\ connections[c] \in Connection
  BY TypeInvParts DEF answered, ConnectionsTyped
<1>2. /\ frame.granted \in Nat /\ frame.bytes \in Nat /\ frame.current \in Nat
      /\ frame.granted = 0 \/ frame.granted >= frame.bytes
  BY <1>1, FrameFacts, TypeInvParts DEF FramesTyped, Covered
<1>3. CASE frame.granted > 0
  <2>1. Record(c, frame.current + frame.granted - frame.bytes)
    <3>1. frame.granted # 0
      BY <1>2, <1>3
    <3> QED BY <3>1 DEF answered
  <2>2. frame.current + frame.granted - frame.bytes \in Nat
    BY <1>2, <1>3
  <2> QED BY <1>1, <2>1, <2>2, RecordTyped
<1>4. CASE frame.granted = 0
  <2>1. /\ connections' = [connections EXCEPT ![c] = ClosedIf(TRUE, connections[c])]
        /\ meters' = [meters EXCEPT ![c] = Tail(@)]
        /\ metered' = metered
    <3>1. ~(frame.granted > 0)
      BY <1>4
    <3> QED BY <3>1 DEF answered
  <2>2. ClosedIf(TRUE, connections[c]) \in Connection
    BY <1>1, ClosedIfTyped
  <2>3. ConnectionsTyped'
    BY <1>1, <2>1, <2>2 DEF ConnectionsTyped
  <2> QED BY <1>1, <2>1, <2>3, FrameDone
<1> QED BY <1>2, <1>3, <1>4

LEMMA CloseTyped ==
    ASSUME TypeInv, NEW c \in Connections, webSocketClose(c)
    PROVE  TablesTyped' /\ FramesTyped' /\ ConnectionsTyped'
<1> DEFINE unused == connections[c].remaining
<1>1. /\ ConnectionsTyped /\ FramesTyped /\ now \in Nat
      /\ connections[c] \in Connection /\ unused \in Nat /\ connections[c].device \in Devices
  BY TypeInvParts DEF ConnectionsTyped, Connection
<1>2. TablesTyped'
  BY <1>1, ReleaseTyped DEF webSocketClose
<1>3. /\ connections' = [connections EXCEPT
            ![c].phase = "gone", ![c].refunded = unused, ![c].closedAt = now]
      /\ torn' = torn \cup {x \in {c} : meters[x] # <<>>}
      /\ UNCHANGED <<meters, metered>>
  BY DEF webSocketClose
<1>4. connections' \in [Connections -> Connection]
  <2> DEFINE closed ==
        [connections[c] EXCEPT !.phase = "gone", !.refunded = unused, !.closedAt = now]
  <2>1. closed.refunded = unused /\ unused # None
    BY <1>1, NoneIsNothing DEF Connection
  <2>2. closed \in Connection
    BY <1>1, <2>1 DEF Connection, Phases
  <2>3. connections' = [connections EXCEPT ![c] = closed]
    BY <1>3
  <2> HIDE DEF closed
  <2> QED BY <1>1, <2>2, <2>3 DEF ConnectionsTyped
<1> QED BY <1>1, <1>2, <1>3, <1>4 DEF FramesTyped, ConnectionsTyped

LEMMA ReleaseAgainTyped ==
    ASSUME TypeInv, NEW c \in Connections, releaseAgain(c)
    PROVE  TablesTyped'
<1>1. connections[c] \in Connection /\ connections[c].device \in Devices
      /\ connections[c].closedAt # None /\ release(c, connections[c].device, connections[c].refunded)
  BY TypeInvParts DEF ConnectionsTyped, Connection, releaseAgain
<1>2. connections[c].refunded \in Nat
  BY <1>1 DEF Connection
<1> QED BY <1>1, <1>2, ReleaseTyped

LEMMA TypeInvStep == TypeInv /\ [Next]_vars => TypeInv'
<1> SUFFICES ASSUME TypeInv, [Next]_vars PROVE TypeInv'
  OBVIOUS
<1>1. now \in 0..MaxTime /\ now \in Nat /\ TablesTyped /\ FramesTyped /\ ConnectionsTyped
  BY TypeInvParts, PolicyNumbers
<1>2. CASE UNCHANGED vars
  <2>1. now' \in 0..MaxTime /\ TablesTyped' /\ FramesTyped' /\ ConnectionsTyped'
    BY <1>1, <1>2 DEF vars, ledgerVars, history, TablesTyped, FramesTyped, ConnectionsTyped
  <2> QED BY <2>1, TypeInvPartsNext
<1>3. CASE tick
  <2>1. now' \in 0..MaxTime
    BY <1>1, <1>3, PolicyNumbers DEF tick
  <2>2. TablesTyped' /\ FramesTyped' /\ ConnectionsTyped'
    BY <1>1, <1>3 DEF tick, ledgerVars, TablesTyped, FramesTyped, ConnectionsTyped
  <2> QED BY <2>1, <2>2, TypeInvPartsNext
<1>4. ASSUME NEW c \in Connections,
             \/ \E client \in Clients, seconds \in GrantSeconds : admit(c, client, seconds)
             \/ admissionRefused(c) \/ admissionFails(c) \/ fetch(c)
             \/ \E bytes \in FrameSizes : receiveEnvelope(c, bytes)
             \/ spend(c) \/ ask(c) \/ reserveTransfer(c) \/ answered(c)
             \/ reservationFails(c) \/ close(c) \/ webSocketClose(c) \/ releaseAgain(c)
      PROVE  now' = now /\ TablesTyped' /\ FramesTyped' /\ ConnectionsTyped'
  <2>1. CASE \E client \in Clients, seconds \in GrantSeconds : admit(c, client, seconds)
    BY <2>1, AdmitTyped DEF admit
  <2>2. CASE admissionRefused(c)
    <3>1. TablesTyped'
      BY <2>2, ReleaseTyped, <1>1 DEF admissionRefused, ConnectionsTyped, Connection
    <3>2. connections' \in [Connections -> Connection]
      BY <2>2, <1>1, BecomesTyped DEF admissionRefused, Phases
    <3> QED BY <2>2, <3>1, <3>2, <1>1 DEF admissionRefused, history, FramesTyped, ConnectionsTyped
  <2>3. CASE admissionFails(c)
    <3>1. connections' \in [Connections -> Connection]
      BY <2>3, <1>1, BecomesTyped DEF admissionFails, Phases
    <3> QED BY <2>3, <3>1, <1>1
            DEF admissionFails, ledgerVars, history, TablesTyped, FramesTyped, ConnectionsTyped
  <2>4. CASE fetch(c)
    <3>1. connections' \in [Connections -> Connection]
      BY <2>4, <1>1, BecomesTyped DEF fetch, Phases
    <3> QED BY <2>4, <3>1, <1>1
            DEF fetch, ledgerVars, history, TablesTyped, FramesTyped, ConnectionsTyped
  <2>5. ASSUME NEW bytes \in FrameSizes, receiveEnvelope(c, bytes)
        PROVE  now' = now /\ TablesTyped' /\ FramesTyped' /\ ConnectionsTyped'
    <3> DEFINE frame == [bytes |-> bytes, current |-> connections[c].remaining,
                         status |-> "queued", granted |-> 0]
    <3>1. frame \in Frame /\ frame.status = "queued"
      BY <1>1 DEF Frame, ConnectionsTyped, Connection
    <3>2. meters' = [meters EXCEPT ![c] = Append(@, frame)]
          /\ UNCHANGED <<now, ledgerVars, connections, history>>
      BY <2>5 DEF receiveEnvelope
    <3> HIDE DEF frame
    <3>3. FramesTyped'
      BY <3>1, <3>2, FramesAppended
    <3> QED BY <3>2, <3>3, <1>1 DEF ledgerVars, history, TablesTyped, ConnectionsTyped
  <2>6. CASE spend(c)
    <3>1. meters[c] # <<>> /\ Current(c) - meters[c][1].bytes \in Nat
      BY <2>6, FrameFacts DEF spend, Runnable
    <3> QED BY <2>6, <3>1, <1>1, RecordTyped DEF spend, ledgerVars, TablesTyped
  <2>7. CASE ask(c)
    BY <2>7, <1>1, AskTyped DEF ask, ledgerVars, TablesTyped
  <2>8. CASE reserveTransfer(c)
    BY <2>8, <1>1, ReserveTyped DEF reserveTransfer, history, ConnectionsTyped
  <2>9. CASE answered(c)
    BY <2>9, <1>1, AnsweredTyped DEF answered, ledgerVars, TablesTyped
  <2>10. CASE reservationFails(c)
    BY <2>10, <1>1, FrameDone DEF reservationFails, ledgerVars, TablesTyped, ConnectionsTyped
  <2>11. CASE close(c)
    <3>1. connections' \in [Connections -> Connection]
      BY <2>11, <1>1, BecomesTyped DEF close, Phases
    <3> QED BY <2>11, <3>1, <1>1
            DEF close, ledgerVars, history, TablesTyped, FramesTyped, ConnectionsTyped
  <2>12. CASE webSocketClose(c)
    BY <2>12, CloseTyped DEF webSocketClose
  <2>13. CASE releaseAgain(c)
    BY <2>13, <1>1, ReleaseAgainTyped DEF releaseAgain, history, FramesTyped, ConnectionsTyped
  <2> QED BY <1>4, <2>1, <2>2, <2>3, <2>4, <2>5, <2>6, <2>7, <2>8, <2>9, <2>10, <2>11,
             <2>12, <2>13
<1>5. CASE \E c \in Connections :
             \/ \E client \in Clients, seconds \in GrantSeconds : admit(c, client, seconds)
             \/ admissionRefused(c) \/ admissionFails(c) \/ fetch(c)
             \/ \E bytes \in FrameSizes : receiveEnvelope(c, bytes)
             \/ spend(c) \/ ask(c) \/ reserveTransfer(c) \/ answered(c)
             \/ reservationFails(c) \/ close(c) \/ webSocketClose(c) \/ releaseAgain(c)
  <2>1. now' \in 0..MaxTime /\ TablesTyped' /\ FramesTyped' /\ ConnectionsTyped'
    BY <1>1, <1>4, <1>5
  <2> QED BY <2>1, TypeInvPartsNext
<1> QED BY <1>2, <1>3, <1>5 DEF Next

LEMMA TypeInvInit == Init => TypeInv
<1> SUFFICES ASSUME Init PROVE TypeInv
  OBVIOUS
<1>1. PICK device \in [Connections -> Devices] :
          connections = [c \in Connections |-> NewConnection(device[c])]
  BY DEF Init
<1>2. connections \in [Connections -> Connection]
  BY <1>1 DEF NewConnection, Connection, Phases
<1>3. TablesTyped
  BY PolicyNumbers DEF Init, TablesTyped
<1>4. FramesTyped
  <2>1. \A c \in Connections : meters[c] = <<>> /\ Len(meters[c]) = 0
    BY EmptySeq DEF Init
  <2> QED BY <2>1 DEF Init, FramesTyped
<1> QED BY <1>2, <1>3, <1>4, TypeInvParts, PolicyNumbers DEF Init, ConnectionsTyped

\* Whatever is reserved, refunded, refused or repeated, in any order: the account never
\* exceeds its quota, no counter of the ledger and no attachment's remaining bytes go
\* below zero, and the bookkeeping of the frames in meterTransfer keeps its shape.
THEOREM UsageTypeCorrect == Spec => []UsageTypeOK
<1>1. TypeInv => UsageTypeOK
  BY DEF TypeInv
<1> QED BY <1>1, TypeInvInit, TypeInvStep, PTL DEF Spec

-----------------------------------------------------------------------------
(* Live connections.                                                       *)

Live(c) == connections[c].phase \in {"admitted", "open"}

LiveRows(d) == RowsOf(Unexpired, d)

\* A live connection has its row, a closed one is gone for good, and the rows are counted.
ConcurrencyInv ==
    /\ \A c \in Connections :
          Live(c) /\ ~Expired(c) =>
              /\ active[c] # None
              /\ active[c].device = connections[c].device
              /\ active[c].expiresAt = connections[c].expiresAt
    /\ \A c \in Connections : connections[c].closedAt # None => connections[c].phase = "gone"
    /\ \A d \in Devices : Cardinality(LiveRows(d)) <= MaxConcurrent

LEMMA LiveRowsAre ==
    ASSUME NEW d
    PROVE  /\ LiveRows(d) = {c \in Connections :
                 active[c] # None /\ active[c].expiresAt > now /\ active[c].device = d}
           /\ IsFiniteSet(LiveRows(d)) /\ Cardinality(LiveRows(d)) \in Nat
<1>1. LiveRows(d) = {c \in Connections :
         active[c] # None /\ active[c].expiresAt > now /\ active[c].device = d}
  BY DEF LiveRows, RowsOf, Unexpired
<1>2. LiveRows(d) \subseteq Connections
  BY <1>1
<1> QED BY <1>1, <1>2, FinitelyManyConnections, FS_Subset, FS_CardinalityType

LEMMA LiveRowsNext ==
    ASSUME NEW CONSTANT d
    PROVE  LiveRows(d)' = {c \in Connections :
               active'[c] # None /\ active'[c].expiresAt > now' /\ active'[c].device = d}
BY DEF LiveRows, RowsOf, Unexpired

LEMMA FewerRows ==
    ASSUME TypeInv, now' \in Nat, now' >= now,
           \A c \in Connections : active'[c] = active[c] \/ active'[c] = None,
           NEW CONSTANT d \in Devices, Cardinality(LiveRows(d)) <= MaxConcurrent
    PROVE  Cardinality(LiveRows(d)') <= MaxConcurrent
<1>1. now \in Nat /\ active \in [Connections -> Row \cup {None}]
  BY TypeInvParts, PolicyNumbers DEF TablesTyped
<1>2. LiveRows(d)' \subseteq LiveRows(d)
  <2>1. ASSUME NEW c \in Connections, active'[c] # None, active'[c].expiresAt > now'
        PROVE  active[c] # None /\ active[c].expiresAt > now /\ active[c] = active'[c]
    BY <1>1, <2>1 DEF Row
  <2> QED BY <2>1, LiveRowsAre, LiveRowsNext
<1>3. /\ IsFiniteSet(LiveRows(d)')
      /\ Cardinality(LiveRows(d)') <= Cardinality(LiveRows(d))
  BY <1>2, LiveRowsAre, FS_Subset
<1>4. Cardinality(LiveRows(d)') \in Nat /\ Cardinality(LiveRows(d)) \in Nat
  BY <1>3, LiveRowsAre, FS_CardinalityType
<1> QED BY <1>3, <1>4, PolicyNumbers

LEMMA NothingAdmitted ==
    ASSUME TypeInv, ConcurrencyInv, now' \in Nat, now' >= now,
           \A c \in Connections : active'[c] = active[c] \/ active'[c] = None,
           \A c \in Connections :
              Live(c)' => /\ Live(c) /\ active'[c] = active[c]
                          /\ connections'[c].device = connections[c].device
                          /\ connections'[c].expiresAt = connections[c].expiresAt,
           \A c \in Connections :
              connections'[c].closedAt # None => connections'[c].phase = "gone"
    PROVE  ConcurrencyInv'
<1>1. now \in Nat /\ \A c \in Connections : connections[c].expiresAt \in Nat
  BY TypeInvParts, PolicyNumbers DEF ConnectionsTyped, Connection
<1>2. \A d \in Devices : Cardinality(LiveRows(d)') <= MaxConcurrent
  BY FewerRows DEF ConcurrencyInv
<1>3. ASSUME NEW c \in Connections, Live(c)', ~Expired(c)'
      PROVE  /\ active'[c] # None
             /\ active'[c].device = connections'[c].device
             /\ active'[c].expiresAt = connections'[c].expiresAt
  <2>1. ~Expired(c)
    BY <1>1, <1>3 DEF Expired
  <2> QED BY <1>3, <2>1 DEF ConcurrencyInv
<1> QED BY <1>2, <1>3 DEF ConcurrencyInv

\* The count at the INSERT is of the rows that are live at that moment.
LEMMA OneAdmitted ==
    ASSUME TypeInv, ConcurrencyInv, NEW CONSTANT c \in Connections,
           NEW CONSTANT client \in Clients, NEW CONSTANT seconds \in GrantSeconds,
           admit(c, client, seconds)
    PROVE  ConcurrencyInv'
<1> DEFINE device == connections[c].device
           admitted == ~RateLimited(client) /\ Admits(device)
           row == [device |-> device, expiresAt |-> now + seconds]
<1>1. /\ now \in Nat /\ now' = now /\ connections \in [Connections -> Connection]
      /\ active \in [Connections -> Row \cup {None}]
  BY TypeInvParts, PolicyNumbers DEF admit, TablesTyped, ConnectionsTyped
<1>2. /\ \A x \in Connections \ {c} : connections'[x] = connections[x]
      /\ connections'[c] = [connections[c] EXCEPT
            !.phase = IF admitted THEN "admitted" ELSE "gone", !.expiresAt = now + seconds]
      /\ connections'[c].phase = IF admitted THEN "admitted" ELSE "gone"
      /\ connections'[c].device = device
      /\ connections'[c].expiresAt = now + seconds
      /\ connections'[c].closedAt = connections[c].closedAt
      /\ connections[c].phase = "new"
  BY <1>1 DEF admit, Connection
<1>3. /\ \A x \in Connections \ {c} : active'[x] = Unexpired[x]
      /\ active'[c] = IF admitted THEN row ELSE None
  BY DEF admit, Unexpired
<1>4. \A x \in Connections : Unexpired[x] = 
          IF active[x] # None /\ active[x].expiresAt > now THEN active[x] ELSE None
  BY DEF Unexpired
<1> HIDE DEF admitted, device
<1>5. ASSUME NEW x \in Connections, Live(x)', ~Expired(x)'
      PROVE  /\ active'[x] # None
             /\ active'[x].device = connections'[x].device
             /\ active'[x].expiresAt = connections'[x].expiresAt
  <2>1. CASE x = c
    <3>1. admitted
      BY <1>2, <1>5, <2>1 DEF Live
    <3>2. active'[c] = row
      BY <1>3, <3>1
    <3>3. row # None
      <4>1. device \in Devices /\ now + seconds \in Nat
        BY <1>1, PolicyNumbers DEF Connection, device
      <4> QED BY <4>1, NoneIsNothing
    <3>4. row.device = connections'[c].device /\ row.expiresAt = connections'[c].expiresAt
      BY <1>2
    <3> HIDE DEF row
    <3> QED BY <2>1, <3>2, <3>3, <3>4
  <2>2. CASE x # c
    <3>1. Live(x) /\ ~Expired(x) /\ connections[x].expiresAt \in Nat
      BY <1>1, <1>2, <1>5, <2>2 DEF Live, Expired, Connection
    <3>2. /\ active[x] # None /\ active[x].device = connections[x].device
          /\ active[x].expiresAt = connections[x].expiresAt
      BY <3>1 DEF ConcurrencyInv
    <3>3. active[x].expiresAt > now
      BY <1>1, <3>1, <3>2 DEF Expired
    <3>4. active'[x] = active[x]
      BY <1>3, <1>4, <2>2, <3>2, <3>3
    <3> QED BY <1>2, <2>2, <3>2, <3>4
  <2> QED BY <2>1, <2>2
<1>6. ASSUME NEW x \in Connections, connections'[x].closedAt # None
      PROVE  connections'[x].phase = "gone"
  <2>1. connections'[x].closedAt = connections[x].closedAt
    BY <1>2
  <2>2. x # c
    BY <1>2, <1>6, <2>1 DEF ConcurrencyInv
  <2> QED BY <1>2, <1>6, <2>1, <2>2 DEF ConcurrencyInv
<1>7. ASSUME NEW CONSTANT d \in Devices
      PROVE  Cardinality(LiveRows(d)') <= MaxConcurrent
  <2>1. \A x \in Connections \ {c} : x \in LiveRows(d)' => x \in LiveRows(d)
    BY <1>1, <1>3, <1>4, LiveRowsAre, LiveRowsNext
  <2>2. IsFiniteSet(LiveRows(d)) /\ Cardinality(LiveRows(d)) \in Nat
        /\ Cardinality(LiveRows(d)) <= MaxConcurrent
    BY LiveRowsAre DEF ConcurrencyInv
  <2>3. CASE admitted /\ d = device
    <3>1. Cardinality(LiveRows(d)) < MaxConcurrent
      BY <2>3 DEF Admits, LiveRows, admitted
    <3>2. LiveRows(d)' \subseteq LiveRows(d) \cup {c}
      BY <2>1, LiveRowsNext
    <3>3. /\ IsFiniteSet(LiveRows(d) \cup {c})
          /\ Cardinality(LiveRows(d) \cup {c}) <= Cardinality(LiveRows(d)) + 1
          /\ Cardinality(LiveRows(d) \cup {c}) \in Nat
      <4> DEFINE rows == LiveRows(d)
      <4>1. IsFiniteSet(rows) /\ Cardinality(rows) \in Nat
        BY <2>2
      <4> HIDE DEF rows
      <4>2. /\ IsFiniteSet(rows \cup {c})
            /\ Cardinality(rows \cup {c}) \in {Cardinality(rows), Cardinality(rows) + 1}
        BY <4>1, FS_AddElement
      <4>3. Cardinality(rows \cup {c}) <= Cardinality(rows) + 1
            /\ Cardinality(rows \cup {c}) \in Nat
        BY <4>1, <4>2
      <4> QED BY <4>2, <4>3 DEF rows
    <3>4. /\ Cardinality(LiveRows(d)') <= Cardinality(LiveRows(d) \cup {c})
          /\ Cardinality(LiveRows(d)') \in Nat
      BY <3>2, <3>3, FS_Subset, FS_CardinalityType
    <3> QED BY <2>2, <3>1, <3>3, <3>4, PolicyNumbers
  <2>4. CASE ~(admitted /\ d = device)
    <3>1. c \notin LiveRows(d)'
      BY <1>3, <2>4, LiveRowsNext
    <3>2. LiveRows(d)' \subseteq LiveRows(d)
      BY <2>1, <3>1, LiveRowsNext
    <3>3. /\ Cardinality(LiveRows(d)') <= Cardinality(LiveRows(d))
          /\ Cardinality(LiveRows(d)') \in Nat
      BY <2>2, <3>2, FS_Subset, FS_CardinalityType
    <3> QED BY <2>2, <3>3, PolicyNumbers
  <2> QED BY <2>3, <2>4
<1> QED BY <1>5, <1>6, <1>7 DEF ConcurrencyInv

LEMMA ConcurrencyStep == TypeInv /\ ConcurrencyInv /\ [Next]_vars => ConcurrencyInv'
<1> SUFFICES ASSUME TypeInv, ConcurrencyInv, [Next]_vars PROVE ConcurrencyInv'
  OBVIOUS
<1>1. /\ now \in Nat /\ active \in [Connections -> Row \cup {None}]
      /\ connections \in [Connections -> Connection]
  BY TypeInvParts, PolicyNumbers DEF TablesTyped, ConnectionsTyped
<1> DEFINE Admitted(x) ==
             \E client \in Clients, seconds \in GrantSeconds : admit(x, client, seconds)
           Step(x) ==
             \/ admissionRefused(x) \/ admissionFails(x) \/ fetch(x)
             \/ \E bytes \in FrameSizes : receiveEnvelope(x, bytes)
             \/ spend(x) \/ ask(x) \/ reserveTransfer(x) \/ answered(x)
             \/ reservationFails(x) \/ close(x) \/ webSocketClose(x) \/ releaseAgain(x)
\* What a step of a connection that is not its admission does to it and to its row.
<1>2. ASSUME NEW c \in Connections, Step(c)
      PROVE  /\ now' = now
             /\ active' = active \/ active' = [active EXCEPT ![c] = None]
             /\ \A x \in Connections \ {c} : connections'[x] = connections[x]
             /\ Live(c)' => /\ Live(c) /\ active' = active
                            /\ connections'[c].device = connections[c].device
                            /\ connections'[c].expiresAt = connections[c].expiresAt
             /\ connections'[c].closedAt # None => connections'[c].phase = "gone"
  <2>1. connections[c] \in Connection /\ (connections[c].closedAt # None => connections[c].phase = "gone")
    BY <1>1 DEF ConcurrencyInv
  <2> DEFINE Kept == /\ connections'[c].device = connections[c].device
                     /\ connections'[c].expiresAt = connections[c].expiresAt
                     /\ connections'[c].closedAt = connections[c].closedAt
                     /\ \/ connections'[c].phase = connections[c].phase
                        \/ connections[c].phase \in {"open", "admitted"} /\ connections'[c].phase # "admitted"
             Others == \A x \in Connections \ {c} : connections'[x] = connections[x]
  <2>2. \A remaining \in Nat, condition \in BOOLEAN :
           connections' = [connections EXCEPT ![c] = ClosedIf(condition,
                             [connections[c] EXCEPT !.remaining = remaining])] => Kept /\ Others
    BY <1>1, <2>1 DEF ClosedIf, Connection
  <2>3. \A condition \in BOOLEAN :
           connections' = [connections EXCEPT ![c] = ClosedIf(condition, connections[c])]
             => Kept /\ Others
    BY <1>1, <2>1 DEF ClosedIf, Connection
  <2>4. \A phase \in {"open", "closing", "gone"} :
           Becomes(c, phase) /\ connections[c].phase \in {"open", "admitted"} => Kept /\ Others
    BY <1>1, <2>1 DEF Becomes, Connection
  <2>5. CASE admissionRefused(c)
    <3>1. connections'[c].phase = "gone" /\ Others
      BY <1>1, <2>5 DEF admissionRefused, Becomes, Connection
    <3>2. active' = [active EXCEPT ![c] = None] /\ now' = now
      BY <2>5 DEF admissionRefused, release
    <3> QED BY <3>1, <3>2 DEF Live
  <2>6. CASE admissionFails(c)
    <3>1. connections'[c].phase = "gone" /\ Others
      BY <1>1, <2>6 DEF admissionFails, Becomes, Connection
    <3>2. active' = active /\ now' = now
      BY <2>6 DEF admissionFails, ledgerVars
    <3> QED BY <3>1, <3>2 DEF Live
  <2>7. CASE fetch(c)
    <3>1. Kept /\ Others /\ Live(c) /\ connections'[c].closedAt = None
      BY <2>1, <2>4, <2>7 DEF fetch, Live
    <3>2. active' = active /\ now' = now
      BY <2>7 DEF fetch, ledgerVars
    <3> QED BY <3>1, <3>2
  <2>8. CASE close(c)
    <3>1. Kept /\ Others /\ Live(c) /\ connections'[c].closedAt = None
      BY <2>1, <2>4, <2>8 DEF close, Live
    <3>2. active' = active /\ now' = now
      BY <2>8 DEF close, ledgerVars
    <3> QED BY <3>1, <3>2
  <2>9. CASE webSocketClose(c)
    <3>1. connections'[c].phase = "gone" /\ Others
      BY <1>1, <2>9 DEF webSocketClose, Connection
    <3>2. active' = [active EXCEPT ![c] = None] /\ now' = now
      BY <2>9 DEF webSocketClose, release
    <3> QED BY <3>1, <3>2 DEF Live
  <2>10. CASE releaseAgain(c)
    <3>1. /\ active' = [active EXCEPT ![c] = None] /\ now' = now
          /\ connections' = connections /\ connections[c].closedAt # None
      BY <2>10 DEF releaseAgain, release
    <3> QED BY <2>1, <3>1 DEF Live
  <2>11. ASSUME Kept, Others, active' = active, now' = now
         PROVE  /\ Live(c)' => Live(c)
                /\ connections'[c].closedAt # None => connections'[c].phase = "gone"
    BY <2>1, <2>11 DEF Live
  <2>12. CASE (\E bytes \in FrameSizes : receiveEnvelope(c, bytes)) \/ reserveTransfer(c)
              \/ reservationFails(c)
    <3>1. connections' = connections /\ active' = active /\ now' = now
      BY <2>12 DEF receiveEnvelope, reserveTransfer, reservationFails, ledgerVars
    <3> QED BY <2>11, <3>1
  <2>13. CASE spend(c) \/ ask(c) \/ answered(c)
    <3>1. active' = active /\ now' = now
      BY <2>13 DEF spend, ask, answered, ledgerVars
    <3>2. meters[c] # <<>>
      BY <2>13 DEF spend, ask, answered, Runnable
    <3>3. Kept /\ Others
      <4>1. Expired(c) \in BOOLEAN
        BY DEF Expired
      <4>2. CASE spend(c)
        <5> DEFINE left == Current(c) - meters[c][1].bytes
        <5>1. left \in Nat
          BY <3>2, <4>2, FrameFacts DEF spend
        <5>2. connections' = [connections EXCEPT ![c] =
                  ClosedIf(Expired(c), [connections[c] EXCEPT !.remaining = left])]
          BY <4>2 DEF spend, Record
        <5> HIDE DEF left, Kept, Others
        <5> QED BY <2>2, <4>1, <5>1, <5>2
      <4>3. CASE ask(c)
        BY <4>1, <4>3, <2>3 DEF ask
      <4>4. CASE answered(c)
        <5> DEFINE frame == meters[c][1]
        <5>1. /\ frame.granted \in Nat /\ frame.bytes \in Nat /\ frame.current \in Nat
              /\ frame.granted = 0 \/ frame.granted >= frame.bytes
          BY <3>2, <4>4, FrameFacts, TypeInvParts DEF FramesTyped, Covered, answered
        <5>2. frame.granted > 0 => frame.current + frame.granted - frame.bytes \in Nat
          BY <5>1
        <5> QED BY <4>1, <4>4, <5>2, <2>2, <2>3 DEF answered, Record
      <4> QED BY <2>13, <4>2, <4>3, <4>4
    <3> QED BY <2>11, <3>1, <3>3
  <2> QED BY <1>2, <2>5, <2>6, <2>7, <2>8, <2>9, <2>10, <2>12, <2>13
<1>3. ASSUME NEW c \in Connections, Step(c)
      PROVE  ConcurrencyInv'
  <2>1. \A x \in Connections : active'[x] = active[x] \/ active'[x] = None
    BY <1>1, <1>2, <1>3
  <2>2. \A x \in Connections :
          /\ Live(x)' => /\ Live(x) /\ active'[x] = active[x]
                         /\ connections'[x].device = connections[x].device
                         /\ connections'[x].expiresAt = connections[x].expiresAt
          /\ connections'[x].closedAt # None => connections'[x].phase = "gone"
    BY <1>1, <1>2, <1>3 DEF Live, ConcurrencyInv
  <2> QED BY <1>1, <1>2, <1>3, <2>1, <2>2, NothingAdmitted
<1>4. CASE UNCHANGED vars
  BY <1>1, <1>4, NothingAdmitted DEF vars, ledgerVars, Live, ConcurrencyInv
<1>5. CASE tick
  BY <1>1, <1>5, NothingAdmitted DEF tick, ledgerVars, Live, ConcurrencyInv
<1>6. CASE \E c \in Connections : Admitted(c)
  BY <1>6, OneAdmitted
<1>7. (\E c \in Connections : Admitted(c) \/ Step(c)) \/ tick \/ UNCHANGED vars
  BY DEF Next
<1> HIDE DEF Step, Admitted
<1> QED BY <1>3, <1>4, <1>5, <1>6, <1>7

\* Admissions, refusals, releases and expiries in any order, and for any number of
\* connections, devices and clients: a device never has more live connections than the
\* policy allows.
THEOREM ConcurrencyCorrect == Spec => []ConcurrencyIsBounded
<1>1. Init => ConcurrencyInv
  <2> SUFFICES ASSUME Init PROVE ConcurrencyInv
    OBVIOUS
  <2>1. \A c \in Connections : connections[c].phase = "new" /\ connections[c].closedAt = None
    BY DEF Init, NewConnection
  <2>2. \A d \in Devices : LiveRows(d) = {}
    BY LiveRowsAre DEF Init
  <2> QED BY <2>1, <2>2, FS_EmptySet, PolicyNumbers DEF ConcurrencyInv, Live
<1>2. TypeInv /\ ConcurrencyInv => ConcurrencyIsBounded
  <2> SUFFICES ASSUME TypeInv, ConcurrencyInv, NEW d \in Devices
               PROVE  Cardinality({c \in Connections :
                          /\ connections[c].device = d
                          /\ connections[c].phase \in {"admitted", "open"}
                          /\ ~Expired(c)}) <= MaxConcurrent
    BY DEF ConcurrencyIsBounded
  <2> DEFINE LiveOf == {c \in Connections :
                          /\ connections[c].device = d
                          /\ connections[c].phase \in {"admitted", "open"}
                          /\ ~Expired(c)}
  <2>1. now \in Nat /\ \A c \in Connections : connections[c].expiresAt \in Nat
    BY TypeInvParts, PolicyNumbers DEF ConnectionsTyped, Connection
  <2>2. LiveOf \subseteq LiveRows(d)
    BY <2>1, LiveRowsAre DEF ConcurrencyInv, Live, Expired
  <2> HIDE DEF LiveOf
  <2>3. /\ Cardinality(LiveOf) <= Cardinality(LiveRows(d)) /\ Cardinality(LiveOf) \in Nat
        /\ Cardinality(LiveRows(d)) \in Nat
    BY <2>2, LiveRowsAre, FS_Subset, FS_CardinalityType
  <2>4. Cardinality(LiveOf) <= MaxConcurrent
    BY <2>3, PolicyNumbers DEF ConcurrencyInv
  <2> QED BY <2>4 DEF LiveOf
<1> QED BY <1>1, <1>2, TypeInvInit, TypeInvStep, ConcurrencyStep, PTL DEF Spec

-----------------------------------------------------------------------------
(* Sums.                                                                   *)

\* What an element contributes to a sum, and what all of them do.
Units(f, x) == {x} \X (1..f[x])

AllUnits(f, S) == UNION {Units(f, x) : x \in S}

LEMMA UnitsCounted ==
    ASSUME NEW f, NEW x, f[x] \in Nat
    PROVE  IsFiniteSet(Units(f, x)) /\ Cardinality(Units(f, x)) = f[x]
<1> DEFINE numbers == 1..f[x]
<1>1. IsFiniteSet(numbers) /\ Cardinality(numbers) = f[x]
  <2>1. ASSUME NEW n \in Nat
        PROVE  IsFiniteSet(1..n) /\ Cardinality(1..n) = n
    BY FS_Interval
  <2> QED BY <2>1
<1>2. IsFiniteSet({x}) /\ Cardinality({x}) = 1
  BY FS_Singleton
<1> HIDE DEF numbers
<1>3. /\ IsFiniteSet({x} \X numbers)
      /\ Cardinality({x} \X numbers) = Cardinality({x}) * Cardinality(numbers)
  BY <1>1, <1>2, FS_Product
<1>4. Cardinality({x}) * Cardinality(numbers) = f[x]
  BY <1>1, <1>2
<1> QED BY <1>3, <1>4 DEF Units, numbers

LEMMA SumIsNatural ==
    ASSUME NEW S, IsFiniteSet(S), NEW f, \A x \in S : f[x] \in Nat
    PROVE  IsFiniteSet(AllUnits(f, S)) /\ SumOf(f, S) \in Nat
<1> DEFINE unitsOf == [x \in S |-> Units(f, x)]
           all == {Units(f, x) : x \in S}
<1>1. unitsOf \in Surjection(S, all)
  BY DEF Surjection
<1>2. IsFiniteSet(all)
  BY <1>1, FS_Surjection
<1>3. \A T \in all : IsFiniteSet(T)
  BY UnitsCounted
<1> HIDE DEF all
<1>4. IsFiniteSet(UNION all)
  BY <1>2, <1>3, FS_UNION
<1> QED BY <1>4, FS_CardinalityType DEF AllUnits, SumOf, Units, all

\* A sum is one of its numbers and the sum of the others.
LEMMA SumSplit ==
    ASSUME NEW S, IsFiniteSet(S), NEW f, \A x \in S : f[x] \in Nat, NEW c \in S
    PROVE  SumOf(f, S) = f[c] + SumOf(f, S \ {c})
<1> DEFINE others == S \ {c}
<1>1. IsFiniteSet(others)
  BY FS_RemoveElement
<1>2. IsFiniteSet(AllUnits(f, others)) /\ SumOf(f, others) \in Nat
  BY <1>1, SumIsNatural
<1>3. IsFiniteSet(Units(f, c)) /\ Cardinality(Units(f, c)) = f[c]
  BY UnitsCounted
<1>4. AllUnits(f, S) = Units(f, c) \cup AllUnits(f, others)
  BY DEF AllUnits
<1>5. Units(f, c) \cap AllUnits(f, others) = {}
  BY DEF AllUnits, Units
<1> DEFINE mine == Units(f, c)
           rest == AllUnits(f, others)
<1>6. SumOf(f, S) = Cardinality(mine \cup rest) /\ SumOf(f, others) = Cardinality(rest)
  BY <1>4 DEF AllUnits, SumOf, Units
<1>7. IsFiniteSet(mine) /\ IsFiniteSet(rest) /\ mine \cap rest = {}
  BY <1>2, <1>3, <1>5
<1> HIDE DEF mine, rest
<1>8. Cardinality(mine \cup rest) = Cardinality(mine) + Cardinality(rest) - Cardinality(mine \cap rest)
  BY <1>7, FS_Union
<1>9. Cardinality(mine \cap rest) = 0
  BY <1>7, FS_EmptySet
<1>10. Cardinality(mine) = f[c] /\ f[c] \in Nat /\ Cardinality(rest) \in Nat
  BY <1>2, <1>3, <1>6 DEF mine
<1> QED BY <1>6, <1>8, <1>9, <1>10

LEMMA SumOfSame ==
    ASSUME NEW S, NEW f, NEW g, \A x \in S : f[x] = g[x]
    PROVE  SumOf(f, S) = SumOf(g, S)
<1>1. {{x} \X (1..f[x]) : x \in S} = {{x} \X (1..g[x]) : x \in S}
  OBVIOUS
<1> QED BY <1>1 DEF SumOf

\* One number changes: so does the sum.
LEMMA SumChanges ==
    ASSUME NEW S, IsFiniteSet(S), NEW f, NEW g,
           \A x \in S : f[x] \in Nat /\ g[x] \in Nat,
           NEW c \in S, \A x \in S \ {c} : g[x] = f[x]
    PROVE  /\ SumOf(f, S) \in Nat /\ SumOf(g, S) \in Nat
           /\ SumOf(g, S) + f[c] = SumOf(f, S) + g[c]
<1>1. SumOf(f, S) = f[c] + SumOf(f, S \ {c}) /\ SumOf(g, S) = g[c] + SumOf(g, S \ {c})
  BY SumSplit
<1>2. SumOf(f, S \ {c}) = SumOf(g, S \ {c})
  BY SumOfSame
<1>3. SumOf(f, S) \in Nat /\ SumOf(g, S) \in Nat
  BY SumIsNatural
<1>4. IsFiniteSet(S \ {c}) /\ SumOf(f, S \ {c}) \in Nat
  <2>1. IsFiniteSet(S \ {c})
    BY FS_RemoveElement
  <2> QED BY <2>1, SumIsNatural
<1> QED BY <1>1, <1>2, <1>3, <1>4

LEMMA SumCoversEach ==
    ASSUME NEW S, IsFiniteSet(S), NEW f, \A x \in S : f[x] \in Nat, NEW c \in S
    PROVE  SumOf(f, S) \in Nat /\ f[c] <= SumOf(f, S)
<1>1. IsFiniteSet(S \ {c}) /\ SumOf(f, S) \in Nat
  BY FS_RemoveElement, SumIsNatural
<1>2. SumOf(f, S \ {c}) \in Nat /\ SumOf(f, S) = f[c] + SumOf(f, S \ {c})
  BY <1>1, SumIsNatural, SumSplit
<1> QED BY <1>2

LEMMA SumAtMost ==
    ASSUME NEW S, IsFiniteSet(S), NEW f, NEW g,
           \A x \in S : f[x] \in Nat /\ g[x] \in Nat /\ f[x] <= g[x]
    PROVE  SumOf(f, S) \in Nat /\ SumOf(g, S) \in Nat /\ SumOf(f, S) <= SumOf(g, S)
<1>1. /\ IsFiniteSet(AllUnits(f, S)) /\ SumOf(f, S) \in Nat
      /\ IsFiniteSet(AllUnits(g, S)) /\ SumOf(g, S) \in Nat
  BY SumIsNatural
<1>2. ASSUME NEW x \in S PROVE Units(f, x) \subseteq Units(g, x)
  <2>1. 1..f[x] \subseteq 1..g[x]
    OBVIOUS
  <2> QED BY <2>1 DEF Units
<1>3. AllUnits(f, S) \subseteq AllUnits(g, S)
  BY <1>2 DEF AllUnits
<1>4. Cardinality(AllUnits(f, S)) <= Cardinality(AllUnits(g, S))
  BY <1>1, <1>3, FS_Subset
<1>5. SumOf(f, S) = Cardinality(AllUnits(f, S)) /\ SumOf(g, S) = Cardinality(AllUnits(g, S))
  BY DEF SumOf, AllUnits, Units
<1> QED BY <1>1, <1>4, <1>5

\* Elements that contribute nothing can be left out.
LEMMA SumOfSome ==
    ASSUME NEW S, NEW T \in SUBSET S, NEW f, NEW g,
           \A x \in T : f[x] = g[x], \A x \in S \ T : f[x] = 0
    PROVE  SumOf(f, S) = SumOf(g, T)
<1>1. \A x \in S \ T : Units(f, x) = {}
  BY DEF Units
<1>2. \A x \in T : Units(f, x) = Units(g, x)
  BY DEF Units
<1>3. AllUnits(f, S) = AllUnits(g, T)
  BY <1>1, <1>2 DEF AllUnits
<1> QED BY <1>3 DEF SumOf, AllUnits, Units

LEMMA SumOfZeros ==
    ASSUME NEW S, NEW f, \A x \in S : f[x] = 0
    PROVE  SumOf(f, S) = 0
<1>1. \A x \in S : Units(f, x) = {}
  BY DEF Units
<1>2. AllUnits(f, S) = {}
  BY <1>1 DEF AllUnits
<1> QED BY <1>2, FS_EmptySet DEF SumOf, AllUnits, Units

-----------------------------------------------------------------------------
(* Sockets: what one connection has, in the tables and in meterTransfer.   *)

Spendable(c) == connections[c].phase \in {"open", "closing"}

GrantedOf(c) == IF meters[c] = <<>> THEN 0 ELSE meters[c][1].granted

\* Nothing is spent before the socket is open; a socket that is not gone has not been
\* released, and one that was reported closed stays released as long as its fence; bytes
\* are granted by an answer only; and the frames of a socket that is not torn find it as
\* the handler of the first one read it.
Socket(c) ==
    /\ connections[c].phase \in {"new", "admitted"} =>
          connections[c].remaining = 0 /\ meters[c] = <<>>
    /\ connections[c].phase # "gone" => released[c] = None /\ connections[c].closedAt = None
    /\ connections[c].closedAt # None /\ now < connections[c].closedAt + FenceSeconds =>
          released[c] = connections[c].closedAt
    /\ \A i \in 1..Len(meters[c]) :
          meters[c][i].status # "answered" => meters[c][i].granted = 0
    /\ c \notin torn /\ meters[c] # <<>> =>
          /\ Spendable(c) /\ ~Expired(c)
          /\ meters[c][1].status # "queued" =>
                meters[c][1].current = connections[c].remaining

SocketInv == \A c \in Connections : Socket(c)

\* What is known of the frames of a connection.
LEMMA MeterFacts ==
    ASSUME TypeInv, NEW c \in Connections
    PROVE  /\ meters[c] \in Seq(Frame) /\ Len(meters[c]) \in Nat
           /\ meters[c] = <<>> <=> Len(meters[c]) = 0
           /\ \A i \in 1..Len(meters[c]) :
                 /\ meters[c][i] \in Frame
                 /\ meters[c][i].current \in Nat /\ meters[c][i].granted \in Nat
           /\ \A i \in 2..Len(meters[c]) : meters[c][i].status = "queued"
           /\ GrantedOf(c) \in Nat
<1>1. meters[c] \in Seq(Frame) /\ \A i \in 2..Len(meters[c]) : meters[c][i].status = "queued"
  BY TypeInvParts DEF FramesTyped
<1>2. Len(meters[c]) \in Nat /\ (meters[c] = <<>> <=> Len(meters[c]) = 0)
  BY <1>1, LenProperties, EmptySeq
<1>3. \A i \in 1..Len(meters[c]) : meters[c][i] \in Frame
  BY <1>1, ElementOfSeq
<1>4. \A i \in 1..Len(meters[c]) : meters[c][i].current \in Nat /\ meters[c][i].granted \in Nat
  BY <1>3 DEF Frame
<1>5. GrantedOf(c) \in Nat
  BY <1>2, <1>4 DEF GrantedOf
<1> QED BY <1>1, <1>2, <1>3, <1>4, <1>5

LEMMA ConnectionFacts ==
    ASSUME TypeInv, NEW c \in Connections
    PROVE  /\ connections[c] \in Connection
           /\ connections[c].device \in Devices /\ connections[c].remaining \in Nat
           /\ connections[c].phase \in Phases /\ connections[c].expiresAt \in Nat
           /\ connections[c].closedAt \in Nat \cup {None}
           /\ connections[c].refunded \in Nat \cup {None}
           /\ now \in Nat /\ None \notin Nat
           /\ released[c] \in Nat \cup {None}
<1>1. connections[c] \in Connection
  BY TypeInvParts DEF ConnectionsTyped
<1> QED BY <1>1, TypeInvParts, PolicyNumbers, NoneIsNothing DEF Connection, TablesTyped

\* The three things that happen to the frames of a connection.
LEMMA AppendedFrames ==
    ASSUME TypeInv, NEW c \in Connections, NEW frame \in Frame,
           meters' = [meters EXCEPT ![c] = Append(@, frame)]
    PROVE  /\ \A x \in Connections \ {c} : meters'[x] = meters[x]
           /\ meters'[c] # <<>> /\ Len(meters'[c]) = Len(meters[c]) + 1
           /\ \A i \in 1..Len(meters[c]) : meters'[c][i] = meters[c][i]
           /\ meters'[c][Len(meters[c]) + 1] = frame
<1>1. FramesTyped /\ meters[c] \in Seq(Frame) /\ Len(meters[c]) \in Nat
  BY TypeInvParts, MeterFacts
<1>2. /\ meters'[c] = Append(meters[c], frame)
      /\ \A x \in Connections \ {c} : meters'[x] = meters[x]
  BY <1>1 DEF FramesTyped
<1>3. /\ Append(meters[c], frame) \in Seq(Frame)
      /\ Len(Append(meters[c], frame)) = Len(meters[c]) + 1
      /\ \A i \in 1..Len(meters[c]) : Append(meters[c], frame)[i] = meters[c][i]
      /\ Append(meters[c], frame)[Len(meters[c]) + 1] = frame
  BY <1>1, AppendProperties
<1>4. Append(meters[c], frame) # <<>>
  BY <1>1, <1>3, EmptySeq
<1> QED BY <1>2, <1>3, <1>4

LEMMA FinishedFrame ==
    ASSUME TypeInv, NEW c \in Connections, meters[c] # <<>>,
           meters' = [meters EXCEPT ![c] = Tail(@)]
    PROVE  /\ \A x \in Connections \ {c} : meters'[x] = meters[x]
           /\ Len(meters'[c]) = Len(meters[c]) - 1
           /\ \A i \in 1..Len(meters'[c]) : meters'[c][i] = meters[c][i + 1]
           /\ \A i \in 1..Len(meters'[c]) : meters'[c][i].status = "queued"
           /\ meters'[c] # <<>> => 1 \in 1..Len(meters'[c])
<1> DEFINE frames == meters[c]
           rest == Tail(frames)
<1>1. FramesTyped /\ frames \in Seq(Frame) /\ Len(frames) \in Nat /\ Len(frames) # 0
  BY TypeInvParts, MeterFacts
<1>2. meters'[c] = rest /\ \A x \in Connections \ {c} : meters'[x] = meters[x]
  BY <1>1 DEF FramesTyped
<1>3. \A i \in 2..Len(frames) : frames[i].status = "queued"
  BY MeterFacts
<1> HIDE DEF frames
<1>4. /\ rest \in Seq(Frame) /\ Len(rest) = Len(frames) - 1
      /\ \A i \in 1..Len(rest) : rest[i] = frames[i + 1]
  BY <1>1, HeadTailProperties, EmptySeq
<1> HIDE DEF rest
<1>5. Len(rest) \in Nat /\ (rest # <<>> => Len(rest) # 0)
  BY <1>4, LenProperties, EmptySeq
<1>6. \A i \in 1..Len(rest) : i + 1 \in 2..Len(frames)
  BY <1>1, <1>4
<1>7. \A i \in 1..Len(rest) : rest[i].status = "queued"
  BY <1>3, <1>4, <1>6
<1>8. rest # <<>> => 1 \in 1..Len(rest)
  BY <1>5
<1> QED BY <1>2, <1>4, <1>7, <1>8 DEF frames

LEMMA ChangedFrame ==
    ASSUME TypeInv, NEW c \in Connections, meters[c] # <<>>, NEW frame \in Frame,
           meters' = [meters EXCEPT ![c] = [@ EXCEPT ![1] = frame]]
    PROVE  /\ \A x \in Connections \ {c} : meters'[x] = meters[x]
           /\ Len(meters'[c]) = Len(meters[c]) /\ meters'[c] # <<>>
           /\ meters'[c][1] = frame
           /\ \A i \in 2..Len(meters'[c]) : meters'[c][i] = meters[c][i]
<1>1. FramesTyped /\ meters[c] \in Seq(Frame) /\ Len(meters[c]) \in Nat \ {0}
  BY TypeInvParts, FrameFacts
<1> DEFINE changed == [meters[c] EXCEPT ![1] = frame]
<1>2. /\ changed \in Seq(Frame) /\ Len(changed) = Len(meters[c])
      /\ changed[1] = frame
      /\ \A i \in 2..Len(meters[c]) : changed[i] = meters[c][i]
  BY <1>1, ExceptSeq
<1>3. meters' = [meters EXCEPT ![c] = changed]
  OBVIOUS
<1> HIDE DEF changed
<1>4. meters'[c] = changed /\ \A x \in Connections \ {c} : meters'[x] = meters[x]
  BY <1>1, <1>3 DEF FramesTyped
<1>5. changed # <<>>
  BY <1>1, <1>2, EmptySeq
<1> QED BY <1>2, <1>4, <1>5

\* What happens to a connection: its phase changes, it is closed if it has expired, and
\* its remaining bytes are written.
SameBut(c, phase, remaining) ==
    /\ \A x \in Connections \ {c} : connections'[x] = connections[x]
    /\ connections'[c].phase = phase
    /\ connections'[c].remaining = remaining
    /\ connections'[c].device = connections[c].device
    /\ connections'[c].expiresAt = connections[c].expiresAt
    /\ connections'[c].refunded = connections[c].refunded
    /\ connections'[c].closedAt = connections[c].closedAt

PhaseKept(c, phase) ==
    phase # connections[c].phase => connections[c].phase = "open" /\ phase = "closing"

LEMMA PhaseChanged ==
    ASSUME TypeInv, NEW c \in Connections, NEW phase \in Phases, Becomes(c, phase)
    PROVE  SameBut(c, phase, connections[c].remaining)
<1>1. connections \in [Connections -> Connection] /\ connections[c] \in Connection
  BY TypeInvParts DEF ConnectionsTyped
<1> QED BY <1>1 DEF Becomes, SameBut, Connection

LEMMA MaybeClosed ==
    ASSUME TypeInv, NEW c \in Connections, NEW remaining \in Nat, NEW condition \in BOOLEAN,
           connections' = [connections EXCEPT ![c] =
               ClosedIf(condition, [connections[c] EXCEPT !.remaining = remaining])]
    PROVE  \E phase \in Phases :
              /\ SameBut(c, phase, remaining)
              /\ PhaseKept(c, phase)
<1> DEFINE written == [connections[c] EXCEPT !.remaining = remaining]
           phase == IF condition /\ connections[c].phase = "open" THEN "closing"
                    ELSE connections[c].phase
<1>1. connections \in [Connections -> Connection] /\ connections[c] \in Connection
  BY TypeInvParts DEF ConnectionsTyped
<1>2. /\ written.phase = connections[c].phase /\ written.remaining = remaining
      /\ written.device = connections[c].device /\ written.expiresAt = connections[c].expiresAt
      /\ written.refunded = connections[c].refunded
      /\ written.closedAt = connections[c].closedAt
      /\ written \in Connection
  BY <1>1 DEF Connection
<1>3. phase \in Phases
  BY <1>1 DEF Phases, Connection
<1>4. connections'[c] = ClosedIf(condition, written)
      /\ \A x \in Connections \ {c} : connections'[x] = connections[x]
  BY <1>1
<1> HIDE DEF written
<1>5. SameBut(c, phase, remaining)
  BY <1>2, <1>4 DEF ClosedIf, SameBut, Connection
<1>6. PhaseKept(c, phase)
  BY DEF PhaseKept
<1> HIDE DEF phase
<1> QED BY <1>3, <1>5, <1>6

\* The same when nothing is written.
LEMMA MaybeClosedOnly ==
    ASSUME TypeInv, NEW c \in Connections, NEW condition \in BOOLEAN,
           connections' = [connections EXCEPT ![c] = ClosedIf(condition, connections[c])]
    PROVE  \E phase \in Phases :
              /\ SameBut(c, phase, connections[c].remaining)
              /\ PhaseKept(c, phase)
<1>1. connections[c] \in Connection
  BY ConnectionFacts
<1>2. [connections[c] EXCEPT !.remaining = connections[c].remaining] = connections[c]
  BY <1>1 DEF Connection
<1>3. connections[c].remaining \in Nat
  BY ConnectionFacts
<1>4. connections' = [connections EXCEPT ![c] = ClosedIf(condition,
         [connections[c] EXCEPT !.remaining = connections[c].remaining])]
  BY <1>2
<1> QED BY <1>3, <1>4, MaybeClosed

\* A transfer is recorded: by spend, and by the answer of a reservation.
LEMMA Recorded ==
    ASSUME TypeInv, NEW c \in Connections, meters[c] # <<>>, NEW remaining \in Nat,
           Record(c, remaining)
    PROVE  /\ \E phase \in Phases :
                 /\ SameBut(c, phase, remaining)
                 /\ PhaseKept(c, phase)
           /\ meters' = [meters EXCEPT ![c] = Tail(@)]
           /\ metered' = [metered EXCEPT ![connections[c].device] = @ + meters[c][1].bytes]
<1>1. Expired(c) \in BOOLEAN
  BY DEF Expired
<1>2. /\ connections' = [connections EXCEPT ![c] =
            ClosedIf(Expired(c), [connections[c] EXCEPT !.remaining = remaining])]
      /\ meters' = [meters EXCEPT ![c] = Tail(@)]
      /\ metered' = [metered EXCEPT ![connections[c].device] = @ + meters[c][1].bytes]
  BY DEF Record
<1>3. \E phase \in Phases :
         /\ SameBut(c, phase, remaining)
         /\ PhaseKept(c, phase)
  BY <1>1, <1>2, MaybeClosed
<1> QED BY <1>2, <1>3

LEMMA SpendFacts ==
    ASSUME TypeInv, NEW c \in Connections, spend(c)
    PROVE  /\ meters[c] # <<>> /\ meters[c][1].status = "queued"
           /\ Current(c) - meters[c][1].bytes \in Nat
           /\ Record(c, Current(c) - meters[c][1].bytes)
           /\ UNCHANGED <<now, account, deviceUsage, active, released, windows, torn>>
<1>1. meters[c] # <<>> /\ meters[c][1].status = "queued" /\ Current(c) >= meters[c][1].bytes
      /\ Record(c, Current(c) - meters[c][1].bytes)
  BY DEF spend, Runnable
<1>2. Current(c) - meters[c][1].bytes \in Nat
  BY <1>1, FrameFacts
<1> QED BY <1>1, <1>2 DEF spend, ledgerVars

LEMMA AskFacts ==
    ASSUME TypeInv, NEW c \in Connections, ask(c)
    PROVE  /\ meters[c] # <<>> /\ meters[c][1].status = "queued"
           /\ \E frame \in Frame :
                 /\ frame = [meters[c][1] EXCEPT !.status = "asked", !.current = Current(c)]
                 /\ meters' = [meters EXCEPT ![c] = [@ EXCEPT ![1] = frame]]
           /\ \E phase \in Phases :
                 /\ SameBut(c, phase, connections[c].remaining)
                 /\ PhaseKept(c, phase)
           /\ UNCHANGED <<now, account, deviceUsage, active, released, windows, metered, torn>>
<1> DEFINE question == [meters[c][1] EXCEPT !.status = "asked", !.current = Current(c)]
<1>1. meters[c] # <<>> /\ meters[c][1].status = "queued"
  BY DEF ask, Runnable
<1>2. question \in Frame
  BY <1>1, FrameFacts DEF Frame
<1>3. meters' = [meters EXCEPT ![c] = [@ EXCEPT ![1] = question]]
  <2>1. [meters[c] EXCEPT ![1].status = "asked", ![1].current = Current(c)]
          = [meters[c] EXCEPT ![1] = question]
    BY <1>1, FrameFacts DEF Frame
  <2>2. meters' = [meters EXCEPT ![c] =
                     [@ EXCEPT ![1].status = "asked", ![1].current = Current(c)]]
    BY DEF ask
  <2> QED BY <2>1, <2>2
<1>4. Expired(c) \in BOOLEAN
  BY DEF Expired
<1>5. connections' = [connections EXCEPT ![c] = ClosedIf(Expired(c), connections[c])]
      /\ UNCHANGED <<now, account, deviceUsage, active, released, windows, metered, torn>>
  BY DEF ask, ledgerVars, history
<1>6. \E phase \in Phases :
         /\ SameBut(c, phase, connections[c].remaining)
         /\ PhaseKept(c, phase)
  BY <1>4, <1>5, MaybeClosedOnly
<1> HIDE DEF question
<1>7. \E frame \in Frame : frame = question
         /\ meters' = [meters EXCEPT ![c] = [@ EXCEPT ![1] = frame]]
  BY <1>2, <1>3
<1> QED BY <1>1, <1>5, <1>6, <1>7 DEF question

LEMMA ReserveFacts ==
    ASSUME TypeInv, NEW c \in Connections, reserveTransfer(c)
    PROVE  /\ meters[c] # <<>> /\ meters[c][1].status = "asked"
           /\ \E bytes \in Nat : \E frame \in Frame :
                 /\ frame = [meters[c][1] EXCEPT !.status = "answered", !.granted = bytes]
                 /\ meters' = [meters EXCEPT ![c] = [@ EXCEPT ![1] = frame]]
                 /\ account' = account + bytes
                 /\ deviceUsage' = [deviceUsage EXCEPT ![connections[c].device] = @ + bytes]
           /\ UNCHANGED <<now, active, released, windows, connections, metered, torn>>
<1> DEFINE bytes == Reservation(meters[c][1].bytes)
           answer == [meters[c][1] EXCEPT !.status = "answered", !.granted = bytes]
<1>1. /\ meters[c] # <<>> /\ meters[c][1].status = "asked"
      /\ account' = account + bytes
      /\ deviceUsage' = [deviceUsage EXCEPT ![connections[c].device] = @ + bytes]
      /\ meters' = [meters EXCEPT ![c] = [@ EXCEPT ![1].status = "answered", ![1].granted = bytes]]
      /\ UNCHANGED <<now, active, released, windows, connections, metered, torn>>
  BY DEF reserveTransfer, history
<1>2. bytes \in Nat
  BY <1>1, TypeInvParts, FrameFacts, ReservationCovers
<1>3. answer \in Frame
  BY <1>1, <1>2, FrameFacts DEF Frame
<1>4. meters' = [meters EXCEPT ![c] = [@ EXCEPT ![1] = answer]]
  <2>1. [meters[c] EXCEPT ![1].status = "answered", ![1].granted = bytes]
          = [meters[c] EXCEPT ![1] = answer]
    BY <1>1, FrameFacts DEF Frame
  <2> QED BY <1>1, <2>1
<1> HIDE DEF bytes
<1> QED BY <1>1, <1>2, <1>3, <1>4

\* The answer brings bytes, or says that the quota is exceeded.
LEMMA AnsweredFacts ==
    ASSUME TypeInv, NEW c \in Connections, answered(c)
    PROVE  /\ meters[c] # <<>> /\ meters[c][1].status = "answered"
           /\ UNCHANGED <<now, account, deviceUsage, active, released, windows, torn>>
           /\ \/ /\ meters[c][1].current + meters[c][1].granted - meters[c][1].bytes \in Nat
                 /\ Record(c, meters[c][1].current + meters[c][1].granted - meters[c][1].bytes)
              \/ /\ meters[c][1].granted = 0
                 /\ meters' = [meters EXCEPT ![c] = Tail(@)]
                 /\ metered' = metered
                 /\ \E phase \in Phases :
                       /\ SameBut(c, phase, connections[c].remaining)
                       /\ PhaseKept(c, phase)
<1> DEFINE frame == meters[c][1]
<1>1. /\ meters[c] # <<>> /\ frame.status = "answered"
      /\ UNCHANGED <<now, account, deviceUsage, active, released, windows, torn>>
  BY DEF answered, ledgerVars
<1>2. /\ frame.granted \in Nat /\ frame.bytes \in Nat /\ frame.current \in Nat
      /\ frame.granted = 0 \/ frame.granted >= frame.bytes
  BY <1>1, FrameFacts, TypeInvParts DEF FramesTyped, Covered
<1>3. CASE frame.granted > 0
  <2>1. frame.granted # 0
    BY <1>2, <1>3
  <2>2. Record(c, frame.current + frame.granted - frame.bytes)
    BY <2>1 DEF answered
  <2>3. frame.current + frame.granted - frame.bytes \in Nat
    BY <1>2, <1>3
  <2> QED BY <1>1, <2>2, <2>3
<1>4. CASE ~(frame.granted > 0)
  <2>1. /\ frame.granted = 0
        /\ connections' = [connections EXCEPT ![c] = ClosedIf(TRUE, connections[c])]
        /\ meters' = [meters EXCEPT ![c] = Tail(@)]
        /\ metered' = metered
    BY <1>4 DEF answered
  <2>2. \E phase \in Phases :
           /\ SameBut(c, phase, connections[c].remaining)
           /\ PhaseKept(c, phase)
    BY <2>1, MaybeClosedOnly
  <2> QED BY <1>1, <2>1, <2>2
<1> QED BY <1>3, <1>4

LEMMA SocketKept ==
    ASSUME NEW c \in Connections, Socket(c), now' = now,
           connections'[c] = connections[c], meters'[c] = meters[c],
           released'[c] = released[c], c \in torn' <=> c \in torn
    PROVE  Socket(c)'
BY DEF Socket, Spendable, Expired

\* An admission may drop fences, those of the closes that are long ago.
LEMMA AdmitKeepsSockets ==
    ASSUME TypeInv, SocketInv, NEW c \in Connections,
           NEW client \in Clients, NEW seconds \in GrantSeconds, admit(c, client, seconds)
    PROVE  SocketInv'
<1> DEFINE phase == IF ~RateLimited(client) /\ Admits(connections[c].device)
                    THEN "admitted" ELSE "gone"
<1>1. /\ connections \in [Connections -> Connection] /\ connections[c] \in Connection
      /\ now \in Nat /\ now' = now /\ meters' = meters /\ torn' = torn
      /\ released' = Fences /\ connections[c].phase = "new"
      /\ connections' = [connections EXCEPT ![c].phase = phase, ![c].expiresAt = now + seconds]
  BY TypeInvParts, PolicyNumbers DEF admit, history, ConnectionsTyped
<1>2. phase \in {"admitted", "gone"}
  OBVIOUS
<1> HIDE DEF phase
<1>3. /\ \A x \in Connections \ {c} : connections'[x] = connections[x]
      /\ connections'[c].phase = phase
      /\ connections'[c].remaining = connections[c].remaining
      /\ connections'[c].closedAt = connections[c].closedAt
  BY <1>1 DEF Connection
<1>4. ASSUME NEW x \in Connections
      PROVE  /\ released[x] = None => released'[x] = None
             /\ (/\ connections[x].closedAt # None
                 /\ now < connections[x].closedAt + FenceSeconds
                 /\ released[x] = connections[x].closedAt) => released'[x] = released[x]
  <2>1. released'[x] = IF released[x] # None /\ released[x] > now - FenceSeconds
                       THEN released[x] ELSE None
    BY <1>1 DEF Fences
  <2>2. connections[x].closedAt \in Nat \cup {None} /\ now \in Nat /\ FenceSeconds \in Nat
    BY ConnectionFacts, PolicyNumbers
  <2> QED BY <2>1, <2>2
<1>5. ASSUME NEW x \in Connections \ {c} PROVE Socket(x)'
  BY <1>1, <1>3, <1>4 DEF SocketInv, Socket, Spendable, Expired
<1>6. Socket(c)'
  <2>1. /\ connections[c].remaining = 0 /\ meters[c] = <<>> /\ released[c] = None
        /\ connections[c].closedAt = None
    BY <1>1 DEF SocketInv, Socket
  <2>2. Len(meters'[c]) = 0
    BY <1>1, <2>1, MeterFacts
  <2>3. /\ connections'[c].remaining = 0 /\ meters'[c] = <<>> /\ released'[c] = None
        /\ connections'[c].closedAt = None
    BY <1>1, <1>3, <1>4, <2>1
  <2> QED BY <2>2, <2>3 DEF Socket
<1> QED BY <1>5, <1>6 DEF SocketInv

\* A socket that is spendable and keeps what the invariant says of its frames.
LEMMA FramesGoOn ==
    ASSUME TypeInv, SocketInv, NEW c \in Connections, meters[c] # <<>>,
           NEW phase \in Phases, PhaseKept(c, phase), NEW remaining \in Nat,
           SameBut(c, phase, remaining), now' = now, released' = released, torn' = torn,
           meters'[c] # <<>> => 1 \in 1..Len(meters'[c]),
           \A i \in 1..Len(meters'[c]) :
              meters'[c][i].status # "answered" => meters'[c][i].granted = 0,
           meters'[c] # <<>> /\ meters'[c][1].status # "queued" =>
              c \in torn \/ meters'[c][1].current = remaining
    PROVE  Socket(c)'
<1>1. connections[c].phase \notin {"new", "admitted"}
  BY DEF SocketInv, Socket
<1>2. /\ connections'[c].phase = phase /\ connections'[c].remaining = remaining
      /\ connections'[c].expiresAt = connections[c].expiresAt
      /\ connections'[c].closedAt = connections[c].closedAt
  BY DEF SameBut
<1>3. phase \notin {"new", "admitted"} /\ (Spendable(c) => phase \in {"open", "closing"})
      /\ (phase # "gone" => connections[c].phase # "gone")
  BY <1>1 DEF PhaseKept, Phases, Spendable
<1> QED BY <1>1, <1>2, <1>3 DEF SocketInv, Socket, Spendable, Expired

LEMMA QueuedFramesGrantNothing ==
    ASSUME TypeInv, SocketInv, NEW c \in Connections
    PROVE  \A i \in 1..Len(meters[c]) :
              meters[c][i].status # "answered" => meters[c][i].granted = 0
BY DEF SocketInv, Socket

LEMMA SpendKeepsSocket ==
    ASSUME TypeInv, SocketInv, NEW c \in Connections, NEW remaining \in Nat,
           meters[c] # <<>>, Record(c, remaining), now' = now, released' = released, torn' = torn
    PROVE  Socket(c)' /\ \A x \in Connections \ {c} : Socket(x)'
<1>1. PICK phase \in Phases : SameBut(c, phase, remaining) /\ PhaseKept(c, phase)
  BY Recorded
<1>2. /\ \A x \in Connections \ {c} : meters'[x] = meters[x]
      /\ Len(meters'[c]) = Len(meters[c]) - 1
      /\ \A i \in 1..Len(meters'[c]) :
            meters'[c][i] = meters[c][i + 1] /\ meters'[c][i].status = "queued"
      /\ meters'[c] # <<>> => 1 \in 1..Len(meters'[c])
  BY Recorded, FinishedFrame
<1>3. ASSUME NEW i \in 1..Len(meters'[c]) PROVE meters'[c][i].granted = 0
  <2>1. i + 1 \in 1..Len(meters[c])
    BY <1>2, MeterFacts
  <2> QED BY <1>2, <2>1, QueuedFramesGrantNothing
<1>4. Socket(c)'
  BY <1>1, <1>2, <1>3, FramesGoOn
<1>5. ASSUME NEW x \in Connections \ {c} PROVE Socket(x)'
  <2>1. connections'[x] = connections[x]
    BY <1>1 DEF SameBut
  <2> QED BY <1>2, <2>1, SocketKept DEF SocketInv
<1> QED BY <1>4, <1>5

LEMMA AskKeepsSocket ==
    ASSUME TypeInv, SocketInv, NEW c \in Connections, ask(c)
    PROVE  Socket(c)' /\ \A x \in Connections \ {c} : Socket(x)'
<1>1. /\ meters[c] # <<>> /\ meters[c][1].status = "queued"
      /\ now' = now /\ released' = released /\ torn' = torn
  BY AskFacts
<1>2. PICK phase \in Phases : SameBut(c, phase, connections[c].remaining) /\ PhaseKept(c, phase)
  BY AskFacts
<1>3. PICK frame \in Frame :
         /\ frame = [meters[c][1] EXCEPT !.status = "asked", !.current = Current(c)]
         /\ meters' = [meters EXCEPT ![c] = [@ EXCEPT ![1] = frame]]
  BY AskFacts
<1>4. /\ \A x \in Connections \ {c} : meters'[x] = meters[x]
      /\ Len(meters'[c]) = Len(meters[c]) /\ meters'[c] # <<>>
      /\ meters'[c][1] = frame
      /\ \A i \in 2..Len(meters'[c]) : meters'[c][i] = meters[c][i]
  BY <1>1, <1>3, ChangedFrame
<1>5. Len(meters[c]) \in Nat /\ 1 \in 1..Len(meters[c])
  BY <1>1, MeterFacts
<1>6. frame.granted = 0 /\ frame.current = Current(c)
  <2>1. frame.granted = meters[c][1].granted /\ frame.current = Current(c)
    BY <1>1, <1>3, FrameFacts DEF Frame
  <2> QED BY <1>1, <1>5, <2>1, QueuedFramesGrantNothing
<1>7. \A i \in 1..Len(meters'[c]) :
         meters'[c][i].status # "answered" => meters'[c][i].granted = 0
  BY <1>4, <1>5, <1>6, QueuedFramesGrantNothing
<1>8. c \in torn \/ frame.current = connections[c].remaining
  BY <1>1, <1>6 DEF SocketInv, Socket, Current
<1>9. connections[c].remaining \in Nat
  BY ConnectionFacts
<1>10. Socket(c)'
  BY <1>1, <1>2, <1>4, <1>5, <1>7, <1>8, <1>9, FramesGoOn
<1>11. ASSUME NEW x \in Connections \ {c} PROVE Socket(x)'
  <2>1. connections'[x] = connections[x]
    BY <1>2 DEF SameBut
  <2> QED BY <1>1, <1>4, <2>1, SocketKept DEF SocketInv
<1> QED BY <1>10, <1>11

LEMMA ReserveKeepsSocket ==
    ASSUME TypeInv, SocketInv, NEW c \in Connections, reserveTransfer(c)
    PROVE  SocketInv'
<1>1. /\ meters[c] # <<>> /\ meters[c][1].status = "asked"
      /\ UNCHANGED <<now, active, released, windows, connections, metered, torn>>
  BY ReserveFacts
<1>2. PICK bytes \in Nat : \E frame \in Frame :
         /\ frame = [meters[c][1] EXCEPT !.status = "answered", !.granted = bytes]
         /\ meters' = [meters EXCEPT ![c] = [@ EXCEPT ![1] = frame]]
         /\ account' = account + bytes
         /\ deviceUsage' = [deviceUsage EXCEPT ![connections[c].device] = @ + bytes]
  BY ReserveFacts
<1>3. PICK frame \in Frame :
         /\ frame = [meters[c][1] EXCEPT !.status = "answered", !.granted = bytes]
         /\ meters' = [meters EXCEPT ![c] = [@ EXCEPT ![1] = frame]]
  BY <1>2
<1>4. /\ \A x \in Connections \ {c} : meters'[x] = meters[x]
      /\ Len(meters'[c]) = Len(meters[c]) /\ meters'[c] # <<>>
      /\ meters'[c][1] = frame
      /\ \A i \in 2..Len(meters'[c]) : meters'[c][i] = meters[c][i]
  BY <1>1, <1>3, ChangedFrame
<1>5. Len(meters[c]) \in Nat /\ 1 \in 1..Len(meters[c])
  BY <1>1, MeterFacts
<1>6. frame.status = "answered" /\ frame.current = meters[c][1].current
  BY <1>1, <1>3, FrameFacts DEF Frame
<1>7. \A i \in 1..Len(meters'[c]) :
         meters'[c][i].status # "answered" => meters'[c][i].granted = 0
  BY <1>4, <1>5, <1>6, QueuedFramesGrantNothing
<1>8. c \notin torn =>
         /\ Spendable(c) /\ ~Expired(c)
         /\ frame.current = connections[c].remaining
  BY <1>1, <1>6 DEF SocketInv, Socket
<1>9. Socket(c)
  BY DEF SocketInv
<1>10. connections[c].phase \notin {"new", "admitted"}
  BY <1>1, <1>9 DEF Socket
<1>11. Socket(c)'
  BY <1>1, <1>4, <1>7, <1>8, <1>9, <1>10 DEF Socket, Spendable, Expired
<1>12. ASSUME NEW x \in Connections \ {c} PROVE Socket(x)'
  BY <1>1, <1>4, SocketKept DEF SocketInv
<1> QED BY <1>11, <1>12 DEF SocketInv

LEMMA AnsweredKeepsSocket ==
    ASSUME TypeInv, SocketInv, NEW c \in Connections, answered(c)
    PROVE  Socket(c)' /\ \A x \in Connections \ {c} : Socket(x)'
<1>1. /\ meters[c] # <<>> /\ now' = now /\ released' = released /\ torn' = torn
  BY AnsweredFacts
<1>2. CASE \E remaining \in Nat : Record(c, remaining)
  BY <1>1, <1>2, SpendKeepsSocket
<1>3. CASE /\ meters' = [meters EXCEPT ![c] = Tail(@)]
           /\ \E phase \in Phases :
                 SameBut(c, phase, connections[c].remaining) /\ PhaseKept(c, phase)
  <2>1. PICK phase \in Phases :
           SameBut(c, phase, connections[c].remaining) /\ PhaseKept(c, phase)
    BY <1>3
  <2>2. /\ \A x \in Connections \ {c} : meters'[x] = meters[x]
        /\ Len(meters'[c]) = Len(meters[c]) - 1
        /\ \A i \in 1..Len(meters'[c]) :
              meters'[c][i] = meters[c][i + 1] /\ meters'[c][i].status = "queued"
        /\ meters'[c] # <<>> => 1 \in 1..Len(meters'[c])
    BY <1>1, <1>3, FinishedFrame
  <2>3. ASSUME NEW i \in 1..Len(meters'[c]) PROVE meters'[c][i].granted = 0
    <3>1. i + 1 \in 1..Len(meters[c])
      BY <2>2, MeterFacts
    <3>2. meters'[c][i] = meters[c][i + 1] /\ meters[c][i + 1].status = "queued"
      BY <2>2
    <3>3. meters[c][i + 1].granted = 0
      BY <3>1, <3>2, QueuedFramesGrantNothing
    <3> QED BY <3>2, <3>3
  <2>4. connections[c].remaining \in Nat
    BY ConnectionFacts
  <2>5. Socket(c)'
    BY <1>1, <2>1, <2>2, <2>3, <2>4, FramesGoOn
  <2>6. ASSUME NEW x \in Connections \ {c} PROVE Socket(x)'
    <3>1. connections'[x] = connections[x]
      BY <2>1 DEF SameBut
    <3> QED BY <1>1, <2>2, <3>1, SocketKept DEF SocketInv
  <2> QED BY <2>5, <2>6
<1> QED BY <1>2, <1>3, AnsweredFacts

LEMMA FailureKeepsSocket ==
    ASSUME TypeInv, SocketInv, NEW c \in Connections, reservationFails(c)
    PROVE  SocketInv'
<1>1. /\ meters[c] # <<>> /\ meters' = [meters EXCEPT ![c] = Tail(@)]
      /\ torn' = torn \cup {x \in {c} : meters[x][1].granted > 0}
      /\ now' = now /\ released' = released /\ connections' = connections
  BY DEF reservationFails, ledgerVars
<1>2. /\ \A x \in Connections \ {c} : meters'[x] = meters[x]
      /\ Len(meters'[c]) = Len(meters[c]) - 1
      /\ \A i \in 1..Len(meters'[c]) :
            meters'[c][i] = meters[c][i + 1] /\ meters'[c][i].status = "queued"
      /\ meters'[c] # <<>> => 1 \in 1..Len(meters'[c])
  BY <1>1, FinishedFrame
<1>3. ASSUME NEW i \in 1..Len(meters'[c]) PROVE meters'[c][i].granted = 0
  <2>1. i + 1 \in 1..Len(meters[c])
    BY <1>2, MeterFacts
  <2> QED BY <1>2, <2>1, QueuedFramesGrantNothing
<1>4. Socket(c)
  BY DEF SocketInv
<1>5. connections[c].phase \notin {"new", "admitted"}
  BY <1>1, <1>4 DEF Socket
<1>6. Socket(c)'
  BY <1>1, <1>2, <1>3, <1>4, <1>5 DEF Socket, Spendable, Expired
<1>7. ASSUME NEW x \in Connections \ {c} PROVE Socket(x)'
  BY <1>1, <1>2, SocketKept DEF SocketInv
<1> QED BY <1>6, <1>7 DEF SocketInv

LEMMA ArrivalKeepsSocket ==
    ASSUME TypeInv, SocketInv, NEW c \in Connections, NEW bytes \in FrameSizes,
           receiveEnvelope(c, bytes)
    PROVE  SocketInv'
<1> DEFINE frame == [bytes |-> bytes, current |-> connections[c].remaining,
                     status |-> "queued", granted |-> 0]
<1>1. /\ connections[c].phase = "open" /\ ~Expired(c)
      /\ meters' = [meters EXCEPT ![c] = Append(@, frame)]
      /\ now' = now /\ released' = released /\ connections' = connections /\ torn' = torn
  BY DEF receiveEnvelope, ledgerVars, history
<1>2. frame \in Frame /\ frame.status = "queued" /\ frame.granted = 0
  BY ConnectionFacts DEF Frame
<1> HIDE DEF frame
<1>3. /\ \A x \in Connections \ {c} : meters'[x] = meters[x]
      /\ meters'[c] # <<>> /\ Len(meters'[c]) = Len(meters[c]) + 1
      /\ \A i \in 1..Len(meters[c]) : meters'[c][i] = meters[c][i]
      /\ meters'[c][Len(meters[c]) + 1] = frame
  BY <1>1, <1>2, AppendedFrames
<1>4. Len(meters[c]) \in Nat /\ (meters[c] = <<>> <=> Len(meters[c]) = 0)
  BY MeterFacts
<1>5. \A i \in 1..Len(meters'[c]) :
         meters'[c][i].status # "answered" => meters'[c][i].granted = 0
  <2>1. \A i \in 1..Len(meters'[c]) : i \in 1..Len(meters[c]) \/ i = Len(meters[c]) + 1
    BY <1>3, <1>4
  <2> QED BY <1>2, <1>3, <2>1, QueuedFramesGrantNothing
<1>6. Socket(c)
  BY DEF SocketInv
<1>7. c \notin torn /\ meters'[c][1].status # "queued" =>
         meters'[c][1].current = connections[c].remaining
  <2>1. CASE meters[c] = <<>>
    <3>1. meters'[c][1] = frame
      BY <1>3, <1>4, <2>1
    <3> QED BY <1>2, <3>1
  <2>2. CASE meters[c] # <<>>
    <3>1. meters'[c][1] = meters[c][1]
      BY <1>3, <1>4, <2>2
    <3> QED BY <1>6, <2>2, <3>1 DEF Socket
  <2> QED BY <2>1, <2>2
<1>8. Socket(c)'
  BY <1>1, <1>5, <1>6, <1>7 DEF Socket, Spendable, Expired
<1>9. ASSUME NEW x \in Connections \ {c} PROVE Socket(x)'
  BY <1>1, <1>3, SocketKept DEF SocketInv
<1> QED BY <1>8, <1>9 DEF SocketInv

\* A release marks the connection, unless it is marked.
LEMMA ReleaseFacts ==
    ASSUME TypeInv, NEW c \in Connections, NEW d, NEW unused, release(c, d, unused)
    PROVE  /\ \A x \in Connections \ {c} : released'[x] = released[x]
           /\ released'[c] = IF released[c] = None THEN now ELSE released[c]
<1>1. released \in [Connections -> Nat \cup {None}]
  BY TypeInvParts DEF TablesTyped
<1> QED BY <1>1 DEF release

LEMMA SocketStep == TypeInv /\ SocketInv /\ [Next]_vars => SocketInv'
<1> SUFFICES ASSUME TypeInv, SocketInv, [Next]_vars PROVE SocketInv'
  OBVIOUS
<1>1. CASE UNCHANGED vars
  BY <1>1 DEF vars, ledgerVars, history, SocketInv, Socket, Spendable, Expired
<1>2. CASE tick
  <2>1. /\ now' = now + 1 /\ connections' = connections /\ meters' = meters
        /\ released' = released
        /\ torn' = torn \cup {c \in Connections : connections[c].expiresAt = now' /\ meters[c] # <<>>}
    BY <1>2 DEF tick, ledgerVars
  <2>2. ASSUME NEW c \in Connections PROVE Socket(c)'
    <3>1. /\ connections[c].expiresAt \in Nat /\ now \in Nat /\ FenceSeconds \in Nat
          /\ connections[c].closedAt \in Nat \cup {None}
      BY ConnectionFacts, PolicyNumbers
    <3>2. c \notin torn' /\ meters'[c] # <<>> => c \notin torn /\ connections[c].expiresAt # now'
      BY <2>1
    <3>3. Socket(c)
      BY DEF SocketInv
    <3>4. ~Expired(c) /\ connections[c].expiresAt # now' => ~Expired(c)'
      BY <2>1, <3>1 DEF Expired
    <3>5. connections[c].closedAt # None /\ now' < connections[c].closedAt + FenceSeconds =>
             released[c] = connections[c].closedAt
      BY <2>1, <3>1, <3>3 DEF Socket
    <3> QED BY <2>1, <3>2, <3>3, <3>4, <3>5 DEF Socket, Spendable
  <2> QED BY <2>2 DEF SocketInv
<1>3. ASSUME NEW c \in Connections,
             \E client \in Clients, seconds \in GrantSeconds : admit(c, client, seconds)
      PROVE  SocketInv'
  BY <1>3, AdmitKeepsSockets
<1>4. ASSUME NEW c \in Connections, \E bytes \in FrameSizes : receiveEnvelope(c, bytes)
      PROVE  SocketInv'
  BY <1>4, ArrivalKeepsSocket
<1>5. ASSUME NEW c \in Connections, spend(c) PROVE SocketInv'
  BY <1>5, SpendFacts, SpendKeepsSocket DEF SocketInv
<1>6. ASSUME NEW c \in Connections, ask(c) PROVE SocketInv'
  BY <1>6, AskKeepsSocket DEF SocketInv
<1>7. ASSUME NEW c \in Connections, reserveTransfer(c) PROVE SocketInv'
  BY <1>7, ReserveKeepsSocket
<1>8. ASSUME NEW c \in Connections, answered(c) PROVE SocketInv'
  BY <1>8, AnsweredKeepsSocket DEF SocketInv
<1>9. ASSUME NEW c \in Connections, reservationFails(c) PROVE SocketInv'
  BY <1>9, FailureKeepsSocket
<1>10. ASSUME NEW c \in Connections,
              admissionRefused(c) \/ admissionFails(c) \/ fetch(c) \/ close(c)
       PROVE  SocketInv'
  <2>1. /\ now' = now /\ meters' = meters /\ torn' = torn
        /\ connections[c].phase \in {"admitted", "open"}
        /\ \A x \in Connections \ {c} : released'[x] = released[x]
        /\ connections[c].phase = "open" => released'[c] = released[c]
    BY <1>10, ReleaseFacts
       DEF admissionRefused, admissionFails, fetch, close, ledgerVars, history
  <2>2. PICK phase \in {"gone", "open", "closing"} :
           /\ Becomes(c, phase)
           /\ phase = "gone" => connections[c].phase = "admitted"
           /\ phase # "gone" => released'[c] = released[c]
           /\ connections[c].phase = "open" => phase = "closing"
    BY <1>10 DEF admissionRefused, admissionFails, fetch, close, ledgerVars
  <2>3. SameBut(c, phase, connections[c].remaining)
    BY <2>2, PhaseChanged DEF Phases
  <2>4. Socket(c)
    BY DEF SocketInv
  <2>5. /\ connections'[c].phase = phase /\ connections'[c].remaining = connections[c].remaining
        /\ connections'[c].expiresAt = connections[c].expiresAt
        /\ connections'[c].closedAt = connections[c].closedAt
    BY <2>3 DEF SameBut
  <2>6. connections[c].closedAt = None /\ released[c] = None
        /\ (connections[c].phase = "admitted" => meters[c] = <<>>)
    BY <2>1, <2>4 DEF Socket
  <2>7. Socket(c)'
    BY <2>1, <2>2, <2>4, <2>5, <2>6 DEF Socket, Spendable, Expired
  <2>8. ASSUME NEW x \in Connections \ {c} PROVE Socket(x)'
    <3>1. connections'[x] = connections[x]
      BY <2>3 DEF SameBut
    <3> QED BY <2>1, <3>1, SocketKept DEF SocketInv
  <2> QED BY <2>7, <2>8 DEF SocketInv
<1>11. ASSUME NEW c \in Connections, webSocketClose(c) PROVE SocketInv'
  <2>1. /\ now' = now /\ meters' = meters /\ connections[c].phase = "closing"
        /\ torn' = torn \cup {x \in {c} : meters[x] # <<>>}
        /\ connections' = [connections EXCEPT ![c].phase = "gone",
               ![c].refunded = connections[c].remaining, ![c].closedAt = now]
    BY <1>11 DEF webSocketClose
  <2>2. /\ \A x \in Connections \ {c} : released'[x] = released[x]
        /\ released'[c] = IF released[c] = None THEN now ELSE released[c]
    BY <1>11, ReleaseFacts DEF webSocketClose
  <2>3. Socket(c)
    BY DEF SocketInv
  <2>4. released'[c] = now
    BY <2>1, <2>2, <2>3 DEF Socket
  <2>5. /\ \A x \in Connections \ {c} : connections'[x] = connections[x]
        /\ connections'[c].phase = "gone" /\ connections'[c].closedAt = now
    BY <2>1, TypeInvParts DEF ConnectionsTyped, Connection
  <2>6. Socket(c)'
    BY <2>1, <2>3, <2>4, <2>5 DEF Socket
  <2>7. ASSUME NEW x \in Connections \ {c} PROVE Socket(x)'
    BY <2>1, <2>2, <2>5, SocketKept DEF SocketInv
  <2> QED BY <2>6, <2>7 DEF SocketInv
<1>12. ASSUME NEW c \in Connections, releaseAgain(c) PROVE SocketInv'
  <2>1. /\ now' = now /\ meters' = meters /\ connections' = connections /\ torn' = torn
        /\ connections[c].closedAt # None /\ now < connections[c].closedAt + FenceSeconds
    BY <1>12 DEF releaseAgain, history
  <2>2. /\ \A x \in Connections \ {c} : released'[x] = released[x]
        /\ released'[c] = IF released[c] = None THEN now ELSE released[c]
    BY <1>12, ReleaseFacts DEF releaseAgain
  <2>3. released'[c] = released[c]
    BY <2>1, <2>2 DEF SocketInv, Socket
  <2>4. \A x \in Connections : released'[x] = released[x]
    BY <2>2, <2>3
  <2>5. ASSUME NEW x \in Connections PROVE Socket(x)'
    BY <2>1, <2>4, SocketKept DEF SocketInv
  <2> QED BY <2>5 DEF SocketInv
<1> QED BY <1>1, <1>2, <1>3, <1>4, <1>5, <1>6, <1>7, <1>8, <1>9, <1>10, <1>11, <1>12 DEF Next

LEMMA SocketInit == Init => SocketInv
<1> SUFFICES ASSUME Init, NEW c \in Connections PROVE Socket(c)
  BY DEF SocketInv
<1>1. PICK device \in [Connections -> Devices] :
          connections = [x \in Connections |-> NewConnection(device[x])]
  BY DEF Init
<1>2. /\ connections[c].phase = "new" /\ connections[c].remaining = 0
      /\ connections[c].closedAt = None
  BY <1>1 DEF NewConnection
<1>3. meters[c] = <<>> /\ released[c] = None /\ Len(meters[c]) = 0
  BY EmptySeq DEF Init
<1> QED BY <1>2, <1>3 DEF Socket

-----------------------------------------------------------------------------
(* Bookings: what the ledger charges, and what it is charged for.          *)

Of(d) == {c \in Connections : connections[c].device = d}

HeldOf(c) == IF Spendable(c) THEN connections[c].remaining ELSE 0

HeldBy == [c \in Connections |-> HeldOf(c)]

GrantedBy == [c \in Connections |-> GrantedOf(c)]

\* n bytes pay for what the connection has, for what its answer may bring on top, and for
\* what any of its frames still takes it to have.
Backed(c, n) ==
    Spendable(c) =>
        /\ connections[c].remaining + GrantedOf(c) <= n
        /\ \A i \in 1..Len(meters[c]) : meters[c][i].current + GrantedOf(c) <= n

\* The charge of a device is the charges of its connections.
ChargeInv ==
    \E charge \in [Connections -> Nat] :
        /\ \A d \in Devices : deviceUsage[d] = SumOf(charge, Of(d))
        /\ \A c \in Connections : Backed(c, charge[c])

TransferInv ==
    \A d \in Devices :
        (\A c \in torn : connections[c].device # d) =>
            deviceUsage[d] = metered[d] + SumOf(HeldBy, Of(d)) + SumOf(GrantedBy, Of(d))

BookingInv == AccountIsSumOfDevices /\ ChargeInv /\ TransferInv

LEMMA OfIsFinite == ASSUME NEW d PROVE IsFiniteSet(Of(d)) /\ Of(d) \subseteq Connections
BY FinitelyManyConnections, FS_Subset DEF Of

LEMMA HeldIsNatural ==
    ASSUME TypeInv
    PROVE  \A c \in Connections :
              /\ HeldOf(c) \in Nat /\ GrantedOf(c) \in Nat
              /\ HeldBy[c] = HeldOf(c) /\ GrantedBy[c] = GrantedOf(c)
<1> SUFFICES ASSUME NEW c \in Connections
             PROVE  HeldOf(c) \in Nat /\ GrantedOf(c) \in Nat
  BY DEF HeldBy, GrantedBy
<1> QED BY ConnectionFacts, MeterFacts DEF HeldOf

LEMMA HeldIsNaturalNext ==
    TypeInv' => \A c \in Connections :
                   /\ HeldOf(c)' \in Nat /\ GrantedOf(c)' \in Nat
                   /\ HeldBy'[c] = HeldOf(c)' /\ GrantedBy'[c] = GrantedOf(c)'
<1> DEFINE Facts == \A c \in Connections :
                       /\ HeldOf(c) \in Nat /\ GrantedOf(c) \in Nat
                       /\ HeldBy[c] = HeldOf(c) /\ GrantedBy[c] = GrantedOf(c)
<1>1. TypeInv => Facts
  BY HeldIsNatural
<1>2. TypeInv' => Facts'
  <2> HIDE DEF Facts
  <2> QED BY <1>1, PTL
<1> QED BY <1>2

\* A step of one connection.
OnlyOf(c) ==
    /\ \A x \in Connections \ {c} : connections'[x] = connections[x] /\ meters'[x] = meters[x]
    /\ connections'[c].device = connections[c].device
    /\ torn \subseteq torn'

LEMMA OthersStay ==
    ASSUME NEW c \in Connections, OnlyOf(c)
    PROVE  /\ \A x \in Connections : connections'[x].device = connections[x].device
           /\ \A d \in Devices : Of(d)' = Of(d)
           /\ \A x \in Connections \ {c} :
                 /\ HeldOf(x)' = HeldOf(x) /\ GrantedOf(x)' = GrantedOf(x)
                 /\ \A n \in Nat : Backed(x, n) => Backed(x, n)'
<1>1. \A x \in Connections : connections'[x].device = connections[x].device
  BY DEF OnlyOf
<1>2. \A d \in Devices : Of(d)' = Of(d)
  BY <1>1 DEF Of
<1>3. ASSUME NEW x \in Connections \ {c}
      PROVE  /\ HeldOf(x)' = HeldOf(x) /\ GrantedOf(x)' = GrantedOf(x)
             /\ \A n \in Nat : Backed(x, n) => Backed(x, n)'
  <2>1. connections'[x] = connections[x] /\ meters'[x] = meters[x]
    BY DEF OnlyOf
  <2> QED BY <2>1 DEF HeldOf, GrantedOf, Backed, Spendable
<1> QED BY <1>1, <1>2, <1>3

\* What the ledger charges for a device and what is held and granted at one of its
\* connections grow by the same number, or the connection is torn.
Balanced(c) ==
    LET d == connections[c].device
    IN  c \notin torn' =>
            deviceUsage'[d] + metered[d] + HeldOf(c) + GrantedOf(c) =
            deviceUsage[d] + metered'[d] + HeldOf(c)' + GrantedOf(c)'

LEMMA TransferGoesOn ==
    ASSUME TypeInv, TypeInv', TransferInv, NEW c \in Connections, OnlyOf(c), Balanced(c),
           \A d \in Devices \ {connections[c].device} :
              deviceUsage'[d] = deviceUsage[d] /\ metered'[d] = metered[d]
    PROVE  TransferInv'
<1> SUFFICES ASSUME NEW CONSTANT d \in Devices,
                    \A x \in torn' : connections'[x].device # d
             PROVE  deviceUsage'[d] =
                       metered'[d] + SumOf(HeldBy', Of(d)') + SumOf(GrantedBy', Of(d)')
  BY DEF TransferInv, SumOf
<1>1. torn \subseteq torn' /\ torn' \subseteq Connections
  BY TypeInvParts DEF OnlyOf, TypeInv, UsageTypeOK
<1>2. deviceUsage[d] = metered[d] + SumOf(HeldBy, Of(d)) + SumOf(GrantedBy, Of(d))
  BY <1>1, OthersStay DEF TransferInv
<1> DEFINE mine == Of(d)
<1>3. Of(d)' = mine /\ IsFiniteSet(mine) /\ mine \subseteq Connections
  BY OthersStay, OfIsFinite
<1>4. /\ deviceUsage[d] \in Nat /\ metered[d] \in Nat
      /\ deviceUsage'[d] \in Nat /\ metered'[d] \in Nat
  BY DEF TypeInv, UsageTypeOK
<1>5. \A x \in mine : /\ HeldBy[x] \in Nat /\ HeldBy'[x] \in Nat
                      /\ GrantedBy[x] \in Nat /\ GrantedBy'[x] \in Nat
  BY <1>3, HeldIsNatural, HeldIsNaturalNext
<1>6. \A x \in mine \ {c} : HeldBy'[x] = HeldBy[x] /\ GrantedBy'[x] = GrantedBy[x]
  BY <1>3, HeldIsNatural, HeldIsNaturalNext, OthersStay
<1>7. c \in mine <=> connections[c].device = d
  BY DEF Of
<1> DEFINE held == HeldBy
           granted == GrantedBy
           heldNow == HeldBy'
           grantedNow == GrantedBy'
<1>8. CASE c \in mine
  <2>1. /\ HeldBy[c] = HeldOf(c) /\ GrantedBy[c] = GrantedOf(c)
        /\ HeldBy'[c] = HeldOf(c)' /\ GrantedBy'[c] = GrantedOf(c)'
    BY HeldIsNatural, HeldIsNaturalNext
  <2>2. c \notin torn'
    BY <1>7, <1>8, OthersStay
  <2>3. deviceUsage'[d] + metered[d] + held[c] + granted[c] =
        deviceUsage[d] + metered'[d] + heldNow[c] + grantedNow[c]
    BY <1>7, <1>8, <2>1, <2>2 DEF Balanced
  <2> HIDE DEF mine, held, granted, heldNow, grantedNow
  <2>4. /\ SumOf(held, mine) \in Nat /\ SumOf(heldNow, mine) \in Nat
        /\ SumOf(heldNow, mine) + held[c] = SumOf(held, mine) + heldNow[c]
    <3>1. \A x \in mine : held[x] \in Nat /\ heldNow[x] \in Nat
      BY <1>5 DEF held, heldNow
    <3>2. \A x \in mine \ {c} : heldNow[x] = held[x]
      BY <1>6 DEF held, heldNow
    <3> QED BY <1>3, <1>8, <3>1, <3>2, SumChanges
  <2>5. /\ SumOf(granted, mine) \in Nat /\ SumOf(grantedNow, mine) \in Nat
        /\ SumOf(grantedNow, mine) + granted[c] = SumOf(granted, mine) + grantedNow[c]
    <3>1. \A x \in mine : granted[x] \in Nat /\ grantedNow[x] \in Nat
      BY <1>5 DEF granted, grantedNow
    <3>2. \A x \in mine \ {c} : grantedNow[x] = granted[x]
      BY <1>6 DEF granted, grantedNow
    <3> QED BY <1>3, <1>8, <3>1, <3>2, SumChanges
  <2>6. /\ held[c] \in Nat /\ granted[c] \in Nat /\ heldNow[c] \in Nat /\ grantedNow[c] \in Nat
    BY <1>5, <1>8 DEF held, granted, heldNow, grantedNow
  <2>7. deviceUsage[d] = metered[d] + SumOf(held, mine) + SumOf(granted, mine)
    BY <1>2 DEF held, granted, mine
  <2>8. deviceUsage'[d] = metered'[d] + SumOf(heldNow, mine) + SumOf(grantedNow, mine)
    <3> DEFINE u == deviceUsage[d]
               v == deviceUsage'[d]
               m == metered[d]
               n == metered'[d]
               h == held[c]
               i == heldNow[c]
               g == granted[c]
               j == grantedNow[c]
               sh == SumOf(held, mine)
               si == SumOf(heldNow, mine)
               sg == SumOf(granted, mine)
               sj == SumOf(grantedNow, mine)
    <3>1. u \in Nat /\ v \in Nat /\ m \in Nat /\ n \in Nat
      BY <1>4
    <3>2. h \in Nat /\ i \in Nat /\ g \in Nat /\ j \in Nat
      BY <2>6
    <3>3. sh \in Nat /\ si \in Nat /\ si + h = sh + i
      BY <2>4
    <3>4. sg \in Nat /\ sj \in Nat /\ sj + g = sg + j
      BY <2>5
    <3>5. v + m + h + g = u + n + i + j
      BY <2>3
    <3>6. u = m + sh + sg
      BY <2>7
    <3> HIDE DEF u, v, m, n, h, i, g, j, sh, si, sg, sj
    <3>7. v = n + si + sj
      BY <3>1, <3>2, <3>3, <3>4, <3>5, <3>6
    <3> QED BY <3>7 DEF v, n, si, sj
  <2> QED BY <1>3, <2>8 DEF heldNow, grantedNow
<1>9. CASE c \notin mine
  <2>1. deviceUsage'[d] = deviceUsage[d] /\ metered'[d] = metered[d]
    BY <1>7, <1>9
  <2>2. \A x \in mine : heldNow[x] = held[x] /\ grantedNow[x] = granted[x]
    BY <1>6, <1>9
  <2> HIDE DEF mine, held, granted, heldNow, grantedNow
  <2>3. SumOf(heldNow, mine) = SumOf(held, mine) /\ SumOf(grantedNow, mine) = SumOf(granted, mine)
    BY <2>2, SumOfSame
  <2> QED BY <1>2, <1>3, <2>1, <2>3 DEF held, granted, heldNow, grantedNow, mine
<1> QED BY <1>8, <1>9

\* The charge of one connection changes, with it that of its device and the account's.
LEMMA ChargeGoesOn ==
    ASSUME TypeInv, TypeInv', AccountIsSumOfDevices, ChargeInv,
           NEW c \in Connections, OnlyOf(c), NEW delta \in Int,
           \A n \in Nat : Backed(c, n) => n + delta \in Nat /\ Backed(c, n + delta)',
           deviceUsage' = [deviceUsage EXCEPT ![connections[c].device] = @ + delta],
           account' = account + delta
    PROVE  AccountIsSumOfDevices' /\ ChargeInv'
<1> DEFINE device == connections[c].device
<1>1. /\ device \in Devices /\ account \in Nat
      /\ deviceUsage \in [Devices -> Nat] /\ deviceUsage' \in [Devices -> Nat]
  BY ConnectionFacts DEF TypeInv, UsageTypeOK
<1>2. /\ deviceUsage'[device] = deviceUsage[device] + delta
      /\ \A d \in Devices \ {device} : deviceUsage'[d] = deviceUsage[d]
  BY <1>1
<1>3. AccountIsSumOfDevices'
  <2>1. account = SumOf(deviceUsage, Devices)
    BY DEF AccountIsSumOfDevices
  <2> DEFINE before == deviceUsage
             after == deviceUsage'
  <2>2. /\ \A d \in Devices : before[d] \in Nat /\ after[d] \in Nat
        /\ \A d \in Devices \ {device} : after[d] = before[d]
    BY <1>1, <1>2
  <2>3. after[device] = before[device] + delta
    BY <1>2
  <2> HIDE DEF device
  <2>4. /\ SumOf(before, Devices) \in Nat /\ SumOf(after, Devices) \in Nat
        /\ SumOf(after, Devices) + before[device] = SumOf(before, Devices) + after[device]
    <3> HIDE DEF before, after
    <3> QED BY <1>1, <2>2, FinitelyManyDevices, SumChanges
  <2>5. SumOf(after, Devices) = SumOf(before, Devices) + delta
    <3>1. before[device] \in Nat /\ after[device] \in Nat
      BY <1>1, <2>2
    <3> HIDE DEF before, after
    <3> QED BY <2>3, <2>4, <3>1
  <2>6. account' = SumOf(deviceUsage', Devices)
    BY <2>1, <2>5
  <2> QED BY <2>6 DEF AccountIsSumOfDevices, SumOf
<1>4. PICK charge :
         /\ charge \in [Connections -> Nat]
         /\ \A d \in Devices : deviceUsage[d] = SumOf(charge, Of(d))
         /\ \A x \in Connections : Backed(x, charge[x])
  BY DEF ChargeInv
<1> DEFINE charged == [charge EXCEPT ![c] = charge[c] + delta]
<1>5. charge[c] + delta \in Nat /\ Backed(c, charge[c] + delta)'
  BY <1>4
<1>6. /\ charged \in [Connections -> Nat]
      /\ charged[c] = charge[c] + delta
      /\ \A x \in Connections \ {c} : charged[x] = charge[x]
  BY <1>4, <1>5
<1> HIDE DEF charged
<1>7. \A x \in Connections : Backed(x, charged[x])'
  <2>1. Backed(c, charged[c])'
    BY <1>5, <1>6
  <2>2. ASSUME NEW x \in Connections \ {c} PROVE Backed(x, charged[x])'
    <3>1. charge[x] \in Nat /\ Backed(x, charge[x])
      BY <1>4
    <3> QED BY <1>6, <3>1, OthersStay
  <2> QED BY <2>1, <2>2
<1>8. ASSUME NEW CONSTANT d \in Devices PROVE deviceUsage'[d] = SumOf(charged, Of(d)')
  <2> DEFINE mine == Of(d)
  <2>1. Of(d)' = mine /\ IsFiniteSet(mine) /\ mine \subseteq Connections
    BY OthersStay, OfIsFinite
  <2>2. deviceUsage[d] = SumOf(charge, mine)
    BY <1>4
  <2>3. c \in mine <=> device = d
    BY DEF Of
  <2> HIDE DEF mine, device
  <2>4. \A x \in mine : charge[x] \in Nat /\ charged[x] \in Nat
    BY <1>4, <1>6, <2>1
  <2>5. CASE d = device
    <3>1. /\ SumOf(charge, mine) \in Nat /\ SumOf(charged, mine) \in Nat
          /\ SumOf(charged, mine) + charge[c] = SumOf(charge, mine) + charged[c]
      <4>1. c \in mine /\ \A x \in mine \ {c} : charged[x] = charge[x]
        BY <1>6, <2>1, <2>3, <2>5
      <4>2. IsFiniteSet(mine)
        BY <2>1
      <4> QED BY <2>4, <4>1, <4>2, SumChanges
    <3>2. SumOf(charged, mine) = SumOf(charge, mine) + delta
      BY <1>4, <1>6, <3>1
    <3> QED BY <1>2, <2>1, <2>2, <2>5, <3>2
  <2>6. CASE d # device
    <3>1. SumOf(charged, mine) = SumOf(charge, mine)
      BY <1>6, <2>1, <2>3, <2>6, SumOfSame
    <3> QED BY <1>2, <2>1, <2>2, <2>6, <3>1
  <2> QED BY <2>5, <2>6
<1>9. ChargeInv'
  BY <1>6, <1>7, <1>8 DEF ChargeInv, SumOf
<1> QED BY <1>3, <1>9

\* A refund never meets the clamp at zero.
LEMMA RefundIsCharged ==
    ASSUME TypeInv, AccountIsSumOfDevices, ChargeInv, NEW c \in Connections, Spendable(c)
    PROVE  /\ connections[c].remaining <= deviceUsage[connections[c].device]
           /\ connections[c].remaining <= account
<1> DEFINE device == connections[c].device
<1>1. /\ device \in Devices /\ account \in Nat /\ connections[c].remaining \in Nat
      /\ deviceUsage \in [Devices -> Nat]
  BY ConnectionFacts DEF TypeInv, UsageTypeOK
<1>2. PICK charge \in [Connections -> Nat] :
         /\ \A d \in Devices : deviceUsage[d] = SumOf(charge, Of(d))
         /\ \A x \in Connections : Backed(x, charge[x])
  BY DEF ChargeInv
<1>3. connections[c].remaining <= charge[c]
  <2>1. connections[c].remaining + GrantedOf(c) <= charge[c] /\ charge[c] \in Nat
    BY <1>2 DEF Backed
  <2> QED BY <1>1, <2>1, MeterFacts
<1>4. c \in Of(device) /\ IsFiniteSet(Of(device)) /\ Of(device) \subseteq Connections
  BY OfIsFinite DEF Of
<1> HIDE DEF device
<1>5. charge[c] <= SumOf(charge, Of(device)) /\ SumOf(charge, Of(device)) \in Nat
  <2>1. \A x \in Of(device) : charge[x] \in Nat
    BY <1>2, <1>4
  <2> QED BY <1>4, <2>1, SumCoversEach
<1>6. deviceUsage[device] <= SumOf(deviceUsage, Devices)
  BY <1>1, FinitelyManyDevices, SumCoversEach
<1>7. /\ deviceUsage[device] = SumOf(charge, Of(device))
      /\ account = SumOf(deviceUsage, Devices)
  BY <1>1, <1>2 DEF AccountIsSumOfDevices
<1>8. charge[c] \in Nat /\ deviceUsage[device] \in Nat
  BY <1>1, <1>2
<1> QED BY <1>1, <1>3, <1>5, <1>6, <1>7, <1>8 DEF device

\* A step that changes no counter of the ledger.
LEMMA ChargeStays ==
    ASSUME TypeInv, TypeInv', AccountIsSumOfDevices, ChargeInv,
           NEW c \in Connections, OnlyOf(c),
           \A n \in Nat : Backed(c, n) => Backed(c, n)',
           deviceUsage' = deviceUsage, account' = account
    PROVE  AccountIsSumOfDevices' /\ ChargeInv'
<1>1. /\ connections[c].device \in Devices /\ account \in Nat
      /\ deviceUsage \in [Devices -> Nat]
  BY ConnectionFacts DEF TypeInv, UsageTypeOK
<1> DEFINE delta == 0
<1>2. delta \in Int /\ \A n \in Nat : n + delta = n
  OBVIOUS
<1> HIDE DEF delta
<1>3. /\ deviceUsage' = [deviceUsage EXCEPT ![connections[c].device] = @ + delta]
      /\ account' = account + delta
  BY <1>1, <1>2
<1>4. \A n \in Nat : Backed(c, n) => n + delta \in Nat /\ Backed(c, n + delta)'
  BY <1>2
<1> QED BY <1>2, <1>3, <1>4, ChargeGoesOn

\* What a step of one connection must keep for the bookings when no counter of the ledger
\* changes.
Booked(c) ==
    /\ OnlyOf(c) /\ Balanced(c)
    /\ \A n \in Nat : Backed(c, n) => Backed(c, n)'
    /\ \A d \in Devices \ {connections[c].device} : metered'[d] = metered[d]

LEMMA BookingsStay ==
    ASSUME TypeInv, TypeInv', BookingInv, NEW c \in Connections, Booked(c),
           deviceUsage' = deviceUsage, account' = account
    PROVE  BookingInv'
<1>1. AccountIsSumOfDevices' /\ ChargeInv'
  BY ChargeStays DEF BookingInv, Booked
<1>2. TransferInv'
  BY TransferGoesOn DEF BookingInv, Booked
<1> QED BY <1>1, <1>2 DEF BookingInv

\* After the first frame is done nothing is granted: the next one has not asked.
LEMMA NextFrameGrantsNothing ==
    ASSUME TypeInv, SocketInv, NEW c \in Connections, meters[c] # <<>>,
           meters' = [meters EXCEPT ![c] = Tail(@)]
    PROVE  /\ GrantedOf(c)' = 0
           /\ \A x \in Connections \ {c} : meters'[x] = meters[x]
           /\ \A i \in 1..Len(meters'[c]) :
                 i + 1 \in 1..Len(meters[c]) /\ meters'[c][i] = meters[c][i + 1]
<1>1. /\ \A x \in Connections \ {c} : meters'[x] = meters[x]
      /\ Len(meters'[c]) = Len(meters[c]) - 1
      /\ \A i \in 1..Len(meters'[c]) :
            meters'[c][i] = meters[c][i + 1] /\ meters'[c][i].status = "queued"
      /\ meters'[c] # <<>> => 1 \in 1..Len(meters'[c])
  BY FinishedFrame
<1>2. \A i \in 1..Len(meters'[c]) : i + 1 \in 1..Len(meters[c])
  BY <1>1, MeterFacts
<1>3. ASSUME NEW i \in 1..Len(meters'[c]) PROVE meters'[c][i].granted = 0
  <2>1. i + 1 \in 1..Len(meters[c])
    BY <1>2
  <2>2. meters'[c][i] = meters[c][i + 1] /\ meters[c][i + 1].status = "queued"
    BY <1>1
  <2>3. meters[c][i + 1].granted = 0
    BY <2>1, <2>2, QueuedFramesGrantNothing
  <2> QED BY <2>2, <2>3
<1>4. GrantedOf(c)' = 0
  BY <1>1, <1>3 DEF GrantedOf
<1> QED BY <1>1, <1>2, <1>4

LEMMA RecordIsBooked ==
    ASSUME TypeInv, SocketInv, NEW c \in Connections, meters[c] # <<>>,
           NEW remaining \in Nat, Record(c, remaining), torn' = torn, deviceUsage' = deviceUsage,
           \A n \in Nat : Backed(c, n) /\ Spendable(c) => remaining <= n,
           c \notin torn =>
              remaining + meters[c][1].bytes = connections[c].remaining + GrantedOf(c)
    PROVE  Booked(c)
<1> DEFINE device == connections[c].device
           bytes == meters[c][1].bytes
<1>1. PICK phase \in Phases : SameBut(c, phase, remaining) /\ PhaseKept(c, phase)
  BY Recorded
<1>2. /\ meters' = [meters EXCEPT ![c] = Tail(@)]
      /\ metered' = [metered EXCEPT ![device] = @ + bytes]
  BY Recorded
<1>3. /\ GrantedOf(c)' = 0
      /\ \A x \in Connections \ {c} : meters'[x] = meters[x]
      /\ \A i \in 1..Len(meters'[c]) :
            i + 1 \in 1..Len(meters[c]) /\ meters'[c][i] = meters[c][i + 1]
  BY <1>2, NextFrameGrantsNothing
<1>4. /\ device \in Devices /\ metered \in [Devices -> Nat] /\ bytes \in Nat
      /\ deviceUsage[device] \in Nat /\ connections[c].remaining \in Nat
      /\ GrantedOf(c) \in Nat
  BY ConnectionFacts, FrameFacts, MeterFacts DEF TypeInv, UsageTypeOK
<1>5. /\ metered'[device] = metered[device] + bytes
      /\ \A d \in Devices \ {device} : metered'[d] = metered[d]
  BY <1>2, <1>4
<1>6. OnlyOf(c)
  BY <1>1, <1>3 DEF SameBut, OnlyOf
<1>7. Spendable(c)' <=> Spendable(c)
  BY <1>1 DEF SameBut, PhaseKept, Spendable
<1>8. connections'[c].remaining = remaining
  BY <1>1 DEF SameBut
<1>9. ASSUME NEW n \in Nat, Backed(c, n) PROVE Backed(c, n)'
  <2> SUFFICES ASSUME Spendable(c)
               PROVE  /\ connections'[c].remaining + GrantedOf(c)' <= n
                      /\ \A i \in 1..Len(meters'[c]) :
                            meters'[c][i].current + GrantedOf(c)' <= n
    BY <1>7 DEF Backed
  <2>1. connections'[c].remaining + GrantedOf(c)' <= n
    BY <1>3, <1>8, <1>9
  <2>2. ASSUME NEW i \in 1..Len(meters'[c]) PROVE meters'[c][i].current + GrantedOf(c)' <= n
    <3>1. i + 1 \in 1..Len(meters[c]) /\ meters'[c][i] = meters[c][i + 1]
      BY <1>3
    <3>2. meters[c][i + 1].current + GrantedOf(c) <= n /\ meters[c][i + 1].current \in Nat
      BY <1>9, <3>1, MeterFacts DEF Backed
    <3> QED BY <1>3, <1>4, <3>1, <3>2
  <2> QED BY <2>1, <2>2
<1>10. Balanced(c)
  <2> SUFFICES ASSUME c \notin torn
               PROVE  deviceUsage[device] + metered[device] + HeldOf(c) + GrantedOf(c) =
                      deviceUsage[device] + metered'[device] + HeldOf(c)' + GrantedOf(c)'
    BY DEF Balanced
  <2>1. Spendable(c)
    BY DEF SocketInv, Socket
  <2>2. HeldOf(c) = connections[c].remaining /\ HeldOf(c)' = remaining
    BY <1>7, <1>8, <2>1 DEF HeldOf
  <2>3. remaining + bytes = connections[c].remaining + GrantedOf(c)
    OBVIOUS
  <2>4. metered[device] \in Nat
    BY <1>4
  <2> DEFINE was == metered[device]
             used == deviceUsage[device]
             held == connections[c].remaining
             granted == GrantedOf(c)
  <2>5. was \in Nat /\ used \in Nat /\ held \in Nat /\ granted \in Nat
    BY <1>4
  <2>6. remaining + bytes = held + granted
    BY <2>3
  <2>7. metered'[device] = was + bytes
    BY <1>5
  <2> HIDE DEF was, used, held, granted, bytes
  <2>8. used + was + held + granted = used + (was + bytes) + remaining + 0
    BY <1>4, <2>5, <2>6
  <2> QED BY <1>3, <2>2, <2>7, <2>8 DEF was, used, held, granted
<1> QED BY <1>5, <1>6, <1>9, <1>10 DEF Booked

LEMMA SpendIsBooked ==
    ASSUME TypeInv, SocketInv, NEW c \in Connections, spend(c)
    PROVE  Booked(c)
<1> DEFINE remaining == Current(c) - meters[c][1].bytes
<1>1. /\ meters[c] # <<>> /\ meters[c][1].status = "queued" /\ remaining \in Nat
      /\ Record(c, remaining) /\ torn' = torn /\ deviceUsage' = deviceUsage
  BY SpendFacts
<1>2. /\ meters[c][1].bytes \in Nat /\ meters[c][1].current \in Nat
      /\ connections[c].remaining \in Nat /\ Current(c) \in Nat
      /\ 1 \in 1..Len(meters[c])
  BY <1>1, FrameFacts, ConnectionFacts, MeterFacts
<1>3. GrantedOf(c) = 0
  BY <1>1, <1>2, QueuedFramesGrantNothing DEF GrantedOf
<1>4. Current(c) = connections[c].remaining \/ Current(c) = meters[c][1].current
  BY DEF Current
<1>5. ASSUME NEW n \in Nat, Backed(c, n), Spendable(c) PROVE remaining <= n
  <2>1. connections[c].remaining + 0 <= n /\ meters[c][1].current + 0 <= n
    BY <1>2, <1>3, <1>5 DEF Backed
  <2>2. Current(c) <= n
    BY <1>2, <1>4, <2>1
  <2> QED BY <1>2, <2>2
<1>6. c \notin torn => remaining + meters[c][1].bytes = connections[c].remaining + GrantedOf(c)
  <2>1. c \notin torn => Current(c) = connections[c].remaining
    BY <1>1 DEF SocketInv, Socket, Current
  <2> QED BY <1>2, <1>3, <2>1
<1> HIDE DEF remaining
<1> QED BY <1>1, <1>5, <1>6, RecordIsBooked

LEMMA AskIsBooked ==
    ASSUME TypeInv, SocketInv, NEW c \in Connections, ask(c)
    PROVE  Booked(c)
<1>1. /\ meters[c] # <<>> /\ meters[c][1].status = "queued"
      /\ deviceUsage' = deviceUsage /\ metered' = metered /\ torn' = torn
  BY AskFacts
<1>2. PICK phase \in Phases : SameBut(c, phase, connections[c].remaining) /\ PhaseKept(c, phase)
  BY AskFacts
<1>3. PICK frame \in Frame :
         /\ frame = [meters[c][1] EXCEPT !.status = "asked", !.current = Current(c)]
         /\ meters' = [meters EXCEPT ![c] = [@ EXCEPT ![1] = frame]]
  BY AskFacts
<1>4. /\ \A x \in Connections \ {c} : meters'[x] = meters[x]
      /\ Len(meters'[c]) = Len(meters[c]) /\ meters'[c] # <<>>
      /\ meters'[c][1] = frame
      /\ \A i \in 2..Len(meters'[c]) : meters'[c][i] = meters[c][i]
  BY <1>1, <1>3, ChangedFrame
<1>5. /\ frame.granted = meters[c][1].granted /\ frame.current = Current(c)
  BY <1>1, <1>3, FrameFacts DEF Frame
<1>6. GrantedOf(c)' = GrantedOf(c)
  BY <1>1, <1>4, <1>5 DEF GrantedOf
<1>7. /\ connections'[c].remaining = connections[c].remaining
      /\ Spendable(c)' <=> Spendable(c)
  BY <1>2 DEF SameBut, PhaseKept, Spendable
<1>8. OnlyOf(c)
  BY <1>1, <1>2, <1>4 DEF SameBut, OnlyOf
<1>9. ASSUME NEW n \in Nat, Backed(c, n) PROVE Backed(c, n)'
  <2>1. 1 \in 1..Len(meters[c]) /\ Len(meters[c]) \in Nat
    BY <1>1, MeterFacts
  <2>2. Spendable(c) => Current(c) + GrantedOf(c) <= n
    BY <1>9, <2>1 DEF Backed, Current
  <2>3. ASSUME Spendable(c), NEW i \in 1..Len(meters'[c])
        PROVE  meters'[c][i].current + GrantedOf(c)' <= n
    BY <1>4, <1>5, <1>6, <1>9, <2>1, <2>2, <2>3 DEF Backed
  <2> QED BY <1>6, <1>7, <1>9, <2>3 DEF Backed
<1>10. Balanced(c)
  BY <1>1, <1>6, <1>7 DEF Balanced, HeldOf
<1> QED BY <1>1, <1>8, <1>9, <1>10 DEF Booked

LEMMA AnsweredIsBooked ==
    ASSUME TypeInv, SocketInv, NEW c \in Connections, answered(c)
    PROVE  Booked(c)
<1> DEFINE frame == meters[c][1]
           remaining == frame.current + frame.granted - frame.bytes
<1>1. /\ meters[c] # <<>> /\ frame.status = "answered"
      /\ deviceUsage' = deviceUsage /\ torn' = torn
  BY AnsweredFacts
<1>2. /\ frame.bytes \in Nat /\ frame.current \in Nat /\ frame.granted \in Nat
      /\ GrantedOf(c) = frame.granted /\ 1 \in 1..Len(meters[c])
  BY <1>1, FrameFacts, MeterFacts DEF GrantedOf
<1>3. c \notin torn => Spendable(c) /\ frame.current = connections[c].remaining
  BY <1>1 DEF SocketInv, Socket
<1>4. CASE remaining \in Nat /\ Record(c, remaining)
  <2>1. ASSUME NEW n \in Nat, Backed(c, n), Spendable(c) PROVE remaining <= n
    <3>1. frame.current + frame.granted <= n
      BY <1>2, <2>1 DEF Backed
    <3> QED BY <1>2, <3>1
  <2>2. c \notin torn => remaining + frame.bytes = connections[c].remaining + GrantedOf(c)
    BY <1>2, <1>3
  <2> HIDE DEF remaining
  <2> QED BY <1>1, <1>4, <2>1, <2>2, RecordIsBooked
<1>5. CASE /\ frame.granted = 0 /\ meters' = [meters EXCEPT ![c] = Tail(@)]
           /\ metered' = metered
           /\ \E phase \in Phases :
                 SameBut(c, phase, connections[c].remaining) /\ PhaseKept(c, phase)
  <2>1. PICK phase \in Phases :
           SameBut(c, phase, connections[c].remaining) /\ PhaseKept(c, phase)
    BY <1>5
  <2>2. /\ GrantedOf(c)' = 0 /\ GrantedOf(c) = 0
        /\ \A x \in Connections \ {c} : meters'[x] = meters[x]
        /\ \A i \in 1..Len(meters'[c]) :
              i + 1 \in 1..Len(meters[c]) /\ meters'[c][i] = meters[c][i + 1]
    BY <1>1, <1>2, <1>5, NextFrameGrantsNothing
  <2>3. /\ connections'[c].remaining = connections[c].remaining
        /\ Spendable(c)' <=> Spendable(c)
    BY <2>1 DEF SameBut, PhaseKept, Spendable
  <2>4. OnlyOf(c)
    BY <1>1, <2>1, <2>2 DEF SameBut, OnlyOf
  <2>5. \A n \in Nat : Backed(c, n) => Backed(c, n)'
    BY <2>2, <2>3 DEF Backed
  <2>6. Balanced(c)
    BY <1>1, <1>5, <2>2, <2>3 DEF Balanced, HeldOf
  <2> QED BY <1>5, <2>4, <2>5, <2>6 DEF Booked
<1> QED BY <1>4, <1>5, AnsweredFacts

LEMMA FailureIsBooked ==
    ASSUME TypeInv, SocketInv, NEW c \in Connections, reservationFails(c)
    PROVE  Booked(c)
<1>1. /\ meters[c] # <<>> /\ meters' = [meters EXCEPT ![c] = Tail(@)]
      /\ torn' = torn \cup {x \in {c} : meters[x][1].granted > 0}
      /\ deviceUsage' = deviceUsage /\ metered' = metered /\ connections' = connections
  BY DEF reservationFails, ledgerVars
<1>2. /\ GrantedOf(c)' = 0
      /\ \A x \in Connections \ {c} : meters'[x] = meters[x]
      /\ \A i \in 1..Len(meters'[c]) :
            i + 1 \in 1..Len(meters[c]) /\ meters'[c][i] = meters[c][i + 1]
  BY <1>1, NextFrameGrantsNothing
<1>3. OnlyOf(c)
  BY <1>1, <1>2 DEF OnlyOf
<1>4. GrantedOf(c) \in Nat /\ GrantedOf(c) = meters[c][1].granted
      /\ connections[c].remaining \in Nat
  BY <1>1, MeterFacts, ConnectionFacts DEF GrantedOf
<1>5. c \notin torn' => GrantedOf(c) = 0
  BY <1>1, <1>4
<1>6. ASSUME NEW n \in Nat, Backed(c, n) PROVE Backed(c, n)'
  <2>1. ASSUME Spendable(c), NEW i \in 1..Len(meters'[c])
        PROVE  meters'[c][i].current + 0 <= n
    <3>1. i + 1 \in 1..Len(meters[c]) /\ meters'[c][i] = meters[c][i + 1]
      BY <1>2
    <3>2. meters[c][i + 1].current + GrantedOf(c) <= n /\ meters[c][i + 1].current \in Nat
      BY <1>6, <2>1, <3>1, MeterFacts DEF Backed
    <3> QED BY <1>4, <3>1, <3>2
  <2>2. Spendable(c) => connections[c].remaining + 0 <= n
    BY <1>4, <1>6 DEF Backed
  <2> QED BY <1>1, <1>2, <2>1, <2>2 DEF Backed, Spendable
<1>7. Balanced(c)
  BY <1>1, <1>2, <1>5 DEF Balanced, HeldOf, Spendable
<1> QED BY <1>1, <1>3, <1>6, <1>7 DEF Booked

LEMMA ArrivalIsBooked ==
    ASSUME TypeInv, SocketInv, NEW c \in Connections, NEW bytes \in FrameSizes,
           receiveEnvelope(c, bytes)
    PROVE  Booked(c)
<1> DEFINE frame == [bytes |-> bytes, current |-> connections[c].remaining,
                     status |-> "queued", granted |-> 0]
<1>1. /\ meters' = [meters EXCEPT ![c] = Append(@, frame)]
      /\ deviceUsage' = deviceUsage /\ metered' = metered
      /\ connections' = connections /\ torn' = torn
  BY DEF receiveEnvelope, ledgerVars, history
<1>2. frame \in Frame /\ frame.granted = 0 /\ frame.current = connections[c].remaining
  BY ConnectionFacts DEF Frame
<1> HIDE DEF frame
<1>3. /\ \A x \in Connections \ {c} : meters'[x] = meters[x]
      /\ meters'[c] # <<>> /\ Len(meters'[c]) = Len(meters[c]) + 1
      /\ \A i \in 1..Len(meters[c]) : meters'[c][i] = meters[c][i]
      /\ meters'[c][Len(meters[c]) + 1] = frame
  BY <1>1, <1>2, AppendedFrames
<1>4. Len(meters[c]) \in Nat /\ (meters[c] = <<>> <=> Len(meters[c]) = 0)
  BY MeterFacts
<1>5. GrantedOf(c)' = GrantedOf(c)
  <2>1. CASE meters[c] = <<>>
    <3>1. meters'[c][1] = frame
      BY <1>3, <1>4, <2>1
    <3> QED BY <1>2, <1>3, <2>1, <3>1 DEF GrantedOf
  <2>2. CASE meters[c] # <<>>
    <3>1. meters'[c][1] = meters[c][1]
      BY <1>3, <1>4, <2>2
    <3> QED BY <1>3, <2>2, <3>1 DEF GrantedOf
  <2> QED BY <2>1, <2>2
<1>6. OnlyOf(c)
  BY <1>1, <1>3 DEF OnlyOf
<1>7. ASSUME NEW n \in Nat, Backed(c, n) PROVE Backed(c, n)'
  <2>1. \A i \in 1..Len(meters'[c]) : i \in 1..Len(meters[c]) \/ i = Len(meters[c]) + 1
    BY <1>3, <1>4
  <2>2. ASSUME Spendable(c), NEW i \in 1..Len(meters'[c])
        PROVE  meters'[c][i].current + GrantedOf(c) <= n
    BY <1>2, <1>3, <1>7, <2>1, <2>2 DEF Backed
  <2> QED BY <1>1, <1>5, <1>7, <2>2 DEF Backed, Spendable
<1>8. Balanced(c)
  BY <1>1, <1>5 DEF Balanced, HeldOf, Spendable
<1> QED BY <1>1, <1>6, <1>7, <1>8 DEF Booked

LEMMA PhaseIsBooked ==
    ASSUME TypeInv, SocketInv, NEW c \in Connections,
           admissionRefused(c) \/ admissionFails(c) \/ fetch(c) \/ close(c)
    PROVE  Booked(c) /\ account' = account /\ deviceUsage' = deviceUsage
<1>1. /\ meters' = meters /\ torn' = torn /\ metered' = metered
      /\ account' = account /\ deviceUsage' = deviceUsage
  <2>1. account \in Nat /\ deviceUsage \in [Devices -> Nat] /\ connections[c].device \in Devices
    BY ConnectionFacts DEF TypeInv, UsageTypeOK
  <2>2. \A n \in Nat : Minus(n, 0) = n
    BY DEF Minus
  <2>3. release(c, connections[c].device, 0) => account' = account /\ deviceUsage' = deviceUsage
    BY <2>1, <2>2 DEF release
  <2> QED BY <2>3 DEF admissionRefused, admissionFails, fetch, close, ledgerVars, history
<1>2. PICK phase \in Phases :
         /\ Becomes(c, phase)
         /\ \/ connections[c].phase = "admitted"
            \/ connections[c].phase = "open" /\ phase = "closing"
  BY DEF admissionRefused, admissionFails, fetch, close, Phases
<1>3. SameBut(c, phase, connections[c].remaining)
  BY <1>2, PhaseChanged
<1>4. /\ connections'[c].remaining = connections[c].remaining
      /\ connections'[c].phase = phase
  BY <1>3 DEF SameBut
<1>5. OnlyOf(c) /\ GrantedOf(c)' = GrantedOf(c)
  BY <1>1, <1>3 DEF SameBut, OnlyOf, GrantedOf
<1>6. CASE connections[c].phase = "admitted"
  <2>1. connections[c].remaining = 0 /\ meters[c] = <<>> /\ Len(meters[c]) = 0
    BY <1>6, MeterFacts DEF SocketInv, Socket
  <2>2. GrantedOf(c) = 0 /\ HeldOf(c) = 0 /\ HeldOf(c)' = 0
    BY <1>4, <2>1 DEF GrantedOf, HeldOf
  <2>3. \A n \in Nat : Backed(c, n)'
    BY <1>1, <1>4, <1>5, <2>1, <2>2 DEF Backed
  <2> QED BY <1>1, <1>5, <2>2, <2>3 DEF Booked, Balanced
<1>7. CASE connections[c].phase = "open" /\ phase = "closing"
  <2>1. Spendable(c) /\ Spendable(c)'
    BY <1>4, <1>7 DEF Spendable
  <2>2. HeldOf(c)' = HeldOf(c)
    BY <1>4, <2>1 DEF HeldOf
  <2>3. \A n \in Nat : Backed(c, n) => Backed(c, n)'
    BY <1>1, <1>4, <1>5, <2>1 DEF Backed
  <2> QED BY <1>1, <1>5, <2>2, <2>3 DEF Booked, Balanced
<1> QED BY <1>1, <1>2, <1>6, <1>7

LEMMA AdmitIsBooked ==
    ASSUME TypeInv, SocketInv, NEW c \in Connections,
           NEW client \in Clients, NEW seconds \in GrantSeconds, admit(c, client, seconds)
    PROVE  Booked(c)
<1>1. /\ meters' = meters /\ torn' = torn /\ metered' = metered /\ deviceUsage' = deviceUsage
      /\ connections[c].phase = "new"
  BY DEF admit, history
<1>2. /\ \A x \in Connections \ {c} : connections'[x] = connections[x]
      /\ connections'[c].phase \in {"admitted", "gone"}
      /\ connections'[c].device = connections[c].device
  <2>1. connections \in [Connections -> Connection] /\ connections[c] \in Connection
    BY TypeInvParts DEF ConnectionsTyped
  <2> QED BY <2>1 DEF admit, Connection
<1>3. OnlyOf(c) /\ GrantedOf(c)' = GrantedOf(c)
  BY <1>1, <1>2 DEF OnlyOf, GrantedOf
<1>4. ~Spendable(c) /\ ~Spendable(c)'
  BY <1>1, <1>2 DEF Spendable
<1> QED BY <1>1, <1>3, <1>4 DEF Booked, Balanced, Backed, HeldOf

\* A reservation is charged before its answer brings it to the socket.
LEMMA ReserveKeepsBookings ==
    ASSUME TypeInv, TypeInv', SocketInv, BookingInv, NEW c \in Connections, reserveTransfer(c)
    PROVE  BookingInv'
<1> DEFINE device == connections[c].device
<1>1. /\ meters[c] # <<>> /\ meters[c][1].status = "asked"
      /\ connections' = connections /\ metered' = metered /\ torn' = torn
  BY ReserveFacts
<1>2. PICK bytes \in Nat : \E frame \in Frame :
         /\ frame = [meters[c][1] EXCEPT !.status = "answered", !.granted = bytes]
         /\ meters' = [meters EXCEPT ![c] = [@ EXCEPT ![1] = frame]]
         /\ account' = account + bytes
         /\ deviceUsage' = [deviceUsage EXCEPT ![device] = @ + bytes]
  BY ReserveFacts
<1>3. PICK frame \in Frame :
         /\ frame = [meters[c][1] EXCEPT !.status = "answered", !.granted = bytes]
         /\ meters' = [meters EXCEPT ![c] = [@ EXCEPT ![1] = frame]]
  BY <1>2
<1>4. /\ \A x \in Connections \ {c} : meters'[x] = meters[x]
      /\ Len(meters'[c]) = Len(meters[c]) /\ meters'[c] # <<>>
      /\ meters'[c][1] = frame
      /\ \A i \in 2..Len(meters'[c]) : meters'[c][i] = meters[c][i]
  BY <1>1, <1>3, ChangedFrame
<1>5. frame.granted = bytes /\ frame.current = meters[c][1].current
  BY <1>1, <1>3, FrameFacts DEF Frame
<1>6. Len(meters[c]) \in Nat /\ 1 \in 1..Len(meters[c])
  BY <1>1, MeterFacts
<1>7. GrantedOf(c) = 0 /\ GrantedOf(c)' = bytes
  <2>1. meters[c][1].granted = 0
    BY <1>1, <1>6, QueuedFramesGrantNothing
  <2> QED BY <1>1, <1>4, <1>5, <2>1 DEF GrantedOf
<1>8. OnlyOf(c)
  BY <1>1, <1>4 DEF OnlyOf
<1>9. Spendable(c)' <=> Spendable(c)
  BY <1>1 DEF Spendable
<1>10. ASSUME NEW n \in Nat, Backed(c, n) PROVE n + bytes \in Nat /\ Backed(c, n + bytes)'
  <2>1. n + bytes \in Nat
    OBVIOUS
  <2>2. ASSUME Spendable(c), NEW i \in 1..Len(meters'[c])
        PROVE  meters'[c][i].current + bytes <= n + bytes
    <3>1. i \in 1..Len(meters[c]) /\ meters'[c][i].current = meters[c][i].current
      BY <1>4, <1>5, <1>6
    <3>2. meters[c][i].current + 0 <= n /\ meters[c][i].current \in Nat
      BY <1>7, <1>10, <2>2, <3>1, MeterFacts DEF Backed
    <3> QED BY <3>1, <3>2
  <2>3. Spendable(c) => connections[c].remaining + bytes <= n + bytes
    <3>1. Spendable(c) => connections[c].remaining + 0 <= n
      BY <1>7, <1>10 DEF Backed
    <3>2. connections[c].remaining \in Nat
      BY ConnectionFacts
    <3> QED BY <3>1, <3>2
  <2> DEFINE more == n + bytes
  <2>4. Spendable(c) => /\ connections[c].remaining + bytes <= more
                        /\ \A i \in 1..Len(meters'[c]) : meters'[c][i].current + bytes <= more
    BY <2>2, <2>3
  <2> HIDE DEF more
  <2>5. Backed(c, more)'
    BY <1>1, <1>7, <1>9, <2>4 DEF Backed
  <2> QED BY <2>1, <2>5 DEF more
<1>11. AccountIsSumOfDevices' /\ ChargeInv'
  <2>1. AccountIsSumOfDevices /\ ChargeInv
    BY DEF BookingInv
  <2>2. bytes \in Int /\ account' = account + bytes
        /\ deviceUsage' = [deviceUsage EXCEPT ![device] = @ + bytes]
    BY <1>2
  <2> QED BY <1>8, <1>10, <2>1, <2>2, ChargeGoesOn
<1>12. /\ device \in Devices /\ deviceUsage \in [Devices -> Nat]
       /\ metered[device] \in Nat /\ HeldOf(c) \in Nat
  BY ConnectionFacts, HeldIsNatural DEF TypeInv, UsageTypeOK
<1>13. /\ deviceUsage'[device] = deviceUsage[device] + bytes
       /\ \A d \in Devices \ {device} : deviceUsage'[d] = deviceUsage[d]
  BY <1>2, <1>12
<1>14. Balanced(c)
  <2>1. HeldOf(c)' = HeldOf(c)
    BY <1>1, <1>9 DEF HeldOf
  <2> DEFINE used == deviceUsage[device]
             was == metered[device]
             held == HeldOf(c)
  <2>2. used \in Nat /\ was \in Nat /\ held \in Nat
    BY <1>12
  <2> HIDE DEF used, was, held
  <2>3. (used + bytes) + was + held + 0 = used + was + held + bytes
    BY <2>2
  <2> QED BY <1>1, <1>7, <1>13, <2>1, <2>3 DEF Balanced, used, was, held
<1>15. TransferInv'
  BY <1>1, <1>8, <1>13, <1>14, TransferGoesOn DEF BookingInv
<1> QED BY <1>11, <1>15 DEF BookingInv

\* A close returns what the socket has left, once.
LEMMA CloseKeepsBookings ==
    ASSUME TypeInv, TypeInv', SocketInv, BookingInv, NEW c \in Connections, webSocketClose(c)
    PROVE  BookingInv'
<1> DEFINE device == connections[c].device
           unused == connections[c].remaining
<1>1. /\ connections[c].phase = "closing" /\ meters' = meters /\ metered' = metered
      /\ torn' = torn \cup {x \in {c} : meters[x] # <<>>}
      /\ connections' = [connections EXCEPT ![c].phase = "gone",
             ![c].refunded = unused, ![c].closedAt = now]
  BY DEF webSocketClose
<1>2. /\ \A x \in Connections \ {c} : connections'[x] = connections[x]
      /\ connections'[c].phase = "gone" /\ connections'[c].device = device
  BY <1>1, TypeInvParts DEF ConnectionsTyped, Connection
<1>3. OnlyOf(c)
  BY <1>1, <1>2 DEF OnlyOf
<1>4. Spendable(c) /\ ~Spendable(c)'
  BY <1>1, <1>2 DEF Spendable
<1>5. /\ device \in Devices /\ unused \in Nat /\ account \in Nat
      /\ deviceUsage \in [Devices -> Nat]
      /\ deviceUsage[device] \in Nat /\ metered[device] \in Nat /\ GrantedOf(c) \in Nat
  BY ConnectionFacts, HeldIsNatural DEF TypeInv, UsageTypeOK
<1>6. unused <= deviceUsage[device] /\ unused <= account
  BY <1>4, RefundIsCharged DEF BookingInv
<1>7. account' = Minus(account, unused)
      /\ deviceUsage' = [deviceUsage EXCEPT ![device] = Minus(@, unused)]
  <2>1. released[c] = None
    BY <1>1 DEF SocketInv, Socket
  <2> QED BY <2>1 DEF webSocketClose, release
<1>8. PICK delta \in Int : delta = 0 - unused
  BY <1>5
<1>9. \A n \in Nat : unused <= n => Minus(n, unused) = n + delta
  BY <1>5, <1>8 DEF Minus
<1>10. account' = account + delta /\ deviceUsage' = [deviceUsage EXCEPT ![device] = @ + delta]
  BY <1>5, <1>6, <1>7, <1>9
<1>11. ASSUME NEW n \in Nat, Backed(c, n) PROVE n + delta \in Nat /\ Backed(c, n + delta)'
  <2>1. unused <= n
    BY <1>4, <1>5, <1>11 DEF Backed
  <2>2. n + delta \in Nat
    BY <1>5, <1>8, <2>1
  <2> DEFINE less == n + delta
  <2> HIDE DEF less
  <2>3. Backed(c, less)'
    BY <1>4 DEF Backed
  <2> QED BY <2>2, <2>3 DEF less
<1>12. AccountIsSumOfDevices' /\ ChargeInv'
  <2>1. AccountIsSumOfDevices /\ ChargeInv
    BY DEF BookingInv
  <2> QED BY <1>3, <1>10, <1>11, <2>1, ChargeGoesOn
<1>13. /\ deviceUsage'[device] = deviceUsage[device] + delta
       /\ \A d \in Devices \ {device} : deviceUsage'[d] = deviceUsage[d]
  BY <1>5, <1>10
<1>14. Balanced(c)
  <2>1. HeldOf(c) = unused /\ HeldOf(c)' = 0 /\ GrantedOf(c)' = GrantedOf(c)
    BY <1>1, <1>4 DEF HeldOf, GrantedOf
  <2> DEFINE used == deviceUsage[device]
             was == metered[device]
             granted == GrantedOf(c)
             left == unused
  <2>2. used \in Nat /\ was \in Nat /\ granted \in Nat /\ left \in Nat
    BY <1>5
  <2>3. delta = 0 - left
    BY <1>8
  <2> HIDE DEF used, was, granted, left
  <2>4. (used + delta) + was + left + granted = used + was + 0 + granted
    BY <2>2, <2>3
  <2> QED BY <1>1, <1>13, <2>1, <2>4 DEF Balanced, used, was, granted, left
<1>15. TransferInv'
  BY <1>1, <1>3, <1>13, <1>14, TransferGoesOn DEF BookingInv
<1> QED BY <1>12, <1>15 DEF BookingInv

\* A close that is reported again finds its fence.
LEMMA FenceKeepsBookings ==
    ASSUME TypeInv, SocketInv, NEW c \in Connections, releaseAgain(c)
    PROVE  Booked(c) /\ account' = account /\ deviceUsage' = deviceUsage
<1>1. /\ connections' = connections /\ meters' = meters /\ metered' = metered /\ torn' = torn
      /\ connections[c].closedAt # None /\ now < connections[c].closedAt + FenceSeconds
  BY DEF releaseAgain, history
<1>2. released[c] # None
  BY <1>1 DEF SocketInv, Socket
<1>3. account' = account /\ deviceUsage' = deviceUsage
  BY <1>2 DEF releaseAgain, release
<1>4. OnlyOf(c)
  BY <1>1 DEF OnlyOf
<1> QED BY <1>1, <1>3, <1>4 DEF Booked, Balanced, Backed, HeldOf, GrantedOf, Spendable

LEMMA BookingStep ==
    TypeInv /\ TypeInv' /\ SocketInv /\ BookingInv /\ [Next]_vars => BookingInv'
<1> SUFFICES ASSUME TypeInv, TypeInv', SocketInv, BookingInv, [Next]_vars PROVE BookingInv'
  OBVIOUS
<1>1. CASE tick \/ UNCHANGED vars
  <2>1. /\ account' = account /\ deviceUsage' = deviceUsage /\ connections' = connections
        /\ meters' = meters /\ metered' = metered /\ torn \subseteq torn'
    BY <1>1 DEF tick, vars, ledgerVars, history
  <2>2. AccountIsSumOfDevices'
    BY <2>1 DEF BookingInv, AccountIsSumOfDevices, SumOf
  <2>3. ChargeInv'
    BY <2>1 DEF BookingInv, ChargeInv, Backed, Spendable, GrantedOf, Of
  <2>4. HeldBy' = HeldBy /\ GrantedBy' = GrantedBy /\ \A d \in Devices : Of(d)' = Of(d)
    BY <2>1 DEF HeldBy, GrantedBy, HeldOf, GrantedOf, Spendable, Of
  <2>5. TransferInv'
    BY <2>1, <2>4 DEF BookingInv, TransferInv, SumOf
  <2> QED BY <2>2, <2>3, <2>5 DEF BookingInv
<1>2. ASSUME NEW c \in Connections,
             \E client \in Clients, seconds \in GrantSeconds : admit(c, client, seconds)
      PROVE  BookingInv'
  BY <1>2, AdmitIsBooked, BookingsStay DEF admit
<1>3. ASSUME NEW c \in Connections, \E bytes \in FrameSizes : receiveEnvelope(c, bytes)
      PROVE  BookingInv'
  BY <1>3, ArrivalIsBooked, BookingsStay DEF receiveEnvelope, ledgerVars
<1>4. ASSUME NEW c \in Connections,
             admissionRefused(c) \/ admissionFails(c) \/ fetch(c) \/ close(c)
      PROVE  BookingInv'
  BY <1>4, PhaseIsBooked, BookingsStay
<1>5. ASSUME NEW c \in Connections, spend(c) PROVE BookingInv'
  BY <1>5, SpendIsBooked, SpendFacts, BookingsStay
<1>6. ASSUME NEW c \in Connections, ask(c) PROVE BookingInv'
  BY <1>6, AskIsBooked, AskFacts, BookingsStay
<1>7. ASSUME NEW c \in Connections, reserveTransfer(c) PROVE BookingInv'
  BY <1>7, ReserveKeepsBookings
<1>8. ASSUME NEW c \in Connections, answered(c) PROVE BookingInv'
  BY <1>8, AnsweredIsBooked, AnsweredFacts, BookingsStay
<1>9. ASSUME NEW c \in Connections, reservationFails(c) PROVE BookingInv'
  BY <1>9, FailureIsBooked, BookingsStay DEF reservationFails, ledgerVars
<1>10. ASSUME NEW c \in Connections, webSocketClose(c) PROVE BookingInv'
  BY <1>10, CloseKeepsBookings
<1>11. ASSUME NEW c \in Connections, releaseAgain(c) PROVE BookingInv'
  BY <1>11, FenceKeepsBookings, BookingsStay
<1> QED BY <1>1, <1>2, <1>3, <1>4, <1>5, <1>6, <1>7, <1>8, <1>9, <1>10, <1>11 DEF Next

LEMMA BookingInit == Init => BookingInv
<1> SUFFICES ASSUME Init PROVE BookingInv
  OBVIOUS
<1>1. PICK device \in [Connections -> Devices] :
          connections = [x \in Connections |-> NewConnection(device[x])]
  BY DEF Init
<1>2. /\ account = 0 /\ deviceUsage = [d \in Devices |-> 0] /\ metered = [d \in Devices |-> 0]
      /\ \A c \in Connections : meters[c] = <<>> /\ connections[c].phase = "new"
  BY <1>1 DEF Init, NewConnection
<1>3. \A c \in Connections : HeldBy[c] = 0 /\ GrantedBy[c] = 0 /\ ~Spendable(c)
  BY <1>2 DEF HeldBy, GrantedBy, HeldOf, GrantedOf, Spendable
<1> DEFINE charge == [c \in Connections |-> 0]
<1>4. /\ charge \in [Connections -> Nat] /\ \A c \in Connections : charge[c] = 0
  OBVIOUS
<1> HIDE DEF charge
<1>5. ASSUME NEW d \in Devices
      PROVE  /\ SumOf(charge, Of(d)) = 0 /\ SumOf(HeldBy, Of(d)) = 0
             /\ SumOf(GrantedBy, Of(d)) = 0
             /\ deviceUsage[d] = 0 /\ metered[d] = 0
  <2>1. Of(d) \subseteq Connections
    BY OfIsFinite
  <2>2. deviceUsage[d] = 0 /\ metered[d] = 0
    BY <1>2
  <2>3. SumOf(charge, Of(d)) = 0
    BY <1>4, <2>1, SumOfZeros
  <2>4. SumOf(HeldBy, Of(d)) = 0
    BY <1>3, <2>1, SumOfZeros
  <2>5. SumOf(GrantedBy, Of(d)) = 0
    BY <1>3, <2>1, SumOfZeros
  <2> QED BY <2>2, <2>3, <2>4, <2>5
<1>6. SumOf(deviceUsage, Devices) = 0
  <2>1. \A d \in Devices : deviceUsage[d] = 0
    BY <1>2
  <2> QED BY <2>1, SumOfZeros
<1>7. ChargeInv
  BY <1>3, <1>4, <1>5 DEF ChargeInv, Backed
<1>8. TransferInv
  BY <1>5 DEF TransferInv
<1> QED BY <1>2, <1>6, <1>7, <1>8 DEF BookingInv, AccountIsSumOfDevices

\* Whatever is reserved, refunded, failed or repeated, for any number of connections and
\* devices and any policy: the account is charged what its devices are charged together.
THEOREM AccountCorrect == Spec => []AccountIsSumOfDevices
<1>1. TypeInv /\ TypeInv' /\ SocketInv /\ BookingInv /\ [Next]_vars => BookingInv'
  BY BookingStep
<1>2. BookingInv => AccountIsSumOfDevices
  BY DEF BookingInv
<1> QED BY <1>1, <1>2, TypeInvInit, TypeInvStep, SocketInit, SocketStep, BookingInit, PTL DEF Spec

\* What the sockets of a device hold, as the properties count it.
LEMMA RefundableIsHeld ==
    ASSUME NEW d PROVE Refundable(d) = SumOf(HeldBy, Of(d))
<1> DEFINE some == {c \in Connections : /\ connections[c].device = d
                                        /\ connections[c].phase \in {"open", "closing"}}
           remaining == [c \in Connections |-> connections[c].remaining]
<1>1. some \in SUBSET Of(d) /\ Of(d) \subseteq Connections
  BY DEF Of
<1>2. \A c \in some : HeldBy[c] = remaining[c]
  BY DEF HeldBy, HeldOf, Spendable
<1>3. \A c \in Of(d) \ some : HeldBy[c] = 0
  BY DEF HeldBy, HeldOf, Spendable, Of
<1>4. Refundable(d) = SumOf(remaining, some)
  BY DEF Refundable
<1> HIDE DEF some, remaining
<1>5. SumOf(HeldBy, Of(d)) = SumOf(remaining, some)
  BY <1>1, <1>2, <1>3, SumOfSome
<1> QED BY <1>4, <1>5

\* A device is charged at least what its sockets would return together: no refund, in any
\* order of answers, closes, repeated closes and expiries, meets the clamp at zero.
THEOREM RefundsCorrect == Spec => []RefundsAreCovered
<1>1. TypeInv /\ TypeInv' /\ SocketInv /\ BookingInv /\ [Next]_vars => BookingInv'
  BY BookingStep
<1>2. TypeInv /\ BookingInv => RefundsAreCovered
  <2> SUFFICES ASSUME TypeInv, BookingInv, NEW d \in Devices
               PROVE  deviceUsage[d] >= Refundable(d)
    BY DEF RefundsAreCovered
  <2>1. PICK charge :
           /\ charge \in [Connections -> Nat]
           /\ \A x \in Devices : deviceUsage[x] = SumOf(charge, Of(x))
           /\ \A c \in Connections : Backed(c, charge[c])
    BY DEF BookingInv, ChargeInv
  <2>2. ASSUME NEW c \in Connections
        PROVE  HeldBy[c] \in Nat /\ charge[c] \in Nat /\ HeldBy[c] <= charge[c]
    <3>1. HeldBy[c] = HeldOf(c) /\ HeldOf(c) \in Nat /\ GrantedOf(c) \in Nat /\ charge[c] \in Nat
          /\ connections[c].remaining \in Nat
      BY <2>1, HeldIsNatural, ConnectionFacts
    <3>2. Spendable(c) => connections[c].remaining + GrantedOf(c) <= charge[c]
      BY <2>1 DEF Backed
    <3>3. HeldOf(c) <= charge[c]
      BY <3>1, <3>2 DEF HeldOf
    <3> QED BY <3>1, <3>3
  <2>3. IsFiniteSet(Of(d)) /\ Of(d) \subseteq Connections
    BY OfIsFinite
  <2>4. /\ SumOf(HeldBy, Of(d)) \in Nat /\ SumOf(charge, Of(d)) \in Nat
        /\ SumOf(HeldBy, Of(d)) <= SumOf(charge, Of(d))
    <3>1. \A c \in Of(d) : HeldBy[c] \in Nat /\ charge[c] \in Nat /\ HeldBy[c] <= charge[c]
      BY <2>2, <2>3
    <3> QED BY <2>3, <3>1, SumAtMost
  <2>5. deviceUsage[d] = SumOf(charge, Of(d))
    BY <2>1
  <2> QED BY <2>4, <2>5, RefundableIsHeld
<1> QED BY <1>1, <1>2, TypeInvInit, TypeInvStep, SocketInit, SocketStep, BookingInit, PTL DEF Spec

\* A device whose sockets neither expired nor were closed with a frame in meterTransfer,
\* and lost no answer, is charged exactly what was transferred and what they may spend.
THEOREM TransfersCorrect == Spec => []ChargedIsTransferred
<1>1. TypeInv /\ TypeInv' /\ SocketInv /\ BookingInv /\ [Next]_vars => BookingInv'
  BY BookingStep
<1>2. BookingInv => ChargedIsTransferred
  <2> SUFFICES ASSUME BookingInv, NEW d \in Devices,
                      \A c \in torn : connections[c].device # d
               PROVE  deviceUsage[d] = metered[d] + Refundable(d) + Granted(d)
    BY DEF ChargedIsTransferred
  <2>1. deviceUsage[d] = metered[d] + SumOf(HeldBy, Of(d)) + SumOf(GrantedBy, Of(d))
    BY DEF BookingInv, TransferInv
  <2>2. Granted(d) = SumOf(GrantedBy, Of(d))
    BY DEF Granted, GrantedBy, GrantedOf, Of
  <2> QED BY <2>1, <2>2, RefundableIsHeld
<1> QED BY <1>1, <1>2, TypeInvInit, TypeInvStep, SocketInit, SocketStep, BookingInit, PTL DEF Spec

=============================================================================
