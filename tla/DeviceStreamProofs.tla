------------------------- MODULE DeviceStreamProofs -------------------------
(***************************************************************************)
(* What a session's device stream carries, for every number of commands,   *)
(* tunnels, controllers and restarts: what is sent twice is the same, what *)
(* the relay holds was persisted before, what it lacks is still persisted, *)
(* the first flush of a tunnel leaves no gap, and the composition keeps    *)
(* the promise of RemoteCommands.                                          *)
(*                                                                         *)
(* The ledger gives every number once (LedgerInvariant of                  *)
(* CommandLedgerProofs, which holds of the composition because it          *)
(* implements the ledger). StreamInv adds that everything sent has such a  *)
(* number: every envelope on its way was in the ledger when it was taken   *)
(* from there, and later numbers are larger.                               *)
(*                                                                         *)
(* With these numbers a command's answers stand in one order, the events   *)
(* without a number behind those that have one. AnswersInOrder says what   *)
(* the order is; together with the ledger's invariants it carries the      *)
(* refinement of RemoteCommands, step by step.                             *)
(***************************************************************************)
EXTENDS DeviceTunnelProofs, Counting

-----------------------------------------------------------------------------
(* The invariant.                                                          *)

\* The envelopes that the ledger keeps, those that the relay holds, and those that a
\* tunnel is sending or a lost connection may still deliver.
KeptEnvelopes ==
    UNION {{[sequence |-> commands[c].outgoing[i].sequence, command |-> c,
             kind |-> commands[c].outgoing[i].kind] :
                i \in DOMAIN commands[c].outgoing} : c \in Ledger!Retained}

Streamed == {stream[i] : i \in DOMAIN stream}

Sent == Streamed \cup ({delayed} \ {None}) \cup UNION {tunnels[t].sending : t \in Running}

\* Only the first flush is known to be complete: a notified one may have been passed
\* at the gate by a later one.
FlushIsComplete(tunnel, length) ==
    tunnel.phase = "opened" =>
        \A e \in tunnel.sending : \A n \in (length + 1)..e.sequence :
            \E f \in tunnel.sending : f.sequence = n

\* A tunnel's next number is at most the one that the relay expects.
Good(tunnel, length) ==
    /\ tunnel \in Tunnel
    /\ tunnel.next <= length + 1
    /\ tunnel.phase = "connecting" => tunnel.sending = {}
    /\ FlushIsComplete(tunnel, length)

Table ==
    /\ DOMAIN tunnels = Tunnels
    /\ \A t \in Tunnels : tunnels[t] = None \/ Good(tunnels[t], Len(stream))
    /\ holder \in Running \cup {None}

Relayed ==
    /\ stream \in Seq(Envelope)
    /\ \A i \in DOMAIN stream : stream[i].sequence = i
    /\ delayed \in Envelope \cup {None}
    /\ grantedScope \in Scopes
    /\ acknowledgedOutgoing <= Len(stream)

\* No two envelopes share a number, and none has one that the ledger has yet to give.
OneEnvelopePerNumber ==
    /\ \A e \in Sent : e.sequence < nextOutgoing
    /\ \A e \in Sent, f \in Sent \cup KeptEnvelopes : e.sequence = f.sequence => e = f

StreamInv == Table /\ Relayed /\ OneEnvelopePerNumber

\* For the type alone.
TunnelsAreAFunction == tunnels = [t \in DOMAIN tunnels |-> tunnels[t]]

-----------------------------------------------------------------------------
(* Envelopes.                                                              *)

\* The ledger's own assumptions.
LEMMA LedgerIsParameterized ==
    /\ MaxRetainedCommands \in Nat \ {0} /\ MaxEventsPerCommand \in Nat \ {0}
    /\ MaxCommands \in Nat /\ MaxCrashes \in Nat
    /\ \A scope \in Scopes : {scope.attachmentGeneration, scope.leaseGeneration} \subseteq Nat
    /\ None \notin Scopes \cup Ledger!PersistedCommand
    /\ None \notin {"running"} \cup Ledger!Settled
BY BoundsAreNumbers, PolicyIsPositive, GenerationsAreNumbers, NoneIsNoValue, NoneIsNoRecord
   DEF Ledger!Settled

\* What the ledger keeps is typed, and numbered once.
KeptIsNumbered ==
    /\ KeptEnvelopes \subseteq Envelope
    /\ \A e \in KeptEnvelopes : e.sequence < nextOutgoing
    /\ \A e, f \in KeptEnvelopes : e.sequence = f.sequence => e = f

LEMMA KeptAreNumbered == Ledger!LedgerInvariant => KeptIsNumbered
<1> SUFFICES ASSUME Ledger!LedgerInvariant PROVE KeptIsNumbered
  OBVIOUS
<1> DEFINE envelope(c, i) == [sequence |-> commands[c].outgoing[i].sequence, command |-> c,
                              kind |-> commands[c].outgoing[i].kind]
           Response == [sequence: Nat \ {0}, kind: Ledger!EventKind]
<1>1. \A e \in KeptEnvelopes : \E c \in Ledger!Retained :
          \E i \in DOMAIN commands[c].outgoing : e = envelope(c, i)
  BY DEF KeptEnvelopes
<1>2. ASSUME NEW c \in Ledger!Retained, NEW i \in DOMAIN commands[c].outgoing
      PROVE  commands[c].outgoing[i] \in Response /\ c \in Commands /\ i \in Int
  <2>1. commands[c].outgoing \in Seq(Response) /\ c \in Commands
    BY DEF Ledger!LedgerInvariant, Ledger!Typed, Ledger!Kept, Ledger!Retained,
           Ledger!PersistedCommand, Ledger!Commands, Commands
  <2>2. DOMAIN commands[c].outgoing = 1..Len(commands[c].outgoing)
        /\ Len(commands[c].outgoing) \in Nat
    BY <2>1, LenProperties
  <2> HIDE DEF Response
  <2> QED BY <2>1, <2>2, ElementOfSeq
<1>3. ASSUME NEW c \in Ledger!Retained, NEW i \in DOMAIN commands[c].outgoing
      PROVE  envelope(c, i) \in Envelope /\ envelope(c, i).sequence < nextOutgoing
  <2>1. commands[c].outgoing[i].sequence < nextOutgoing
    BY DEF Ledger!LedgerInvariant, Ledger!Numbered, Ledger!OutgoingNumbersAreUnique
  <2> QED BY <1>2, <2>1 DEF Envelope
<1>4. ASSUME NEW c \in Ledger!Retained, NEW i \in DOMAIN commands[c].outgoing,
             NEW d \in Ledger!Retained, NEW j \in DOMAIN commands[d].outgoing,
             commands[c].outgoing[i].sequence = commands[d].outgoing[j].sequence
      PROVE  c = d /\ i = j
  <2>1. Ledger!NumbersAreDistinct
    BY Ledger!DistinctByPosition, LedgerIsParameterized DEF Ledger!LedgerInvariant, Ledger!Numbered
  <2>2. c = d
    BY <1>4, <2>1 DEF Ledger!NumbersAreDistinct, Ledger!NumberAt
  <2>3. commands[c].outgoing[i].sequence \in Nat /\ commands[d].outgoing[j].sequence \in Nat
    BY <1>2
  <2>4. ~(i < j) /\ ~(j < i)
    BY <1>4, <2>1, <2>2, <2>3 DEF Ledger!NumbersAreDistinct, Ledger!NumberAt
  <2>5. i \in Int /\ j \in Int
    BY <1>2
  <2> QED BY <2>2, <2>4, <2>5
<1>5. \A e, f \in KeptEnvelopes : e.sequence = f.sequence => e = f
  <2> SUFFICES ASSUME NEW e \in KeptEnvelopes, NEW f \in KeptEnvelopes, e.sequence = f.sequence
               PROVE  e = f
    OBVIOUS
  <2> PICK c \in Ledger!Retained : \E i \in DOMAIN commands[c].outgoing : e = envelope(c, i)
    BY <1>1
  <2> PICK i \in DOMAIN commands[c].outgoing : e = envelope(c, i)
    OBVIOUS
  <2> PICK d \in Ledger!Retained : \E j \in DOMAIN commands[d].outgoing : f = envelope(d, j)
    BY <1>1
  <2> PICK j \in DOMAIN commands[d].outgoing : f = envelope(d, j)
    OBVIOUS
  <2>1. commands[c].outgoing[i].sequence = commands[d].outgoing[j].sequence
    OBVIOUS
  <2> QED BY <1>4, <2>1
<1> HIDE DEF envelope
<1> QED BY <1>1, <1>3, <1>5 DEF KeptIsNumbered

\* A step keeps an envelope as it is, or numbers it behind all that were given.
LEMMA KeptGoOn ==
    ASSUME Ledger!NumbersGoOn
    PROVE  \A e \in KeptEnvelopes' : e \in KeptEnvelopes \/ nextOutgoing <= e.sequence
<1> SUFFICES ASSUME NEW e \in KeptEnvelopes', ~(nextOutgoing <= e.sequence)
             PROVE  e \in KeptEnvelopes
  OBVIOUS
<1> DEFINE envelope(c, i) == [sequence |-> commands'[c].outgoing[i].sequence, command |-> c,
                              kind |-> commands'[c].outgoing[i].kind]
<1> PICK c \in Ledger!Retained' : \E i \in DOMAIN commands'[c].outgoing : e = envelope(c, i)
  BY DEF KeptEnvelopes
<1> PICK i \in DOMAIN commands'[c].outgoing : e = envelope(c, i)
  OBVIOUS
<1>1. /\ c \in Ledger!Retained /\ i \in DOMAIN commands[c].outgoing
      /\ commands'[c].outgoing[i] = commands[c].outgoing[i]
  BY DEF Ledger!NumbersGoOn
<1> QED BY <1>1 DEF KeptEnvelopes

LEMMA OneEnvelopePerNumberStays ==
    ASSUME Ledger!LedgerInvariant', Ledger!NumbersGoOn, OneEnvelopePerNumber,
           nextOutgoing \in Nat, nextOutgoing' \in Nat,
           Sent \subseteq Envelope, Sent' \subseteq Sent \cup KeptEnvelopes'
    PROVE  OneEnvelopePerNumber'
<1>1. /\ KeptEnvelopes' \subseteq Envelope
      /\ \A e \in KeptEnvelopes' : e.sequence < nextOutgoing'
      /\ \A e, f \in KeptEnvelopes' : e.sequence = f.sequence => e = f
  <2>1. KeptIsNumbered'
    BY KeptAreNumbered, PTL
  <2> QED BY <2>1 DEF KeptIsNumbered
<1>2. \A e \in KeptEnvelopes' : e \in KeptEnvelopes \/ nextOutgoing <= e.sequence
  BY KeptGoOn
<1>3. nextOutgoing <= nextOutgoing' /\ \A e \in Envelope : e.sequence \in Nat
  BY DEF Ledger!NumbersGoOn, Envelope
<1>4. \A e \in Sent' : e.sequence < nextOutgoing'
  BY <1>1, <1>3 DEF OneEnvelopePerNumber
<1>5. ASSUME NEW e \in Sent, NEW f \in Sent \cup KeptEnvelopes', e.sequence = f.sequence
      PROVE  e = f
  <2>1. ~(nextOutgoing <= f.sequence)
    BY <1>3, <1>5 DEF OneEnvelopePerNumber
  <2> QED BY <1>2, <1>5, <2>1 DEF OneEnvelopePerNumber
<1>6. \A e \in Sent', f \in Sent' \cup KeptEnvelopes' : e.sequence = f.sequence => e = f
  BY <1>1, <1>5
<1> QED BY <1>4, <1>6 DEF OneEnvelopePerNumber

\* What CHOOSE names in First.
LEMMA FirstIsLeast ==
    ASSUME NEW S \in SUBSET Envelope, S # {}
    PROVE  First(S) \in S /\ \A f \in S : First(S).sequence <= f.sequence
<1> DEFINE numbers == {e.sequence : e \in S}
<1>1. numbers \in SUBSET Nat /\ numbers # {}
  BY DEF Envelope
<1>2. PICK n \in numbers : \A m \in numbers : n <= m
  BY <1>1, LeastNatural
<1>3. \E e \in S : \A f \in S : e.sequence <= f.sequence
  BY <1>2
<1> QED BY <1>3 DEF First

\* The relay takes the next number.
LEMMA TakenIsNumbered ==
    ASSUME stream \in Seq(Envelope), \A i \in DOMAIN stream : stream[i].sequence = i,
           NEW e \in Envelope
    PROVE  /\ Taken(e) \in Seq(Envelope)
           /\ \A i \in DOMAIN Taken(e) : Taken(e)[i].sequence = i
           /\ {Taken(e)[i] : i \in DOMAIN Taken(e)} \subseteq Streamed \cup {e}
           /\ Len(stream) \in Nat /\ Len(Taken(e)) \in Nat
           /\ Len(stream) <= Len(Taken(e)) /\ Len(Taken(e)) <= Len(stream) + 1
           /\ e.sequence = Len(stream) + 1 => Len(Taken(e)) = Len(stream) + 1
           /\ e.sequence # Len(stream) + 1 => Len(Taken(e)) = Len(stream)
<1>1. Len(stream) \in Nat /\ DOMAIN stream = 1..Len(stream)
  BY LenProperties
<1>2. CASE e.sequence # Len(stream) + 1
  <2>1. Taken(e) = stream /\ Len(stream) <= Len(stream) /\ Len(stream) <= Len(stream) + 1
    BY <1>1, <1>2 DEF Taken, Expected
  <2> QED BY <1>1, <1>2, <2>1 DEF Streamed
<1>3. CASE e.sequence = Len(stream) + 1
  <2> DEFINE longer == Append(stream, e)
  <2>1. Taken(e) = longer
    BY <1>3 DEF Taken, Expected
  <2>2. /\ longer \in Seq(Envelope) /\ Len(longer) = Len(stream) + 1
        /\ \A i \in 1..Len(stream) : longer[i] = stream[i]
        /\ longer[Len(stream) + 1] = e
    BY AppendProperties
  <2> HIDE DEF longer
  <2>3. DOMAIN longer = 1..(Len(stream) + 1)
    BY <2>2, LenProperties
  <2>4. \A i \in DOMAIN longer : i \in 1..Len(stream) \/ i = Len(stream) + 1
    BY <1>1, <2>3
  <2>5. \A i \in DOMAIN longer : longer[i].sequence = i /\ longer[i] \in Streamed \cup {e}
    BY <1>1, <1>3, <2>2, <2>4 DEF Streamed
  <2> QED BY <1>1, <1>3, <2>1, <2>2, <2>5
<1> QED BY <1>2, <1>3

-----------------------------------------------------------------------------
(* Steps.                                                                  *)

\* What a step does to the tunnels, one by one, and to the relay's part: nothing new is
\* sent but what the ledger then keeps.
TableGoesOn ==
    /\ DOMAIN tunnels' = Tunnels
    /\ \A t \in Tunnels :
          \/ tunnels'[t] = tunnels[t]
          \/ tunnels'[t] = None /\ t # holder'
          \/ /\ Good(tunnels'[t], Len(stream'))
             /\ tunnels'[t].sending \subseteq Sent \cup KeptEnvelopes'
    /\ \/ holder' \in {holder, None}
       \/ holder' \in Tunnels /\ tunnels'[holder'] # None

RelayGoesOn ==
    /\ stream' = stream \/ \E e \in Sent : stream' = Taken(e)
    /\ delayed' = None \/ delayed' \in Sent
    /\ grantedScope' \in Scopes
    /\ acknowledgedOutgoing' = acknowledgedOutgoing \/ acknowledgedOutgoing' <= Len(stream)

LEMMA GoodStaysGood ==
    ASSUME NEW tunnel, NEW m \in Nat, NEW n \in Nat, m <= n, Good(tunnel, m)
    PROVE  Good(tunnel, n)
<1>1. tunnel.next \in Nat
  BY DEF Good, Tunnel
<1>2. \A e \in tunnel.sending : e.sequence \in Nat
  BY DEF Good, Tunnel, Envelope
<1>3. \A e \in tunnel.sending : (n + 1)..e.sequence \subseteq (m + 1)..e.sequence
  BY <1>2
<1>4. FlushIsComplete(tunnel, n)
  BY <1>3 DEF Good, FlushIsComplete
<1> QED BY <1>1, <1>4 DEF Good

LEMMA SentIsTyped ==
    ASSUME Table, Relayed
    PROVE  /\ Sent \subseteq Envelope
           /\ Len(stream) \in Nat
           /\ \A t \in Running : tunnels[t] \in Tunnel /\ tunnels[t].sending \subseteq Sent
           /\ \A t \in Running : t \in Tunnels
<1>1. Streamed \subseteq Envelope
  BY LenProperties, ElementOfSeq DEF Relayed, Streamed
<1>2. \A t \in Running : tunnels[t] \in Tunnel /\ t \in Tunnels
  BY DEF Table, Running, Good
<1>3. \A t \in Running : tunnels[t].sending \subseteq Envelope
  BY <1>2 DEF Tunnel
<1> QED BY <1>1, <1>2, <1>3, LenProperties DEF Sent, Relayed

\* Such a step keeps the invariant, and sends what was sent or is kept.
LEMMA GoingOnIsInvariant ==
    ASSUME Ledger!LedgerInvariant, Ledger!LedgerInvariant', Ledger!NumbersGoOn,
           StreamInv, TableGoesOn, RelayGoesOn
    PROVE  StreamInv' /\ Sent' \subseteq Sent \cup KeptEnvelopes'
<1>1. /\ Table /\ Relayed /\ OneEnvelopePerNumber
      /\ Sent \subseteq Envelope /\ Len(stream) \in Nat
  BY SentIsTyped DEF StreamInv
<1>2. /\ stream' \in Seq(Envelope)
      /\ \A i \in DOMAIN stream' : stream'[i].sequence = i
      /\ Streamed' \subseteq Sent
      /\ Len(stream') \in Nat /\ Len(stream) <= Len(stream')
  <2>1. CASE stream' = stream
    BY <1>1, <2>1 DEF Relayed, Streamed, Sent
  <2>2. ASSUME NEW e \in Sent, stream' = Taken(e)
        PROVE  /\ stream' \in Seq(Envelope)
               /\ \A i \in DOMAIN stream' : stream'[i].sequence = i
               /\ Streamed' \subseteq Streamed \cup {e}
               /\ Len(stream') \in Nat /\ Len(stream) <= Len(stream')
    <3>1. e \in Envelope /\ stream \in Seq(Envelope) /\ \A i \in DOMAIN stream : stream[i].sequence = i
      BY <1>1, <2>2 DEF Relayed
    <3>2. /\ Taken(e) \in Seq(Envelope)
          /\ \A i \in DOMAIN Taken(e) : Taken(e)[i].sequence = i
          /\ {Taken(e)[i] : i \in DOMAIN Taken(e)} \subseteq Streamed \cup {e}
          /\ Len(Taken(e)) \in Nat /\ Len(stream) <= Len(Taken(e))
      BY <3>1, TakenIsNumbered
    <3> QED BY <2>2, <3>2 DEF Streamed
  <2>3. Streamed \subseteq Sent
    BY DEF Sent
  <2> QED BY <2>1, <2>2, <2>3 DEF RelayGoesOn
<1>3. /\ delayed' \in Envelope \cup {None}
      /\ grantedScope' \in Scopes
  BY <1>1 DEF RelayGoesOn
<1>4. acknowledgedOutgoing' <= Len(stream')
  <2>1. acknowledgedOutgoing \in Nat /\ acknowledgedOutgoing' \in Nat
    BY DEF Ledger!LedgerInvariant, Ledger!Typed, Ledger!LedgerTypeOK
  <2> QED BY <1>1, <1>2, <2>1 DEF RelayGoesOn, Relayed
<1>5. ASSUME NEW t \in Tunnels, tunnels'[t] # None
      PROVE  /\ Good(tunnels'[t], Len(stream'))
             /\ tunnels'[t].sending \subseteq Sent \cup KeptEnvelopes'
  <2>1. CASE tunnels'[t] = tunnels[t]
    <3>1. Good(tunnels[t], Len(stream)) /\ t \in Running
      BY <1>1, <1>5, <2>1 DEF Table, Running
    <3>2. Good(tunnels[t], Len(stream'))
      BY <1>1, <1>2, <3>1, GoodStaysGood
    <3>3. tunnels[t].sending \subseteq Sent
      BY <3>1 DEF Sent
    <3> QED BY <2>1, <3>2, <3>3
  <2> QED BY <1>5, <2>1 DEF TableGoesOn
<1>6. holder' \in Running' \cup {None}
  <2>1. CASE holder' = holder /\ holder # None
    <3>1. holder \in Tunnels /\ tunnels[holder] # None
      BY <1>1, <2>1 DEF Table, Running
    <3>2. \A t \in Tunnels : Good(tunnels'[t], Len(stream')) => tunnels'[t] # None
      BY NoneIsNoRecord DEF Good
    <3> QED BY <2>1, <3>1, <3>2 DEF TableGoesOn, Running
  <2> QED BY <2>1 DEF TableGoesOn, Running
<1>7. Table' /\ Relayed'
  BY <1>2, <1>3, <1>4, <1>5, <1>6 DEF Table, Relayed, TableGoesOn
<1>8. Sent' \subseteq Sent \cup KeptEnvelopes'
  <2>1. \A t \in Running' : t \in Tunnels /\ tunnels'[t] # None
    BY DEF Running
  <2>2. UNION {tunnels'[t].sending : t \in Running'} \subseteq Sent \cup KeptEnvelopes'
    BY <1>5, <2>1
  <2>3. ({delayed'} \ {None}) \subseteq Sent
    BY DEF RelayGoesOn
  <2> QED BY <1>2, <2>2, <2>3 DEF Sent
<1>9. nextOutgoing \in Nat /\ nextOutgoing' \in Nat
  BY DEF Ledger!LedgerInvariant, Ledger!Typed, Ledger!LedgerTypeOK
<1>10. OneEnvelopePerNumber'
  BY <1>1, <1>8, <1>9, OneEnvelopePerNumberStays
<1> QED BY <1>7, <1>8, <1>10 DEF StreamInv

\* One tunnel goes on.
LEMMA ChangedGoesOn ==
    ASSUME Table, NEW t \in Tunnels, NEW tunnel, Good(tunnel, Len(stream')),
           tunnel.sending \subseteq Sent \cup KeptEnvelopes',
           tunnels' = [tunnels EXCEPT ![t] = tunnel], holder' = holder
    PROVE  TableGoesOn
BY DEF Table, TableGoesOn

\* A tunnel that is serving or closing, and none of whose flushes is known to be complete.
LEMMA LaterIsGood ==
    ASSUME NEW tunnel \in Tunnel, NEW length, tunnel.next <= length + 1,
           tunnel.phase \in {"serving", "closing"}
    PROVE  Good(tunnel, length)
BY DEF Good, FlushIsComplete

\* The phase, the next number and what is being sent stay.
LEMMA SameIsGood ==
    ASSUME NEW old, NEW tunnel \in Tunnel, NEW length, Good(old, length),
           tunnel.next = old.next, tunnel.phase = old.phase, tunnel.sending = old.sending
    PROVE  Good(tunnel, length)
BY DEF Good, FlushIsComplete

LEMMA FinishedIsGood ==
    ASSUME NEW tunnel \in Tunnel, NEW length, tunnel.next <= length + 1
    PROVE  Good(Finished(tunnel), length) /\ Finished(tunnel).sending = {}
<1> DEFINE wanted == IF tunnel.flush.kind = "notified" THEN tunnel.wanted \ {tunnel.flush.command}
                     ELSE tunnel.wanted
           dispatched == IF tunnel.flush.kind = "dispatched"
                         THEN tunnel.dispatched \ {tunnel.flush.command} ELSE tunnel.dispatched
           finished == [tunnel EXCEPT !.phase = "serving", !.wanted = wanted,
                              !.dispatched = dispatched, !.flush = None, !.sending = {}]
<1>1. Finished(tunnel) = finished
  BY DEF Finished
<1>2. wanted \subseteq Commands /\ dispatched \subseteq Commands
  BY DEF Tunnel
<1> HIDE DEF wanted, dispatched
<1>3. /\ finished \in Tunnel /\ finished.next = tunnel.next
      /\ finished.phase = "serving" /\ finished.sending = {}
  BY <1>2 DEF Tunnel
<1> HIDE DEF finished
<1> QED BY <1>1, <1>3, LaterIsGood

LEMMA ClosingIsGood ==
    ASSUME Table, Relayed
    PROVE  /\ DOMAIN Closing(tunnels, holder) = Tunnels
           /\ \A t \in Tunnels : t # holder => Closing(tunnels, holder)[t] = tunnels[t]
           /\ holder # None => /\ Good(Closing(tunnels, holder)[holder], Len(stream))
                               /\ Closing(tunnels, holder)[holder].sending = {}
<1>1. CASE holder = None
  BY <1>1 DEF Closing, Table
<1>2. CASE holder # None
  <2> DEFINE tunnel == tunnels[holder]
             closed == [tunnel EXCEPT !.phase = "closing", !.cursor = 0, !.next = 1,
                            !.dispatched = {}, !.flush = None, !.sending = {}]
  <2>1. Closing(tunnels, holder) = [tunnels EXCEPT ![holder] = closed]
    BY <1>2 DEF Closing
  <2>2. holder \in Running /\ tunnel \in Tunnel /\ holder \in Tunnels
    BY <1>2, SentIsTyped DEF Table
  <2> HIDE DEF tunnel
  <2>3. /\ closed \in Tunnel /\ closed.next = 1
        /\ closed.phase = "closing" /\ closed.sending = {}
    <3> DEFINE cursor == 0
               next == 1
               started == [tunnel EXCEPT !.phase = "closing", !.cursor = cursor, !.next = next]
    <3>1. closed = [started EXCEPT !.dispatched = {}, !.flush = None, !.sending = {}]
      OBVIOUS
    <3>2. cursor \in Nat /\ next \in Nat \ {0} /\ next = 1
      OBVIOUS
    <3> HIDE DEF closed, cursor, next
    <3>3. started \in Tunnel /\ started.next = next /\ started.phase = "closing"
      BY <2>2, <3>2 DEF Tunnel
    <3> HIDE DEF started
    <3> QED BY <3>1, <3>2, <3>3 DEF Tunnel
  <2> HIDE DEF closed
  <2>4. Len(stream) \in Nat
    BY SentIsTyped
  <2>5. Good(closed, Len(stream))
    BY <2>3, <2>4, LaterIsGood
  <2> QED BY <2>1, <2>2, <2>3, <2>5 DEF Table
<1> QED BY <1>1, <1>2

LEMMA DisconnectGoesOn ==
    ASSUME Table, Relayed, Disconnect, stream' = stream
    PROVE  TableGoesOn
<1> DEFINE table == Closing(tunnels, holder)
<1>1. /\ DOMAIN table = Tunnels
      /\ \A t \in Tunnels : t # holder => table[t] = tunnels[t]
      /\ holder # None => Good(table[holder], Len(stream)) /\ table[holder].sending = {}
  BY ClosingIsGood
<1>2. tunnels' = table /\ holder' = None
  BY DEF Disconnect
<1>3. \A t \in Tunnels : t # None
  BY NoneIsNoTunnel
<1> HIDE DEF table
<1>4. ASSUME NEW t \in Tunnels
      PROVE  \/ tunnels'[t] = tunnels[t]
             \/ /\ Good(tunnels'[t], Len(stream'))
                /\ tunnels'[t].sending \subseteq Sent \cup KeptEnvelopes'
  BY <1>1, <1>2, <1>3
<1> QED BY <1>1, <1>2, <1>4 DEF TableGoesOn

LEMMA FailsGoesOn ==
    ASSUME Table, Relayed, NEW t \in Running, NEW flush \in Flush, Fails(t, flush),
           stream' = stream
    PROVE  TableGoesOn
<1>1. CASE flush.kind # "notified"
  BY <1>1, DisconnectGoesOn DEF Fails
<1>2. CASE flush.kind = "notified"
  <2> DEFINE tunnel == [tunnels[t] EXCEPT !.flush = flush]
  <2>1. tunnels[t] \in Tunnel /\ t \in Tunnels /\ tunnels[t].next <= Len(stream) + 1
    BY SentIsTyped DEF Table, Good, Running
  <2>2. tunnel \in Tunnel /\ tunnel.next = tunnels[t].next
    BY <2>1 DEF Tunnel
  <2>3. tunnels' = [tunnels EXCEPT ![t] = Finished(tunnel)] /\ holder' = holder
    BY <1>2 DEF Fails
  <2> HIDE DEF tunnel
  <2>4. Good(Finished(tunnel), Len(stream)) /\ Finished(tunnel).sending = {}
    BY <2>1, <2>2, FinishedIsGood
  <2> QED BY <2>1, <2>3, <2>4, ChangedGoesOn
<1> QED BY <1>1, <1>2

\* What is prepared is kept; all of it is a run without a gap from what the relay has.
LEMMA PreparedIsKept ==
    ASSUME NEW batch \in SUBSET Ledger!Retained, Ledger!Retained' = Ledger!Retained
    PROVE  /\ Prepared(batch) \subseteq KeptEnvelopes'
           /\ batch = Ledger!Retained => KeptEnvelopes' \subseteq Prepared(batch)
<1> DEFINE envelope(c, i) == [sequence |-> commands'[c].outgoing[i].sequence, command |-> c,
                              kind |-> commands'[c].outgoing[i].kind]
<1>1. Prepared(batch) = UNION {{envelope(c, i) : i \in DOMAIN commands'[c].outgoing} : c \in batch}
  BY DEF Prepared
<1>2. KeptEnvelopes' = UNION {{envelope(c, i) : i \in DOMAIN commands'[c].outgoing} :
                                c \in Ledger!Retained}
  BY DEF KeptEnvelopes
<1> HIDE DEF envelope
<1> QED BY <1>1, <1>2

KeptIsARun ==
    \A n \in (acknowledgedOutgoing + 1)..(nextOutgoing - 1) :
        \E e \in KeptEnvelopes : e.sequence = n

LEMMA KeptIsComplete == Ledger!LedgerInvariant => KeptIsARun
<1> SUFFICES ASSUME Ledger!LedgerInvariant,
                    NEW n \in (acknowledgedOutgoing + 1)..(nextOutgoing - 1)
             PROVE  \E e \in KeptEnvelopes : e.sequence = n
  BY DEF KeptIsARun
<1> DEFINE envelope(c, i) == [sequence |-> commands[c].outgoing[i].sequence, command |-> c,
                              kind |-> commands[c].outgoing[i].kind]
<1>1. PICK c \in Ledger!Retained : \E i \in DOMAIN commands[c].outgoing :
                commands[c].outgoing[i].sequence = n
  BY DEF Ledger!LedgerInvariant, Ledger!Numbered, Ledger!UnconsumedRunIsComplete
<1> PICK i \in DOMAIN commands[c].outgoing : commands[c].outgoing[i].sequence = n
  BY <1>1
<1>2. envelope(c, i) \in KeptEnvelopes /\ envelope(c, i).sequence = n
  BY DEF KeptEnvelopes
<1> QED BY <1>2

LEMMA Beyond ==
    ASSUME NEW m \in Nat, NEW length \in Nat, NEW n \in Int, m <= length, length + 1 <= n
    PROVE  m + 1 <= n
OBVIOUS

LEMMA Within ==
    ASSUME NEW last \in Nat, NEW next \in Nat, NEW n \in Int, n <= last, last < next
    PROVE  n <= next - 1
OBVIOUS

\* A flush of everything is complete when it begins.
LEMMA FirstBatchIsComplete ==
    ASSUME Ledger!LedgerInvariant', Ledger!Retained' = Ledger!Retained,
           acknowledgedOutgoing' <= Len(stream), Len(stream) \in Nat,
           NEW t, tunnels[t].next \in Nat, tunnels[t].next <= Len(stream) + 1,
           NEW e \in Unsent(t, Ledger!Retained), NEW n \in (Len(stream) + 1)..e.sequence
    PROVE  \E f \in Unsent(t, Ledger!Retained) : f.sequence = n
<1>1. Prepared(Ledger!Retained) = KeptEnvelopes'
  BY PreparedIsKept
<1>2. KeptIsNumbered'
  BY KeptAreNumbered, PTL
<1>3. /\ e.sequence \in Nat /\ e.sequence < nextOutgoing'
  BY <1>1, <1>2 DEF KeptIsNumbered, Unsent, Envelope
<1>4. /\ nextOutgoing' \in Nat /\ acknowledgedOutgoing' \in Nat
  BY DEF Ledger!LedgerInvariant, Ledger!Typed, Ledger!LedgerTypeOK
<1>5. n \in (acknowledgedOutgoing' + 1)..(nextOutgoing' - 1) /\ n >= tunnels[t].next
  <2>1. n \in Int /\ Len(stream) + 1 <= n /\ n <= e.sequence
    BY <1>3
  <2>2. acknowledgedOutgoing' + 1 <= n
    BY <1>4, <2>1, Beyond, Zenon
  <2>3. n <= nextOutgoing' - 1
    BY <1>3, <1>4, <2>1, Within, Zenon
  <2>4. tunnels[t].next <= n
    BY <2>1
  <2>5. acknowledgedOutgoing' + 1 \in Int /\ nextOutgoing' - 1 \in Int
    BY <1>4
  <2>6. n \in (acknowledgedOutgoing' + 1)..(nextOutgoing' - 1)
    BY <2>1, <2>2, <2>3, <2>5
  <2> QED BY <2>1, <2>4, <2>6
<1>6. KeptIsARun'
  BY KeptIsComplete, PTL
<1>7. \E f \in KeptEnvelopes' : f.sequence = n
  BY <1>5, <1>6 DEF KeptIsARun
<1> QED BY <1>1, <1>5, <1>7 DEF Unsent

LEMMA BeginGoesOn ==
    ASSUME Ledger!LedgerInvariant, Ledger!LedgerInvariant', StreamInv,
           NEW t \in Running, NEW flush \in Flush, NEW batch \in SUBSET Ledger!Retained,
           \/ tunnels[t].phase = "opened" /\ batch = Ledger!Retained
           \/ tunnels[t].phase = "serving",
           Begin(t, flush, batch)
    PROVE  TableGoesOn
<1> DEFINE unsent == Unsent(t, batch)
           tunnel == [tunnels[t] EXCEPT !.flush = flush]
           sending == [tunnel EXCEPT !.sending = unsent]
<1>1. /\ Table /\ Relayed /\ t \in Tunnels
      /\ tunnels[t] \in Tunnel /\ tunnels[t].next <= Len(stream) + 1
      /\ Len(stream) \in Nat /\ tunnels[t].next \in Nat
  BY SentIsTyped DEF StreamInv, Table, Good, Running, Tunnel
<1>2. stream' = stream
  BY DEF Begin
<1>3. /\ Ledger!Retained' = Ledger!Retained
      /\ acknowledgedOutgoing' = acknowledgedOutgoing
  <2>1. CASE Ledger!prepareOutgoing(batch)
    <3>1. Ledger!Typed
      BY DEF Ledger!LedgerInvariant
    <3>2. Ledger!Retained' = Ledger!Retained
      BY <2>1, <3>1, Ledger!PreparationKeepsCommands, LedgerIsParameterized
    <3> QED BY <2>1, <3>2 DEF Ledger!prepareOutgoing
  <2>2. CASE UNCHANGED ledgerVars
    BY <2>2 DEF ledgerVars, Ledger!Retained
  <2> QED BY <2>1, <2>2 DEF Begin
<1>4. unsent \subseteq KeptEnvelopes' /\ KeptEnvelopes' \subseteq Envelope
  <2>1. KeptIsNumbered'
    BY KeptAreNumbered, PTL
  <2> QED BY <1>3, <2>1, PreparedIsKept DEF Unsent, KeptIsNumbered
<1>5. /\ tunnel \in Tunnel /\ tunnel.next = tunnels[t].next /\ tunnel.phase = tunnels[t].phase
  BY <1>1 DEF Tunnel
<1>6. \/ Fails(t, flush)
      \/ /\ tunnels' = [tunnels EXCEPT ![t] = Finished(tunnel)]
         /\ holder' = holder
      \/ /\ tunnels' = [tunnels EXCEPT ![t] = sending]
         /\ holder' = holder
  BY DEF Begin
<1>7. tunnel.phase = "opened" => unsent = Unsent(t, Ledger!Retained)
  BY <1>5
<1> HIDE DEF unsent, tunnel
<1>8. /\ sending \in Tunnel /\ sending.next = tunnel.next /\ sending.phase = tunnel.phase
      /\ sending.sending = unsent
  BY <1>4, <1>5 DEF Tunnel
<1> HIDE DEF sending
<1>9. Good(sending, Len(stream))
  <2>1. CASE tunnels[t].phase = "serving"
    BY <1>1, <1>5, <1>8, <2>1, LaterIsGood
  <2>2. CASE tunnels[t].phase = "opened"
    <3>1. acknowledgedOutgoing' <= Len(stream)
      BY <1>1, <1>3 DEF Relayed
    <3>2. \A e \in unsent : \A n \in (Len(stream) + 1)..e.sequence :
              \E f \in unsent : f.sequence = n
      BY <1>1, <1>3, <1>5, <1>7, <2>2, <3>1, FirstBatchIsComplete
    <3> QED BY <1>1, <1>5, <1>8, <2>2, <3>2 DEF Good, FlushIsComplete
  <2> QED BY <2>1, <2>2
<1>10. CASE Fails(t, flush)
  BY <1>1, <1>2, <1>10, FailsGoesOn
<1>11. CASE tunnels' = [tunnels EXCEPT ![t] = Finished(tunnel)] /\ holder' = holder
  <2>1. Good(Finished(tunnel), Len(stream)) /\ Finished(tunnel).sending = {}
    BY <1>1, <1>5, FinishedIsGood
  <2> QED BY <1>1, <1>2, <1>11, <2>1, ChangedGoesOn
<1>12. CASE tunnels' = [tunnels EXCEPT ![t] = sending] /\ holder' = holder
  <2>1. sending.sending \subseteq Sent \cup KeptEnvelopes'
    BY <1>4, <1>8
  <2> QED BY <1>1, <1>2, <1>9, <1>12, <2>1, ChangedGoesOn
<1> QED BY <1>6, <1>10, <1>11, <1>12

\* What is sent has the next number or one that the relay has, or waits.
LEMMA SendGoesOn ==
    ASSUME StreamInv, NEW t \in Tunnels, send(t)
    PROVE  /\ TableGoesOn
           /\ \E e \in Sent : stream' = Taken(e)
<1> DEFINE sending == tunnels[t].sending
           e == First(sending)
           next == e.sequence + 1
           rest == sending \ {e}
           left == [tunnels[t] EXCEPT !.next = next, !.sending = rest]
<1>1. /\ Table /\ Relayed /\ t \in Running /\ Len(stream) \in Nat
      /\ tunnels[t] \in Tunnel /\ Good(tunnels[t], Len(stream))
      /\ sending \subseteq Sent /\ sending # {}
      /\ holder' = holder /\ stream' = Taken(e)
  <2>1. Table /\ Relayed /\ holder = t
    BY DEF StreamInv, send
  <2>2. t \in Running
    BY <2>1, NoneIsNoTunnel DEF Table
  <2> QED BY <2>1, <2>2, SentIsTyped DEF send, Table, Running
<1>2. sending \subseteq Envelope
  BY <1>1 DEF Tunnel
<1>3. e \in sending /\ \A f \in sending : e.sequence <= f.sequence
  BY <1>1, <1>2, FirstIsLeast
<1>4. \/ e.sequence > Expected /\ tunnels' = [tunnels EXCEPT ![t] = Unanswered(tunnels[t])]
      \/ e.sequence <= Expected /\ rest = {}
                                /\ tunnels' = [tunnels EXCEPT ![t] = Finished(left)]
      \/ e.sequence <= Expected /\ tunnels' = [tunnels EXCEPT ![t] = left]
  <2> DEFINE other == [tunnels[t] EXCEPT !.next = e.sequence + 1, !.sending = @ \ {e}]
  <2>1. tunnels' = [tunnels EXCEPT ![t] =
                       IF e.sequence > Expected THEN Unanswered(tunnels[t])
                       ELSE IF other.sending = {} THEN Finished(other) ELSE other]
    BY DEF send
  <2>2. other = left /\ left.sending = rest
    BY <1>1 DEF Tunnel
  <2>3. e.sequence \in Nat
    BY <1>2, <1>3 DEF Envelope
  <2>4. Expected \in Nat
    BY <1>1 DEF Expected
  <2> HIDE DEF other, left, e, rest
  <2>5. CASE e.sequence > Expected
    BY <2>1, <2>5
  <2>6. CASE e.sequence <= Expected
    <3>1. ~(e.sequence > Expected)
      BY <2>3, <2>4, <2>6
    <3>2. CASE rest = {}
      BY <2>1, <2>2, <2>6, <3>1, <3>2
    <3>3. CASE rest # {}
      BY <2>1, <2>2, <2>6, <3>1, <3>3
    <3> QED BY <3>2, <3>3
  <2> QED BY <2>3, <2>4, <2>5, <2>6
<1>5. /\ stream \in Seq(Envelope) /\ \A i \in DOMAIN stream : stream[i].sequence = i
      /\ e \in Envelope
  BY <1>1, <1>2, <1>3 DEF Relayed
<1>6. /\ Len(stream') \in Nat /\ Len(stream) <= Len(stream')
      /\ Len(stream') = IF e.sequence = Len(stream) + 1 THEN Len(stream) + 1 ELSE Len(stream)
  <2> HIDE DEF e
  <2> QED BY <1>1, <1>5, TakenIsNumbered
<1>7. next \in Nat \ {0} /\ e.sequence \in Nat /\ next = e.sequence + 1
  BY <1>5 DEF Envelope
<1>8. rest \subseteq sending
  OBVIOUS
<1> HIDE DEF e, rest, next
<1>9. /\ left \in Tunnel /\ left.next = next /\ left.sending = rest
      /\ left.phase = tunnels[t].phase
  BY <1>1, <1>2, <1>7, <1>8 DEF Tunnel
<1> HIDE DEF left
<1>10. Table /\ holder' = holder /\ t \in Tunnels
  BY <1>1
<1>11. ASSUME e.sequence > Expected,
              tunnels' = [tunnels EXCEPT ![t] = Unanswered(tunnels[t])]
       PROVE  TableGoesOn
  <2> DEFINE tunnel == [tunnels[t] EXCEPT !.sending = {}]
  <2>1. /\ tunnel \in Tunnel /\ tunnel.next = tunnels[t].next /\ tunnel.sending = {}
    BY <1>1 DEF Tunnel
  <2>2. tunnels' = [tunnels EXCEPT ![t] = tunnel]
    BY <1>11 DEF Unanswered
  <2> HIDE DEF tunnel
  <2>3. tunnels[t].next \in Nat /\ tunnels[t].next <= Len(stream) + 1
    BY <1>1 DEF Good, Tunnel
  <2>4. Good(tunnel, Len(stream'))
    BY <1>1, <1>6, <2>1, <2>3 DEF Good, FlushIsComplete
  <2>5. tunnel.sending \subseteq Sent \cup KeptEnvelopes'
    BY <2>1
  <2> QED BY <1>10, <2>2, <2>4, <2>5, ChangedGoesOn
<1>12. ASSUME e.sequence <= Expected
       PROVE  left.next <= Len(stream') + 1
  BY <1>1, <1>6, <1>7, <1>9, <1>12 DEF Expected
<1>13. ASSUME e.sequence <= Expected,
              tunnels' = [tunnels EXCEPT ![t] = Finished(left)]
       PROVE  TableGoesOn
  <2>1. Good(Finished(left), Len(stream')) /\ Finished(left).sending = {}
    BY <1>9, <1>12, <1>13, FinishedIsGood
  <2>2. Finished(left).sending \subseteq Sent \cup KeptEnvelopes'
    BY <2>1
  <2> QED BY <1>10, <1>13, <2>1, <2>2, ChangedGoesOn
<1>14. ASSUME e.sequence <= Expected,
              tunnels' = [tunnels EXCEPT ![t] = left]
       PROVE  TableGoesOn
  <2>1. left.phase # "connecting"
    BY <1>1, <1>9 DEF Good
  <2>2. ASSUME left.phase = "opened", NEW f \in rest, NEW n \in (Len(stream') + 1)..f.sequence
        PROVE  \E g \in rest : g.sequence = n
    <3>1. n \in (Len(stream) + 1)..f.sequence /\ f \in sending /\ n \in Int
      BY <1>1, <1>2, <1>6, <1>8, <2>2 DEF Envelope
    <3>2. PICK g \in sending : g.sequence = n
      BY <1>1, <1>9, <2>2, <3>1 DEF Good, FlushIsComplete
    <3>3. n # e.sequence
      BY <1>1, <1>6, <1>7, <1>14, <2>2 DEF Expected
    <3> QED BY <3>2, <3>3 DEF rest
  <2>3. Good(left, Len(stream'))
    BY <1>9, <1>12, <1>14, <2>1, <2>2 DEF Good, FlushIsComplete
  <2>4. left.sending \subseteq Sent \cup KeptEnvelopes'
    BY <1>1, <1>8, <1>9
  <2> QED BY <1>10, <1>14, <2>3, <2>4, ChangedGoesOn
<1>15. TableGoesOn
  BY <1>4, <1>11, <1>13, <1>14
<1> QED BY <1>1, <1>3, <1>15

LEMMA RequestGoesOn ==
    ASSUME Table, Relayed, acknowledgedDesktop \in Nat, NEW t \in Tunnels, NEW scope \in Scopes,
           request(t, scope)
    PROVE  TableGoesOn
<1> DEFINE cursor == acknowledgedDesktop
           next == 1
           tunnel ==
              [scope |-> scope, phase |-> "connecting", cursor |-> cursor, next |-> next,
               wanted |-> {}, dispatched |-> {}, flush |-> None, sending |-> {}]
<1>1. tunnels' = [tunnels EXCEPT ![t] = tunnel] /\ holder' = holder /\ stream' = stream
  BY DEF request, relayVars
<1>2. cursor \in Nat /\ next \in Nat \ {0} /\ next <= Len(stream) + 1
  BY SentIsTyped
<1> HIDE DEF cursor, next
<1>3. /\ tunnel \in Tunnel /\ tunnel.next = next /\ tunnel.sending = {}
      /\ tunnel.phase = "connecting"
  BY <1>2 DEF Tunnel
<1> HIDE DEF tunnel
<1>4. Good(tunnel, Len(stream'))
  BY <1>1, <1>2, <1>3 DEF Good, FlushIsComplete
<1>5. tunnel.sending \subseteq Sent \cup KeptEnvelopes'
  BY <1>3
<1> QED BY <1>1, <1>4, <1>5, ChangedGoesOn

\* The new tunnel has nothing to send yet.
LEMMA ConnectGoesOn ==
    ASSUME Table, Relayed, TunnelsSound, NEW t \in Tunnels, connect(t)
    PROVE  TableGoesOn
<1> DEFINE table == Closing(tunnels, holder)
           next == Expected
           tunnel == [table[t] EXCEPT !.phase = "opened", !.next = next]
<1>1. t \in Running /\ tunnels[t].phase = "connecting" /\ t # holder
  BY NoneIsNoTunnel DEF connect, Running, TunnelsSound, Connected
<1>2. /\ DOMAIN table = Tunnels
      /\ \A x \in Tunnels : x # holder => table[x] = tunnels[x]
      /\ holder # None => Good(table[holder], Len(stream)) /\ table[holder].sending = {}
  BY ClosingIsGood
<1>3. tunnels' = [table EXCEPT ![t] = tunnel] /\ holder' = t /\ stream' = stream
  BY DEF connect
<1>4. next \in Nat \ {0} /\ next <= Len(stream) + 1
  BY SentIsTyped DEF Expected
<1>5. table[t] \in Tunnel /\ table[t].sending = {}
  BY <1>1, <1>2, SentIsTyped DEF Table, Good, Running
<1> HIDE DEF table, next
<1>6. /\ tunnel \in Tunnel /\ tunnel.next = next /\ tunnel.sending = {}
      /\ tunnel.phase = "opened"
  BY <1>4, <1>5 DEF Tunnel
<1> HIDE DEF tunnel
<1>7. Good(tunnel, Len(stream'))
  BY <1>3, <1>4, <1>6 DEF Good, FlushIsComplete
<1>8. \A x \in Tunnels : x # None
  BY NoneIsNoTunnel
<1>9. ASSUME NEW x \in Tunnels
      PROVE  \/ tunnels'[x] = tunnels[x]
             \/ /\ Good(tunnels'[x], Len(stream'))
                /\ tunnels'[x].sending \subseteq Sent \cup KeptEnvelopes'
  <2>1. CASE x = t
    BY <1>2, <1>3, <1>6, <1>7, <2>1
  <2>2. CASE x # t
    <3>1. tunnels'[x] = table[x]
      BY <1>2, <1>3, <2>2
    <3> QED BY <1>2, <1>3, <1>8, <3>1
  <2> QED BY <2>1, <2>2
<1>10. DOMAIN tunnels' = Tunnels /\ tunnels'[t] = tunnel /\ tunnel # None
  BY <1>2, <1>3, <1>6, NoneIsNoRecord
<1> QED BY <1>3, <1>9, <1>10 DEF TableGoesOn

LEMMA GoneGoesOn ==
    ASSUME Table, TunnelsSound, NEW t \in Tunnels, refused(t) \/ end(t)
    PROVE  TableGoesOn
<1>1. /\ tunnels[t] # None /\ tunnels[t].phase \in {"connecting", "closing"}
      /\ tunnels' = [tunnels EXCEPT ![t] = None] /\ holder' = holder
  BY DEF refused, end, Running, relayVars
<1>2. t # holder
  BY <1>1, NoneIsNoTunnel DEF TunnelsSound, Connected
<1> QED BY <1>1, <1>2 DEF Table, TableGoesOn

LEMMA DispatchedGoesOn ==
    ASSUME Table, Relayed, TunnelsSound, AuthorsBounded, NEW t \in Tunnels, Receives(t),
           tunnels' = Dispatched(t, NextOf(t)), UNCHANGED relayVars
    PROVE  TableGoesOn
<1> DEFINE c == NextOf(t)
           dispatched == tunnels[t].dispatched \cup {c}
           tunnel == [tunnels[t] EXCEPT !.cursor = c, !.dispatched = dispatched]
<1>1. t \in Running /\ tunnels[t] \in Tunnel /\ Good(tunnels[t], Len(stream))
  BY SentIsTyped DEF Receives, Listening, Table, Running
<1>2. c \in Commands /\ c \in Nat
  <2>1. c \in Commands
    BY DispatchedIsSound DEF relayVars
  <2> QED BY <2>1 DEF Commands
<1>3. dispatched \subseteq Commands
  BY <1>1, <1>2 DEF Tunnel
<1>4. tunnels' = [tunnels EXCEPT ![t] = tunnel] /\ holder' = holder /\ stream' = stream
  BY DEF Dispatched, relayVars
<1> HIDE DEF c, dispatched
<1>5. /\ tunnel \in Tunnel /\ tunnel.next = tunnels[t].next /\ tunnel.phase = tunnels[t].phase
      /\ tunnel.sending = tunnels[t].sending
  BY <1>1, <1>2, <1>3 DEF Tunnel
<1> HIDE DEF tunnel
<1>6. Good(tunnel, Len(stream'))
  BY <1>1, <1>4, <1>5, SameIsGood
<1>7. tunnel.sending \subseteq Sent \cup KeptEnvelopes'
  BY <1>1, <1>5, SentIsTyped
<1> QED BY <1>4, <1>6, <1>7, ChangedGoesOn

LEMMA ClosingFlushGoesOn ==
    ASSUME Table, Relayed, NEW t \in Tunnels, NEW c, flushClosing(t, c)
    PROVE  TableGoesOn
<1> DEFINE wanted == tunnels[t].wanted \ {c}
           tunnel == [tunnels[t] EXCEPT !.wanted = wanted]
<1>1. t \in Running /\ tunnels[t] \in Tunnel /\ Good(tunnels[t], Len(stream))
  BY SentIsTyped DEF flushClosing, Table, Running
<1>2. wanted \subseteq Commands
  BY <1>1 DEF Tunnel
<1>3. tunnels' = [tunnels EXCEPT ![t] = tunnel] /\ holder' = holder /\ stream' = stream
  BY DEF flushClosing, relayVars
<1> HIDE DEF wanted
<1>4. /\ tunnel \in Tunnel /\ tunnel.next = tunnels[t].next /\ tunnel.phase = tunnels[t].phase
      /\ tunnel.sending = tunnels[t].sending
  BY <1>1, <1>2 DEF Tunnel
<1> HIDE DEF tunnel
<1>5. Good(tunnel, Len(stream'))
  BY <1>1, <1>3, <1>4, SameIsGood
<1>6. tunnel.sending \subseteq Sent \cup KeptEnvelopes'
  BY <1>1, <1>4, SentIsTyped
<1> QED BY <1>3, <1>5, <1>6, ChangedGoesOn

LEMMA AnnounceGoesOn ==
    ASSUME Table, Relayed, NEW c \in Commands, Announce(c), UNCHANGED relayVars
    PROVE  TableGoesOn
<1>1. ASSUME NEW t \in Tunnels
      PROVE  \/ tunnels'[t] = tunnels[t]
             \/ /\ Good(tunnels'[t], Len(stream'))
                /\ tunnels'[t].sending \subseteq Sent \cup KeptEnvelopes'
  <2> DEFINE wanted == tunnels[t].wanted \cup {c}
             tunnel == [tunnels[t] EXCEPT !.wanted = wanted]
  <2>1. tunnels'[t] = tunnels[t] \/ (t \in Listening /\ tunnels'[t] = tunnel)
    BY DEF Announce
  <2>2. CASE t \in Listening
    <3>1. t \in Running /\ tunnels[t] \in Tunnel /\ Good(tunnels[t], Len(stream))
      BY <2>2, SentIsTyped DEF Listening, Table, Running
    <3>2. wanted \subseteq Commands
      BY <3>1 DEF Tunnel
    <3> HIDE DEF wanted
    <3>3. /\ tunnel \in Tunnel /\ tunnel.next = tunnels[t].next /\ tunnel.phase = tunnels[t].phase
          /\ tunnel.sending = tunnels[t].sending
      BY <3>1, <3>2 DEF Tunnel
    <3> HIDE DEF tunnel
    <3>4. Good(tunnel, Len(stream))
      BY <3>1, <3>3, SameIsGood
    <3>5. tunnel.sending \subseteq Sent
      BY <3>1, <3>3, SentIsTyped
    <3> QED BY <2>1, <3>4, <3>5 DEF relayVars
  <2> QED BY <2>1, <2>2
<1>2. DOMAIN tunnels' = Tunnels /\ holder' = holder
  BY DEF Announce, relayVars
<1> QED BY <1>1, <1>2 DEF TableGoesOn

LEMMA FlushGoesOn ==
    ASSUME Ledger!LedgerInvariant, Ledger!LedgerInvariant', StreamInv,
           NEW t \in Tunnels, NEW kind \in {"notified", "dispatched"}, NEW c \in Commands,
           flushOf(t, kind, c)
    PROVE  TableGoesOn
<1> DEFINE flush == [kind |-> kind, command |-> c]
<1>1. t \in Running /\ tunnels[t].phase = "serving" /\ flush \in Flush
  BY DEF flushOf, Flush
<1>2. Table /\ Relayed
  BY DEF StreamInv
<1>3. \/ c \in Ledger!Retained /\ Begin(t, flush, {c})
      \/ Fails(t, flush) /\ stream' = stream
  BY DEF flushOf
<1> HIDE DEF flush
<1>4. CASE c \in Ledger!Retained /\ Begin(t, flush, {c})
  <2>1. {c} \in SUBSET Ledger!Retained
    BY <1>4
  <2> QED BY <1>1, <1>4, <2>1, BeginGoesOn
<1>5. CASE Fails(t, flush) /\ stream' = stream
  BY <1>1, <1>2, <1>5, FailsGoesOn
<1> QED BY <1>3, <1>4, <1>5

\* Every step does this to the tunnels.
LEMMA StepOfTable ==
    ASSUME Ledger!LedgerInvariant, Ledger!LedgerInvariant', TunnelInv, StreamInv, [Next]_vars
    PROVE  TableGoesOn
<1>1. /\ Table /\ Relayed /\ TunnelsSound /\ AuthorsBounded /\ acknowledgedDesktop \in Nat
      /\ DOMAIN tunnels = Tunnels
  BY DEF StreamInv, TunnelInv, Table
<1>2. ASSUME UNCHANGED <<tunnels, holder>>
      PROVE  TableGoesOn
  BY <1>1, <1>2 DEF TableGoesOn
<1>3. CASE \/ initialize \/ publish \/ arrive \/ UNCHANGED vars
           \/ \E t \in Tunnels, n \in 1..MaxOutgoing : acknowledgeOutgoing(t, n)
           \/ \E c \in Commands, status \in Outcomes : appendTerminal(c, status)
  BY <1>2, <1>3
     DEF initialize, publish, arrive, vars, acknowledgeOutgoing, appendTerminal, relayVars
<1>4. CASE crash
  <2>1. tunnels' = [t \in Tunnels |-> None] /\ holder' = None
    BY <1>4 DEF crash
  <2> QED BY <2>1, NoneIsNoTunnel DEF TableGoesOn
<1>5. CASE \E t \in Tunnels, scope \in Scopes : request(t, scope)
  BY <1>1, <1>5, RequestGoesOn
<1>6. CASE \E t \in Tunnels : connect(t)
  BY <1>1, <1>6, ConnectGoesOn
<1>7. CASE \E t \in Tunnels : refused(t) \/ end(t)
  BY <1>1, <1>7, GoneGoesOn
<1>8. CASE \E t \in Tunnels : admit(t) \/ join(t)
  <2>1. PICK t \in Tunnels : admit(t) \/ join(t)
    BY <1>8
  <2>2. Receives(t) /\ tunnels' = Dispatched(t, NextOf(t)) /\ UNCHANGED relayVars
    BY <2>1 DEF admit, join
  <2> QED BY <1>1, <2>2, DispatchedGoesOn
<1>9. CASE (\E t \in Tunnels : reject(t)) \/ loseConnection
  <2>1. Disconnect /\ stream' = stream
    BY <1>9 DEF reject, loseConnection
  <2> QED BY <1>1, <2>1, DisconnectGoesOn
<1>10. ASSUME NEW t \in Tunnels, flushAll(t)
       PROVE  TableGoesOn
  <2> DEFINE flush == [kind |-> "initial", command |-> None]
  <2>1. t \in Running /\ tunnels[t].phase = "opened" /\ Begin(t, flush, Ledger!Retained)
        /\ flush \in Flush
    BY <1>10 DEF flushAll, Flush
  <2> HIDE DEF flush
  <2> QED BY <2>1, BeginGoesOn
<1>11. CASE \E t \in Tunnels, kind \in {"notified", "dispatched"}, c \in Commands :
               flushOf(t, kind, c)
  BY <1>11, FlushGoesOn
<1>12. CASE \E t \in Tunnels, c \in Commands : flushClosing(t, c)
  BY <1>1, <1>12, ClosingFlushGoesOn
<1>13. CASE \E t \in Tunnels : send(t)
  BY <1>13, SendGoesOn
<1>14. CASE \E c \in Commands : emit(c) \/ settle(c)
  BY <1>1, <1>14, AnnounceGoesOn DEF emit, settle
<1>15. CASE \E scope \in Scopes : grant(scope)
  <2>1. (Disconnect /\ stream' = stream) \/ UNCHANGED <<tunnels, holder>>
    BY <1>15 DEF grant
  <2> QED BY <1>1, <1>2, <2>1, DisconnectGoesOn
<1> QED BY <1>3, <1>4, <1>5, <1>6, <1>7, <1>8, <1>9, <1>10, <1>11, <1>12, <1>13, <1>14,
           <1>15 DEF Next

\* What may be on its way was being sent.
LEMMA OnItsWayWasSent ==
    ASSUME Table, Relayed, NEW e \in OnItsWay(holder), e # None
    PROVE  e \in Sent
<1>1. CASE e = delayed
  BY <1>1 DEF Sent
<1>2. CASE e # delayed
  <2>1. holder # None /\ tunnels[holder].sending # {} /\ e = First(tunnels[holder].sending)
    BY <1>2 DEF OnItsWay
  <2>2. holder \in Running
    BY <2>1 DEF Table
  <2>3. tunnels[holder].sending \subseteq Envelope /\ tunnels[holder].sending \subseteq Sent
    BY <2>2, SentIsTyped DEF Tunnel
  <2> QED BY <2>1, <2>3, FirstIsLeast
<1> QED BY <1>1, <1>2

\* ... and to the relay's part.
LEMMA StepOfRelay ==
    ASSUME StreamInv, [Next]_vars
    PROVE  RelayGoesOn
<1>1. Table /\ Relayed
  BY DEF StreamInv
<1>2. CASE arrive
  <2>1. delayed \in Sent
    BY <1>2 DEF arrive, Sent
  <2> QED BY <1>1, <1>2, <2>1 DEF arrive, RelayGoesOn, Relayed, ledgerVars
<1>3. CASE ~arrive
  <2>1. stream' = stream \/ \E t \in Tunnels : send(t)
    BY <1>3, StepMovesRelay DEF RelayMoves, RelayStays, publish, grant
  <2>2. stream' = stream \/ \E e \in Sent : stream' = Taken(e)
    BY <2>1, SendGoesOn
  <2>3. delayed' = delayed \/ delayed' \in OnItsWay(holder)
    BY <1>3, StepMovesRelay DEF RelayMoves, RelayStays, publish, send, grant, Disconnect
  <2>4. delayed' = None \/ delayed' \in Sent
    BY <1>1, <2>3, OnItsWayWasSent DEF Sent
  <2>5. grantedScope' = grantedScope \/ grantedScope' \in Scopes
    BY <1>3, StepMovesRelay DEF RelayMoves, RelayStays, publish, send, grant
  <2>6. ASSUME NEW batch
        PROVE  Ledger!prepareOutgoing(batch) \/ UNCHANGED ledgerVars
                  => acknowledgedOutgoing' = acknowledgedOutgoing
    BY DEF Ledger!prepareOutgoing, ledgerVars
  <2>7. acknowledgedOutgoing' = acknowledgedOutgoing \/ acknowledgedOutgoing' <= Len(stream)
    <3>1. CASE \/ initialize \/ crash \/ publish \/ loseConnection \/ UNCHANGED vars
               \/ \E t \in Tunnels, scope \in Scopes : request(t, scope)
               \/ \E t \in Tunnels : connect(t) \/ refused(t) \/ end(t)
               \/ \E t \in Tunnels : admit(t) \/ join(t) \/ reject(t)
               \/ \E c \in Commands : emit(c) \/ settle(c)
               \/ \E c \in Commands, status \in Outcomes : appendTerminal(c, status)
               \/ \E scope \in Scopes : grant(scope)
               \/ \E t \in Tunnels : send(t)
      BY <3>1
         DEF vars, ledgerVars, initialize, crash, request, connect, refused, end, admit, join,
             reject, emit, settle, appendTerminal, grant, publish, loseConnection, send,
             Ledger!initialize, Ledger!crash, Ledger!adoptControllerScope, Ledger!handle,
             Ledger!emit, Ledger!appendTerminal, Ledger!settle, Ledger!ledger, Ledger!transport
    <3>2. CASE \/ \E t \in Tunnels : flushAll(t)
               \/ \E t \in Tunnels, kind \in {"notified", "dispatched"}, c \in Commands :
                     flushOf(t, kind, c)
               \/ \E t \in Tunnels, c \in Commands : flushClosing(t, c)
      <4>1. ASSUME NEW t, NEW flush, NEW batch, Begin(t, flush, batch)
            PROVE  acknowledgedOutgoing' = acknowledgedOutgoing
        BY <2>6, <4>1, BeginPreparesOrLeaves
      <4>2. UNCHANGED ledgerVars => acknowledgedOutgoing' = acknowledgedOutgoing
        BY DEF ledgerVars
      <4> QED BY <2>6, <3>2, <4>1, <4>2 DEF flushAll, flushOf, flushClosing
    <3>3. CASE \E t \in Tunnels, n \in 1..MaxOutgoing : acknowledgeOutgoing(t, n)
      BY <3>3 DEF acknowledgeOutgoing, Ledger!acknowledgeOutgoing
    <3> QED BY <1>3, <3>1, <3>2, <3>3 DEF Next
  <2> QED BY <1>1, <2>2, <2>4, <2>5, <2>7 DEF RelayGoesOn, Relayed
<1> QED BY <1>2, <1>3

LEMMA StepKeepsStream ==
    ASSUME Ledger!LedgerInvariant, Ledger!LedgerInvariant', TunnelInv, StreamInv, [Next]_vars
    PROVE  StreamInv' /\ Sent' \subseteq Sent \cup KeptEnvelopes'
<1>1. Ledger!Next \/ UNCHANGED Ledger!vars
  BY LedgerStep DEF ledgerVars, Ledger!vars, Ledger!ledger, Ledger!transport
<1>2. Ledger!NumbersGoOn
  BY <1>1, Ledger!StepGoesOn, LedgerIsParameterized
<1> QED BY <1>2, StepOfTable, StepOfRelay, GoingOnIsInvariant

-----------------------------------------------------------------------------
(* The theorems.                                                           *)

\* The scope that is granted first.
LEMMA FirstScopeIsGranted == FirstScope \in Scopes
<1> DEFINE Leases == {s.leaseGeneration : s \in Scopes}
<1>1. Leases \in SUBSET Nat /\ Leases # {}
  BY GenerationsAreNumbers, ScopesAreGrantedInTurn
<1>2. PICK lease \in Leases : \A other \in Leases : lease <= other
  BY <1>1, LeastNatural
<1> DEFINE Attachments == {s.attachmentGeneration :
                              s \in {r \in Scopes : r.leaseGeneration = lease}}
<1>3. Attachments \in SUBSET Nat /\ Attachments # {}
  BY <1>2, GenerationsAreNumbers
<1> HIDE DEF Attachments
<1>4. PICK n \in Attachments : \A other \in Attachments : n <= other
  BY <1>3, LeastNatural
<1>5. PICK s \in Scopes : s.leaseGeneration = lease /\ s.attachmentGeneration = n
  BY <1>4 DEF Attachments
<1>6. ASSUME NEW r \in Scopes \ {s}
      PROVE  Newer(r, s)
  <2>1. /\ {r.attachmentGeneration, r.leaseGeneration} \subseteq Nat
        /\ {s.attachmentGeneration, s.leaseGeneration} \subseteq Nat
    BY GenerationsAreNumbers
  <2>2. s.leaseGeneration <= r.leaseGeneration
    BY <1>2, <1>5
  <2>3. r.leaseGeneration = s.leaseGeneration => s.attachmentGeneration <= r.attachmentGeneration
    BY <1>4, <1>5 DEF Attachments
  <2>4. ~Newer(s, r)
    BY <2>1, <2>2, <2>3 DEF Newer
  <2> QED BY <2>4, ScopesAreGrantedInTurn
<1> QED BY <1>6 DEF FirstScope

LEMMA StreamStarts == Init => StreamInv
<1> SUFFICES ASSUME Init PROVE StreamInv
  OBVIOUS
<1>1. Running = {} /\ Streamed = {} /\ Sent = {}
  BY DEF Init, Running, Streamed, Sent
<1>2. Table
  BY DEF Init, Table
<1>3. Relayed
  BY FirstScopeIsGranted, EmptySeq DEF Init, Ledger!Init, Relayed
<1> QED BY <1>1, <1>2, <1>3 DEF StreamInv, OneEnvelopePerNumber

\* The ledger's invariant holds of the composition, which implements the ledger.
LEMMA LedgerHolds == Spec => []Ledger!LedgerInvariant
BY ImplementsLedger, Ledger!LedgerStaysInvariant, LedgerIsParameterized, PTL

LEMMA TunnelsStayAFunction ==
    ASSUME TunnelsAreAFunction, [Next]_vars
    PROVE  TunnelsAreAFunction'
<1>1. ASSUME NEW f, f = [t \in DOMAIN f |-> f[t]], NEW t, NEW tunnel
      PROVE  LET g == [f EXCEPT ![t] = tunnel] IN g = [x \in DOMAIN g |-> g[x]]
  OBVIOUS
<1>2. ASSUME NEW t
      PROVE  Closing(tunnels, t) = [x \in DOMAIN Closing(tunnels, t) |-> Closing(tunnels, t)[x]]
  BY <1>1 DEF Closing, TunnelsAreAFunction
<1>3. ASSUME \/ tunnels' = tunnels
             \/ \E t, tunnel : tunnels' = [tunnels EXCEPT ![t] = tunnel]
             \/ \E t : tunnels' = Closing(tunnels, t)
             \/ \E t, h, tunnel : tunnels' = [Closing(tunnels, h) EXCEPT ![t] = tunnel]
             \/ tunnels' = [t \in Tunnels |-> tunnels'[t]]
      PROVE  TunnelsAreAFunction'
  BY <1>1, <1>2, <1>3 DEF TunnelsAreAFunction
<1>4. CASE \/ initialize \/ publish \/ arrive \/ UNCHANGED vars
           \/ \E t \in Tunnels, n \in 1..MaxOutgoing : acknowledgeOutgoing(t, n)
           \/ \E c \in Commands, status \in Outcomes : appendTerminal(c, status)
  BY <1>3, <1>4
     DEF initialize, publish, arrive, vars, acknowledgeOutgoing, appendTerminal, relayVars
<1>5. CASE crash \/ \E c \in Commands : emit(c) \/ settle(c)
  BY <1>3, <1>5 DEF crash, emit, settle, Announce
<1>6. CASE \E t \in Tunnels, scope \in Scopes : request(t, scope)
  BY <1>3, <1>6 DEF request
<1>7. CASE \E t \in Tunnels : connect(t) \/ refused(t) \/ end(t)
  BY <1>3, <1>7 DEF connect, refused, end
<1>8. CASE \E t \in Tunnels : admit(t) \/ join(t) \/ reject(t)
  BY <1>3, <1>8 DEF admit, join, reject, Dispatched, Disconnect
<1>9. CASE loseConnection \/ \E scope \in Scopes : grant(scope)
  BY <1>3, <1>9 DEF loseConnection, grant, Disconnect
<1>10. ASSUME NEW t, NEW flush, Fails(t, flush) \/ \E batch : Begin(t, flush, batch)
       PROVE  TunnelsAreAFunction'
  BY <1>3, <1>10 DEF Fails, Begin, Disconnect
<1>11. CASE \/ \E t \in Tunnels : flushAll(t)
            \/ \E t \in Tunnels, kind \in {"notified", "dispatched"}, c \in Commands :
                  flushOf(t, kind, c)
  BY <1>10, <1>11 DEF flushAll, flushOf
<1>12. CASE (\E t \in Tunnels, c \in Commands : flushClosing(t, c)) \/ \E t \in Tunnels : send(t)
  BY <1>3, <1>12 DEF flushClosing, send
<1> QED BY <1>4, <1>5, <1>6, <1>7, <1>8, <1>9, <1>11, <1>12 DEF Next

LEMMA TunnelsAreAlwaysAFunction == Spec => []TunnelsAreAFunction
<1>1. Init => TunnelsAreAFunction
  BY DEF Init, TunnelsAreAFunction
<1> QED BY <1>1, TunnelsStayAFunction, PTL DEF Spec

LEMMA StreamInvariant == Spec => [](Ledger!LedgerInvariant /\ TunnelInv /\ StreamInv)
<1>1. /\ Ledger!LedgerInvariant /\ Ledger!LedgerInvariant' /\ TunnelInv /\ StreamInv /\ [Next]_vars
      => StreamInv'
  BY StepKeepsStream
<1> QED BY <1>1, StreamStarts, LedgerHolds, TunnelInvariant, PTL DEF Spec

\* The tunnels' and the relay's state keeps its types, whatever is lost or restarted.
THEOREM TunnelsAreTyped == Spec => []TunnelTypeOK
<1>1. Ledger!LedgerInvariant /\ TunnelInv /\ StreamInv /\ TunnelsAreAFunction => TunnelTypeOK
  <2> SUFFICES ASSUME Ledger!LedgerInvariant, TunnelInv, StreamInv, TunnelsAreAFunction
               PROVE  TunnelTypeOK
    OBVIOUS
  <2>1. Ledger!LedgerTypeOK
    BY DEF Ledger!LedgerInvariant, Ledger!Typed
  <2>2. tunnels \in [Tunnels -> Tunnel \cup {None}]
    <3>1. /\ DOMAIN tunnels = Tunnels
          /\ \A t \in Tunnels : tunnels[t] \in Tunnel \cup {None}
      BY DEF StreamInv, Table, Good
    <3>2. tunnels = [t \in Tunnels |-> tunnels[t]]
      BY <3>1 DEF TunnelsAreAFunction
    <3> QED BY <3>1, <3>2
  <2>3. grantedScope \in Scopes /\ delayed \in Envelope \cup {None}
        /\ holder \in Running \cup {None}
    BY DEF StreamInv, Relayed, Table
  <2>4. published \in 0..MaxCommands
    BY DEF TunnelInv, AuthorsBounded, published
  <2>5. \A i \in DOMAIN stream : stream[i] \in Envelope
    BY LenProperties, ElementOfSeq DEF StreamInv, Relayed
  <2> QED BY <2>1, <2>2, <2>3, <2>4, <2>5 DEF TunnelTypeOK
<1> QED BY <1>1, StreamInvariant, TunnelsAreAlwaysAFunction, PTL

\* Whatever overlapping tunnels, lost connections and restarts send again is what was sent
\* before: a number is that of one envelope, in the ledger, on the way and at the relay.
THEOREM NumbersNameOneEnvelope == Spec => []ResendsAreIdentical
<1>1. StreamInv => ResendsAreIdentical
  BY DEF StreamInv, OneEnvelopePerNumber, Sent, Streamed, KeptEnvelopes, ResendsAreIdentical
<1> QED BY <1>1, StreamInvariant, PTL

\* What the relay holds was persisted with its number before, and what it does not hold
\* yet is still kept, though the desktop's acknowledgements prune the ledger.
THEOREM RelayHoldsWhatWasPersisted == Spec => []StreamIsPersisted
<1>1. Ledger!LedgerInvariant /\ StreamInv => StreamIsPersisted
  <2> SUFFICES ASSUME Ledger!LedgerInvariant, StreamInv
               PROVE  StreamIsPersisted
    OBVIOUS
  <2>1. /\ nextOutgoing \in Nat \ {0} /\ acknowledgedOutgoing \in Nat
        /\ Ledger!UnconsumedRunIsComplete
    BY DEF Ledger!LedgerInvariant, Ledger!Typed, Ledger!LedgerTypeOK, Ledger!Numbered
  <2>2. /\ Len(stream) \in Nat /\ DOMAIN stream = 1..Len(stream)
        /\ acknowledgedOutgoing <= Len(stream)
    BY LenProperties DEF StreamInv, Relayed
  <2>3. Len(stream) < nextOutgoing
    <3>1. CASE Len(stream) = 0
      BY <2>1, <3>1
    <3>2. CASE Len(stream) # 0
      <4>1. Len(stream) \in DOMAIN stream
        BY <2>2, <3>2
      <4>2. stream[Len(stream)] \in Sent /\ stream[Len(stream)].sequence = Len(stream)
        BY <4>1 DEF Sent, Streamed, StreamInv, Relayed
      <4> QED BY <4>2 DEF StreamInv, OneEnvelopePerNumber
    <3> QED BY <3>1, <3>2
  <2>4. (Len(stream) + 1)..(nextOutgoing - 1) \subseteq (acknowledgedOutgoing + 1)..(nextOutgoing - 1)
    BY <2>1, <2>2
  <2> QED BY <2>1, <2>3, <2>4 DEF StreamIsPersisted, Ledger!UnconsumedRunIsComplete
<1> QED BY <1>1, StreamInvariant, PTL

\* flushAll leaves no gap at the relay: a tunnel's first flush sends with an envelope those
\* of all numbers before it that the relay lacks, whoever numbered them.
THEOREM FirstFlushLeavesNoGap == Spec => []FirstFlushIsComplete
<1>1. StreamInv => FirstFlushIsComplete
  BY DEF StreamInv, Table, Good, FlushIsComplete, FirstFlushIsComplete, Running
<1> QED BY <1>1, StreamInvariant, PTL

-----------------------------------------------------------------------------
(* The order of a command's answers.                                       *)

\* What was answered to a command, in its order: the envelopes that carry a number,
\* wherever they are, and behind them the events that have none.
Answer(at, kind) == [at |-> at, kind |-> kind]

NumberedAnswers(c) ==
    {Answer(e.sequence, e.kind) : e \in {f \in Sent \cup KeptEnvelopes : f.command = c}}

Behind(n, events) == {Answer(n + i, events[i]) : i \in 1..Len(events)}

Answers(c) ==
    NumberedAnswers(c) \cup IF c \in Ledger!Retained
                         THEN Behind(nextOutgoing, commands[c].events)
                         ELSE {}

\* The promise: events, a terminal event, and perhaps the failure of a restart.
InOrder(answers) ==
    /\ \A p, q \in answers : p.at < q.at /\ p.kind \in Ledger!Settled => q.kind = "failed"
    /\ \A p, q, r \in answers :
          p.at < q.at /\ q.at < r.at => ~(p.kind \in Ledger!Settled /\ q.kind \in Ledger!Settled)

\* Of a command that is admitted, nothing follows a terminal event; of one that is
\* running there is none.
EndsLast(answers) == \A p, q \in answers : p.at < q.at => p.kind \notin Ledger!Settled

Unended(answers) == \A p \in answers : p.kind \notin Ledger!Settled

AnswersInOrder ==
    \A c \in Commands :
        /\ InOrder(Answers(c))
        /\ c \in Ledger!Retained /\ commands[c].status = "admitted" => EndsLast(Answers(c))
        /\ calls[c] = "running" => Unended(Answers(c))
        /\ highestReceived < c => Answers(c) = {}

\* A set of answers that are others in the same order.
LEMMA SameOrder ==
    ASSUME NEW answers, NEW others, NEW same,
           \A p \in others : \E q \in answers : <<p, q>> \in same /\ p.kind = q.kind,
           \A p, q \in others : \A r, s \in answers :
              <<p, r>> \in same /\ <<q, s>> \in same /\ p.at < q.at => r.at < s.at
    PROVE  /\ InOrder(answers) => InOrder(others)
           /\ EndsLast(answers) => EndsLast(others)
           /\ Unended(answers) => Unended(others)
<1>1. ASSUME Unended(answers)
      PROVE  Unended(others)
  BY <1>1 DEF Unended
<1>2. ASSUME EndsLast(answers), NEW p \in others, NEW q \in others, p.at < q.at
      PROVE  p.kind \notin Ledger!Settled
  <2> PICK r \in answers : <<p, r>> \in same /\ p.kind = r.kind
    OBVIOUS
  <2> PICK s \in answers : <<q, s>> \in same
    OBVIOUS
  <2>1. r.at < s.at
    BY <1>2
  <2> QED BY <1>2, <2>1 DEF EndsLast
<1>3. ASSUME InOrder(answers), NEW p \in others, NEW q \in others, p.at < q.at,
             p.kind \in Ledger!Settled
      PROVE  q.kind = "failed"
  <2> PICK r \in answers : <<p, r>> \in same /\ p.kind = r.kind
    OBVIOUS
  <2> PICK s \in answers : <<q, s>> \in same /\ q.kind = s.kind
    OBVIOUS
  <2>1. r.at < s.at
    BY <1>3
  <2> QED BY <1>3, <2>1 DEF InOrder
<1>4. ASSUME InOrder(answers), NEW o \in others, NEW p \in others, NEW q \in others,
             o.at < p.at, p.at < q.at
      PROVE  ~(o.kind \in Ledger!Settled /\ p.kind \in Ledger!Settled)
  <2> PICK r \in answers : <<o, r>> \in same /\ o.kind = r.kind
    OBVIOUS
  <2> PICK s \in answers : <<p, s>> \in same /\ p.kind = s.kind
    OBVIOUS
  <2> PICK t \in answers : <<q, t>> \in same
    OBVIOUS
  <2>1. r.at < s.at /\ s.at < t.at
    BY <1>4
  <2> QED BY <1>4, <2>1 DEF InOrder
<1> QED BY <1>1, <1>2, <1>3, <1>4 DEF InOrder, EndsLast, Unended

LEMMA FewerInOrder ==
    ASSUME NEW answers, NEW others \in SUBSET answers
    PROVE  /\ InOrder(answers) => InOrder(others)
           /\ EndsLast(answers) => EndsLast(others)
           /\ Unended(answers) => Unended(others)
BY DEF InOrder, EndsLast, Unended

\* One more answer, the last.
LEMMA OneMoreInOrder ==
    ASSUME NEW answers, NEW last, last.at \in Nat,
           \A p \in answers : p.at \in Nat /\ p.at < last.at
    PROVE  LET more == answers \cup {last}
           IN  /\ Unended(answers) /\ last.kind = "event" => Unended(more)
               /\ Unended(answers) => EndsLast(more)
               /\ EndsLast(answers) /\ last.kind = "failed" => InOrder(more)
<1>1. Unended(answers) /\ last.kind = "event" => Unended(answers \cup {last})
  BY DEF Unended, Ledger!Settled
<1>2. ~(last.at < last.at) /\ \A p \in answers : ~(last.at < p.at)
  OBVIOUS
<1>3. Unended(answers) => EndsLast(answers \cup {last})
  BY <1>2 DEF Unended, EndsLast
<1>4. EndsLast(answers) /\ last.kind = "failed" => InOrder(answers \cup {last})
  BY <1>2 DEF EndsLast, InOrder
<1> QED BY <1>1, <1>3, <1>4

LEMMA UnendedEndsLast ==
    ASSUME NEW answers
    PROVE  /\ Unended(answers) => EndsLast(answers)
           /\ EndsLast(answers) => InOrder(answers)
BY DEF Unended, EndsLast, InOrder

\* Answers that get numbers, or stand behind a later number, keep their order.
LEMMA RenumberedInOrder ==
    ASSUME NEW n \in Nat, NEW old, \A p \in old : p.at \in Nat /\ p.at < n,
           NEW kinds \in Seq(Ledger!EventKind), NEW at \in [1..Len(kinds) -> Nat],
           \A i \in 1..Len(kinds) : n <= at[i],
           \A i, j \in 1..Len(kinds) : i < j => at[i] < at[j],
           NEW others,
           \A p \in others : p \in old \/ \E i \in 1..Len(kinds) : p = Answer(at[i], kinds[i])
    PROVE  /\ InOrder(old \cup Behind(n, kinds)) => InOrder(others)
           /\ EndsLast(old \cup Behind(n, kinds)) => EndsLast(others)
           /\ Unended(old \cup Behind(n, kinds)) => Unended(others)
<1> DEFINE answers == old \cup Behind(n, kinds)
           Same(p, q) == \/ p \in old /\ p = q
                         \/ \E i \in 1..Len(kinds) : p = Answer(at[i], kinds[i])
                                                     /\ q = Answer(n + i, kinds[i])
           same == {r \in others \X answers : Same(r[1], r[2])}
<1>1. Len(kinds) \in Nat
  BY LenProperties
<1>2. ASSUME NEW p \in others
      PROVE  \E q \in answers : <<p, q>> \in same /\ p.kind = q.kind
  <2>1. CASE p \in old
    BY <2>1
  <2>2. ASSUME NEW i \in 1..Len(kinds), p = Answer(at[i], kinds[i])
        PROVE  \E q \in answers : <<p, q>> \in same /\ p.kind = q.kind
    <3> DEFINE q == Answer(n + i, kinds[i])
    <3>1. q \in answers /\ Same(p, q)
      BY <2>2 DEF Behind
    <3>2. p.kind = q.kind
      BY <2>2 DEF Answer
    <3> HIDE DEF q, Same, answers
    <3> QED BY <3>1, <3>2
  <2> QED BY <2>1, <2>2
<1>3. ASSUME NEW i \in 1..Len(kinds), NEW j \in 1..Len(kinds), at[i] < at[j]
      PROVE  i < j
  <2>1. at[i] \in Nat /\ at[j] \in Nat
    OBVIOUS
  <2>2. i = j \/ j < i \/ i < j
    BY <1>1
  <2> QED BY <1>3, <2>1, <2>2
<1>4. ASSUME NEW p, NEW q, NEW r, NEW s, Same(p, r), Same(q, s), p.at < q.at
      PROVE  r.at < s.at
  <2>1. CASE p \in old /\ p = r /\ q \in old /\ q = s
    BY <1>4, <2>1
  <2>2. ASSUME p \in old, p = r, NEW j \in 1..Len(kinds), s = Answer(n + j, kinds[j])
        PROVE  r.at < s.at
    <3>1. s.at = n + j /\ p.at \in Nat /\ p.at < n /\ j \in Nat
      BY <1>1, <2>2 DEF Answer
    <3> QED BY <2>2, <3>1
  <2>3. ASSUME q \in old, NEW i \in 1..Len(kinds), p = Answer(at[i], kinds[i])
        PROVE  FALSE
    <3>1. p.at = at[i] /\ n <= at[i] /\ q.at < n /\ at[i] \in Nat /\ q.at \in Nat
      BY <2>3 DEF Answer
    <3> QED BY <1>4, <3>1
  <2>4. ASSUME NEW i \in 1..Len(kinds), NEW j \in 1..Len(kinds),
               p = Answer(at[i], kinds[i]), r = Answer(n + i, kinds[i]),
               q = Answer(at[j], kinds[j]), s = Answer(n + j, kinds[j])
        PROVE  r.at < s.at
    <3>1. p.at = at[i] /\ q.at = at[j] /\ r.at = n + i /\ s.at = n + j
      BY <2>4 DEF Answer
    <3>2. i < j
      BY <1>3, <1>4, <3>1
    <3> QED BY <1>1, <3>1, <3>2
  <2> QED BY <1>4, <2>1, <2>2, <2>3, <2>4
<1> HIDE DEF Same
<1>5. \A p, q \in others : \A r, s \in answers :
          <<p, r>> \in same /\ <<q, s>> \in same /\ p.at < q.at => r.at < s.at
  BY <1>4
<1> HIDE DEF same
<1> HIDE DEF answers
<1>6. /\ InOrder(answers) => InOrder(others)
      /\ EndsLast(answers) => EndsLast(others)
      /\ Unended(answers) => Unended(others)
  BY <1>2, <1>5, SameOrder
<1> QED BY <1>6 DEF answers

\* What has a number, and what has none.
LEMMA AnswersArePlaced ==
    ASSUME Ledger!LedgerInvariant, StreamInv, NEW c \in Commands
    PROVE  /\ nextOutgoing \in Nat
           /\ \A p \in NumberedAnswers(c) : p.at \in Nat /\ p.at < nextOutgoing
           /\ c \in Ledger!Retained => commands[c].events \in Seq(Ledger!EventKind)
<1>1. nextOutgoing \in Nat
  BY DEF Ledger!LedgerInvariant, Ledger!Typed, Ledger!LedgerTypeOK
<1>2. \A e \in Sent \cup KeptEnvelopes : e \in Envelope /\ e.sequence < nextOutgoing
  BY KeptAreNumbered, SentIsTyped DEF KeptIsNumbered, StreamInv, OneEnvelopePerNumber
<1>3. ASSUME NEW p \in NumberedAnswers(c)
      PROVE  p.at \in Nat /\ p.at < nextOutgoing
  <2>1. PICK e \in Sent \cup KeptEnvelopes : p = Answer(e.sequence, e.kind)
    BY DEF NumberedAnswers
  <2>2. e.sequence \in Nat /\ p.at = e.sequence
    BY <1>2, <2>1 DEF Envelope, Answer
  <2> QED BY <1>2, <2>2
<1>4. c \in Ledger!Retained => commands[c].events \in Seq(Ledger!EventKind)
  BY DEF Ledger!LedgerInvariant, Ledger!Typed, Ledger!Kept, Ledger!Retained,
         Ledger!PersistedCommand
<1> QED BY <1>1, <1>3, <1>4

\* A command's envelopes after a step are those of before and those that got numbers.
LEMMA NumberedAnswersGoOn ==
    ASSUME StreamInv, Ledger!NumbersGoOn, Ledger!LedgerInvariant,
           Sent' \subseteq Sent \cup KeptEnvelopes', NEW c \in Commands,
           NEW p \in NumberedAnswers(c)', p \notin NumberedAnswers(c)
    PROVE  /\ c \in Ledger!Retained'
           /\ \E i \in DOMAIN commands'[c].outgoing :
                 /\ p = Answer(commands'[c].outgoing[i].sequence, commands'[c].outgoing[i].kind)
                 /\ ~(/\ c \in Ledger!Retained /\ i \in DOMAIN commands[c].outgoing
                      /\ commands'[c].outgoing[i] = commands[c].outgoing[i])
<1>1. PICK e \in Sent' \cup KeptEnvelopes' : e.command = c /\ p = Answer(e.sequence, e.kind)
  BY DEF NumberedAnswers
<1>2. e \notin Sent \cup KeptEnvelopes
  BY <1>1 DEF NumberedAnswers
<1>3. e \in KeptEnvelopes'
  BY <1>1, <1>2
<1> DEFINE envelope(d, i) == [sequence |-> commands'[d].outgoing[i].sequence, command |-> d,
                              kind |-> commands'[d].outgoing[i].kind]
<1>4. PICK d \in Ledger!Retained' : \E i \in DOMAIN commands'[d].outgoing : e = envelope(d, i)
  BY <1>3 DEF KeptEnvelopes
<1>5. PICK i \in DOMAIN commands'[d].outgoing : e = envelope(d, i)
  BY <1>4
<1>6. /\ d = c /\ e.sequence = commands'[c].outgoing[i].sequence
      /\ e.kind = commands'[c].outgoing[i].kind
  BY <1>1, <1>5
<1>7. ASSUME c \in Ledger!Retained, i \in DOMAIN commands[c].outgoing,
             commands'[c].outgoing[i] = commands[c].outgoing[i]
      PROVE  FALSE
  <2> DEFINE kept == [sequence |-> commands[c].outgoing[i].sequence, command |-> c,
                      kind |-> commands[c].outgoing[i].kind]
  <2>1. kept \in KeptEnvelopes
    BY <1>7 DEF KeptEnvelopes
  <2>2. e = kept
    BY <1>5, <1>6, <1>7
  <2> QED BY <1>2, <2>1, <2>2
<1> QED BY <1>1, <1>4, <1>5, <1>6, <1>7

LEMMA AnswersGoOn ==
    ASSUME StreamInv, Ledger!NumbersGoOn, Ledger!LedgerInvariant, Ledger!LedgerInvariant',
           Sent' \subseteq Sent \cup KeptEnvelopes', NEW c \in Commands, c \in Ledger!Retained',
           NEW kinds, NEW at, Ledger!EventsGoOn(c, kinds, at)
    PROVE  \A p \in Answers(c)' :
              p \in NumberedAnswers(c) \/ \E i \in 1..Len(kinds) : p = Answer(at[i], kinds[i])
<1>1. ASSUME NEW p \in NumberedAnswers(c)', p \notin NumberedAnswers(c)
      PROVE  \E i \in 1..Len(kinds) : p = Answer(at[i], kinds[i])
  <2>1. PICK i \in DOMAIN commands'[c].outgoing :
            /\ p = Answer(commands'[c].outgoing[i].sequence, commands'[c].outgoing[i].kind)
            /\ ~(/\ c \in Ledger!Retained /\ i \in DOMAIN commands[c].outgoing
                 /\ commands'[c].outgoing[i] = commands[c].outgoing[i])
    BY <1>1, NumberedAnswersGoOn
  <2>2. PICK j \in 1..Len(kinds) :
            commands'[c].outgoing[i] = [sequence |-> at[j], kind |-> kinds[j]]
    BY <2>1 DEF Ledger!EventsGoOn
  <2> QED BY <2>1, <2>2
<1>2. ASSUME NEW p \in Behind(nextOutgoing, commands[c].events)'
      PROVE  \E i \in 1..Len(kinds) : p = Answer(at[i], kinds[i])
  <2>1. PICK i \in DOMAIN commands'[c].events :
            p = Answer(nextOutgoing' + i, commands'[c].events[i])
    <3>1. commands'[c].events \in Seq(Ledger!EventKind)
      BY DEF Ledger!LedgerInvariant, Ledger!Typed, Ledger!Kept, Ledger!Retained,
             Ledger!PersistedCommand
    <3>2. DOMAIN commands'[c].events = 1..Len(commands'[c].events)
      BY <3>1, LenProperties
    <3> QED BY <3>2 DEF Behind
  <2>2. PICK j \in 1..Len(kinds) : at[j] = nextOutgoing' + i /\ kinds[j] = commands'[c].events[i]
    BY <2>1 DEF Ledger!EventsGoOn
  <2> QED BY <2>1, <2>2
<1> QED BY <1>1, <1>2 DEF Answers

\* Where the answers stand when a step has extended a command's events.
LEMMA ExtendedAnswers ==
    ASSUME Ledger!LedgerInvariant, StreamInv, AnswersInOrder, NEW c \in Commands,
           NEW kinds \in Seq(Ledger!EventKind), Ledger!Extends(c, kinds),
           Ledger!Fenced'
    PROVE  LET extended == NumberedAnswers(c) \cup Behind(nextOutgoing, kinds)
           IN  /\ InOrder(extended)
               /\ commands'[c].status = "admitted" => EndsLast(extended)
               /\ calls'[c] = "running" => Unended(extended)
<1> DEFINE old == NumberedAnswers(c)
           extended == old \cup Behind(nextOutgoing, kinds)
           plain == commands[c].events
<1>1. /\ nextOutgoing \in Nat
      /\ \A p \in old : p.at \in Nat /\ p.at < nextOutgoing
      /\ c \in Ledger!Retained => plain \in Seq(Ledger!EventKind)
  BY AnswersArePlaced
<1>2. c \in Ledger!Retained =>
          /\ Len(plain) \in Nat /\ DOMAIN plain = 1..Len(plain)
          /\ Answers(c) = old \cup Behind(nextOutgoing, plain)
  <2>1. c \in Ledger!Retained => Len(plain) \in Nat /\ DOMAIN plain = 1..Len(plain)
    BY <1>1, LenProperties
  <2> QED BY <2>1 DEF Answers
<1>3. calls[c] = "running" => c \in Ledger!Retained /\ commands[c].status = "admitted"
  BY NoneIsNoValue, LedgerIsParameterized
     DEF Ledger!LedgerInvariant, Ledger!Fenced, Ledger!Typed, Ledger!Kept, Ledger!Retained,
         Ledger!Commands, Commands
<1>4. CASE c \notin Ledger!Retained /\ highestReceived < c /\ kinds = <<>>
  <2>1. old = {}
    BY <1>4 DEF AnswersInOrder, Answers
  <2>2. 1..Len(kinds) = {}
    BY <1>4
  <2>3. extended = {}
    BY <2>1, <2>2 DEF Behind
  <2> QED BY <2>3 DEF InOrder, EndsLast, Unended
<1>5. CASE /\ c \in Ledger!Retained /\ kinds = plain
           /\ commands'[c].status = "admitted" => commands[c].status = "admitted"
           /\ calls'[c] = "running" => calls[c] = "running"
  <2>1. extended = Answers(c)
    BY <1>2, <1>5
  <2> QED BY <1>5, <2>1 DEF AnswersInOrder
<1>6. ASSUME c \in Ledger!Retained, NEW kind \in Ledger!EventKind, kinds = Append(plain, kind),
             \/ calls[c] = "running" /\ kind = "event"
             \/ calls[c] = "running" /\ calls'[c] # "running"
             \/ /\ commands[c].status = "admitted" /\ kind = "failed"
                /\ commands'[c].status # "admitted" /\ calls'[c] # "running"
      PROVE  /\ InOrder(extended)
             /\ commands'[c].status = "admitted" => EndsLast(extended)
             /\ calls'[c] = "running" => Unended(extended)
  <2> DEFINE last == Answer(nextOutgoing + (Len(plain) + 1), kind)
             answers == Answers(c)
  <2>1. /\ Len(kinds) = Len(plain) + 1 /\ Len(plain) \in Nat
        /\ \A i \in 1..Len(plain) : kinds[i] = plain[i]
        /\ kinds[Len(plain) + 1] = kind
    BY <1>1, <1>2, <1>6, AppendProperties
  <2>2. 1..Len(kinds) = 1..Len(plain) \cup {Len(plain) + 1}
    BY <2>1
  <2>3. extended = answers \cup {last}
    <3>1. Behind(nextOutgoing, kinds) = Behind(nextOutgoing, plain) \cup {last}
      BY <2>1, <2>2 DEF Behind
    <3> QED BY <1>2, <1>6, <3>1
  <2>4. last.at = nextOutgoing + (Len(plain) + 1) /\ last.at \in Nat /\ last.kind = kind
    BY <1>1, <2>1 DEF Answer
  <2>5. ASSUME NEW p \in answers
        PROVE  p.at \in Nat /\ p.at < last.at
    <3>1. CASE p \in old
      BY <1>1, <2>1, <2>4, <3>1
    <3>2. ASSUME NEW i \in 1..Len(plain), p = Answer(nextOutgoing + i, plain[i])
          PROVE  p.at \in Nat /\ p.at < last.at
      <4>1. p.at = nextOutgoing + i
        BY <3>2 DEF Answer
      <4> QED BY <1>1, <2>1, <2>4, <4>1
    <3> QED BY <1>2, <1>6, <3>1, <3>2 DEF Behind
  <2> HIDE DEF last, answers
  <2>6. /\ Unended(answers) /\ kind = "event" => Unended(extended)
        /\ Unended(answers) => EndsLast(extended)
        /\ EndsLast(answers) /\ kind = "failed" => InOrder(extended)
    BY <2>3, <2>4, <2>5, OneMoreInOrder
  <2>7. /\ calls[c] = "running" => Unended(answers)
        /\ commands[c].status = "admitted" => EndsLast(answers)
    BY <1>6 DEF AnswersInOrder, answers
  <2> HIDE DEF extended
  <2> QED BY <1>6, <2>6, <2>7, UnendedEndsLast
<1> QED BY <1>4, <1>5, <1>6 DEF Ledger!Extends

LEMMA StepKeepsAnswersInOrder ==
    ASSUME Ledger!LedgerInvariant, Ledger!LedgerInvariant', TunnelInv, StreamInv,
           AnswersInOrder, [Next]_vars
    PROVE  AnswersInOrder'
<1>1. Ledger!Next \/ UNCHANGED Ledger!vars
  BY LedgerStep DEF ledgerVars, Ledger!vars, Ledger!ledger, Ledger!transport
<1>2. /\ Ledger!NumbersGoOn
      /\ highestReceived \in Nat /\ highestReceived <= highestReceived'
      /\ Ledger!Fenced /\ Ledger!Fenced' /\ Ledger!Typed'
  BY <1>1, Ledger!StepGoesOn, Ledger!HighestGoesOn, LedgerIsParameterized
     DEF Ledger!LedgerInvariant
<1>3. Sent' \subseteq Sent \cup KeptEnvelopes'
  BY StepKeepsStream
<1>4. Ledger!Commands = Commands /\ \A c \in Commands : c \in Nat
  BY DEF Ledger!Commands, Commands
<1>5. highestReceived' \in Nat
  BY <1>2 DEF Ledger!Fenced
<1> SUFFICES ASSUME NEW c \in Commands
             PROVE  /\ InOrder(Answers(c)')
                    /\ c \in Ledger!Retained' /\ commands'[c].status = "admitted" => EndsLast(Answers(c)')
                    /\ calls'[c] = "running" => Unended(Answers(c)')
                    /\ highestReceived' < c => Answers(c)' = {}
  BY DEF AnswersInOrder, InOrder, EndsLast, Unended
<1>6. CASE c \notin Ledger!Retained'
  <2>1. Answers(c)' \subseteq Answers(c)
    BY <1>2, <1>3, <1>6, NumberedAnswersGoOn DEF Answers
  <2>2. InOrder(Answers(c)')
    BY <2>1, FewerInOrder DEF AnswersInOrder
  <2>3. calls'[c] # "running"
    <3>1. calls'[c] # None => c \in Ledger!Retained'
      BY <1>2, <1>4, NoneIsNoRecord DEF Ledger!Typed, Ledger!Kept, Ledger!Retained
    <3> QED BY <1>6, <3>1, NoneIsNoValue
  <2>4. highestReceived' < c => highestReceived < c
    BY <1>2, <1>4, <1>5
  <2> QED BY <1>6, <2>1, <2>2, <2>3, <2>4 DEF AnswersInOrder
<1>7. CASE c \in Ledger!Retained'
  <2>1. PICK kinds, at : Ledger!EventsGoOn(c, kinds, at) /\ Ledger!Extends(c, kinds)
    BY <1>1, <1>7, Ledger!EventsStep, LedgerIsParameterized
  <2> DEFINE old == NumberedAnswers(c)
             extended == old \cup Behind(nextOutgoing, kinds)
             others == Answers(c)'
  <2>2. /\ kinds \in Seq(Ledger!EventKind) /\ at \in [1..Len(kinds) -> Nat]
        /\ \A i \in 1..Len(kinds) : nextOutgoing <= at[i]
        /\ \A i, j \in 1..Len(kinds) : i < j => at[i] < at[j]
    BY <2>1 DEF Ledger!EventsGoOn
  <2>3. /\ InOrder(extended)
        /\ commands'[c].status = "admitted" => EndsLast(extended)
        /\ calls'[c] = "running" => Unended(extended)
    BY <1>2, <2>1, <2>2, ExtendedAnswers
  <2>4. /\ nextOutgoing \in Nat
        /\ \A p \in old : p.at \in Nat /\ p.at < nextOutgoing
    BY AnswersArePlaced
  <2>5. \A p \in others :
            p \in old \/ \E i \in 1..Len(kinds) : p = Answer(at[i], kinds[i])
    BY <1>2, <1>3, <1>7, <2>1, AnswersGoOn
  <2> HIDE DEF old, others
  <2>6. /\ InOrder(extended) => InOrder(others)
        /\ EndsLast(extended) => EndsLast(others)
        /\ Unended(extended) => Unended(others)
    BY <2>2, <2>4, <2>5, RenumberedInOrder
  <2>7. ~(highestReceived' < c)
    <3>1. c <= highestReceived'
      BY <1>2, <1>4, <1>7 DEF Ledger!Fenced, Ledger!Kept
    <3> QED BY <1>4, <1>5, <3>1
  <2> QED BY <2>3, <2>6, <2>7 DEF others
<1> QED BY <1>6, <1>7

LEMMA AnswersStart == Init => AnswersInOrder
<1> SUFFICES ASSUME Init PROVE AnswersInOrder
  OBVIOUS
<1>1. Running = {} /\ Sent = {}
  BY DEF Init, Running, Streamed, Sent
<1>2. Ledger!Retained = {} /\ \A c \in Commands : calls[c] # "running"
  BY NoneIsNoValue DEF Init, Ledger!Init, Ledger!Retained, Ledger!Commands, Commands
<1>3. \A c \in Commands : Answers(c) = {}
  BY <1>1, <1>2 DEF Answers, NumberedAnswers, KeptEnvelopes
<1> QED BY <1>2, <1>3 DEF AnswersInOrder, InOrder

LEMMA AnswersInvariant ==
    Spec => [](Ledger!LedgerInvariant /\ TunnelInv /\ StreamInv /\ AnswersInOrder)
<1>1. /\ Ledger!LedgerInvariant /\ Ledger!LedgerInvariant' /\ TunnelInv /\ StreamInv
      /\ AnswersInOrder /\ [Next]_vars
      => AnswersInOrder'
  BY StepKeepsAnswersInOrder
<1> QED BY <1>1, AnswersStart, StreamInvariant, PTL DEF Spec

-----------------------------------------------------------------------------
(* The promise.                                                            *)

\* What the relay takes is an answer that the promise allows.
LEMMA TakenIsPromised ==
    ASSUME Ledger!LedgerInvariant, StreamInv, AnswersInOrder, Ledger!ExecutedAtMostOnce,
           NEW e \in Sent, e.sequence = Expected, stream' = Append(stream, e),
           UNCHANGED <<authors, executions>>
    PROVE  Promise!Next
<1> DEFINE c == e.command
           told == [i \in DOMAIN stream |->
                       [command |-> stream[i].command, kind |-> stream[i].kind]]
           Terminals == {i \in DOMAIN stream : stream[i].command = c
                                               /\ stream[i].kind \in {"complete", "failed"}}
<1>1. /\ e \in Envelope /\ e.kind \in {"event"} \cup {"complete", "failed"} /\ c \in Commands
      /\ stream \in Seq(Envelope) /\ \A i \in DOMAIN stream : stream[i].sequence = i
      /\ Len(stream) \in Nat /\ DOMAIN stream = 1..Len(stream)
  <2>1. e \in Envelope /\ stream \in Seq(Envelope) /\ Len(stream) \in Nat
        /\ \A i \in DOMAIN stream : stream[i].sequence = i
    BY SentIsTyped DEF StreamInv, Relayed
  <2>2. DOMAIN stream = 1..Len(stream)
    BY <2>1, LenProperties
  <2>3. e.kind \in {"event"} \cup {"complete", "failed"} /\ c \in Commands
    BY <2>1 DEF Envelope, Ledger!EventKind, Ledger!Settled
  <2> QED BY <2>1, <2>2, <2>3
<1>2. Answer(e.sequence, e.kind) \in Answers(c)
  BY DEF Answers, NumberedAnswers
<1>3. ASSUME NEW i \in Terminals
      PROVE  /\ Answer(i, stream[i].kind) \in Answers(c)
             /\ i \in Nat /\ i < e.sequence /\ stream[i].kind \in Ledger!Settled
  <2>1. stream[i] \in Sent /\ stream[i].command = c /\ stream[i].sequence = i
    BY <1>1 DEF Sent, Streamed
  <2>2. Answer(i, stream[i].kind) \in NumberedAnswers(c)
    BY <2>1 DEF NumberedAnswers
  <2> QED BY <1>1, <2>2 DEF Answers, Expected, Ledger!Settled
<1>4. executions[c] = 1
  <2>1. ~(highestReceived < c)
    BY <1>1, <1>2 DEF AnswersInOrder
  <2>2. highestReceived \in Nat /\ c \in Nat
    BY <1>1 DEF Ledger!LedgerInvariant, Ledger!Fenced, Commands
  <2> QED BY <1>1, <2>1, <2>2 DEF Ledger!ExecutedAtMostOnce, Ledger!Commands, Commands
<1>5. InOrder(Answers(c))
  BY <1>1 DEF AnswersInOrder
<1>6. ASSUME NEW i \in Terminals
      PROVE  e.kind = "failed"
  <2> DEFINE p == Answer(i, stream[i].kind)
             q == Answer(e.sequence, e.kind)
  <2>1. p.at = i /\ p.kind = stream[i].kind /\ q.at = e.sequence /\ q.kind = e.kind
    BY DEF Answer
  <2> HIDE DEF p, q
  <2>2. p \in Answers(c) /\ q \in Answers(c) /\ p.at < q.at /\ p.kind \in Ledger!Settled
    BY <1>2, <1>3, <2>1 DEF p, q
  <2> QED BY <1>5, <2>1, <2>2 DEF InOrder
<1>7. ASSUME NEW i \in Terminals, NEW j \in Terminals
      PROVE  i = j
  <2>1. ASSUME NEW m \in Terminals, NEW n \in Terminals, m < n
        PROVE  FALSE
    <3> DEFINE p == Answer(m, stream[m].kind)
               q == Answer(n, stream[n].kind)
               r == Answer(e.sequence, e.kind)
    <3>1. /\ p.at = m /\ p.kind = stream[m].kind /\ q.at = n /\ q.kind = stream[n].kind
          /\ r.at = e.sequence
      BY DEF Answer
    <3> HIDE DEF p, q, r
    <3>2. /\ p \in Answers(c) /\ q \in Answers(c) /\ r \in Answers(c)
          /\ p.at < q.at /\ q.at < r.at
          /\ p.kind \in Ledger!Settled /\ q.kind \in Ledger!Settled
      BY <1>2, <1>3, <2>1, <3>1 DEF p, q, r
    <3> QED BY <1>5, <3>2 DEF InOrder
  <2>2. i \in Nat /\ j \in Nat
    BY <1>3
  <2> HIDE DEF Terminals
  <2>3. ~(i < j) /\ ~(j < i)
    BY <2>1
  <2> QED BY <2>2, <2>3
<1>8. Promise!Terminals(c) = Terminals
  BY DEF Promise!Terminals, Promise!Terminal
<1>9. [i \in DOMAIN stream' |-> [command |-> stream'[i].command, kind |-> stream'[i].kind]]
      = Append(told, [command |-> c, kind |-> e.kind])
  <2> DEFINE new == [i \in DOMAIN stream' |->
                        [command |-> stream'[i].command, kind |-> stream'[i].kind]]
             Record == [command: Commands, kind: {"event"} \cup {"complete", "failed"}]
             last == [command |-> c, kind |-> e.kind]
  <2>1. /\ Len(stream') = Len(stream) + 1 /\ stream' \in Seq(Envelope)
        /\ \A i \in 1..Len(stream) : stream'[i] = stream[i]
        /\ stream'[Len(stream) + 1] = e
    BY <1>1, AppendProperties
  <2>2. DOMAIN stream' = 1..(Len(stream) + 1)
    BY <2>1, LenProperties
  <2>3. told \in Seq(Record) /\ Len(told) = Len(stream)
    <3>1. \A i \in 1..Len(stream) :
              [command |-> stream[i].command, kind |-> stream[i].kind] \in Record
      <4>1. \A i \in 1..Len(stream) : stream[i] \in Envelope
        BY <1>1, ElementOfSeq
      <4> QED BY <4>1 DEF Envelope, Ledger!EventKind, Ledger!Settled
    <3>2. DOMAIN told = 1..Len(stream)
      BY <1>1
    <3>3. told \in [1..Len(stream) -> Record]
      BY <1>1, <3>1
    <3>4. told \in Seq(Record)
      BY <1>1, <3>3, SeqDef
    <3> QED BY <1>1, <3>2, <3>4, LenProperties
  <2>4. last \in Record
    BY <1>1
  <2> HIDE DEF Record, last
  <2>5. /\ Append(told, last) \in Seq(Record) /\ Len(Append(told, last)) = Len(stream) + 1
        /\ \A i \in 1..Len(stream) : Append(told, last)[i] = told[i]
        /\ Append(told, last)[Len(stream) + 1] = last
    BY <2>3, <2>4, AppendProperties
  <2>6. DOMAIN Append(told, last) = 1..(Len(stream) + 1)
        /\ Append(told, last) = [i \in 1..(Len(stream) + 1) |-> Append(told, last)[i]]
    BY <2>5, LenProperties, SeqDef
  <2>7. ASSUME NEW i \in 1..(Len(stream) + 1)
        PROVE  new[i] = Append(told, last)[i]
    <3>1. CASE i \in 1..Len(stream)
      BY <1>1, <2>1, <2>2, <2>5, <3>1
    <3>2. CASE i = Len(stream) + 1
      BY <2>1, <2>2, <2>5, <3>2 DEF last
    <3> QED BY <1>1, <3>1, <3>2
  <2>8. new = [i \in 1..(Len(stream) + 1) |-> new[i]]
    BY <2>2
  <2> HIDE DEF told, new
  <2>9. new = Append(told, last)
    BY <2>6, <2>7, <2>8
  <2> QED BY <2>9 DEF new, told, last
<1>10. Promise!answer(c, e.kind)
  <2>1. published' = published
    BY DEF published
  <2>2. \A i, j \in Promise!Terminals(c) : i = j /\ e.kind = "failed"
    BY <1>6, <1>7, <1>8
  <2>3. [i \in DOMAIN stream |-> [command |-> stream[i].command, kind |-> stream[i].kind]]'
        = Append([i \in DOMAIN stream |->
                     [command |-> stream[i].command, kind |-> stream[i].kind]],
                 [command |-> c, kind |-> e.kind])
    BY <1>9
  <2> HIDE DEF Terminals
  <2> QED BY <1>4, <2>1, <2>2, <2>3 DEF Promise!answer
<1> QED BY <1>1, <1>10 DEF Promise!Next, Promise!Commands, Commands, Promise!Terminal

\* A command is started when it is the next of the desktop's stream.
LEMMA AdmissionIsPromised ==
    ASSUME Ledger!LedgerInvariant, TunnelInv, StreamInv, Ledger!ExecutedAtMostOnce,
           NEW t \in Tunnels, admit(t)
    PROVE  Promise!Next
<1> DEFINE c == NextOf(t)
<1>1. /\ Receives(t) /\ Ledger!handle(c, tunnels[t].scope) /\ UNCHANGED relayVars
  BY DEF admit
<1>2. /\ c = highestReceived + 1
      /\ executions' = [executions EXCEPT ![c] = @ + 1]
  BY <1>1 DEF Ledger!handle, Ledger!Admits, Ledger!NewAdmission
<1>3. highestReceived \in Nat
  BY DEF Ledger!LedgerInvariant, Ledger!Fenced
<1>4. c <= published /\ c \in Commands
  <2>1. /\ tunnels[t].cursor \in Nat /\ tunnels[t].cursor < published
        /\ published \in 0..MaxCommands /\ c = tunnels[t].cursor + 1
    BY <1>1, SentIsTyped
       DEF Receives, Listening, StreamInv, Tunnel, TunnelInv, AuthorsBounded, published, NextOf
  <2> HIDE DEF c
  <2>2. published \in Nat /\ published <= MaxCommands
    BY <2>1, BoundsAreNumbers
  <2> QED BY <2>1, <2>2, BoundsAreNumbers DEF Commands
<1>5. \A d \in Commands : executions[d] = 1 <=> d < c
  <2> HIDE DEF c
  <2>1. \A d \in Commands : d \in Nat /\ (executions[d] = 1 <=> d <= highestReceived)
    BY DEF Ledger!ExecutedAtMostOnce, Ledger!Commands, Commands
  <2> QED BY <1>2, <1>3, <2>1
<1>6. published' = published /\ stream' = stream
  BY <1>1 DEF relayVars, published
<1> HIDE DEF c
<1>7. Promise!execute(c)
  BY <1>2, <1>4, <1>5, <1>6 DEF Promise!execute, Promise!Commands, Commands
<1> QED BY <1>4, <1>7 DEF Promise!Next, Promise!Commands, Commands

\* Every step is one of the promise, or nothing that it speaks of.
LEMMA StepIsPromised ==
    ASSUME Ledger!LedgerInvariant, TunnelInv, StreamInv, AnswersInOrder,
           Ledger!ExecutedAtMostOnce, [Next]_vars
    PROVE  Promise!Next \/ UNCHANGED Promise!vars
<1>1. CASE publish
  <2>1. /\ Len(authors) < MaxCommands /\ authors' = Append(authors, grantedScope.client)
        /\ UNCHANGED <<executions, stream>>
    BY <1>1 DEF publish, published, ledgerVars
  <2>2. Len(authors') = Len(authors) + 1
    <3>1. PICK S : authors \in Seq(S)
      BY DEF TunnelInv, AuthorsBounded
    <3>2. authors \in Seq(S \cup {grantedScope.client})
      BY <3>1, SeqMonotonic
    <3> QED BY <2>1, <3>2, AppendProperties
  <2>3. Promise!publish
    BY <2>1, <2>2 DEF Promise!publish, published
  <2> QED BY <2>3 DEF Promise!Next
<1>2. CASE \E t \in Tunnels : admit(t)
  BY <1>2, AdmissionIsPromised
<1>3. ASSUME ~publish, ~ \E t \in Tunnels : admit(t)
      PROVE  Promise!Next \/ UNCHANGED Promise!vars
  <2>1. authors' = authors
    BY <1>3, StepMovesRelay DEF RelayMoves, RelayStays, send, arrive, grant
  <2>2. executions' = executions
    <3>1. ASSUME NEW batch, Ledger!prepareOutgoing(batch) \/ UNCHANGED ledgerVars
          PROVE  executions' = executions
      BY <3>1 DEF Ledger!prepareOutgoing, ledgerVars
    <3>2. CASE \/ initialize \/ crash \/ arrive \/ loseConnection \/ UNCHANGED vars
               \/ \E t \in Tunnels, scope \in Scopes : request(t, scope)
               \/ \E t \in Tunnels : connect(t) \/ refused(t) \/ end(t)
               \/ \E t \in Tunnels : join(t) \/ reject(t)
               \/ \E c \in Commands : emit(c) \/ settle(c)
               \/ \E c \in Commands, status \in Outcomes : appendTerminal(c, status)
               \/ \E t \in Tunnels, n \in 1..MaxOutgoing : acknowledgeOutgoing(t, n)
               \/ \E scope \in Scopes : grant(scope)
               \/ \E t \in Tunnels : send(t)
      BY <3>2
         DEF vars, ledgerVars, initialize, crash, request, connect, refused, end, join,
             reject, emit, settle, appendTerminal, grant, arrive, loseConnection, send,
             acknowledgeOutgoing, Ledger!initialize, Ledger!crash, Ledger!adoptControllerScope,
             Ledger!emit, Ledger!appendTerminal, Ledger!settle, Ledger!acknowledgeOutgoing
    <3>3. CASE \/ \E t \in Tunnels : flushAll(t)
               \/ \E t \in Tunnels, kind \in {"notified", "dispatched"}, c \in Commands :
                     flushOf(t, kind, c)
               \/ \E t \in Tunnels, c \in Commands : flushClosing(t, c)
      <4>1. ASSUME NEW t, NEW flush, NEW batch, Begin(t, flush, batch)
            PROVE  executions' = executions
        BY <3>1, <4>1, BeginPreparesOrLeaves
      <4>2. UNCHANGED ledgerVars => executions' = executions
        BY DEF ledgerVars
      <4> QED BY <3>1, <3>3, <4>1, <4>2 DEF flushAll, flushOf, flushClosing
    <3> QED BY <1>3, <3>2, <3>3 DEF Next
  <2>3. CASE stream' = stream
    <3>1. published' = published
      BY <2>1 DEF published
    <3> QED BY <2>2, <2>3, <3>1 DEF Promise!vars
  <2>4. ASSUME NEW e \in Sent, stream' = Taken(e), stream' # stream
        PROVE  Promise!Next
    <3>1. e.sequence = Expected /\ stream' = Append(stream, e)
      BY <2>4 DEF Taken
    <3> QED BY <2>1, <2>2, <3>1, TakenIsPromised
  <2>5. stream' = stream \/ \E e \in Sent : stream' = Taken(e)
    BY StepOfRelay DEF RelayGoesOn
  <2> QED BY <2>3, <2>4, <2>5
<1> QED BY <1>1, <1>2, <1>3

LEMMA PromiseStarts == Init => Promise!Init
<1> SUFFICES ASSUME Init PROVE Promise!Init
  OBVIOUS
<1>1. authors = <<>> /\ stream = <<>> /\ executions = [c \in Commands |-> 0]
  BY DEF Init, Ledger!Init, Ledger!Commands, Commands
<1>2. published = 0
  BY <1>1 DEF published
<1>3. [i \in DOMAIN stream |-> [command |-> stream[i].command, kind |-> stream[i].kind]] = <<>>
  BY <1>1
<1> QED BY <1>1, <1>2, <1>3 DEF Promise!Init, Promise!Commands, Commands

\* Over all that overlaps, is lost, repeated or restarted, the daemon with its tunnels and
\* the relay keep the promise to the desktop: commands are executed in order and once, and
\* what the relay holds for a command is its events, a terminal event, and at most the
\* failure of one restart.
THEOREM KeepsThePromise == Spec => ImplementsRemoteCommands
<1>1. Ledger!LedgerInvariant /\ TunnelInv /\ StreamInv /\ AnswersInOrder
          /\ Ledger!ExecutedAtMostOnce /\ [Next]_vars
      => [Promise!Next]_(Promise!vars)
  BY StepIsPromised
<1>2. Spec => []Ledger!ExecutedAtMostOnce
  BY DaemonExecutesOnceAndFenced, PTL
<1>3. Spec => Promise!Spec
  BY <1>1, <1>2, PromiseStarts, AnswersInvariant, PTL DEF Spec, Promise!Spec
<1> QED BY <1>3 DEF ImplementsRemoteCommands
=============================================================================
