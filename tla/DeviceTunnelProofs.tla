------------------------- MODULE DeviceTunnelProofs -------------------------
(***************************************************************************)
(* The daemon with its tunnels and the relay implements the ledger: every  *)
(* step of theirs is an operation of CommandLedger or leaves the ledger    *)
(* alone, so that what CommandLedgerProofs shows holds whatever tunnels,   *)
(* connections and restarts do.                                            *)
(***************************************************************************)
EXTENDS DeviceTunnel, SequenceTheorems, TLAPS

-----------------------------------------------------------------------------
(* The tunnels.                                                            *)

\* What a tunnel needs to hand a command to the ledger. (Its other fields carry what the
\* ledger numbered: DeviceStreamProofs.)
Sound(tunnel) ==
    /\ {"scope", "phase", "cursor"} \subseteq DOMAIN tunnel
    /\ tunnel.scope \in Scopes
    /\ tunnel.cursor \in Nat

Connected(tunnel) == Sound(tunnel) /\ tunnel.phase \in {"opened", "serving"}

TunnelsSound ==
    /\ DOMAIN tunnels = Tunnels
    /\ \A t \in Tunnels : tunnels[t] = None \/ Sound(tunnels[t])
    /\ holder # None => holder \in Tunnels /\ Connected(tunnels[holder])

AuthorsBounded == (\E S : authors \in Seq(S)) /\ Len(authors) \in 0..MaxCommands

TunnelInv ==
    /\ acknowledgedDesktop \in 0..MaxCommands
    /\ TunnelsSound
    /\ AuthorsBounded

\* A step that gives, takes or keeps tunnels one by one.
TunnelsKept ==
    /\ DOMAIN tunnels' = Tunnels
    /\ \A t \in Tunnels :
          \/ tunnels'[t] = tunnels[t]
          \/ tunnels'[t] = None /\ t # holder
          \/ /\ Sound(tunnels'[t])
             /\ t = holder => tunnels'[t].phase \in {"opened", "serving"}

LEMMA KeptIsSound ==
    ASSUME TunnelsSound, TunnelsKept, holder' = holder
    PROVE  TunnelsSound'
BY DEF TunnelsSound, TunnelsKept, Connected

\* One tunnel goes on.
LEMMA ChangedIsSound ==
    ASSUME TunnelsSound, NEW t \in Tunnels, NEW tunnel, Sound(tunnel),
           tunnel.phase \in {tunnels[t].phase, "serving"},
           tunnels' = [tunnels EXCEPT ![t] = tunnel], holder' = holder
    PROVE  TunnelsSound'
<1>1. ASSUME t = holder
      PROVE  tunnel.phase \in {"opened", "serving"}
  BY <1>1, NoneIsNoTunnel DEF TunnelsSound, Connected
<1>2. tunnels'[t] = tunnel /\ \A x \in Tunnels \ {t} : tunnels'[x] = tunnels[x]
  BY DEF TunnelsSound
<1>3. TunnelsKept
  BY <1>1, <1>2 DEF TunnelsSound, TunnelsKept
<1> QED BY <1>3, KeptIsSound

LEMMA ClosingIsSound ==
    ASSUME TunnelsSound
    PROVE  /\ DOMAIN Closing(tunnels, holder) = Tunnels
           /\ \A t \in Tunnels : /\ Closing(tunnels, holder)[t] = None \/ Sound(Closing(tunnels, holder)[t])
                                 /\ t # holder => Closing(tunnels, holder)[t] = tunnels[t]
<1>1. CASE holder = None
  BY <1>1 DEF Closing, TunnelsSound
<1>2. CASE holder # None
  <2> DEFINE tunnel == tunnels[holder]
             closed == [tunnel EXCEPT !.phase = "closing", !.cursor = 0, !.next = 1,
                            !.dispatched = {}, !.flush = None, !.sending = {}]
  <2>1. Closing(tunnels, holder) = [tunnels EXCEPT ![holder] = closed]
    BY <1>2 DEF Closing
  <2>2. Sound(tunnel) /\ holder \in Tunnels
    BY <1>2 DEF TunnelsSound, Connected
  <2> HIDE DEF tunnel
  <2>3. Sound(closed)
    BY <2>2 DEF Sound
  <2> HIDE DEF closed
  <2> QED BY <2>1, <2>2, <2>3 DEF TunnelsSound
<1> QED BY <1>1, <1>2

LEMMA DisconnectIsSound ==
    ASSUME TunnelsSound, Disconnect
    PROVE  TunnelsSound'
BY ClosingIsSound DEF Disconnect, TunnelsSound

\* Another wish, another command, a flush: the scope and the cursor stay.
LEMMA FinishedIsSound ==
    ASSUME NEW tunnel, Sound(tunnel)
    PROVE  Sound(Finished(tunnel)) /\ Finished(tunnel).phase = "serving"
<1> DEFINE wanted == IF tunnel.flush.kind = "notified" THEN tunnel.wanted \ {tunnel.flush.command}
                     ELSE tunnel.wanted
           dispatched == IF tunnel.flush.kind = "dispatched"
                         THEN tunnel.dispatched \ {tunnel.flush.command} ELSE tunnel.dispatched
<1>1. Finished(tunnel) = [tunnel EXCEPT !.phase = "serving", !.wanted = wanted,
                              !.dispatched = dispatched, !.flush = None, !.sending = {}]
  BY DEF Finished
<1> HIDE DEF wanted, dispatched
<1> QED BY <1>1 DEF Sound

LEMMA FailsIsSound ==
    ASSUME TunnelsSound, NEW t \in Tunnels, Sound(tunnels[t]), NEW flush, Fails(t, flush)
    PROVE  TunnelsSound'
<1>1. CASE flush.kind # "notified"
  BY <1>1, DisconnectIsSound DEF Fails
<1>2. CASE flush.kind = "notified"
  <2> DEFINE tunnel == [tunnels[t] EXCEPT !.flush = flush]
  <2>1. Sound(tunnel)
    BY DEF Sound
  <2>2. tunnels' = [tunnels EXCEPT ![t] = Finished(tunnel)] /\ holder' = holder
    BY <1>2 DEF Fails
  <2> HIDE DEF tunnel
  <2> QED BY <2>1, <2>2, FinishedIsSound, ChangedIsSound
<1> QED BY <1>1, <1>2

LEMMA BeginIsSound ==
    ASSUME TunnelsSound, NEW t \in Running, NEW flush, NEW batch, Begin(t, flush, batch)
    PROVE  TunnelsSound'
<1> DEFINE unsent == Unsent(t, batch)
           tunnel == [tunnels[t] EXCEPT !.flush = flush]
           sending == [tunnel EXCEPT !.sending = unsent]
<1>1. t \in Tunnels /\ Sound(tunnels[t])
  BY DEF Running, TunnelsSound
<1>2. Sound(tunnel) /\ tunnel.phase = tunnels[t].phase
  BY <1>1 DEF Sound
<1>3. \/ Fails(t, flush)
      \/ /\ tunnels' = [tunnels EXCEPT ![t] = Finished(tunnel)]
         /\ holder' = holder
      \/ /\ tunnels' = [tunnels EXCEPT ![t] = sending]
         /\ holder' = holder
  BY DEF Begin
<1> HIDE DEF unsent, tunnel
<1>4. Sound(sending) /\ sending.phase = tunnels[t].phase
  BY <1>2 DEF Sound
<1> HIDE DEF sending
<1> QED BY <1>1, <1>2, <1>3, <1>4, FailsIsSound, FinishedIsSound, ChangedIsSound

LEMMA DispatchedIsSound ==
    ASSUME TunnelsSound, AuthorsBounded, NEW t \in Tunnels, Receives(t),
           tunnels' = Dispatched(t, NextOf(t)), holder' = holder
    PROVE  TunnelsSound' /\ NextOf(t) \in Commands /\ tunnels[t].scope \in Scopes
<1> DEFINE dispatched == tunnels[t].dispatched \cup {NextOf(t)}
           tunnel == [tunnels[t] EXCEPT !.cursor = NextOf(t), !.dispatched = dispatched]
<1>1. tunnels[t] # None /\ Sound(tunnels[t]) /\ tunnels[t].cursor < published
  BY DEF Receives, Listening, Running, TunnelsSound
<1>2. NextOf(t) \in Nat /\ NextOf(t) \in Commands
  BY <1>1, BoundsAreNumbers DEF NextOf, Sound, Commands, published, AuthorsBounded
<1>3. tunnels' = [tunnels EXCEPT ![t] = tunnel]
  BY DEF Dispatched
<1> HIDE DEF dispatched
<1>4. Sound(tunnel) /\ tunnel.phase = tunnels[t].phase
  BY <1>1, <1>2 DEF Sound
<1> HIDE DEF tunnel
<1> QED BY <1>1, <1>2, <1>3, <1>4, ChangedIsSound DEF Sound

LEMMA AnnounceIsSound ==
    ASSUME TunnelsSound, NEW c, Announce(c), holder' = holder
    PROVE  TunnelsSound'
<1>1. ASSUME NEW t \in Tunnels
      PROVE  \/ tunnels'[t] = tunnels[t]
             \/ Sound(tunnels'[t]) /\ tunnels'[t].phase = tunnels[t].phase
  <2> DEFINE wanted == tunnels[t].wanted \cup {c}
             tunnel == [tunnels[t] EXCEPT !.wanted = wanted]
  <2>1. tunnels'[t] = tunnels[t] \/ (t \in Listening /\ tunnels'[t] = tunnel)
    BY DEF Announce
  <2>2. CASE t \in Listening
    <3>1. Sound(tunnels[t])
      BY <2>2 DEF Listening, Running, TunnelsSound
    <3> HIDE DEF wanted
    <3>2. Sound(tunnel) /\ tunnel.phase = tunnels[t].phase
      BY <3>1 DEF Sound
    <3> HIDE DEF tunnel
    <3> QED BY <2>1, <3>2
  <2> QED BY <2>1, <2>2
<1>2. TunnelsKept
  <2>1. DOMAIN tunnels' = Tunnels
    BY DEF Announce
  <2>2. \A t \in Tunnels : t = holder => tunnels[t].phase \in {"opened", "serving"}
    BY NoneIsNoTunnel DEF TunnelsSound, Connected
  <2> QED BY <1>1, <2>1, <2>2 DEF TunnelsKept
<1> QED BY <1>2, KeptIsSound

LEMMA RequestIsSound ==
    ASSUME TunnelsSound, acknowledgedDesktop \in Nat, NEW t \in Tunnels, NEW scope \in Scopes,
           request(t, scope)
    PROVE  TunnelsSound'
<1> DEFINE tunnel ==
        [scope |-> scope, phase |-> "connecting", cursor |-> acknowledgedDesktop,
         next |-> 1, wanted |-> {}, dispatched |-> {}, flush |-> None, sending |-> {}]
<1>1. tunnels' = [tunnels EXCEPT ![t] = tunnel] /\ holder' = holder /\ t # holder
  BY DEF request, relayVars
<1>2. Sound(tunnel)
  BY DEF Sound
<1> HIDE DEF tunnel
<1>3. TunnelsKept
  BY <1>1, <1>2 DEF TunnelsSound, TunnelsKept
<1> QED BY <1>1, <1>3, KeptIsSound

\* The new holder was connecting, the old one was not.
LEMMA ConnectIsSound ==
    ASSUME TunnelsSound, NEW t \in Tunnels, connect(t)
    PROVE  TunnelsSound'
<1> DEFINE table == Closing(tunnels, holder)
           next == Expected
           tunnel == [table[t] EXCEPT !.phase = "opened", !.next = next]
<1>1. tunnels[t] # None /\ tunnels[t].phase = "connecting" /\ t # holder
  BY NoneIsNoTunnel DEF connect, Running, TunnelsSound, Connected
<1>2. table[t] = tunnels[t] /\ Sound(table[t])
  BY <1>1, ClosingIsSound DEF TunnelsSound
<1>3. tunnels' = [table EXCEPT ![t] = tunnel] /\ holder' = t
  BY DEF connect
<1>4. DOMAIN table = Tunnels /\ \A x \in Tunnels : table[x] = None \/ Sound(table[x])
  BY ClosingIsSound
<1> HIDE DEF table, next
<1>5. Sound(tunnel) /\ tunnel.phase = "opened"
  BY <1>2 DEF Sound
<1> HIDE DEF tunnel
<1> QED BY <1>3, <1>4, <1>5 DEF TunnelsSound, Connected

LEMMA GoneIsSound ==
    ASSUME TunnelsSound, NEW t \in Tunnels, tunnels[t] # None,
           tunnels[t].phase \in {"connecting", "closing"},
           tunnels' = [tunnels EXCEPT ![t] = None], holder' = holder
    PROVE  TunnelsSound'
<1>1. t # holder
  BY NoneIsNoTunnel DEF TunnelsSound, Connected
<1>2. TunnelsKept
  BY <1>1 DEF TunnelsSound, TunnelsKept
<1> QED BY <1>2, KeptIsSound

LEMMA SendIsSound ==
    ASSUME TunnelsSound, NEW t \in Tunnels, send(t)
    PROVE  TunnelsSound'
<1> DEFINE e == First(tunnels[t].sending)
           next == e.sequence + 1
           rest == tunnels[t].sending \ {e}
           left == [tunnels[t] EXCEPT !.next = next, !.sending = rest]
<1>1. t = holder /\ Connected(tunnels[t]) /\ holder' = holder
  BY NoneIsNoTunnel DEF send, TunnelsSound
<1>2. \/ tunnels' = [tunnels EXCEPT ![t] = Unanswered(tunnels[t])]
      \/ tunnels' = [tunnels EXCEPT ![t] = Finished(left)]
      \/ tunnels' = [tunnels EXCEPT ![t] = left]
  BY DEF send
<1> HIDE DEF e, next, rest
<1>3. Sound(left) /\ left.phase = tunnels[t].phase
  BY <1>1 DEF Connected, Sound
<1>4. Sound(Unanswered(tunnels[t])) /\ Unanswered(tunnels[t]).phase = tunnels[t].phase
  BY <1>1 DEF Connected, Sound, Unanswered
<1> HIDE DEF left
<1> QED BY <1>1, <1>2, <1>3, <1>4, FinishedIsSound, ChangedIsSound DEF Connected

LEMMA ClosingFlushIsSound ==
    ASSUME TunnelsSound, NEW t \in Tunnels, NEW c, flushClosing(t, c)
    PROVE  TunnelsSound'
<1> DEFINE wanted == tunnels[t].wanted \ {c}
           tunnel == [tunnels[t] EXCEPT !.wanted = wanted]
<1>1. Sound(tunnels[t]) /\ tunnels' = [tunnels EXCEPT ![t] = tunnel] /\ holder' = holder
  BY DEF flushClosing, Running, TunnelsSound, relayVars
<1> HIDE DEF wanted
<1>2. Sound(tunnel) /\ tunnel.phase = tunnels[t].phase
  BY <1>1 DEF Sound
<1> HIDE DEF tunnel
<1> QED BY <1>1, <1>2, ChangedIsSound

LEMMA FlushIsSound ==
    ASSUME TunnelsSound, NEW t \in Tunnels, NEW kind, NEW c, flushOf(t, kind, c)
    PROVE  TunnelsSound'
<1> DEFINE flush == [kind |-> kind, command |-> c]
<1>1. t \in Running /\ Sound(tunnels[t])
  BY DEF flushOf, Running, TunnelsSound
<1>2. Begin(t, flush, {c}) \/ Fails(t, flush)
  BY DEF flushOf
<1> HIDE DEF flush
<1> QED BY <1>1, <1>2, BeginIsSound, FailsIsSound

\* Every step keeps the tunnels sound.
LEMMA StepIsSound ==
    ASSUME TunnelInv, [Next]_vars
    PROVE  TunnelsSound'
<1>1. TunnelsSound /\ AuthorsBounded /\ acknowledgedDesktop \in Nat
  BY DEF TunnelInv
<1>2. ASSUME UNCHANGED <<tunnels, holder>>
      PROVE  TunnelsSound'
  BY <1>1, <1>2 DEF TunnelsSound
<1>3. CASE \/ initialize \/ publish \/ arrive \/ UNCHANGED vars
           \/ \E t \in Tunnels, n \in 1..MaxOutgoing : acknowledgeOutgoing(t, n)
           \/ \E c \in Commands, status \in Outcomes : appendTerminal(c, status)
  BY <1>2, <1>3
     DEF initialize, publish, arrive, vars, acknowledgeOutgoing, appendTerminal, relayVars
<1>4. CASE crash
  BY <1>1, <1>4 DEF crash, TunnelsSound
<1>5. CASE \E t \in Tunnels, scope \in Scopes : request(t, scope)
  BY <1>1, <1>5, RequestIsSound
<1>6. CASE \E t \in Tunnels : connect(t)
  BY <1>1, <1>6, ConnectIsSound
<1>7. CASE \E t \in Tunnels : refused(t) \/ end(t)
  <2>1. PICK t \in Tunnels : refused(t) \/ end(t)
    BY <1>7
  <2>2. /\ tunnels[t] # None /\ tunnels[t].phase \in {"connecting", "closing"}
        /\ tunnels' = [tunnels EXCEPT ![t] = None] /\ holder' = holder
    BY <2>1 DEF refused, end, Running, relayVars
  <2> QED BY <1>1, <2>2, GoneIsSound
<1>8. CASE \E t \in Tunnels : admit(t) \/ join(t)
  BY <1>1, <1>8, DispatchedIsSound DEF admit, join, relayVars
<1>9. CASE (\E t \in Tunnels : reject(t)) \/ loseConnection
  BY <1>1, <1>9, DisconnectIsSound DEF reject, loseConnection
<1>10. CASE \E t \in Tunnels : flushAll(t)
  BY <1>1, <1>10, BeginIsSound DEF flushAll
<1>11. CASE \E t \in Tunnels, kind \in {"notified", "dispatched"}, c \in Commands :
               flushOf(t, kind, c)
  BY <1>1, <1>11, FlushIsSound
<1>12. CASE \E t \in Tunnels, c \in Commands : flushClosing(t, c)
  BY <1>1, <1>12, ClosingFlushIsSound
<1>13. CASE \E t \in Tunnels : send(t)
  BY <1>1, <1>13, SendIsSound
<1>14. CASE \E c \in Commands : emit(c) \/ settle(c)
  BY <1>1, <1>14, AnnounceIsSound DEF emit, settle, relayVars
<1>15. CASE \E scope \in Scopes : grant(scope)
  <2>1. Disconnect \/ UNCHANGED <<tunnels, holder>>
    BY <1>15 DEF grant
  <2> QED BY <1>1, <1>2, <2>1, DisconnectIsSound
<1> QED BY <1>3, <1>4, <1>5, <1>6, <1>7, <1>8, <1>9, <1>10, <1>11, <1>12, <1>13, <1>14,
           <1>15 DEF Next

\* What a step does to the relay's part: only publish, send, arrive and grant move it,
\* and a connection that ends may leave an envelope on its way.
RelayStays ==
    /\ authors' = authors /\ stream' = stream /\ grantedScope' = grantedScope
    /\ delayed' = delayed \/ delayed' \in OnItsWay(holder)

RelayMoves ==
    \/ RelayStays
    \/ publish \/ arrive
    \/ \E t \in Tunnels : send(t)
    \/ \E scope \in Scopes : grant(scope)

LEMMA BeginLeavesRelay ==
    ASSUME NEW t, NEW flush, NEW batch, Begin(t, flush, batch)
    PROVE  RelayStays
BY DEF Begin, Fails, Disconnect, RelayStays

LEMMA StepMovesRelay == [Next]_vars => RelayMoves
<1> SUFFICES ASSUME [Next]_vars PROVE RelayMoves
  OBVIOUS
<1>1. CASE initialize \/ UNCHANGED vars
  BY <1>1 DEF initialize, vars, relayVars, RelayMoves, RelayStays
<1>2. CASE crash \/ loseConnection
  BY <1>2 DEF crash, loseConnection, Disconnect, RelayMoves, RelayStays
<1>3. CASE \E t \in Tunnels, scope \in Scopes : request(t, scope)
  BY <1>3 DEF request, relayVars, RelayMoves, RelayStays
<1>4. CASE \E t \in Tunnels : connect(t) \/ refused(t) \/ end(t)
  BY <1>4 DEF connect, refused, end, relayVars, RelayMoves, RelayStays
<1>5. CASE \E t \in Tunnels : admit(t) \/ join(t) \/ reject(t)
  BY <1>5 DEF admit, join, reject, Disconnect, relayVars, RelayMoves, RelayStays
<1>6. CASE \E t \in Tunnels : flushAll(t)
  BY <1>6, BeginLeavesRelay DEF flushAll, RelayMoves
<1>7. CASE \E t \in Tunnels, kind \in {"notified", "dispatched"}, c \in Commands :
              flushOf(t, kind, c)
  <2>1. PICK t \in Tunnels, kind \in {"notified", "dispatched"}, c \in Commands :
            flushOf(t, kind, c)
    BY <1>7
  <2> DEFINE flush == [kind |-> kind, command |-> c]
  <2>2. \/ Begin(t, flush, {c})
        \/ Fails(t, flush) /\ UNCHANGED <<ledgerVars, grantedScope, authors, stream>>
    BY <2>1 DEF flushOf
  <2> HIDE DEF flush
  <2>3. RelayStays
    BY <2>2, BeginLeavesRelay DEF Fails, Disconnect, RelayStays
  <2> QED BY <2>3 DEF RelayMoves
<1>8. CASE \E t \in Tunnels, c \in Commands : flushClosing(t, c)
  BY <1>8 DEF flushClosing, relayVars, RelayMoves, RelayStays
<1>9. CASE \E t \in Tunnels, n \in 1..MaxOutgoing : acknowledgeOutgoing(t, n)
  BY <1>9 DEF acknowledgeOutgoing, relayVars, RelayMoves, RelayStays
<1>10. CASE \E c \in Commands : emit(c) \/ settle(c)
  BY <1>10 DEF emit, settle, relayVars, RelayMoves, RelayStays
<1>11. CASE \E c \in Commands, status \in Outcomes : appendTerminal(c, status)
  BY <1>11 DEF appendTerminal, relayVars, RelayMoves, RelayStays
<1>12. CASE \/ publish \/ arrive
            \/ \E t \in Tunnels : send(t)
            \/ \E scope \in Scopes : grant(scope)
  BY <1>12 DEF RelayMoves
<1> QED BY <1>1, <1>2, <1>3, <1>4, <1>5, <1>6, <1>7, <1>8, <1>9, <1>10, <1>11, <1>12 DEF Next

LEMMA AuthorsStayBounded ==
    ASSUME AuthorsBounded, [Next]_vars
    PROVE  AuthorsBounded'
<1>1. CASE publish
  <2>1. PICK S : authors \in Seq(S)
    BY DEF AuthorsBounded
  <2> DEFINE author == grantedScope.client
             T == S \cup {author}
  <2>2. authors \in Seq(T)
    <3>1. Len(authors) \in Nat /\ authors = [i \in 1..Len(authors) |-> authors[i]]
          /\ \A i \in 1..Len(authors) : authors[i] \in T
      BY <2>1, LenProperties
    <3> HIDE DEF T
    <3>2. [i \in 1..Len(authors) |-> authors[i]] \in Seq(T)
      BY <3>1, IsASeq
    <3> QED BY <3>1, <3>2
  <2>3. authors' = Append(authors, author) /\ author \in T /\ published < MaxCommands
    BY <1>1 DEF publish
  <2> HIDE DEF T, author
  <2>4. authors' \in Seq(T) /\ Len(authors') = Len(authors) + 1
    BY <2>2, <2>3, AppendProperties
  <2> QED BY <2>3, <2>4, BoundsAreNumbers DEF AuthorsBounded, published
<1>2. CASE authors' = authors
  BY <1>2 DEF AuthorsBounded
<1>3. publish \/ authors' = authors
  BY StepMovesRelay DEF RelayMoves, RelayStays, send, arrive, grant, relayVars
<1> QED BY <1>1, <1>2, <1>3

-----------------------------------------------------------------------------
(* The ledger.                                                             *)

LEMMA BeginPreparesOrLeaves ==
    ASSUME NEW t, NEW flush, NEW batch, Begin(t, flush, batch)
    PROVE  Ledger!prepareOutgoing(batch) \/ UNCHANGED ledgerVars
BY DEF Begin

\* A flush prepares one command or all of them.
LEMMA FlushStep ==
    ASSUME \/ \E t \in Tunnels : flushAll(t)
           \/ \E t \in Tunnels, kind \in {"notified", "dispatched"}, c \in Commands :
                 flushOf(t, kind, c)
           \/ \E t \in Tunnels, c \in Commands : flushClosing(t, c)
    PROVE  Ledger!Next \/ UNCHANGED ledgerVars
<1>1. ASSUME NEW batch, batch = Ledger!Retained \/ \E c \in Ledger!Retained : batch = {c},
             Ledger!prepareOutgoing(batch)
      PROVE  Ledger!Next
  BY <1>1 DEF Ledger!Next
<1>2. CASE \E t \in Tunnels : flushAll(t)
  <2>1. Ledger!prepareOutgoing(Ledger!Retained) \/ UNCHANGED ledgerVars
    BY <1>2, BeginPreparesOrLeaves DEF flushAll
  <2> QED BY <1>1, <2>1
<1>3. ASSUME NEW t \in Tunnels, NEW kind \in {"notified", "dispatched"}, NEW c \in Commands,
             flushOf(t, kind, c)
      PROVE  Ledger!Next \/ UNCHANGED ledgerVars
  <2>1. CASE c \in Ledger!Retained
    <3>1. Ledger!prepareOutgoing({c}) \/ UNCHANGED ledgerVars
      BY <1>3, <2>1, BeginPreparesOrLeaves DEF flushOf
    <3> QED BY <1>1, <2>1, <3>1
  <2>2. CASE c \notin Ledger!Retained
    BY <1>3, <2>2 DEF flushOf
  <2> QED BY <2>1, <2>2
<1>4. ASSUME NEW t \in Tunnels, NEW c \in Commands, flushClosing(t, c)
      PROVE  Ledger!Next \/ UNCHANGED ledgerVars
  <2>1. (c \in Ledger!Retained /\ Ledger!prepareOutgoing({c})) \/ UNCHANGED ledgerVars
    BY <1>4 DEF flushClosing
  <2> QED BY <1>1, <2>1
<1> QED BY <1>2, <1>3, <1>4

\* A tunnel hands on commands of the desktop's stream, under the scope it was opened for.
LEMMA LedgerStep ==
    ASSUME TunnelInv, [Next]_vars
    PROVE  Ledger!Next \/ UNCHANGED ledgerVars
<1>1. CASE UNCHANGED vars
  BY <1>1 DEF vars
<1>2. CASE initialize \/ crash
  BY <1>2 DEF initialize, crash, Ledger!Next
<1>3. CASE \E t \in Tunnels, scope \in Scopes : request(t, scope)
  BY <1>3 DEF request, Ledger!Next
<1>4. CASE \E t \in Tunnels : connect(t) \/ refused(t) \/ end(t)
  BY <1>4 DEF connect, refused, end
<1>5. ASSUME NEW t \in Tunnels, admit(t)
      PROVE  Ledger!Next
  <2>1. Receives(t) /\ Ledger!handle(NextOf(t), tunnels[t].scope)
        /\ tunnels' = Dispatched(t, NextOf(t)) /\ holder' = holder
    BY <1>5 DEF admit, relayVars
  <2>2. NextOf(t) \in Commands /\ tunnels[t].scope \in Scopes
    BY <2>1, DispatchedIsSound DEF TunnelInv
  <2> QED BY <2>1, <2>2 DEF Ledger!Next, Commands, Ledger!Commands
<1>6. CASE \E t \in Tunnels : join(t) \/ reject(t)
  BY <1>6 DEF join, reject
<1>7. CASE \/ \E t \in Tunnels : flushAll(t)
           \/ \E t \in Tunnels, kind \in {"notified", "dispatched"}, c \in Commands :
                 flushOf(t, kind, c)
           \/ \E t \in Tunnels, c \in Commands : flushClosing(t, c)
  BY <1>7, FlushStep
<1>8. CASE \E t \in Tunnels : send(t)
  BY <1>8 DEF send
<1>9. CASE \E t \in Tunnels, n \in 1..MaxOutgoing : acknowledgeOutgoing(t, n)
  BY <1>9 DEF acknowledgeOutgoing, Ledger!Next, MaxOutgoing, Ledger!MaxOutgoing
<1>10. CASE \E c \in Commands : emit(c) \/ settle(c)
  BY <1>10 DEF emit, settle, Ledger!Next, Commands, Ledger!Commands
<1>11. CASE \E c \in Commands, status \in Outcomes : appendTerminal(c, status)
  BY <1>11, OutcomesSettle DEF appendTerminal, Ledger!Next, Commands, Ledger!Commands,
     Ledger!Settled
<1>12. CASE (\E scope \in Scopes : grant(scope)) \/ publish \/ arrive \/ loseConnection
  BY <1>12 DEF grant, publish, arrive, loseConnection
<1> QED BY <1>1, <1>2, <1>3, <1>4, <1>5, <1>6, <1>7, <1>8, <1>9, <1>10, <1>11, <1>12 DEF Next

\* The acknowledgement is a number of the desktop's stream: a tunnel starts behind it.
LEMMA AcknowledgementIsBounded ==
    ASSUME TunnelInv, [Next]_vars
    PROVE  acknowledgedDesktop' \in 0..MaxCommands
<1>1. acknowledgedDesktop \in 0..MaxCommands
  BY DEF TunnelInv
<1>2. CASE UNCHANGED ledgerVars
  BY <1>1, <1>2 DEF ledgerVars
<1>3. CASE Ledger!Next
  <2>1. ASSUME NEW batch, Ledger!prepareOutgoing(batch)
        PROVE  acknowledgedDesktop' \in 0..MaxCommands
    <3>1. PICK table : acknowledgedDesktop' = Ledger!AdvanceIncomingAcknowledgement(table)
      BY <2>1 DEF Ledger!prepareOutgoing
    <3>2. acknowledgedDesktop' \in acknowledgedDesktop..MaxCommands
      BY <1>1, <3>1, Ledger!AdvanceStopsInTime, BoundsAreNumbers, PolicyIsPositive,
         GenerationsAreNumbers, NoneIsNoValue, NoneIsNoRecord DEF Ledger!Settled
    <3> QED BY <1>1, <3>2, BoundsAreNumbers
  <2>2. \/ acknowledgedDesktop' = acknowledgedDesktop
        \/ \E batch : Ledger!prepareOutgoing(batch)
    BY <1>3 DEF Ledger!Next, Ledger!initialize, Ledger!crash, Ledger!adoptControllerScope,
       Ledger!handle, Ledger!emit, Ledger!appendTerminal, Ledger!settle,
       Ledger!acknowledgeOutgoing, Ledger!ledger, Ledger!transport
  <2> QED BY <1>1, <2>1, <2>2
<1> QED BY <1>2, <1>3, LedgerStep

LEMMA TunnelInvariant == Spec => []TunnelInv
<1>1. Init => TunnelInv
  <2>1. ASSUME Init PROVE (\E S : authors \in Seq(S)) /\ Len(authors) = 0
    BY <2>1, EmptySeq DEF Init
  <2> QED BY <2>1, BoundsAreNumbers
          DEF Init, Ledger!Init, TunnelInv, TunnelsSound, AuthorsBounded
<1>2. TunnelInv /\ [Next]_vars => TunnelInv'
  BY StepIsSound, AuthorsStayBounded, AcknowledgementIsBounded DEF TunnelInv
<1> QED BY <1>1, <1>2, PTL DEF Spec

\* Whatever tunnels overlap, connections are lost or daemons restart: the ledger sees a
\* history that CommandLedger allows.
THEOREM ImplementsLedger == Spec => Ledger!Spec
<1>1. Init => Ledger!Init
  BY DEF Init
<1>2. TunnelInv /\ [Next]_vars => [Ledger!Next]_(Ledger!vars)
  BY LedgerStep DEF ledgerVars, Ledger!vars, Ledger!ledger, Ledger!transport
<1> QED BY <1>1, <1>2, TunnelInvariant, PTL DEF Spec, Ledger!Spec

\* Of the daemon with its tunnels: a command is executed at most once and under the
\* fence of the controllers, and acknowledged when it is answered.
THEOREM DaemonExecutesOnceAndFenced ==
    Spec => [](/\ Ledger!ExecutedAtMostOnce /\ Ledger!ExecutionIsFenced
               /\ Ledger!AcknowledgedWhenAnswered)
<1>1. /\ None \notin Scopes \cup Ledger!PersistedCommand
      /\ None \notin {"running"} \cup Ledger!Settled
  BY NoneIsNoValue, NoneIsNoRecord DEF Ledger!Settled
<1> QED BY <1>1, ImplementsLedger, Ledger!ExecutesAtMostOnce, Ledger!ExecutesUnderTheFence,
           Ledger!AcknowledgesWhatIsAnswered, NoneIsNoValue, BoundsAreNumbers,
           PolicyIsPositive, GenerationsAreNumbers, PTL

=============================================================================
