---------------------------- MODULE DeviceTunnel ----------------------------
(***************************************************************************)
(* runDeviceSessionTunnel (apps/device-agent/src/session-tunnel.ts): the   *)
(* tunnels that the daemon runs for one session over the ledger of         *)
(* CommandLedger. Every connection of the desktop makes the relay ask for  *)
(* a new tunnel, which does not end the one before it: several tunnels of  *)
(* a session read, prepare and flush the same ledger, each behind a gate   *)
(* of its own, while the relay keeps one device socket and drops the rest. *)
(*                                                                         *)
(* The relay is the part of EnvelopeLog and ControllerLease that a device  *)
(* sees: it numbers the desktop's stream, replays what is not acknowledged *)
(* to each new tunnel, takes an envelope of the next number, answers       *)
(* "duplicate" to an older and refuses a later one. A connection may be    *)
(* lost at any step, with an envelope still on its way.                    *)
(***************************************************************************)
EXTENDS Integers, FiniteSets, Sequences

CONSTANTS
    MaxCommands, Scopes, MaxRetainedCommands, MaxEventsPerCommand, MaxCrashes, None,
    Tunnels,     \* bound: tunnels that exist at a time
    Emitters,    \* bound: the commands that emit an event before the terminal one
    Outcomes     \* bound: how executions end

\* The assumptions of the ledger, and of the bound on its outcomes.
ASSUME PolicyIsPositive ==
    MaxRetainedCommands \in Nat \ {0} /\ MaxEventsPerCommand \in Nat \ {0}

ASSUME BoundsAreNumbers == MaxCommands \in Nat /\ MaxCrashes \in Nat

ASSUME GenerationsAreNumbers ==
    \A scope \in Scopes : {scope.attachmentGeneration, scope.leaseGeneration} \subseteq Nat

ASSUME NoneIsNoValue == None \notin Scopes /\ None \notin {"running", "complete", "failed"}

ASSUME NoneIsNoTunnel == None \notin Tunnels

ASSUME OutcomesSettle == Outcomes \subseteq {"complete", "failed"}

VARIABLES
    \* the ledger (CommandLedger)
    commands, controllerScope, nextOutgoing, acknowledgedDesktop, highestReceived,
    acknowledgedOutgoing, initialized, calls, crashes, executions,
    \* the daemon's tunnels
    tunnels,        \* tunnel -> its state, or None
    \* the relay
    grantedScope,   \* the scope of the desktop that connected last
    authors,        \* the desktop's stream: the client that wrote each command
    stream,         \* the device's stream: [sequence, command, kind]
    holder,         \* the tunnel that has the device's socket, or None
    delayed         \* an envelope of a lost connection on its way, or None

\* The ledger comes with the theorems about it.
Ledger == INSTANCE CommandLedgerProofs

ledgerVars == <<commands, controllerScope, nextOutgoing, acknowledgedDesktop, highestReceived,
                acknowledgedOutgoing, initialized, calls, crashes, executions>>
relayVars == <<grantedScope, authors, stream, holder, delayed>>
vars == <<ledgerVars, tunnels, relayVars>>

Commands == 1..MaxCommands
published == Len(authors)

\* Scopes in the order in which the relay grants them.
Newer(s, r) ==
    \/ s.leaseGeneration > r.leaseGeneration
    \/ /\ s.leaseGeneration = r.leaseGeneration
       /\ s.attachmentGeneration > r.attachmentGeneration

\* A lease has one client, whose attachments are numbered; a new lease is a later one.
ASSUME ScopesAreGrantedInTurn ==
    Scopes # {} /\ \A r, s \in Scopes : r # s => Newer(r, s) \/ Newer(s, r)

FirstScope == CHOOSE s \in Scopes : \A r \in Scopes \ {s} : Newer(r, s)
Issued == {s \in Scopes : ~Newer(s, grantedScope)}

\* A tunnel. `wanted` are the flushes that watchPersisted asked for, `dispatched`
\* the commands whose handle() it waits for before it flushes them; `flush` is who
\* has the gate and `sending` what is left to send.
Envelope == [sequence: Nat \ {0}, command: Commands, kind: Ledger!EventKind]
Flush == [kind: {"initial", "notified", "dispatched"}, command: Commands \cup {None}]
Tunnel ==
    [scope: Scopes, phase: {"connecting", "opened", "serving", "closing"}, cursor: Nat,
     next: Nat \ {0}, wanted: SUBSET Commands, dispatched: SUBSET Commands,
     flush: Flush \cup {None}, sending: SUBSET Envelope]

ASSUME NoneIsNoRecord == None \notin Ledger!PersistedCommand \cup Envelope \cup Tunnel

Init ==
    /\ Ledger!Init
    /\ tunnels = [t \in Tunnels |-> None]
    /\ grantedScope = FirstScope
    /\ authors = <<>>
    /\ stream = <<>>
    /\ holder = None
    /\ delayed = None

Running == {t \in Tunnels : tunnels[t] # None}
Listening == {t \in Running : tunnels[t].phase # "connecting"}
First(envelopes) == CHOOSE e \in envelopes : \A f \in envelopes : e.sequence <= f.sequence

-----------------------------------------------------------------------------
(* Connections.                                                            *)

\* What a tunnel was sending when its connection ended may still arrive.
OnItsWay(t) ==
    {delayed} \cup IF t # None /\ delayed = None /\ tunnels[t].sending # {}
                   THEN {First(tunnels[t].sending)} ELSE {}

\* A tunnel whose connection has ended, which only its listener outlives: what was
\* received and not dispatched is dropped, and fibers are interrupted.
Closing(table, t) ==
    IF t = None THEN table
    ELSE [table EXCEPT ![t] =
            [@ EXCEPT !.phase = "closing", !.cursor = 0, !.next = 1, !.dispatched = {},
                      !.flush = None, !.sending = {}]]

\* A session request, which the control connection may deliver late. With no scope
\* to adopt the tunnel is not opened. The cursor is transportState's.
request(t, scope) ==
    /\ tunnels[t] = None /\ t # holder
    /\ scope \in Issued
    /\ Ledger!adoptControllerScope(scope)
    /\ tunnels' = [tunnels EXCEPT ![t] =
            [scope |-> scope, phase |-> "connecting", cursor |-> acknowledgedDesktop,
             next |-> 1, wanted |-> {}, dispatched |-> {}, flush |-> None, sending |-> {}]]
    /\ UNCHANGED relayVars

\* The device is admitted under the lease of the moment, by its client's attachment.
RelayAdmits(scope) ==
    \A s \in Issued :
        s.client = scope.client => s.attachmentGeneration <= scope.attachmentGeneration

\* Mutant: the number that the relay has.
ExpectedZeroBased == Len(stream)

Expected == Len(stream) + 1

\* openRemoteTunnel: the device's previous socket is replaced; hello has the number
\* the relay expects.
connect(t) ==
    /\ t \in Running
    /\ tunnels[t].phase = "connecting"
    /\ RelayAdmits(tunnels[t].scope)
    /\ tunnels' = [Closing(tunnels, holder) EXCEPT ![t].phase = "opened",
                                                   ![t].next = Expected]
    /\ holder' = t
    /\ delayed' \in OnItsWay(holder)
    /\ UNCHANGED <<ledgerVars, grantedScope, authors, stream>>

refused(t) ==
    /\ t \in Running
    /\ tunnels[t].phase = "connecting"
    /\ ~RelayAdmits(tunnels[t].scope)
    /\ tunnels' = [tunnels EXCEPT ![t] = None]
    /\ UNCHANGED <<ledgerVars, relayVars>>

\* The tunnel's connection ends.
Disconnect ==
    /\ tunnels' = Closing(tunnels, holder)
    /\ holder' = None
    /\ delayed' \in OnItsWay(holder)

loseConnection ==
    /\ holder # None
    /\ Disconnect
    /\ UNCHANGED <<ledgerVars, grantedScope, authors, stream>>

\* stopWatching
end(t) ==
    /\ t \in Running
    /\ tunnels[t].phase = "closing"
    /\ tunnels' = [tunnels EXCEPT ![t] = None]
    /\ UNCHANGED <<ledgerVars, relayVars>>

\* The daemon stops and is started again.
crash ==
    /\ Ledger!crash
    /\ tunnels' = [t \in Tunnels |-> None]
    /\ holder' = None
    /\ delayed' \in OnItsWay(holder)
    /\ UNCHANGED <<grantedScope, authors, stream>>

-----------------------------------------------------------------------------
(* The relay and the desktop.                                              *)

\* A desktop connects: a new attachment, or a new lease, which closes the device's
\* socket.
grant(scope) ==
    /\ scope \in Scopes \ Issued
    /\ \A s \in Scopes \ Issued : ~Newer(scope, s)
    /\ grantedScope' = scope
    /\ IF scope.leaseGeneration > grantedScope.leaseGeneration
       THEN Disconnect
       ELSE UNCHANGED <<tunnels, holder, delayed>>
    /\ UNCHANGED <<ledgerVars, authors, stream>>

publish ==
    /\ published < MaxCommands
    /\ authors' = Append(authors, grantedScope.client)
    /\ UNCHANGED <<ledgerVars, tunnels, grantedScope, stream, holder, delayed>>

\* The relay takes the next number; an older one is a duplicate.
Taken(e) == IF e.sequence = Expected THEN Append(stream, e) ELSE stream

arrive ==
    /\ delayed # None
    /\ stream' = Taken(delayed)
    /\ delayed' = None
    /\ UNCHANGED <<ledgerVars, tunnels, grantedScope, authors, holder>>

-----------------------------------------------------------------------------
(* Dispatch of the desktop's commands, concurrently.                       *)

Receives(t) ==
    /\ t \in Listening
    /\ tunnels[t].phase = "serving"
    /\ holder = t
    /\ tunnels[t].cursor < published

NextOf(t) == tunnels[t].cursor + 1

\* The session key is of the client whose desktop asked for the tunnel.
Decrypts(t, c) == authors[c] = tunnels[t].scope.client

\* #notifyPersisted waits for every listener.
Announced(c) == \A t \in Running : c \notin tunnels[t].wanted

InFlight(c) == calls[c] # None \/ ~Announced(c)

\* A call in flight is joined and a settled command answered from the ledger, in
\* the scope the command was admitted under.
Joins(t, c) ==
    /\ commands[c] # None
    /\ commands[c].scope = tunnels[t].scope
    /\ InFlight(c) \/ Ledger!InScope(tunnels[t].scope)

Dispatched(t, c) ==
    [tunnels EXCEPT ![t].cursor = c, ![t].dispatched = tunnels[t].dispatched \cup {c}]

admit(t) ==
    /\ Receives(t)
    /\ Decrypts(t, NextOf(t))
    /\ Ledger!handle(NextOf(t), tunnels[t].scope)
    /\ tunnels' = Dispatched(t, NextOf(t))
    /\ UNCHANGED relayVars

join(t) ==
    /\ Receives(t)
    /\ Decrypts(t, NextOf(t))
    /\ Joins(t, NextOf(t))
    /\ tunnels' = Dispatched(t, NextOf(t))
    /\ UNCHANGED <<ledgerVars, relayVars>>

\* Anything else is an error, which ends the stream of commands and the tunnel.
reject(t) ==
    /\ Receives(t)
    /\ LET c == NextOf(t)
       IN  \/ ~Decrypts(t, c)
           \/ ~Joins(t, c) /\ (InFlight(c) \/ ~Ledger!Admits(c, tunnels[t].scope))
    /\ Disconnect
    /\ UNCHANGED <<ledgerVars, grantedScope, authors, stream>>

-----------------------------------------------------------------------------
(* Execution; what it persists is announced to the tunnels.                *)

Announce(c) ==
    tunnels' = [t \in Tunnels |->
        IF t \in Listening THEN [tunnels[t] EXCEPT !.wanted = @ \cup {c}] ELSE tunnels[t]]

emit(c) ==
    /\ c \in Emitters
    /\ Announced(c)
    /\ Ledger!emit(c)
    /\ Announce(c)
    /\ UNCHANGED relayVars

appendTerminal(c, status) ==
    /\ Announced(c)
    /\ Ledger!appendTerminal(c, status)
    /\ UNCHANGED <<tunnels, relayVars>>

settle(c) ==
    /\ Ledger!settle(c)
    /\ Announce(c)
    /\ UNCHANGED relayVars

initialize ==
    /\ Ledger!initialize
    /\ UNCHANGED <<tunnels, relayVars>>

-----------------------------------------------------------------------------
(* flushCommand.                                                           *)

\* What the ledger returns for a batch, of which the relay has what is below next.
Prepared(batch) ==
    UNION {{[sequence |-> e.sequence, command |-> c, kind |-> e.kind] :
                e \in {commands'[c].outgoing[i] : i \in DOMAIN commands'[c].outgoing}} :
           c \in batch}

Unsent(t, batch) == {e \in Prepared(batch) : e.sequence >= tunnels[t].next}

\* A flush is over: the next one may have the gate, the commands that wait for this
\* one go on.
Finished(tunnel) ==
    [tunnel EXCEPT
        !.phase = "serving",
        !.wanted = IF tunnel.flush.kind = "notified" THEN @ \ {tunnel.flush.command} ELSE @,
        !.dispatched = IF tunnel.flush.kind = "dispatched" THEN @ \ {tunnel.flush.command}
                       ELSE @,
        !.flush = None,
        !.sending = {}]

\* A flush that fails ends its tunnel, unless watchPersisted asked for it.
Fails(t, flush) ==
    IF flush.kind = "notified"
    THEN tunnels' = [tunnels EXCEPT ![t] = Finished([@ EXCEPT !.flush = flush])]
         /\ UNCHANGED <<holder, delayed>>
    ELSE Disconnect

Gap(unsent, next) == unsent # {} /\ First(unsent).sequence # next

\* The gate is taken, the batch prepared, the tunnel's next number read.
Begin(t, flush, batch) ==
    LET unsent == Unsent(t, batch)
        tunnel == [tunnels[t] EXCEPT !.flush = flush]
    IN  /\ tunnels[t].flush = None
        /\ IF \E c \in batch : commands[c].events # <<>>
           THEN Ledger!prepareOutgoing(batch)
           ELSE UNCHANGED ledgerVars
        /\ IF Gap(unsent, tunnel.next)
           THEN Fails(t, flush)
           ELSE /\ tunnels' = [tunnels EXCEPT ![t] =
                        IF unsent = {} THEN Finished(tunnel)
                        ELSE [tunnel EXCEPT !.sending = unsent]]
                /\ UNCHANGED <<holder, delayed>>
        /\ UNCHANGED <<grantedScope, authors, stream>>

\* Mutant: a tunnel sends only what is announced to it.
flushNothing(t) ==
    /\ t \in Running
    /\ tunnels[t].phase = "opened"
    /\ Begin(t, [kind |-> "initial", command |-> None], {})

\* Mutant: a tunnel first sends the commands that are announced to it.
flushWanted(t) ==
    /\ t \in Running
    /\ tunnels[t].phase = "opened"
    /\ Begin(t, [kind |-> "initial", command |-> None],
             Ledger!Retained \cap tunnels[t].wanted)

flushAll(t) ==
    /\ t \in Running
    /\ tunnels[t].phase = "opened"
    /\ Begin(t, [kind |-> "initial", command |-> None], Ledger!Retained)

\* prepareOutgoingEnvelopes fails for a command that was pruned meanwhile.
flushOf(t, kind, c) ==
    /\ t \in Running
    /\ tunnels[t].phase = "serving"
    /\ \/ kind = "notified" /\ c \in tunnels[t].wanted
       \/ kind = "dispatched" /\ c \in tunnels[t].dispatched /\ ~InFlight(c)
    /\ LET flush == [kind |-> kind, command |-> c]
       IN  IF c \in Ledger!Retained
           THEN Begin(t, flush, {c})
           ELSE /\ tunnels[t].flush = None
                /\ Fails(t, flush)
                /\ UNCHANGED <<ledgerVars, grantedScope, authors, stream>>

\* A listener that outlives its connection prepares and cannot send.
flushClosing(t, c) ==
    /\ t \in Running
    /\ tunnels[t].phase = "closing"
    /\ c \in tunnels[t].wanted
    /\ IF c \in Ledger!Retained /\ commands[c].events # <<>>
       THEN Ledger!prepareOutgoing({c})
       ELSE UNCHANGED ledgerVars
    /\ tunnels' = [tunnels EXCEPT ![t].wanted = @ \ {c}]
    /\ UNCHANGED relayVars

\* The relay's answer to a gap names the number it expects and not the one it was sent, so
\* that settleRelayWrite does not find the write: the flush waits, and keeps the gate, for
\* as long as the connection lasts.
Unanswered(tunnel) == [tunnel EXCEPT !.sending = {}]

\* The next envelope, up to the relay's answer: inserted or a duplicate, or a gap.
send(t) ==
    /\ holder = t
    /\ tunnels[t].sending # {}
    /\ LET e == First(tunnels[t].sending)
           left == [tunnels[t] EXCEPT !.next = e.sequence + 1, !.sending = @ \ {e}]
       IN  /\ stream' = Taken(e)
           /\ tunnels' = [tunnels EXCEPT ![t] =
                  IF e.sequence > Expected THEN Unanswered(tunnels[t])
                  ELSE IF left.sending = {} THEN Finished(left)
                  ELSE left]
    /\ UNCHANGED <<ledgerVars, grantedScope, authors, holder, delayed>>

\* peerAcknowledgements, in the order of the desktop's.
acknowledgeOutgoing(t, n) ==
    /\ holder = t
    /\ tunnels[t].phase = "serving"
    /\ n <= Len(stream)
    /\ Ledger!acknowledgeOutgoing(n)
    /\ UNCHANGED <<tunnels, relayVars>>

-----------------------------------------------------------------------------

MaxOutgoing == MaxCommands * (MaxEventsPerCommand + 1)

Next ==
    \/ initialize
    \/ crash
    \/ \E t \in Tunnels, scope \in Scopes : request(t, scope)
    \/ \E t \in Tunnels : connect(t) \/ refused(t) \/ end(t)
    \/ \E t \in Tunnels : admit(t) \/ join(t) \/ reject(t)
    \/ \E t \in Tunnels : flushAll(t)
    \/ \E t \in Tunnels, kind \in {"notified", "dispatched"}, c \in Commands : flushOf(t, kind, c)
    \/ \E t \in Tunnels, c \in Commands : flushClosing(t, c)
    \/ \E t \in Tunnels : send(t)
    \/ \E t \in Tunnels, n \in 1..MaxOutgoing : acknowledgeOutgoing(t, n)
    \/ \E c \in Commands : emit(c) \/ settle(c)
    \/ \E c \in Commands, status \in Outcomes : appendTerminal(c, status)
    \/ \E scope \in Scopes : grant(scope)
    \/ publish
    \/ arrive
    \/ loseConnection

Spec == Init /\ [][Next]_vars

\* What the daemon does as long as the desktop asks for tunnels ("A failed session
\* tunnel is independently retried by the desktop with a fresh scoped grant"). The
\* executor may run a command for ever.
DaemonStep ==
    \/ initialize
    \/ holder = None /\ \E t \in Tunnels : request(t, grantedScope)
    \/ \E t \in Tunnels : connect(t) \/ refused(t) \/ end(t)
    \/ \E t \in Tunnels : admit(t) \/ join(t) \/ reject(t)
    \/ \E t \in Tunnels, kind \in {"notified", "dispatched"}, c \in Commands : flushOf(t, kind, c)
    \/ \E t \in Tunnels, c \in Commands : flushClosing(t, c)
    \/ \E c \in Commands : settle(c)

\* The daemon goes on while it can; connections may be lost again and again, but if
\* there are enough of them a first flush and the next envelope get through.
Fairness ==
    /\ WF_vars(DaemonStep)
    /\ SF_vars(\E t \in Tunnels : flushAll(t))
    /\ SF_vars(\E t \in Tunnels : send(t))

FairSpec == Spec /\ Fairness

TerminalPersisted(c) ==
    /\ c \in Ledger!Retained
    /\ \/ \E i \in DOMAIN commands[c].events : commands[c].events[i] \in Ledger!Settled
       \/ \E i \in DOMAIN commands[c].outgoing :
             commands[c].outgoing[i].kind \in Ledger!Settled

-----------------------------------------------------------------------------
(* Properties.                                                             *)

\* The tunnels' and the relay's state has the types above.
TunnelTypeOK ==
    /\ Ledger!LedgerTypeOK
    /\ tunnels \in [Tunnels -> Tunnel \cup {None}]
    /\ grantedScope \in Scopes
    /\ published \in 0..MaxCommands
    /\ \A i \in DOMAIN stream : stream[i] \in Envelope
    /\ holder \in Running \cup {None}
    /\ delayed \in Envelope \cup {None}

\* Whatever two tunnels, a lost connection or a restart send twice is the same: what
\* the relay holds under a number, or has on the way to it, is what the ledger keeps
\* under that number.
ResendsAreIdentical ==
    LET sent == {stream[i] : i \in DOMAIN stream} \cup ({delayed} \ {None})
                \cup UNION {tunnels[t].sending : t \in Running}
        kept == UNION {{[sequence |-> commands[c].outgoing[i].sequence, command |-> c,
                         kind |-> commands[c].outgoing[i].kind] :
                            i \in DOMAIN commands[c].outgoing} : c \in Ledger!Retained}
    IN  \A e \in sent, f \in sent \cup kept : e.sequence = f.sequence => e = f

\* A tunnel's first flush, which no other precedes, sends everything the relay lacks: with
\* an envelope also those of the numbers before it, though the events of several commands
\* were numbered in turns by other tunnels and an envelope of theirs may still arrive. So
\* it never waits for the answer to a gap, with which the tunnel would never serve.
FirstFlushIsComplete ==
    \A t \in Running : tunnels[t].phase = "opened" =>
        \A e \in tunnels[t].sending : \A n \in (Len(stream) + 1)..e.sequence :
            \E f \in tunnels[t].sending : f.sequence = n

\* "Allocates and persists ciphertext sequences before the relay can observe or
\* acknowledge them": a number the relay holds is below the ledger's next one, so
\* what the desktop acknowledges is never refused as unknown; and what the relay does
\* not hold yet is still in the ledger.
StreamIsPersisted ==
    /\ Len(stream) < nextOutgoing
    /\ \A n \in (Len(stream) + 1)..(nextOutgoing - 1) :
          \E c \in Ledger!Retained : \E i \in DOMAIN commands[c].outgoing :
              commands[c].outgoing[i].sequence = n

\* The daemon with its tunnels implements the promise of RemoteCommands to a desktop:
\* whatever is lost, replayed and restarted, commands are executed in order and once,
\* and answered by events and a terminal event.
Promise ==
    INSTANCE RemoteCommands WITH
        stream <- [i \in DOMAIN stream |->
                      [command |-> stream[i].command, kind |-> stream[i].kind]]

ImplementsRemoteCommands == Promise!Spec

\* "A replacement tunnel must pick up events persisted after its predecessor closed": once
\* a terminal event of a command is persisted, the relay gets one, whatever tunnels come
\* and go and wherever the daemon stops. It is claimed of terminal events only, and of the
\* commands that emit nothing before: an earlier event may wait for as long as its command
\* runs, since a notified flush that fails is not repeated, and once it is consumed the
\* command may be pruned with its terminal event unsent (PrunesOnlyConsumed).
TerminalEventsReachRelay ==
    \A c \in Commands \ Emitters :
        TerminalPersisted(c) ~>
            \E i \in DOMAIN stream :
                stream[i].command = c /\ stream[i].kind \in Ledger!Settled

=============================================================================
