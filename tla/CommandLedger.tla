---------------------------- MODULE CommandLedger ----------------------------
(***************************************************************************)
(* SessionCommandHandler (apps/device-agent/src/session-handler.ts): the   *)
(* device's ledger of the commands of one remote session. A command is     *)
(* admitted before it is executed; what it emits is appended to the ledger *)
(* before it is sent; a response gets its sequence number and ciphertext   *)
(* in the ledger before the relay can see it, and stays there until the    *)
(* desktop has consumed it.                                                *)
(*                                                                         *)
(* Every operation on the ledger reads the file, changes it and renames a  *)
(* new file into place, one after the other (#withLedger): an operation is *)
(* one atomic step. What interleaves are the operations of the calls: each *)
(* handle() goes through several of them, the tunnels prepare and          *)
(* acknowledge responses in between, and the daemon may stop anywhere.     *)
(*                                                                         *)
(* A command is known by the sequence number the desktop gave it, which    *)
(* the relay never gives to another envelope (EnvelopeLog); the content of *)
(* commands and events is abstract. Ledgers of older daemons (unscoped     *)
(* commands) and failing or corrupt files are left out.                    *)
(***************************************************************************)
EXTENDS Integers, FiniteSets, Sequences

CONSTANTS
    MaxCommands,           \* bound: desktop sequences 1..this are used
    Scopes,                \* the controller scopes that tunnels are opened under:
                           \* [client, attachmentGeneration, leaseGeneration]
    MaxRetainedCommands,   \* policy.maxRetainedCommands
    MaxEventsPerCommand,   \* policy.maxEventsPerCommand
    MaxCrashes,            \* bound: restarts of the daemon
    None                   \* no ledger entry, no call, no scope

ASSUME PolicyIsPositive ==
    MaxRetainedCommands \in Nat \ {0} /\ MaxEventsPerCommand \in Nat \ {0}

ASSUME BoundsAreNumbers == MaxCommands \in Nat /\ MaxCrashes \in Nat

ASSUME GenerationsAreNumbers ==
    \A scope \in Scopes : {scope.attachmentGeneration, scope.leaseGeneration} \subseteq Nat


Commands == 1..MaxCommands

VARIABLES
    \* the ledger file
    commands,              \* command -> persisted command or None
    controllerScope,       \* the scope last adopted, None at first
    nextOutgoing,          \* transport.nextOutgoingSequence
    acknowledgedDesktop,   \* transport.acknowledgedDesktopSequence
    highestReceived,       \* transport.highestReceivedDesktopSequence
    acknowledgedOutgoing,  \* transport.acknowledgedOutgoingSequence
    \* the process
    initialized,           \* #initialize has run since the start
    calls,                 \* #inFlight: command -> its progress, or None
    crashes,               \* restarts so far
    \* history
    executions             \* command -> how often the executor was started

transport == <<nextOutgoing, acknowledgedDesktop, highestReceived, acknowledgedOutgoing>>
ledger == <<commands, controllerScope, transport>>
vars == <<ledger, initialized, calls, crashes, executions>>

Settled == {"complete", "failed"}
EventKind == {"event"} \cup Settled

PersistedCommand ==
    [scope: Scopes, status: {"admitted"} \cup Settled, events: Seq(EventKind),
     outgoing: Seq([sequence: Nat \ {0}, kind: EventKind])]

ASSUME NoneIsNoValue ==
    None \notin Scopes \cup PersistedCommand /\ None \notin {"running"} \cup Settled

Init ==
    /\ commands = [c \in Commands |-> None]
    /\ controllerScope = None
    /\ nextOutgoing = 1
    /\ acknowledgedDesktop = 0
    /\ highestReceived = 0
    /\ acknowledgedOutgoing = 0
    /\ initialized = FALSE
    /\ calls = [c \in Commands |-> None]
    /\ crashes = 0
    /\ executions = [c \in Commands |-> 0]

Retained == {c \in Commands : commands[c] # None}
EventCount(c) == Len(commands[c].outgoing) + Len(commands[c].events)

-----------------------------------------------------------------------------
(* The start of the process, and its end.                                  *)

\* Mutant: a restart fails every command that is still retained.
RestartedWhateverStatus(command) ==
    IF command # None
    THEN [command EXCEPT !.status = "failed", !.events = Append(@, "failed")]
    ELSE command

\* terminalRestartEvent: appended to what was left admitted.
Restarted(command) ==
    IF command # None /\ command.status = "admitted"
    THEN [command EXCEPT !.status = "failed", !.events = Append(@, "failed")]
    ELSE command

\* #initialize precedes every other operation of a process.
initialize ==
    /\ ~initialized
    /\ initialized' = TRUE
    /\ commands' = [c \in Commands |-> Restarted(commands[c])]
    /\ UNCHANGED <<controllerScope, transport, calls, crashes, executions>>

crash ==
    /\ crashes < MaxCrashes
    /\ crashes' = crashes + 1
    /\ initialized' = FALSE
    /\ calls' = [c \in Commands |-> None]
    /\ UNCHANGED <<ledger, executions>>

-----------------------------------------------------------------------------
(* The execution fence.                                                    *)

validateControllerScope(scope) ==
    controllerScope # None =>
        /\ scope.leaseGeneration >= controllerScope.leaseGeneration
        /\ scope.leaseGeneration = controllerScope.leaseGeneration =>
              /\ scope.client = controllerScope.client
              /\ scope.attachmentGeneration >= controllerScope.attachmentGeneration

\* A tunnel that may not adopt its scope is not opened.
adoptControllerScope(scope) ==
    /\ initialized
    /\ validateControllerScope(scope)
    /\ controllerScope' = scope
    /\ UNCHANGED <<commands, transport, initialized, calls, crashes, executions>>

-----------------------------------------------------------------------------
(* One command: admission, execution, settlement.                          *)

\* Mutant: a pruned command is not told from a new one.
NewAdmissionByLedgerOnly(c) ==
    /\ c \in 1..(highestReceived + 1)
    /\ Cardinality(Retained) < MaxRetainedCommands

\* validateNewAdmission: no replay of a pruned command, no gap, and room.
NewAdmission(c) ==
    /\ c = highestReceived + 1
    /\ Cardinality(Retained) < MaxRetainedCommands

\* Mutant: the scope is compared with the one of the command's own tunnel.
InScopeUnchecked(scope) == TRUE

InScope(scope) == scope = controllerScope

Admits(c, scope) ==
    /\ InScope(scope)
    /\ commands[c] = None
    /\ NewAdmission(c)

\* A call that joins one in flight, replays a settled command or is refused
\* changes nothing.
handle(c, scope) ==
    /\ initialized
    /\ calls[c] = None
    /\ Admits(c, scope)
    /\ commands' = [commands EXCEPT ![c] =
            [scope |-> scope, status |-> "admitted", events |-> <<>>, outgoing |-> <<>>]]
    /\ highestReceived' = c
    /\ calls' = [calls EXCEPT ![c] = "running"]
    /\ executions' = [executions EXCEPT ![c] = @ + 1]
    /\ UNCHANGED <<controllerScope, nextOutgoing, acknowledgedDesktop,
                   acknowledgedOutgoing, initialized, crashes>>

\* Mutant: an event may take the terminal event's room.
HasRoomToTheLimit(c) == EventCount(c) < MaxEventsPerCommand

\* #appendEvent: an event leaves room for the terminal one.
HasRoom(c) == EventCount(c) < MaxEventsPerCommand - 1

Appended(c, kind) == [commands EXCEPT ![c].events = Append(@, kind)]

emit(c) ==
    /\ calls[c] = "running"
    /\ HasRoom(c)
    /\ commands' = Appended(c, "event")
    /\ UNCHANGED <<controllerScope, transport, initialized, calls, crashes, executions>>

\* execute() returned or threw (an emit over the limit throws): the terminal event
\* is one operation, the new status is the next one.
appendTerminal(c, status) ==
    /\ calls[c] = "running"
    /\ EventCount(c) < MaxEventsPerCommand
    /\ commands' = Appended(c, status)
    /\ calls' = [calls EXCEPT ![c] = status]
    /\ UNCHANGED <<controllerScope, transport, initialized, crashes, executions>>

settle(c) ==
    /\ calls[c] \in Settled
    /\ commands' = [commands EXCEPT ![c].status = calls[c]]
    /\ calls' = [calls EXCEPT ![c] = None]
    /\ UNCHANGED <<controllerScope, transport, initialized, crashes, executions>>

-----------------------------------------------------------------------------
(* Responses: ciphertext, acknowledgement of commands, pruning.            *)

\* The order of prepareAllOutgoingEnvelopes: what has ciphertext by its first
\* sequence, then the rest in the order it was received.
PreparedBefore(c, d) ==
    LET first(x) == commands[x].outgoing[1].sequence
        hasCiphertext(x) == commands[x].outgoing # <<>>
    IN  IF hasCiphertext(c) /\ hasCiphertext(d) THEN first(c) < first(d)
        ELSE IF hasCiphertext(c) # hasCiphertext(d) THEN hasCiphertext(c)
        ELSE c < d

\* The events of a batch that have no ciphertext, by command and position, and the order
\* in which they get theirs.
Plain(batch) == UNION {{<<c, i>> : i \in DOMAIN commands[c].events} : c \in batch}

EncryptedBefore(p, q) ==
    \/ PreparedBefore(p[1], q[1])
    \/ p[1] = q[1] /\ p[2] < q[2]

\* Mutant: every command of a batch is numbered from the start of the batch.
EventNumberUnshifted(c, i, batch) == nextOutgoing + i - 1

\* Mutant: nextOutgoing is taken for the last number given.
EventNumberZeroBased(c, i, batch) ==
    nextOutgoing - 1 + Cardinality({p \in Plain(batch) : EncryptedBefore(p, <<c, i>>)})

\* `next`: as many numbers are given before as events come before.
EventNumber(c, i, batch) ==
    nextOutgoing + Cardinality({p \in Plain(batch) : EncryptedBefore(p, <<c, i>>)})

\* Ciphertext replaces the events.
Encrypted(c, batch) ==
    LET command == commands[c]
    IN  [command EXCEPT
            !.events = <<>>,
            !.outgoing = @ \o [i \in 1..Len(command.events) |->
                 [sequence |-> EventNumber(c, i, batch), kind |-> command.events[i]]]]

\* Mutant: a command that is still running is acknowledged.
AnsweredWhileRunning(command) == command # None /\ command.outgoing # <<>>

\* The test of #advanceIncomingAcknowledgement.
Answered(command) ==
    command # None /\ command.status # "admitted" /\ command.outgoing # <<>>

AdvanceIncomingAcknowledgement(table) ==
    CHOOSE n \in acknowledgedDesktop..MaxCommands :
        /\ \A c \in (acknowledgedDesktop + 1)..n : Answered(table[c])
        /\ n < MaxCommands => ~Answered(table[n + 1])

\* prepareOutgoingEnvelopes for one command, prepareAllOutgoingEnvelopes for the
\* batch of all. With no event to encrypt it changes nothing.
prepareOutgoing(batch) ==
    LET prepared == [c \in Commands |-> IF c \in batch THEN Encrypted(c, batch)
                                        ELSE commands[c]]
    IN  /\ initialized
        /\ Plain(batch) # {}
        /\ commands' = prepared
        /\ nextOutgoing' = nextOutgoing + Cardinality(Plain(batch))
        /\ acknowledgedDesktop' = AdvanceIncomingAcknowledgement(prepared)
        /\ UNCHANGED <<controllerScope, highestReceived, acknowledgedOutgoing,
                       initialized, calls, crashes, executions>>

\* Mutant: a command is pruned once its first response is consumed.
PrunableByFirstSequence(c, n) ==
    /\ commands[c] # None
    /\ commands[c].status # "admitted"
    /\ c <= acknowledgedDesktop
    /\ commands[c].outgoing # <<>>
    /\ commands[c].outgoing[1].sequence <= n

\* pruneAcknowledgedCommands
Prunable(c, n) ==
    /\ commands[c] # None
    /\ commands[c].status # "admitted"
    /\ c <= acknowledgedDesktop
    /\ commands[c].outgoing # <<>>
    /\ commands[c].outgoing[Len(commands[c].outgoing)].sequence <= n

\* What the relay says of the desktop; anything not persisted here is refused.
acknowledgeOutgoing(n) ==
    /\ initialized
    /\ n > acknowledgedOutgoing
    /\ n < nextOutgoing
    /\ acknowledgedOutgoing' = n
    /\ commands' = [c \in Commands |-> IF Prunable(c, n) THEN None ELSE commands[c]]
    /\ UNCHANGED <<controllerScope, nextOutgoing, acknowledgedDesktop, highestReceived,
                   initialized, calls, crashes, executions>>

-----------------------------------------------------------------------------

MaxOutgoing == MaxCommands * (MaxEventsPerCommand + 1)

Next ==
    \/ initialize
    \/ crash
    \/ \E scope \in Scopes : adoptControllerScope(scope)
    \/ \E c \in Commands, scope \in Scopes : handle(c, scope)
    \/ \E c \in Commands : emit(c)
    \/ \E c \in Commands, status \in Settled : appendTerminal(c, status)
    \/ \E c \in Commands : settle(c)
    \/ \E c \in Retained : prepareOutgoing({c})
    \/ prepareOutgoing(Retained)
    \/ \E n \in 1..MaxOutgoing : acknowledgeOutgoing(n)

Spec == Init /\ [][Next]_vars

-----------------------------------------------------------------------------
(* Properties.                                                             *)

\* The type of the ledger file and of the process state.
LedgerTypeOK ==
    /\ commands \in [Commands -> PersistedCommand \cup {None}]
    /\ controllerScope \in Scopes \cup {None}
    /\ nextOutgoing \in Nat \ {0}
    /\ {acknowledgedDesktop, highestReceived, acknowledgedOutgoing} \subseteq Nat
    /\ initialized \in BOOLEAN
    /\ calls \in [Commands -> {None, "running"} \cup Settled]
    /\ crashes \in Nat
    /\ executions \in [Commands -> Nat]

\* "executes a command id only once across reconnect": over replays, prunings and
\* restarts the executor is started at most once for a command, and never for a
\* command after a later one.
ExecutedAtMostOnce ==
    /\ \A c \in Commands : executions[c] <= 1
    /\ \A c \in Commands : executions[c] = 1 <=> c <= highestReceived

\* The device never tells the relay that it is done with a command (the relay then
\* deletes its envelope) while the command runs or before a response of it is kept.
AcknowledgedWhenAnswered ==
    \A c \in Commands : c <= acknowledgedDesktop =>
        /\ c <= highestReceived
        /\ commands[c] # None => Answered(commands[c])
        /\ calls[c] = None

\* The executor's end is always recorded: while a command runs, whatever it has emitted and
\* of this was encrypted, one more event is within the limit. Without that room handle()
\* throws and the command stays admitted. Only a restart may exceed the limit, by the one
\* event of #initialize, which does not count (see OneTerminalEvent).
TerminalEventFits ==
    /\ \A c \in Commands : calls[c] = "running" => EventCount(c) < MaxEventsPerCommand
    /\ \A c \in Retained :
          EventCount(c) <= IF commands[c].status = "failed" THEN MaxEventsPerCommand + 1
                           ELSE MaxEventsPerCommand

\* What has settled is final: no late call, tunnel or restart changes the status of a
\* command that has one, or adds an event to its answer, as long as it is retained.
SettledIsFinal ==
    [][\A c \in Retained :
          commands[c].status \in Settled /\ commands'[c] # None =>
              /\ commands'[c].status = commands[c].status
              /\ EventCount(c)' = EventCount(c)]_vars

\* Every number handed to the relay belongs to one response: the ciphertexts of the
\* ledger have different numbers, below the next one, ascending within a command.
OutgoingNumbersAreUnique ==
    LET numbers(c) == {commands[c].outgoing[i].sequence : i \in DOMAIN commands[c].outgoing}
    IN  /\ \A c \in Retained : \A n \in numbers(c) : n < nextOutgoing
        /\ \A c \in Retained : \A i, j \in DOMAIN commands[c].outgoing :
              i < j => commands[c].outgoing[i].sequence < commands[c].outgoing[j].sequence
        /\ \A c, d \in Retained : c # d => numbers(c) \cap numbers(d) = {}

\* A number above the desktop's acknowledgement is never dropped: the ciphertexts the
\* desktop has not consumed are a complete run up to the next number, so the first flush
\* of a tunnel never meets the "Device event sequence gap" of session-tunnel.ts.
UnconsumedRunIsComplete ==
    \A n \in (acknowledgedOutgoing + 1)..(nextOutgoing - 1) :
        \E c \in Retained : \E i \in DOMAIN commands[c].outgoing :
            commands[c].outgoing[i].sequence = n

\* Commands are executed in the order of the controllers that sent them: of two
\* retained commands the later one is of no older lease generation, one generation
\* has one client, and none is newer than the scope that tunnels are opened under,
\* which a restart does not forget.
ExecutionIsFenced ==
    /\ \A c \in Retained :
          /\ controllerScope # None
          /\ commands[c].scope.leaseGeneration <= controllerScope.leaseGeneration
    /\ \A c, d \in Retained : c < d =>
          LET older == commands[c].scope
              newer == commands[d].scope
          IN  /\ older.leaseGeneration <= newer.leaseGeneration
              /\ older.leaseGeneration = newer.leaseGeneration => older.client = newer.client

\* "Prunes only responses the relay confirms the desktop has consumed" (line 491): a
\* command that leaves the ledger had every response encrypted and acknowledged. It
\* does not hold when the terminal event of a settled command is still to be
\* encrypted while another command's responses are.
PrunesOnlyConsumed ==
    [][\A c \in Retained : commands'[c] = None =>
          /\ commands[c].events = <<>>
          /\ \A i \in DOMAIN commands[c].outgoing :
                commands[c].outgoing[i].sequence <= acknowledgedOutgoing']_vars

\* The limit on the events of a command "includes the terminal complete/failed event"
\* (line 46), of which there is one. It does not hold when the daemon restarts between
\* the terminal event and the new status, which are two operations: the restart then
\* adds a second terminal event.
OneTerminalEvent ==
    \A c \in Retained :
        /\ EventCount(c) <= MaxEventsPerCommand
        /\ Cardinality({i \in DOMAIN commands[c].events : commands[c].events[i] \in Settled})
           + Cardinality({i \in DOMAIN commands[c].outgoing :
                              commands[c].outgoing[i].kind \in Settled}) <= 1

=============================================================================
