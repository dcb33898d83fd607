--------------------------- MODULE DesktopSession ---------------------------
(***************************************************************************)
(* RemoteSessionService (packages/cli-adapters/src/remote-session.ts): the *)
(* desktop's end of one remote session. Callers (ownedExecute) each want   *)
(* one command executed and its events; they share a connection, a set of  *)
(* subscribers with a backlog, and the session's state in the document of  *)
(* secrets, whose reads and writes go through one queue: what an operation *)
(* does is atomic, what is done with a value that was read waits in the    *)
(* queue again, behind what others asked for meanwhile.                    *)
(*                                                                         *)
(* The relay and the device do what RemoteCommands promises: commands are  *)
(* taken in the order of their numbers, each is answered by events and     *)
(* then one terminal event, and events are kept until acknowledged.        *)
(* Pages of a replay, the batching of acknowledgements, keys that change   *)
(* and the SSH transport are left out; a connection has had its hello.     *)
(***************************************************************************)
EXTENDS Integers, FiniteSets, Sequences

LOCAL INSTANCE SequencesExt

CONSTANTS
    Callers,          \* bound: the calls of ownedExecute
    Operations,       \* what they ask for, with the payload
    MaxFailures,      \* how often a caller tries again
    Connections,      \* bound: the connections that are opened
    MaxEvents,        \* bound: events of a command before the terminal one
    MaxCrashes,       \* bound: restarts of the desktop
    None

\* The id of a command is new: it is known by the caller that made it.
Commands == Callers

VARIABLES
    file,          \* DesktopRemoteSessionState: next, acknowledged, pending
    queue,         \* operations on the document that wait for their turn
    callers,       \* caller -> where it is
    active,        \* the connection new callers use, or None
    connections,   \* connection -> its state, or None
    subscribers,   \* command -> the caller that takes its events, or None
    backlog,       \* command -> events nobody took
    claimed,       \* claimedPendingCommandIds
    accepted,      \* the relay: commands taken, in order
    stream,        \* the relay: the device's events [command, kind]
    socket,        \* the relay: the desktop's connection, or None
    crashes

session == <<active, subscribers, backlog, claimed>>
relay == <<accepted, stream, socket>>
vars == <<file, queue, callers, connections, session, relay, crashes>>

Terminal == {"complete", "failed"}
Pending == [command: Commands, sequence: Nat \ {0}]
Event == [command: Commands, kind: {"event"} \cup Terminal, sequence: Nat \ {0}]
State == [next: Nat \ {0}, acknowledged: Nat, pending: SUBSET Pending]

NoCaller ==
    [phase |-> "new", operation |-> None, pending |-> None, connection |-> None,
     failures |-> 0, subscription |-> <<>>]

Init ==
    /\ file = [next |-> 1, acknowledged |-> 0, pending |-> {}]
    /\ queue = <<>>
    /\ callers = [k \in Callers |-> NoCaller]
    /\ active = None
    /\ connections = [n \in Connections |-> None]
    /\ subscribers = [c \in Commands |-> None]
    /\ backlog = [c \in Commands |-> <<>>]
    /\ claimed = {}
    /\ accepted = <<>>
    /\ stream = <<>>
    /\ socket = None
    /\ crashes = 0

Phase(k) == callers[k].phase
CommandOf(k) == callers[k].pending.command
ConnectionOf(k) == connections[callers[k].connection]
Established(n) == n # None /\ connections[n] # None

Closed(table, n) ==
    IF n # None /\ table[n] # None THEN [table EXCEPT ![n].open = FALSE] ELSE table

-----------------------------------------------------------------------------
(* establish                                                               *)

\* A caller that finds no connection opens one, for all that come meanwhile.
Open(k) ==
    \E n \in Connections :
        /\ connections[n] = None
        /\ connections' = [connections EXCEPT ![n] =
                [step |-> "reading", state |-> None, open |-> FALSE, next |-> 0,
                 cursor |-> 0, event |-> None]]
        /\ active' = n
        /\ queue' = Append(queue, n)
        /\ callers' = [callers EXCEPT ![k].phase = "establishing", ![k].connection = n]

begin(k, operation) ==
    /\ Phase(k) = "new"
    /\ callers' = [callers EXCEPT ![k].phase = "unconnected", ![k].operation = operation]
    /\ UNCHANGED <<file, queue, connections, session, relay, crashes>>

establish(k) ==
    /\ \/ Phase(k) = "unconnected" /\ active = None
       \/ Phase(k) = "replacing"
    /\ Open(k)
    /\ UNCHANGED <<file, subscribers, backlog, claimed, relay, crashes>>

joinConnection(k) ==
    /\ Phase(k) = "unconnected"
    /\ active # None
    /\ callers' = [callers EXCEPT ![k].phase = "establishing", ![k].connection = active]
    /\ UNCHANGED <<file, queue, connections, session, relay, crashes>>

Opening(n) == connections[n].step \in {"reading", "restoring", "connecting"}

\* The connection waited for is there; if it is closed, it is replaced.
established(k) ==
    /\ Phase(k) = "establishing"
    /\ ~Opening(callers[k].connection)
    /\ connections[callers[k].connection].step # "failed"
    /\ IF ConnectionOf(k).open
       THEN /\ callers' = [callers EXCEPT ![k].phase =
                    IF callers[k].pending = None THEN "preparing" ELSE "subscribing"]
            /\ queue' = IF callers[k].pending = None THEN Append(queue, k) ELSE queue
            /\ UNCHANGED active
       ELSE /\ callers' = [callers EXCEPT ![k].phase = "replacing"]
            /\ active' = None
            /\ UNCHANGED queue
    /\ UNCHANGED <<file, connections, subscribers, backlog, claimed, relay, crashes>>

\* The end of a caller. What it asked of the document is done nevertheless.
Ended(caller) ==
    [NoCaller EXCEPT !.phase = "ended", !.operation = caller.operation]

Released(k, claims) ==
    IF callers[k].pending = None THEN claims ELSE claims \ {CommandOf(k)}

Unsubscribed(k) ==
    IF callers[k].pending = None THEN subscribers
    ELSE [subscribers EXCEPT ![CommandOf(k)] = None]

End(k) ==
    /\ callers' = [callers EXCEPT ![k] = Ended(@)]
    /\ claimed' = Released(k, claimed)
    /\ subscribers' = Unsubscribed(k)

\* retryRemoteFailure
Retry(k, left) ==
    IF callers[k].failures + 1 >= MaxFailures THEN End(k)
    ELSE /\ callers' = [callers EXCEPT ![k].phase = "unconnected", ![k].failures = @ + 1,
                                       ![k].connection = None, ![k].subscription = <<>>]
         /\ subscribers' = left
         /\ UNCHANGED claimed

notEstablished(k) ==
    /\ Phase(k) = "establishing"
    /\ connections[callers[k].connection].step = "failed"
    /\ active' = None
    /\ Retry(k, subscribers)
    /\ UNCHANGED <<file, queue, connections, backlog, relay, crashes>>

\* states.get, restoreOrCreateRemoteState and states.put: the state is written back.
restore(n) ==
    /\ queue # <<>> /\ Head(queue) = n
    /\ connections[n].step \in {"reading", "restoring"}
    /\ IF connections[n].step = "reading"
       THEN /\ connections' = [connections EXCEPT ![n].step = "restoring", ![n].state = file]
            /\ queue' = Append(Tail(queue), n)
            /\ UNCHANGED file
       ELSE /\ file' = connections[n].state
            /\ connections' = [connections EXCEPT ![n].step = "connecting"]
            /\ queue' = Tail(queue)
    /\ UNCHANGED <<callers, session, relay, crashes>>

\* openRemoteTunnel: the relay replaces the desktop's socket and replays what was not
\* acknowledged.
connect(n) ==
    /\ Established(n) /\ connections[n].step = "connecting"
    /\ connections' = [connections EXCEPT ![n] =
            [@ EXCEPT !.step = "idle", !.open = TRUE, !.next = Len(accepted) + 1,
                      !.cursor = connections[n].state.acknowledged, !.state = None]]
    /\ socket' = n
    /\ UNCHANGED <<file, queue, callers, session, accepted, stream, crashes>>

connectFails(n) ==
    /\ Established(n) /\ connections[n].step = "connecting"
    /\ connections' = [connections EXCEPT ![n].step = "failed"]
    /\ active' = None
    /\ UNCHANGED <<file, queue, callers, subscribers, backlog, claimed, relay, crashes>>

\* The desktop learns that a connection has ended, in its own time.
loseConnection(n) ==
    /\ Established(n) /\ connections[n].open
    /\ connections' = Closed(connections, n)
    /\ socket' = IF socket = n THEN None ELSE socket
    /\ UNCHANGED <<file, queue, callers, session, accepted, stream, crashes>>

-----------------------------------------------------------------------------
(* One caller: its command, its subscription, the answer.                  *)

Recoverable(k) ==
    {p \in file.pending : p.command \notin claimed
                          /\ callers[p.command].operation = callers[k].operation}

\* A command of the same operation that no caller claims is taken up, or a new one
\* gets the next number; also for a caller that was interrupted meanwhile.
prepareCommand(k) ==
    /\ queue # <<>> /\ Head(queue) = k
    /\ queue' = Tail(queue)
    /\ \E pending \in IF Recoverable(k) # {} THEN Recoverable(k)
                      ELSE {[command |-> k, sequence |-> file.next]} :
          /\ callers' = IF Phase(k) = "preparing"
                        THEN [callers EXCEPT ![k].phase = "subscribing",
                                             ![k].pending = pending]
                        ELSE callers
          /\ claimed' = claimed \cup {pending.command}
          /\ file' = IF Recoverable(k) # {} THEN file
                     ELSE [file EXCEPT !.next = @ + 1, !.pending = @ \cup {pending}]
    /\ UNCHANGED <<connections, active, subscribers, backlog, relay, crashes>>

subscribe(k) ==
    /\ Phase(k) = "subscribing"
    /\ LET c == CommandOf(k)
           ended == \E i \in DOMAIN backlog[c] : backlog[c][i].kind \in Terminal
       IN  /\ callers' = [callers EXCEPT ![k].phase = "sending",
                                         ![k].subscription = backlog[c]]
           /\ subscribers' = [subscribers EXCEPT ![c] = IF ended THEN None ELSE k]
           /\ backlog' = [backlog EXCEPT ![c] = <<>>]
    /\ UNCHANGED <<file, queue, connections, active, claimed, relay, crashes>>

Observing(k) == [callers EXCEPT ![k].phase = "observing"]

\* The relay has had the command already.
sendNothing(k) ==
    /\ Phase(k) = "sending"
    /\ callers[k].pending.sequence < ConnectionOf(k).next
    /\ callers' = Observing(k)
    /\ UNCHANGED <<file, queue, connections, session, relay, crashes>>

\* A write on the connection that the relay knows.
Writes(k) ==
    /\ Phase(k) = "sending"
    /\ callers[k].pending.sequence = ConnectionOf(k).next
    /\ ConnectionOf(k).open /\ socket = callers[k].connection

\* The relay takes the next number, or has the same envelope there.
send(k) ==
    /\ Writes(k)
    /\ LET sequence == callers[k].pending.sequence
       IN  \/ /\ sequence = Len(accepted) + 1
              /\ accepted' = Append(accepted, CommandOf(k))
           \/ /\ sequence \in DOMAIN accepted /\ accepted[sequence] = CommandOf(k)
              /\ UNCHANGED accepted
    /\ connections' = [connections EXCEPT ![callers[k].connection].next = @ + 1]
    /\ callers' = Observing(k)
    /\ UNCHANGED <<file, queue, session, stream, socket, crashes>>

\* The number was taken by another command, or by this one and its row is gone (the
\* relay keeps no row that was acknowledged or is too old): the write is rejected.
sendConflicts(k) ==
    /\ Writes(k)
    /\ callers[k].pending.sequence \in DOMAIN accepted
    /\ active' = None
    /\ connections' = Closed(connections, callers[k].connection)
    /\ socket' = None
    /\ Retry(k, Unsubscribed(k))
    /\ UNCHANGED <<file, queue, backlog, accepted, stream, crashes>>

\* A connection that was closed, or is before the relay answers.
sendFails(k) ==
    /\ Phase(k) = "sending"
    /\ callers[k].pending.sequence = ConnectionOf(k).next
    /\ ~ConnectionOf(k).open
    /\ \/ UNCHANGED accepted
       \/ /\ callers[k].pending.sequence = Len(accepted) + 1
          /\ accepted' = Append(accepted, CommandOf(k))
    /\ active' = None
    /\ Retry(k, Unsubscribed(k))
    /\ UNCHANGED <<file, queue, connections, backlog, stream, socket, crashes>>

\* 200 times 5 ms for the numbers before.
sendLate(k) ==
    /\ Phase(k) = "sending"
    /\ callers[k].pending.sequence > ConnectionOf(k).next
    /\ End(k)
    /\ UNCHANGED <<file, queue, connections, active, backlog, relay, crashes>>

interrupt(k) ==
    /\ Phase(k) \notin {"new", "ended"}
    /\ End(k)
    /\ UNCHANGED <<file, queue, connections, active, backlog, relay, crashes>>

observe(k) ==
    /\ Phase(k) = "observing"
    /\ callers[k].subscription # <<>>
    /\ LET item == Head(callers[k].subscription)
       IN  /\ item # None
           /\ IF item.kind \in Terminal THEN End(k)
              ELSE /\ callers' = [callers EXCEPT ![k].subscription = Tail(@)]
                   /\ UNCHANGED <<claimed, subscribers>>
    /\ UNCHANGED <<file, queue, connections, active, backlog, relay, crashes>>

observeError(k) ==
    /\ Phase(k) = "observing"
    /\ callers[k].subscription # <<>>
    /\ Head(callers[k].subscription) = None
    /\ active' = None
    /\ connections' = Closed(connections, callers[k].connection)
    /\ socket' = IF socket = callers[k].connection THEN None ELSE socket
    /\ Retry(k, Unsubscribed(k))
    /\ UNCHANGED <<file, queue, backlog, accepted, stream, crashes>>

-----------------------------------------------------------------------------
(* consumeConnection                                                       *)

\* The next envelope the relay sends; the state is to be read.
receive(n) ==
    /\ socket = n /\ connections[n].open /\ connections[n].step = "idle"
    /\ connections[n].cursor < Len(stream)
    /\ connections' = [connections EXCEPT ![n].step = "received",
            ![n].cursor = @ + 1,
            ![n].event = [command |-> stream[connections[n].cursor + 1].command,
                          kind |-> stream[connections[n].cursor + 1].kind,
                          sequence |-> connections[n].cursor + 1]]
    /\ queue' = Append(queue, n)
    /\ UNCHANGED <<file, callers, session, relay, crashes>>

\* states.get; a terminal event's command is not claimed any more.
check(n) ==
    /\ queue # <<>> /\ Head(queue) = n
    /\ connections[n].step = "received"
    /\ LET event == connections[n].event
       IN  IF event.sequence = file.acknowledged + 1
           THEN /\ connections' = [connections EXCEPT ![n].step = "persisting"]
                /\ claimed' = IF event.kind \in Terminal THEN claimed \ {event.command}
                              ELSE claimed
                /\ queue' = Append(Tail(queue), n)
           ELSE /\ connections' = [connections EXCEPT ![n].step =
                        IF event.sequence <= file.acknowledged /\ connections[n].open
                        THEN "idle" ELSE "broken"]
                /\ queue' = Tail(queue)
                /\ UNCHANGED claimed
    /\ UNCHANGED <<file, callers, active, subscribers, backlog, relay, crashes>>

persist(n) ==
    /\ queue # <<>> /\ Head(queue) = n
    /\ connections[n].step = "persisting"
    /\ LET event == connections[n].event
       IN  file' = [file EXCEPT
               !.acknowledged = event.sequence,
               !.pending = IF event.kind \in Terminal
                           THEN {p \in @ : p.command # event.command} ELSE @]
    /\ connections' = [connections EXCEPT ![n].step = "persisted"]
    /\ queue' = Tail(queue)
    /\ UNCHANGED <<callers, session, relay, crashes>>

\* acknowledge, which fails when the connection is closed, then deliverRemoteEvent.
deliver(n) ==
    /\ Established(n) /\ connections[n].step = "persisted"
    /\ connections[n].open
    /\ LET event == connections[n].event
           terminal == event.kind \in Terminal
           k == subscribers[event.command]
           left == [subscribers EXCEPT ![event.command] = None]
           idle == [connections EXCEPT ![n].step = "idle", ![n].event = None]
       IN  IF k # None
           THEN /\ callers' = [callers EXCEPT ![k].subscription = Append(@, event)]
                /\ subscribers' = IF terminal THEN left ELSE subscribers
                /\ connections' = IF terminal /\ \A c \in Commands : left[c] = None
                                  THEN Closed(idle, n) ELSE idle
                /\ UNCHANGED backlog
           ELSE /\ backlog' = [backlog EXCEPT ![event.command] = Append(@, event)]
                /\ connections' = idle
                /\ UNCHANGED <<callers, subscribers>>
    /\ UNCHANGED <<file, queue, active, claimed, relay, crashes>>

cannotAcknowledge(n) ==
    /\ Established(n) /\ connections[n].step = "persisted"
    /\ ~connections[n].open
    /\ connections' = [connections EXCEPT ![n].step = "broken"]
    /\ UNCHANGED <<file, queue, callers, session, relay, crashes>>

\* The consumer ends, with an error or with the connection.
consumerEnds(n) ==
    /\ Established(n)
    /\ \/ connections[n].step = "broken"
       \/ connections[n].step = "idle" /\ ~connections[n].open
    /\ connections' = [connections EXCEPT ![n].step = "ended"]
    /\ IF active = n
       THEN /\ active' = None
            /\ callers' = [k \in Callers |->
                    IF \E c \in Commands : subscribers[c] = k
                    THEN [callers[k] EXCEPT !.subscription = Append(@, None)]
                    ELSE callers[k]]
            /\ subscribers' = [c \in Commands |-> None]
       ELSE UNCHANGED <<active, callers, subscribers>>
    /\ UNCHANGED <<file, queue, backlog, claimed, relay, crashes>>

-----------------------------------------------------------------------------
(* The process, and its peer.                                              *)

crash ==
    /\ crashes < MaxCrashes
    /\ crashes' = crashes + 1
    /\ queue' = <<>>
    /\ callers' = [k \in Callers |->
            IF Phase(k) = "new" THEN callers[k] ELSE Ended(callers[k])]
    /\ active' = None
    /\ connections' = [n \in Connections |->
            IF connections[n] = None THEN None
            ELSE [connections[n] EXCEPT !.step = "ended", !.open = FALSE]]
    /\ subscribers' = [c \in Commands |-> None]
    /\ backlog' = [c \in Commands |-> <<>>]
    /\ claimed' = {}
    /\ socket' = None
    /\ UNCHANGED <<file, accepted, stream>>

EventsOf(c) == SelectSeq(stream, LAMBDA e : e.command = c)

\* The device's answers, in any order of the commands.
answer(c, kind) ==
    /\ \E i \in DOMAIN accepted : accepted[i] = c
    /\ \A i \in DOMAIN EventsOf(c) : EventsOf(c)[i].kind \notin Terminal
    /\ kind = "event" => Len(EventsOf(c)) < MaxEvents
    /\ stream' = Append(stream, [command |-> c, kind |-> kind])
    /\ UNCHANGED <<file, queue, callers, connections, session, accepted, socket, crashes>>

Next ==
    \/ \E k \in Callers, operation \in Operations : begin(k, operation)
    \/ \E k \in Callers : establish(k) \/ joinConnection(k)
    \/ \E k \in Callers : established(k) \/ notEstablished(k)
    \/ \E k \in Callers : prepareCommand(k) \/ subscribe(k)
    \/ \E k \in Callers : sendNothing(k) \/ send(k) \/ sendConflicts(k)
    \/ \E k \in Callers : sendFails(k) \/ sendLate(k)
    \/ \E k \in Callers : observe(k) \/ observeError(k) \/ interrupt(k)
    \/ \E n \in Connections : restore(n) \/ connect(n) \/ connectFails(n) \/ loseConnection(n)
    \/ \E n \in Connections : receive(n) \/ check(n) \/ persist(n) \/ deliver(n)
    \/ \E n \in Connections : cannotAcknowledge(n) \/ consumerEnds(n)
    \/ \E c \in Commands, kind \in {"event", "complete"} : answer(c, kind)
    \/ crash

Spec == Init /\ [][Next]_vars

-----------------------------------------------------------------------------
(* Properties.                                                             *)

Waiting == {k \in Callers : Phase(k) = "observing"}

Quiet(n) ==
    Established(n) =>
        \/ connections[n].step \in {"ended", "failed"}
        \/ connections[n].step = "idle" /\ connections[n].open

\* "... while retaining reconnect/exactly-once semantics": when nothing is on its way, a
\* caller that waits is subscribed to a command whose terminal event is still to come.
\* It does not hold: between a terminal event's check and its persistence the command
\* is pending and claimed by nobody, so another caller of the same operation takes it
\* up and with it the answer; and an event that was persisted is not delivered if the
\* connection closed meanwhile.
AnswersReachTheirCaller ==
    \A k \in Waiting :
        (callers[k].subscription = <<>> /\ \A n \in Connections : Quiet(n)) =>
            /\ subscribers[CommandOf(k)] = k
            /\ \A i \in 1..file.acknowledged :
                  stream[i].command = CommandOf(k) => stream[i].kind \notin Terminal

=============================================================================
