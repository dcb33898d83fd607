--------------------------- MODULE RemoteCommands ---------------------------
(***************************************************************************)
(* What a remote session promises to the desktop, whatever happens to      *)
(* connections, tunnels and the daemon: commands are executed in the order *)
(* they were published, each once; a command is answered by events and     *)
(* then a terminal event; only a restart of the daemon can add to that, a  *)
(* failed event, once. DeviceTunnel implements this specification over the *)
(* relay's two streams.                                                    *)
(***************************************************************************)
EXTENDS Integers, Sequences

CONSTANT MaxCommands   \* bound: commands 1..this

VARIABLES
    published,    \* commands 1..published are in the desktop's stream
    executions,   \* command -> how often it was started
    stream        \* the device's stream: [command, kind]

vars == <<published, executions, stream>>

Commands == 1..MaxCommands
Terminal == {"complete", "failed"}
Event == [command: Commands, kind: {"event"} \cup Terminal]

Init ==
    /\ published = 0
    /\ executions = [c \in Commands |-> 0]
    /\ stream = <<>>

Terminals(c) == {i \in DOMAIN stream : stream[i].command = c /\ stream[i].kind \in Terminal}

publish ==
    /\ published < MaxCommands
    /\ published' = published + 1
    /\ UNCHANGED <<executions, stream>>

\* The next command that was not started.
execute(c) ==
    /\ c <= published
    /\ \A d \in Commands : executions[d] = 1 <=> d < c
    /\ executions' = [executions EXCEPT ![c] = @ + 1]
    /\ UNCHANGED <<published, stream>>

\* After the terminal event nothing follows but the failure of a restart.
answer(c, kind) ==
    /\ executions[c] = 1
    /\ \A i, j \in Terminals(c) : i = j /\ kind = "failed"
    /\ stream' = Append(stream, [command |-> c, kind |-> kind])
    /\ UNCHANGED <<published, executions>>

Next ==
    \/ publish
    \/ \E c \in Commands : execute(c)
    \/ \E c \in Commands, kind \in {"event"} \cup Terminal : answer(c, kind)

Spec == Init /\ [][Next]_vars

=============================================================================
