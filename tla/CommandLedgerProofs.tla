------------------------- MODULE CommandLedgerProofs -------------------------
(***************************************************************************)
(* Theorems about CommandLedger, for every number of commands, restarts,   *)
(* controllers and limits: a command is executed at most once and in the   *)
(* order of the controllers that sent it, is acknowledged only when it is  *)
(* answered, and the numbers of the responses are given once and kept      *)
(* until the desktop has consumed them.                                    *)
(*                                                                         *)
(* The invariant is LedgerInvariant at the end, of four parts: Fenced,     *)
(* Acknowledged, Typed and Numbered. The number of an event is a count of  *)
(* the events before it, so that what a batch is given follows from        *)
(* Counting: the places of n ordered things are 0 to n - 1.                *)
(***************************************************************************)
EXTENDS CommandLedger, Counting, SequenceTheorems, TLAPS

-----------------------------------------------------------------------------
(* Executions.                                                             *)

\* What the admissions have counted, with the types it needs.
AdmissionsAreCounted ==
    /\ executions \in [Commands -> Nat]
    /\ highestReceived \in Nat
    /\ ExecutedAtMostOnce

\* Only an admission starts the executor or moves the fence.
LEMMA OnlyAdmissionCounts ==
    ASSUME Next, ~ \E c \in Commands, scope \in Scopes : handle(c, scope)
    PROVE  UNCHANGED <<executions, highestReceived>>
  BY DEF Next, initialize, crash, adoptControllerScope, emit, appendTerminal, settle,
         prepareOutgoing, acknowledgeOutgoing, ledger, transport

LEMMA AdmissionCounts ==
    ASSUME AdmissionsAreCounted, NEW c \in Commands, NEW scope \in Scopes,
           handle(c, scope)
    PROVE  AdmissionsAreCounted'
<1>1. /\ c = highestReceived + 1
      /\ highestReceived' = c
      /\ executions' = [executions EXCEPT ![c] = @ + 1]
  BY DEF handle, Admits, NewAdmission
<1>2. executions[c] = 0
  BY <1>1 DEF AdmissionsAreCounted, ExecutedAtMostOnce, Commands
<1>3. executions'[c] = 1 /\ executions' \in [Commands -> Nat]
  BY <1>1, <1>2 DEF AdmissionsAreCounted
<1>4. \A d \in Commands : d # c => executions'[d] = executions[d]
  BY <1>1 DEF AdmissionsAreCounted
<1>5. \A d \in Commands : d <= highestReceived' <=> d <= highestReceived \/ d = c
  BY <1>1 DEF AdmissionsAreCounted, Commands
<1>6. ~ (c <= highestReceived)
  BY <1>1 DEF AdmissionsAreCounted
<1>7. ExecutedAtMostOnce'
  <2>1. \A d \in Commands : executions'[d] <= 1
    BY <1>3, <1>4 DEF AdmissionsAreCounted, ExecutedAtMostOnce
  <2>2. \A d \in Commands : executions'[d] = 1 <=> d <= highestReceived'
    BY <1>3, <1>4, <1>5, <1>6 DEF AdmissionsAreCounted, ExecutedAtMostOnce
  <2> QED BY <2>1, <2>2 DEF ExecutedAtMostOnce
<1> QED BY <1>1, <1>3, <1>7 DEF AdmissionsAreCounted, Commands

\* "Executes a command id only once across reconnect" and across restarts and
\* prunings: the executor is started once for each number up to the highest received
\* and for no other (handle, validateNewAdmission).
THEOREM ExecutesAtMostOnce == Spec => []ExecutedAtMostOnce
<1>1. Init => AdmissionsAreCounted
  BY DEF Init, AdmissionsAreCounted, ExecutedAtMostOnce, Commands
<1>2. AdmissionsAreCounted /\ [Next]_vars => AdmissionsAreCounted'
  <2> SUFFICES ASSUME AdmissionsAreCounted, [Next]_vars
               PROVE  AdmissionsAreCounted'
    OBVIOUS
  <2>1. CASE \E c \in Commands, scope \in Scopes : handle(c, scope)
    BY <2>1, AdmissionCounts
  <2>2. CASE Next /\ ~ \E c \in Commands, scope \in Scopes : handle(c, scope)
    BY <2>2, OnlyAdmissionCounts DEF AdmissionsAreCounted, ExecutedAtMostOnce
  <2>3. CASE UNCHANGED vars
    BY <2>3 DEF vars, ledger, transport, AdmissionsAreCounted, ExecutedAtMostOnce
  <2> QED BY <2>1, <2>2, <2>3
<1>3. AdmissionsAreCounted => ExecutedAtMostOnce
  BY DEF AdmissionsAreCounted
<1> QED BY <1>1, <1>2, <1>3, PTL DEF Spec

-----------------------------------------------------------------------------
(* The execution fence.                                                    *)

\* The commands of the ledger and of the calls that have not settled.
Kept == Retained \cup {c \in Commands : calls[c] # None}

\* The inductive strengthening of ExecutionIsFenced: a command carries a scope that
\* some tunnel adopted; one of the fence's own generation carries the fence's client,
\* which is what the next command of that generation will carry; and no running
\* command leaves the ledger, since its status stays "admitted".
Fenced ==
    /\ highestReceived \in Nat
    /\ DOMAIN commands = Commands
    /\ DOMAIN calls = Commands
    /\ controllerScope \in Scopes \cup {None}
    /\ \A c \in Kept :
          /\ c <= highestReceived
          /\ {"scope", "status"} \subseteq DOMAIN commands[c]
          /\ commands[c].scope \in Scopes
          /\ controllerScope # None
          /\ commands[c].scope.leaseGeneration <= controllerScope.leaseGeneration
          /\ commands[c].scope.leaseGeneration = controllerScope.leaseGeneration
                => commands[c].scope.client = controllerScope.client
    /\ \A c \in Commands : calls[c] # None =>
          initialized /\ commands[c].status = "admitted"
    /\ \A c, d \in Kept : c < d =>
          /\ commands[c].scope.leaseGeneration <= commands[d].scope.leaseGeneration
          /\ commands[c].scope.leaseGeneration = commands[d].scope.leaseGeneration
                => commands[c].scope.client = commands[d].scope.client

\* What a step does to the commands if none enters the ledger or changes its scope,
\* and if no running one leaves it or changes its status.
KeepsScopes ==
    /\ DOMAIN commands' = Commands /\ DOMAIN calls' = Commands
    /\ Kept' \subseteq Kept
    /\ \A c \in Kept' : /\ {"scope", "status"} \subseteq DOMAIN commands'[c]
                        /\ commands'[c].scope = commands[c].scope
    /\ \A c \in Commands : calls'[c] # None =>
          initialized' /\ commands'[c].status = "admitted"

LEMMA KeepingScopesKeepsTheFence ==
    ASSUME Fenced, KeepsScopes, UNCHANGED <<highestReceived, controllerScope>>
    PROVE  Fenced'
<1>1. \A c \in Kept' : c \in Kept /\ commands'[c].scope = commands[c].scope
  BY DEF KeepsScopes
<1>2. \A c, d \in Kept' : c < d =>
          /\ commands'[c].scope.leaseGeneration <= commands'[d].scope.leaseGeneration
          /\ commands'[c].scope.leaseGeneration = commands'[d].scope.leaseGeneration
                => commands'[c].scope.client = commands'[d].scope.client
  BY <1>1 DEF Fenced
<1> QED BY <1>1, <1>2 DEF Fenced, KeepsScopes

\* Replacing other fields of a command keeps its scope and its status.
LEMMA EncryptedKeepsScope ==
    ASSUME NEW c, NEW batch, {"scope", "status"} \subseteq DOMAIN commands[c]
    PROVE  /\ DOMAIN Encrypted(c, batch) = DOMAIN commands[c]
           /\ Encrypted(c, batch).scope = commands[c].scope
           /\ Encrypted(c, batch).status = commands[c].status
<1> DEFINE command == commands[c]
           outgoing == command.outgoing \o
                         [i \in 1..Len(command.events) |->
                             [sequence |-> EventNumber(c, i, batch),
                              kind |-> command.events[i]]]
<1>1. Encrypted(c, batch) = [command EXCEPT !.events = <<>>, !.outgoing = outgoing]
  BY DEF Encrypted
<1>2. {"scope", "status"} \subseteq DOMAIN command
  OBVIOUS
<1> HIDE DEF command, outgoing
<1>3. /\ DOMAIN Encrypted(c, batch) = DOMAIN command
      /\ Encrypted(c, batch).scope = command.scope
      /\ Encrypted(c, batch).status = command.status
  BY <1>1, <1>2
<1> QED BY <1>3 DEF command

LEMMA RestartedKeepsScope ==
    ASSUME NEW command, command # None, {"scope", "status"} \subseteq DOMAIN command
    PROVE  /\ DOMAIN Restarted(command) = DOMAIN command
           /\ Restarted(command).scope = command.scope
<1> DEFINE events == Append(command.events, "failed")
<1>1. \/ Restarted(command) = command
      \/ Restarted(command) = [command EXCEPT !.status = "failed", !.events = events]
  BY Zenon DEF Restarted
<1> HIDE DEF events
<1> QED BY <1>1

\* The start of the process, when no call runs.
LEMMA InitializeKeepsScopes ==
    ASSUME Fenced, initialize
    PROVE  KeepsScopes
<1>1. /\ commands' = [c \in Commands |-> Restarted(commands[c])]
      /\ calls' = calls
      /\ ~initialized
  BY DEF initialize
<1>2. \A c \in Commands : calls[c] = None
  BY <1>1 DEF Fenced
<1>3. \A c \in Retained : /\ {"scope", "status"} \subseteq DOMAIN Restarted(commands[c])
                          /\ Restarted(commands[c]).scope = commands[c].scope
  BY RestartedKeepsScope DEF Fenced, Kept, Retained
<1>4. Restarted(None) = None
  BY DEF Restarted
<1> QED BY <1>1, <1>2, <1>3, <1>4 DEF KeepsScopes, Kept, Retained, Fenced

\* emit, appendTerminal: another event.
LEMMA AppendKeepsScopes ==
    ASSUME Fenced, NEW c \in Commands, NEW kind, calls[c] # None,
           commands' = Appended(c, kind), initialized' = initialized,
           DOMAIN calls' = Commands, \A d \in Commands \ {c} : calls'[d] = calls[d]
    PROVE  KeepsScopes
<1> DEFINE command == [commands[c] EXCEPT !.events = Append(@, kind)]
<1>1. {"scope", "status"} \subseteq DOMAIN commands[c] /\ c \in Kept
  BY DEF Fenced, Kept
<1>2. /\ DOMAIN command = DOMAIN commands[c]
      /\ command.scope = commands[c].scope
      /\ command.status = commands[c].status
  BY <1>1
<1>3. commands' = [commands EXCEPT ![c] = command]
  BY DEF Appended
<1> HIDE DEF command
<1>4. /\ commands'[c] = command /\ DOMAIN commands' = Commands
      /\ \A d \in Commands \ {c} : commands'[d] = commands[d] /\ calls'[d] = calls[d]
  BY <1>3 DEF Fenced
<1>5. Kept' \subseteq Kept
  BY <1>1, <1>4 DEF Kept, Retained
<1>6. ASSUME NEW d \in Kept'
      PROVE  /\ {"scope", "status"} \subseteq DOMAIN commands'[d]
             /\ commands'[d].scope = commands[d].scope
  <2>1. CASE d = c
    BY <1>1, <1>2, <1>4, <2>1
  <2>2. CASE d # c
    <3>1. d \in Kept /\ d \in Commands
      BY <1>5, <1>6 DEF Kept, Retained
    <3>2. commands'[d] = commands[d]
      BY <1>4, <2>2, <3>1
    <3> QED BY <3>1, <3>2 DEF Fenced
  <2> QED BY <2>1, <2>2
<1>7. \A d \in Commands : calls'[d] # None =>
          initialized' /\ commands'[d].status = "admitted"
  BY <1>2, <1>4 DEF Fenced
<1> QED BY <1>4, <1>5, <1>6, <1>7 DEF KeepsScopes, Fenced

\* settle: the new status of a command whose call ends.
LEMMA SettleKeepsScopes ==
    ASSUME Fenced, NEW c \in Commands, settle(c)
    PROVE  KeepsScopes
<1> DEFINE command == [commands[c] EXCEPT !.status = calls[c]]
<1>1. {"scope", "status"} \subseteq DOMAIN commands[c] /\ c \in Kept
  BY NoneIsNoValue DEF Fenced, Kept, settle
<1>2. DOMAIN command = DOMAIN commands[c] /\ command.scope = commands[c].scope
  BY <1>1
<1>3. /\ commands' = [commands EXCEPT ![c] = command]
      /\ calls' = [calls EXCEPT ![c] = None]
      /\ initialized' = initialized
  BY DEF settle
<1> HIDE DEF command
<1>4. /\ commands'[c] = command /\ DOMAIN commands' = Commands
      /\ calls'[c] = None /\ DOMAIN calls' = Commands
      /\ \A d \in Commands \ {c} : commands'[d] = commands[d] /\ calls'[d] = calls[d]
  BY <1>3 DEF Fenced
<1>5. Kept' \subseteq Kept
  BY <1>1, <1>4 DEF Kept, Retained
<1>6. ASSUME NEW d \in Kept'
      PROVE  /\ {"scope", "status"} \subseteq DOMAIN commands'[d]
             /\ commands'[d].scope = commands[d].scope
  <2>1. CASE d = c
    BY <1>1, <1>2, <1>4, <2>1
  <2>2. CASE d # c
    <3>1. d \in Kept /\ d \in Commands
      BY <1>5, <1>6 DEF Kept, Retained
    <3>2. commands'[d] = commands[d]
      BY <1>4, <2>2, <3>1
    <3> QED BY <3>1, <3>2 DEF Fenced
  <2> QED BY <2>1, <2>2
<1>7. \A d \in Commands : calls'[d] # None =>
          initialized' /\ commands'[d].status = "admitted"
  BY <1>3, <1>4 DEF Fenced
<1> QED BY <1>4, <1>5, <1>6, <1>7 DEF KeepsScopes

\* prepareOutgoing, acknowledgeOutgoing: ciphertext for a batch, and pruning.
LEMMA PrepareKeepsScopes ==
    ASSUME Fenced, NEW batch \in SUBSET Retained, prepareOutgoing(batch)
    PROVE  KeepsScopes
<1>1. /\ commands' = [c \in Commands |-> IF c \in batch THEN Encrypted(c, batch)
                                         ELSE commands[c]]
      /\ UNCHANGED <<initialized, calls>>
  BY DEF prepareOutgoing
<1>2. \A c \in batch :
          /\ c \in Retained /\ c \in Commands
          /\ {"scope", "status"} \subseteq DOMAIN Encrypted(c, batch)
          /\ Encrypted(c, batch).scope = commands[c].scope
          /\ Encrypted(c, batch).status = commands[c].status
  BY EncryptedKeepsScope DEF Fenced, Kept, Retained
<1> QED BY <1>1, <1>2 DEF KeepsScopes, Kept, Retained, Fenced

LEMMA AcknowledgeKeepsScopes ==
    ASSUME Fenced, NEW n, acknowledgeOutgoing(n)
    PROVE  KeepsScopes
<1>1. /\ commands' = [c \in Commands |-> IF Prunable(c, n) THEN None ELSE commands[c]]
      /\ UNCHANGED <<initialized, calls>>
  BY DEF acknowledgeOutgoing
<1>2. \A c \in Commands : calls[c] # None => ~Prunable(c, n)
  BY DEF Fenced, Prunable
<1> QED BY <1>1, <1>2 DEF KeepsScopes, Kept, Retained, Fenced

\* handle: the new command has the scope of the fence and the highest number.
LEMMA AdmissionKeepsTheFence ==
    ASSUME Fenced, NEW c \in Commands, NEW scope \in Scopes, handle(c, scope)
    PROVE  Fenced'
<1> DEFINE command == [scope |-> scope, status |-> "admitted", events |-> <<>>,
                       outgoing |-> <<>>]
<1>1. /\ scope = controllerScope
      /\ c = highestReceived + 1 /\ highestReceived' = c
      /\ commands' = [commands EXCEPT ![c] = command]
      /\ calls' = [calls EXCEPT ![c] = "running"]
      /\ initialized /\ UNCHANGED <<controllerScope, initialized>>
  BY DEF handle, Admits, InScope, NewAdmission
<1>2. /\ {"scope", "status"} \subseteq DOMAIN command
      /\ command.scope = scope /\ command.status = "admitted"
  OBVIOUS
<1> HIDE DEF command
<1>3. /\ commands'[c] = command /\ calls'[c] = "running"
      /\ DOMAIN commands' = Commands /\ DOMAIN calls' = Commands
      /\ \A d \in Commands \ {c} : commands'[d] = commands[d] /\ calls'[d] = calls[d]
  BY <1>1 DEF Fenced
<1>4. /\ scope # None
      /\ scope.leaseGeneration \in Nat
      /\ \A s \in Scopes : s.leaseGeneration \in Nat
  BY NoneIsNoValue, GenerationsAreNumbers
<1>5. \A d \in Kept : d \in Commands /\ d < c
  BY <1>1 DEF Fenced, Kept, Retained, Commands
<1>6. \A d \in Kept' : d = c \/ (d \in Kept /\ d # c /\ commands'[d] = commands[d])
  BY <1>3 DEF Kept, Retained
<1>7. highestReceived' \in Nat /\ \A d \in Kept' : d <= highestReceived'
  BY <1>1, <1>6 DEF Fenced, Kept, Retained, Commands
<1>8. \A d \in Kept' :
          /\ {"scope", "status"} \subseteq DOMAIN commands'[d]
          /\ commands'[d].scope \in Scopes
          /\ controllerScope' # None
          /\ commands'[d].scope.leaseGeneration <= controllerScope'.leaseGeneration
          /\ commands'[d].scope.leaseGeneration = controllerScope'.leaseGeneration
                => commands'[d].scope.client = controllerScope'.client
  BY <1>1, <1>2, <1>3, <1>4, <1>6 DEF Fenced
<1>9. \A d \in Commands : calls'[d] # None =>
          initialized' /\ commands'[d].status = "admitted"
  BY <1>1, <1>2, <1>3 DEF Fenced
<1>10. ASSUME NEW d \in Kept', NEW e \in Kept', d < e
       PROVE  /\ commands'[d].scope.leaseGeneration <= commands'[e].scope.leaseGeneration
              /\ commands'[d].scope.leaseGeneration = commands'[e].scope.leaseGeneration
                    => commands'[d].scope.client = commands'[e].scope.client
  <2>1. CASE e = c
    BY <1>1, <1>2, <1>3, <1>8, <2>1
  <2>2. CASE e # c
    <3>1. e \in Kept /\ commands'[e] = commands[e]
      BY <1>6, <2>2
    <3>2. d # c
      BY <1>1, <1>5, <1>10, <3>1 DEF Fenced, Kept, Retained, Commands
    <3>3. d \in Kept /\ commands'[d] = commands[d]
      BY <1>6, <3>2
    <3> QED BY <1>10, <3>1, <3>3 DEF Fenced
  <2> QED BY <2>1, <2>2
<1>11. controllerScope' \in Scopes \cup {None}
  BY <1>1 DEF Fenced
<1> QED BY <1>3, <1>7, <1>8, <1>9, <1>10, <1>11 DEF Fenced

\* adoptControllerScope: what is in the ledger is of no newer generation.
LEMMA AdoptionKeepsTheFence ==
    ASSUME Fenced, NEW scope \in Scopes, adoptControllerScope(scope)
    PROVE  Fenced'
<1>1. /\ validateControllerScope(scope)
      /\ controllerScope' = scope
      /\ UNCHANGED <<commands, highestReceived, initialized, calls>>
  BY DEF adoptControllerScope, transport
<1>2. Kept' = Kept
  BY <1>1 DEF Kept, Retained
<1>3. scope # None /\ \A s \in Scopes : s.leaseGeneration \in Nat
  BY NoneIsNoValue, GenerationsAreNumbers
<1>4. ASSUME NEW c \in Kept
      PROVE  /\ commands[c].scope.leaseGeneration <= scope.leaseGeneration
             /\ commands[c].scope.leaseGeneration = scope.leaseGeneration
                   => commands[c].scope.client = scope.client
  BY <1>1, <1>3, <1>4 DEF Fenced, validateControllerScope
<1> QED BY <1>1, <1>2, <1>3, <1>4 DEF Fenced

LEMMA StepKeepsTheFence ==
    ASSUME Fenced, [Next]_vars
    PROVE  Fenced'
<1>1. CASE \E scope \in Scopes : adoptControllerScope(scope)
  BY <1>1, AdoptionKeepsTheFence
<1>2. CASE \E c \in Commands, scope \in Scopes : handle(c, scope)
  BY <1>2, AdmissionKeepsTheFence
<1>3. CASE initialize
  BY <1>3, InitializeKeepsScopes, KeepingScopesKeepsTheFence DEF initialize, transport
<1>4. CASE crash
  <2>1. KeepsScopes /\ UNCHANGED <<highestReceived, controllerScope>>
    BY <1>4 DEF crash, ledger, transport, KeepsScopes, Kept, Retained, Fenced
  <2> QED BY <2>1, KeepingScopesKeepsTheFence
<1>5. CASE \E c \in Commands : emit(c)
  <2>1. PICK c \in Commands : emit(c)
    BY <1>5
  <2>2. /\ calls[c] # None /\ commands' = Appended(c, "event")
        /\ initialized' = initialized /\ UNCHANGED <<highestReceived, controllerScope>>
        /\ DOMAIN calls' = Commands /\ \A d \in Commands \ {c} : calls'[d] = calls[d]
    BY <2>1, NoneIsNoValue DEF emit, transport, Fenced
  <2> QED BY <2>2, AppendKeepsScopes, KeepingScopesKeepsTheFence
<1>6. CASE \E c \in Commands, status \in Settled : appendTerminal(c, status)
  <2>1. PICK c \in Commands, status \in Settled : appendTerminal(c, status)
    BY <1>6
  <2>2. /\ calls[c] # None /\ commands' = Appended(c, status)
        /\ initialized' = initialized /\ UNCHANGED <<highestReceived, controllerScope>>
        /\ DOMAIN calls' = Commands /\ \A d \in Commands \ {c} : calls'[d] = calls[d]
    BY <2>1, NoneIsNoValue DEF appendTerminal, transport, Fenced
  <2> QED BY <2>2, AppendKeepsScopes, KeepingScopesKeepsTheFence
<1>7. CASE \E c \in Commands : settle(c)
  BY <1>7, SettleKeepsScopes, KeepingScopesKeepsTheFence DEF settle, transport
<1>8. CASE \E batch \in SUBSET Retained : prepareOutgoing(batch)
  BY <1>8, PrepareKeepsScopes, KeepingScopesKeepsTheFence DEF prepareOutgoing
<1>9. CASE \E n \in 1..MaxOutgoing : acknowledgeOutgoing(n)
  BY <1>9, AcknowledgeKeepsScopes, KeepingScopesKeepsTheFence DEF acknowledgeOutgoing
<1>10. CASE UNCHANGED vars
  <2>1. KeepsScopes /\ UNCHANGED <<highestReceived, controllerScope>>
    BY <1>10 DEF vars, ledger, transport, KeepsScopes, Kept, Retained, Fenced
  <2> QED BY <2>1, KeepingScopesKeepsTheFence
<1>11. \A c \in Retained : {c} \in SUBSET Retained
  OBVIOUS
<1> QED BY <1>1, <1>2, <1>3, <1>4, <1>5, <1>6, <1>7, <1>8, <1>9, <1>10, <1>11 DEF Next

\* The fence is durable: commands execute in the order of the controllers that sent
\* them and none under a scope newer than the one tunnels are opened under, over
\* restarts (adoptControllerScope, handle, validateControllerScope).
THEOREM ExecutesUnderTheFence == Spec => []ExecutionIsFenced
<1>1. Init => Fenced
  BY DEF Init, Fenced, Kept, Retained
<1>2. Fenced => ExecutionIsFenced
  BY DEF Fenced, Kept, ExecutionIsFenced
<1>3. Fenced /\ [Next]_vars => Fenced'
  BY StepKeepsTheFence
<1> QED BY <1>1, <1>2, <1>3, PTL DEF Spec

-----------------------------------------------------------------------------
(* The acknowledgement of commands.                                        *)

\* A sequence, of whatever: the numbers of the ciphertexts are sums.
IsSequence(s) == \E S : s \in Seq(S)

\* The inductive strengthening of AcknowledgedWhenAnswered, beside Fenced: the
\* acknowledgement follows what was received, and no command behind it is running.
Acknowledged ==
    /\ acknowledgedDesktop \in 0..MaxCommands
    /\ acknowledgedDesktop <= highestReceived
    /\ \A c \in Kept :
          /\ {"events", "outgoing"} \subseteq DOMAIN commands[c]
          /\ commands[c].events \in Seq(EventKind)
          /\ IsSequence(commands[c].outgoing)
          /\ c <= acknowledgedDesktop =>
                commands[c].status # "admitted" /\ commands[c].outgoing # <<>>

LEMMA AcknowledgedImplies == Fenced /\ Acknowledged => AcknowledgedWhenAnswered
<1> SUFFICES ASSUME Fenced, Acknowledged, NEW c \in Commands, c <= acknowledgedDesktop
             PROVE  /\ c <= highestReceived
                    /\ commands[c] # None => Answered(commands[c])
                    /\ calls[c] = None
  BY DEF AcknowledgedWhenAnswered
<1>1. c <= highestReceived
  BY DEF Acknowledged, Fenced, Commands
<1>2. commands[c] # None => Answered(commands[c])
  BY DEF Acknowledged, Kept, Retained, Answered
<1>3. calls[c] = None
  BY DEF Acknowledged, Fenced, Kept
<1> QED BY <1>1, <1>2, <1>3

\* Appending keeps a sequence a sequence, and a sequence that is not empty so.
LEMMA ExtendedSequence ==
    ASSUME NEW s, IsSequence(s), NEW n \in Nat, NEW t, t = [i \in 1..n |-> t[i]]
    PROVE  /\ IsSequence(s \o t)
           /\ s # <<>> => s \o t # <<>>
<1>1. PICK S : s \in Seq(S)
  BY DEF IsSequence
<1> DEFINE T == S \cup {t[i] : i \in 1..n}
<1>2. t \in Seq(T)
  <2>1. \A i \in 1..n : t[i] \in T
    OBVIOUS
  <2> HIDE DEF T
  <2>2. [i \in 1..n |-> t[i]] \in Seq(T)
    BY <2>1, IsASeq
  <2> QED BY <2>2
<1>3. s \in Seq(T)
  <2>1. Len(s) \in Nat /\ s \in [1..Len(s) -> S]
    BY <1>1, LenProperties
  <2>2. s = [i \in 1..Len(s) |-> s[i]] /\ \A i \in 1..Len(s) : s[i] \in T
    BY <2>1
  <2> HIDE DEF T
  <2>3. [i \in 1..Len(s) |-> s[i]] \in Seq(T)
    BY <2>1, <2>2, IsASeq
  <2> QED BY <2>2, <2>3
<1> HIDE DEF T
<1>4. s \o t \in Seq(T) /\ (s \o t = <<>> => s = <<>>)
  BY <1>2, <1>3, ConcatProperties, ConcatEqualIffEmpty
<1> QED BY <1>4 DEF IsSequence

LEMMA EncryptedKeepsAnswer ==
    ASSUME NEW c, NEW batch, {"events", "outgoing", "scope", "status"} \subseteq DOMAIN commands[c],
           commands[c].events \in Seq(EventKind), IsSequence(commands[c].outgoing)
    PROVE  /\ {"events", "outgoing"} \subseteq DOMAIN Encrypted(c, batch)
           /\ Encrypted(c, batch).events \in Seq(EventKind)
           /\ IsSequence(Encrypted(c, batch).outgoing)
           /\ commands[c].outgoing # <<>> => Encrypted(c, batch).outgoing # <<>>
<1> DEFINE command == commands[c]
           added == [i \in 1..Len(command.events) |->
                        [sequence |-> EventNumber(c, i, batch),
                         kind |-> command.events[i]]]
           outgoing == command.outgoing \o added
<1>1. Encrypted(c, batch) = [command EXCEPT !.events = <<>>, !.outgoing = outgoing]
  BY DEF Encrypted
<1>2. IsSequence(outgoing) /\ (command.outgoing # <<>> => outgoing # <<>>)
  <2>1. Len(command.events) \in Nat /\ IsSequence(command.outgoing)
    BY LenProperties
  <2>2. added = [i \in 1..Len(command.events) |-> added[i]]
    OBVIOUS
  <2> HIDE DEF added, command
  <2> QED BY <2>1, <2>2, ExtendedSequence
<1>3. {"events", "outgoing"} \subseteq DOMAIN command
  OBVIOUS
<1> HIDE DEF command, outgoing
<1>4. /\ DOMAIN Encrypted(c, batch) = DOMAIN command
      /\ Encrypted(c, batch).events = <<>>
      /\ Encrypted(c, batch).outgoing = outgoing
  BY <1>1, <1>3
<1>5. <<>> \in Seq(EventKind)
  BY EmptySeq
<1> QED BY <1>2, <1>3, <1>4, <1>5 DEF command

\* A step that acknowledges nothing, whatever it appends, settles or prunes.
KeepsAnswers ==
    /\ acknowledgedDesktop' = acknowledgedDesktop
    /\ highestReceived' = highestReceived
    /\ \A c \in Kept' :
          /\ c \in Kept
          /\ {"events", "outgoing"} \subseteq DOMAIN commands'[c]
          /\ commands'[c].events \in Seq(EventKind)
          /\ commands'[c].outgoing = commands[c].outgoing
          /\ commands'[c].status \in {commands[c].status} \cup Settled

LEMMA KeepingAnswers ==
    ASSUME Acknowledged, KeepsAnswers
    PROVE  Acknowledged'
BY DEF Acknowledged, KeepsAnswers, Settled

LEMMA InitializeKeepsAnswers ==
    ASSUME Fenced, Acknowledged, initialize
    PROVE  KeepsAnswers
<1>1. /\ commands' = [c \in Commands |-> Restarted(commands[c])]
      /\ UNCHANGED <<calls, acknowledgedDesktop, highestReceived>>
  BY DEF initialize, transport
<1>2. ASSUME NEW c \in Kept
      PROVE  /\ {"events", "outgoing"} \subseteq DOMAIN Restarted(commands[c])
             /\ Restarted(commands[c]).events \in Seq(EventKind)
             /\ Restarted(commands[c]).outgoing = commands[c].outgoing
             /\ Restarted(commands[c]).status \in {commands[c].status} \cup Settled
  <2> DEFINE command == commands[c]
             events == Append(command.events, "failed")
  <2>1. {"events", "outgoing", "status"} \subseteq DOMAIN command
        /\ command.events \in Seq(EventKind)
    BY DEF Acknowledged, Fenced
  <2>2. events \in Seq(EventKind)
    BY <2>1, AppendProperties DEF EventKind, Settled
  <2>3. \/ Restarted(command) = command
        \/ Restarted(command) = [command EXCEPT !.status = "failed", !.events = events]
    BY Zenon DEF Restarted
  <2> HIDE DEF command, events
  <2>4. /\ {"events", "outgoing"} \subseteq DOMAIN Restarted(command)
        /\ Restarted(command).events \in Seq(EventKind)
        /\ Restarted(command).outgoing = command.outgoing
        /\ Restarted(command).status \in {command.status} \cup Settled
    BY <2>1, <2>2, <2>3 DEF Settled
  <2> QED BY <2>4 DEF command
<1>3. Kept' \subseteq Kept /\ Kept \subseteq Commands
  BY InitializeKeepsScopes DEF KeepsScopes, Kept, Retained
<1> QED BY <1>1, <1>2, <1>3 DEF KeepsAnswers

LEMMA AppendKeepsAnswers ==
    ASSUME Fenced, Acknowledged, KeepsScopes, NEW c \in Commands, NEW kind \in EventKind,
           calls[c] # None, commands' = Appended(c, kind),
           UNCHANGED <<acknowledgedDesktop, highestReceived>>
    PROVE  KeepsAnswers
<1> DEFINE events == Append(commands[c].events, kind)
           command == [commands[c] EXCEPT !.events = events]
<1>1. /\ c \in Kept /\ {"events", "outgoing", "status"} \subseteq DOMAIN commands[c]
      /\ commands[c].events \in Seq(EventKind)
  BY DEF Acknowledged, Fenced, Kept
<1>2. events \in Seq(EventKind)
  BY <1>1, AppendProperties
<1>3. commands' = [commands EXCEPT ![c] = command]
  BY DEF Appended
<1> HIDE DEF events
<1>4. /\ DOMAIN command = DOMAIN commands[c] /\ command.events = events
      /\ command.outgoing = commands[c].outgoing /\ command.status = commands[c].status
  BY <1>1
<1> HIDE DEF command
<1>5. /\ commands'[c] = command
      /\ \A d \in Kept \ {c} : commands'[d] = commands[d]
  BY <1>3 DEF Fenced, Kept, Retained
<1> QED BY <1>1, <1>2, <1>4, <1>5 DEF KeepsAnswers, KeepsScopes, Acknowledged

LEMMA SettleKeepsAnswers ==
    ASSUME Fenced, Acknowledged, NEW c \in Commands, settle(c)
    PROVE  KeepsAnswers
<1> DEFINE command == [commands[c] EXCEPT !.status = calls[c]]
<1>1. /\ c \in Kept /\ {"events", "outgoing", "status"} \subseteq DOMAIN commands[c]
      /\ calls[c] \in Settled
  BY NoneIsNoValue DEF Acknowledged, Fenced, Kept, settle
<1>2. /\ DOMAIN command = DOMAIN commands[c] /\ command.events = commands[c].events
      /\ command.outgoing = commands[c].outgoing /\ command.status \in Settled
  BY <1>1
<1>3. /\ commands' = [commands EXCEPT ![c] = command]
      /\ UNCHANGED <<acknowledgedDesktop, highestReceived>>
  BY DEF settle, transport
<1> HIDE DEF command
<1>4. /\ commands'[c] = command
      /\ \A d \in Kept \ {c} : commands'[d] = commands[d]
  BY <1>3 DEF Fenced, Kept, Retained
<1> QED BY <1>1, <1>2, <1>3, <1>4, SettleKeepsScopes DEF KeepsAnswers, KeepsScopes, Acknowledged

LEMMA PruneKeepsAnswers ==
    ASSUME Fenced, Acknowledged, NEW n, acknowledgeOutgoing(n)
    PROVE  KeepsAnswers
<1>1. /\ commands' = [c \in Commands |-> IF Prunable(c, n) THEN None ELSE commands[c]]
      /\ UNCHANGED <<calls, acknowledgedDesktop, highestReceived>>
  BY DEF acknowledgeOutgoing
<1>2. \A c \in Commands : calls[c] # None => ~Prunable(c, n)
  BY DEF Fenced, Prunable
<1>3. \A c \in Kept' : c \in Kept /\ commands'[c] = commands[c]
  BY <1>1, <1>2 DEF Kept, Retained
<1> QED BY <1>1, <1>3 DEF KeepsAnswers, Acknowledged

\* The next acknowledgement exists: the least number that is the last or whose successor
\* is not answered.
LEMMA AdvanceStopsInTime ==
    ASSUME acknowledgedDesktop \in 0..MaxCommands, NEW table
    PROVE  /\ AdvanceIncomingAcknowledgement(table) \in acknowledgedDesktop..MaxCommands
           /\ \A c \in (acknowledgedDesktop + 1)..AdvanceIncomingAcknowledgement(table) :
                 Answered(table[c])
<1> DEFINE candidates == {n \in acknowledgedDesktop..MaxCommands :
                             n < MaxCommands => ~Answered(table[n + 1])}
           Stops(n) == /\ \A c \in (acknowledgedDesktop + 1)..n : Answered(table[c])
                       /\ n < MaxCommands => ~Answered(table[n + 1])
<1>1. candidates \in SUBSET Nat /\ MaxCommands \in candidates
  BY BoundsAreNumbers
<1>2. PICK n \in candidates : \A m \in candidates : n <= m
  BY <1>1, LeastNatural
<1>3. \A c \in (acknowledgedDesktop + 1)..n : Answered(table[c])
  <2> SUFFICES ASSUME NEW c \in (acknowledgedDesktop + 1)..n, ~Answered(table[c])
               PROVE  FALSE
    OBVIOUS
  <2>1. c - 1 \in acknowledgedDesktop..MaxCommands /\ (c - 1) + 1 = c /\ ~(n <= c - 1)
    BY <1>1, <1>2, BoundsAreNumbers
  <2>2. c - 1 \in candidates
    BY <2>1
  <2> QED BY <1>2, <2>1, <2>2
<1>4. \E m \in acknowledgedDesktop..MaxCommands : Stops(m)
  BY <1>2, <1>3
<1>5. AdvanceIncomingAcknowledgement(table) =
          CHOOSE m \in acknowledgedDesktop..MaxCommands : Stops(m)
  BY DEF AdvanceIncomingAcknowledgement
<1> HIDE DEF Stops
<1>6. /\ AdvanceIncomingAcknowledgement(table) \in acknowledgedDesktop..MaxCommands
      /\ Stops(AdvanceIncomingAcknowledgement(table))
  BY <1>4, <1>5
<1> QED BY <1>6 DEF Stops

\* Ciphertext answers the commands that the acknowledgement moves over.
LEMMA PreparationAnswers ==
    ASSUME Fenced, Acknowledged, NEW batch \in SUBSET Retained, prepareOutgoing(batch)
    PROVE  Acknowledged'
<1> DEFINE prepared == [c \in Commands |-> IF c \in batch THEN Encrypted(c, batch)
                                           ELSE commands[c]]
<1>1. /\ commands' = prepared
      /\ acknowledgedDesktop' = AdvanceIncomingAcknowledgement(prepared)
      /\ UNCHANGED <<calls, highestReceived>>
  BY DEF prepareOutgoing
<1>2. /\ acknowledgedDesktop' \in acknowledgedDesktop..MaxCommands
      /\ \A c \in (acknowledgedDesktop + 1)..acknowledgedDesktop' : Answered(commands'[c])
  <2>1. acknowledgedDesktop \in 0..MaxCommands
    BY DEF Acknowledged
  <2> HIDE DEF prepared
  <2> QED BY <1>1, <2>1, AdvanceStopsInTime
<1>3. acknowledgedDesktop' \in 0..MaxCommands
  BY <1>2, BoundsAreNumbers DEF Acknowledged
<1>4. ASSUME NEW c \in Kept
      PROVE  /\ {"events", "outgoing"} \subseteq DOMAIN commands'[c]
             /\ commands'[c].events \in Seq(EventKind)
             /\ IsSequence(commands'[c].outgoing)
             /\ commands[c].outgoing # <<>> => commands'[c].outgoing # <<>>
             /\ commands'[c].status = commands[c].status
  <2>1. /\ {"events", "outgoing", "scope", "status"} \subseteq DOMAIN commands[c]
        /\ commands[c].events \in Seq(EventKind) /\ IsSequence(commands[c].outgoing)
    BY DEF Acknowledged, Fenced
  <2>2. c \in Commands
    BY DEF Kept, Retained
  <2>3. CASE c \in batch
    BY <1>1, <2>1, <2>2, <2>3, EncryptedKeepsAnswer, EncryptedKeepsScope
  <2>4. CASE c \notin batch
    BY <1>1, <2>1, <2>2, <2>4
  <2> QED BY <2>3, <2>4
<1>5. Kept' \subseteq Kept /\ Kept \subseteq Commands
  BY PrepareKeepsScopes DEF KeepsScopes, Kept, Retained
<1>6. \A c \in (acknowledgedDesktop + 1)..acknowledgedDesktop' : c \in Kept
  <2>1. \A c \in Commands : commands'[c] # None => c \in Retained
    BY <1>1 DEF Retained
  <2> QED BY <1>2, <2>1, BoundsAreNumbers DEF Answered, Commands, Kept, Acknowledged
<1>7. acknowledgedDesktop' <= highestReceived'
  <2>1. CASE acknowledgedDesktop' = acknowledgedDesktop
    BY <1>1, <2>1 DEF Acknowledged
  <2>2. CASE acknowledgedDesktop' # acknowledgedDesktop
    <3>1. acknowledgedDesktop' \in (acknowledgedDesktop + 1)..acknowledgedDesktop'
      BY <1>2, <2>2, BoundsAreNumbers DEF Acknowledged
    <3> QED BY <1>1, <1>6, <3>1 DEF Fenced
  <2> QED BY <2>1, <2>2
<1>8. ASSUME NEW c \in Kept', c <= acknowledgedDesktop'
      PROVE  commands'[c].status # "admitted" /\ commands'[c].outgoing # <<>>
  <2>1. c \in Kept /\ c \in Nat /\ 1 <= c
    BY <1>5 DEF Commands
  <2>2. CASE c <= acknowledgedDesktop
    BY <1>4, <2>1, <2>2 DEF Acknowledged
  <2>3. CASE ~(c <= acknowledgedDesktop)
    <3>1. c \in (acknowledgedDesktop + 1)..acknowledgedDesktop'
      BY <1>2, <1>3, <1>8, <2>1, <2>3, BoundsAreNumbers DEF Acknowledged
    <3> QED BY <1>2, <3>1 DEF Answered
  <2> QED BY <2>2, <2>3
<1> QED BY <1>3, <1>4, <1>5, <1>7, <1>8 DEF Acknowledged

\* A new command is ahead of the acknowledgement.
LEMMA AdmissionIsUnacknowledged ==
    ASSUME Fenced, Acknowledged, NEW c \in Commands, NEW scope \in Scopes, handle(c, scope)
    PROVE  Acknowledged'
<1> DEFINE command == [scope |-> scope, status |-> "admitted", events |-> <<>>,
                       outgoing |-> <<>>]
<1>1. /\ c = highestReceived + 1 /\ highestReceived' = c
      /\ commands' = [commands EXCEPT ![c] = command]
      /\ calls' = [calls EXCEPT ![c] = "running"]
      /\ acknowledgedDesktop' = acknowledgedDesktop
  BY DEF handle, Admits, NewAdmission
<1>2. /\ {"events", "outgoing"} \subseteq DOMAIN command
      /\ command.events \in Seq(EventKind) /\ IsSequence(command.outgoing)
  BY EmptySeq DEF IsSequence
<1> HIDE DEF command
<1>3. /\ commands'[c] = command
      /\ \A d \in Commands \ {c} : commands'[d] = commands[d] /\ calls'[d] = calls[d]
  BY <1>1 DEF Fenced
<1>4. /\ \A d \in Kept' : d = c \/ (d \in Kept /\ commands'[d] = commands[d])
      /\ highestReceived \in Nat
  BY <1>3 DEF Kept, Retained, Fenced
<1>5. acknowledgedDesktop' <= highestReceived' /\ ~(c <= acknowledgedDesktop)
  BY <1>1, <1>4, BoundsAreNumbers DEF Acknowledged
<1>6. ASSUME NEW d \in Kept'
      PROVE  /\ {"events", "outgoing"} \subseteq DOMAIN commands'[d]
             /\ commands'[d].events \in Seq(EventKind)
             /\ IsSequence(commands'[d].outgoing)
             /\ d <= acknowledgedDesktop' =>
                   commands'[d].status # "admitted" /\ commands'[d].outgoing # <<>>
  <2>1. CASE d = c
    BY <1>1, <1>2, <1>3, <1>5, <2>1
  <2>2. CASE d # c
    BY <1>1, <1>4, <2>2 DEF Acknowledged
  <2> QED BY <2>1, <2>2
<1> QED BY <1>1, <1>5, <1>6 DEF Acknowledged

LEMMA StepKeepsAcknowledged ==
    ASSUME Fenced, Acknowledged, [Next]_vars
    PROVE  Acknowledged'
<1>1. CASE \E c \in Commands, scope \in Scopes : handle(c, scope)
  BY <1>1, AdmissionIsUnacknowledged
<1>2. CASE \E batch \in SUBSET Retained : prepareOutgoing(batch)
  BY <1>2, PreparationAnswers
<1>3. CASE initialize
  BY <1>3, InitializeKeepsAnswers, KeepingAnswers
<1>4. ASSUME NEW c \in Commands, NEW kind \in EventKind, calls[c] # None,
             commands' = Appended(c, kind), initialized' = initialized,
             UNCHANGED <<acknowledgedDesktop, highestReceived>>,
             DOMAIN calls' = Commands, \A d \in Commands \ {c} : calls'[d] = calls[d]
      PROVE  Acknowledged'
  BY <1>4, AppendKeepsScopes, AppendKeepsAnswers, KeepingAnswers
<1>5. CASE \E c \in Commands : emit(c)
  <2>1. PICK c \in Commands : emit(c)
    BY <1>5
  <2>2. /\ calls[c] # None /\ commands' = Appended(c, "event") /\ "event" \in EventKind
        /\ UNCHANGED <<initialized, acknowledgedDesktop, highestReceived>>
        /\ DOMAIN calls' = Commands /\ \A d \in Commands \ {c} : calls'[d] = calls[d]
    BY <2>1, NoneIsNoValue DEF emit, transport, Fenced, EventKind
  <2> QED BY <1>4, <2>2
<1>6. CASE \E c \in Commands, status \in Settled : appendTerminal(c, status)
  <2>1. PICK c \in Commands, status \in Settled : appendTerminal(c, status)
    BY <1>6
  <2>2. /\ calls[c] # None /\ commands' = Appended(c, status) /\ status \in EventKind
        /\ UNCHANGED <<initialized, acknowledgedDesktop, highestReceived>>
        /\ DOMAIN calls' = Commands /\ \A d \in Commands \ {c} : calls'[d] = calls[d]
    BY <2>1, NoneIsNoValue DEF appendTerminal, transport, Fenced, EventKind
  <2> QED BY <1>4, <2>2
<1>7. CASE \E c \in Commands : settle(c)
  BY <1>7, SettleKeepsAnswers, KeepingAnswers
<1>8. CASE \E n \in 1..MaxOutgoing : acknowledgeOutgoing(n)
  BY <1>8, PruneKeepsAnswers, KeepingAnswers
<1>9. CASE crash \/ (\E scope \in Scopes : adoptControllerScope(scope)) \/ UNCHANGED vars
  <2>1. /\ UNCHANGED <<commands, acknowledgedDesktop, highestReceived>>
        /\ calls' = calls \/ calls' = [c \in Commands |-> None]
    BY <1>9 DEF crash, adoptControllerScope, vars, ledger, transport
  <2>2. Kept' \subseteq Kept
    BY <2>1 DEF Kept, Retained
  <2> QED BY <2>1, <2>2 DEF Acknowledged
<1>10. \A c \in Retained : {c} \in SUBSET Retained
  OBVIOUS
<1> QED BY <1>1, <1>2, <1>3, <1>5, <1>6, <1>7, <1>8, <1>9, <1>10 DEF Next

\* The relay is told that a command is done with, and deletes it, only when the command
\* has settled and a response of it is kept or was consumed, over restarts, retries and
\* prunings (#advanceIncomingAcknowledgement).
THEOREM AcknowledgesWhatIsAnswered == Spec => []AcknowledgedWhenAnswered
<1>1. Init => Fenced /\ Acknowledged
  BY BoundsAreNumbers DEF Init, Fenced, Acknowledged, Kept, Retained
<1>2. Fenced /\ Acknowledged /\ [Next]_vars => Fenced' /\ Acknowledged'
  BY StepKeepsTheFence, StepKeepsAcknowledged
<1> QED BY <1>1, <1>2, AcknowledgedImplies, PTL DEF Spec

-----------------------------------------------------------------------------
(* Types.                                                                  *)

\* The type of what is persisted, also of a command that is running.
Typed ==
    /\ LedgerTypeOK
    /\ \A c \in Kept : commands[c] \in PersistedCommand

\* What the operations on one command do to it.
LEMMA AppendedIsPersisted ==
    ASSUME NEW command \in PersistedCommand, NEW kind \in EventKind
    PROVE  /\ [command EXCEPT !.events = Append(@, kind)] \in PersistedCommand
           /\ [command EXCEPT !.events = Append(@, kind)].outgoing = command.outgoing
<1>1. Append(command.events, kind) \in Seq(EventKind)
  BY AppendProperties DEF PersistedCommand
<1> QED BY <1>1 DEF PersistedCommand

LEMMA RestartedIsPersisted ==
    ASSUME NEW command \in PersistedCommand
    PROVE  /\ Restarted(command) \in PersistedCommand
           /\ Restarted(command).outgoing = command.outgoing
<1>1. CASE command # None /\ command.status = "admitted"
  <2>1. Append(command.events, "failed") \in Seq(EventKind)
    BY AppendProperties DEF PersistedCommand, EventKind, Settled
  <2> QED BY <1>1, <2>1 DEF Restarted, PersistedCommand, Settled
<1>2. CASE ~(command # None /\ command.status = "admitted")
  BY <1>2 DEF Restarted
<1> QED BY <1>1, <1>2

LEMMA SettledIsPersisted ==
    ASSUME NEW command \in PersistedCommand, NEW status \in Settled
    PROVE  /\ [command EXCEPT !.status = status] \in PersistedCommand
           /\ [command EXCEPT !.status = status].outgoing = command.outgoing
BY DEF PersistedCommand

LEMMA NewIsPersisted ==
    ASSUME NEW scope \in Scopes
    PROVE  [scope |-> scope, status |-> "admitted", events |-> <<>>, outgoing |-> <<>>]
              \in PersistedCommand
BY EmptySeq DEF PersistedCommand, Settled

\* The plain events of a batch are finitely many.
LEMMA PlainIsFinite ==
    ASSUME Typed, NEW batch \in SUBSET Retained
    PROVE  IsFiniteSet(Plain(batch))
<1> DEFINE PlainOf(c) == {<<c, i>> : i \in DOMAIN commands[c].events}
           plain == [c \in batch |-> PlainOf(c)]
<1>1. IsFiniteSet(batch)
  <2>1. IsFiniteSet(Commands)
    BY BoundsAreNumbers, FS_Interval DEF Commands
  <2> QED BY <2>1, FS_Subset DEF Retained
<1>2. ASSUME NEW c \in batch
      PROVE  IsFiniteSet(PlainOf(c))
  <2>1. commands[c].events \in Seq(EventKind)
    BY DEF Typed, Kept, PersistedCommand
  <2>2. Len(commands[c].events) \in Nat /\ DOMAIN commands[c].events = 1..Len(commands[c].events)
    BY <2>1, LenProperties
  <2> DEFINE positions == 1..Len(commands[c].events)
  <2>3. PlainOf(c) \in SUBSET ({c} \X positions)
    BY <2>2
  <2>4. IsFiniteSet(positions)
    BY <2>2, FS_Interval
  <2> HIDE DEF positions, PlainOf
  <2>5. IsFiniteSet({c})
    BY FS_Singleton
  <2>6. IsFiniteSet({c} \X positions)
    BY <2>4, <2>5, FS_Product
  <2> QED BY <2>3, <2>6, FS_Subset
<1>3. plain \in Surjection(batch, {PlainOf(c) : c \in batch})
  BY DEF Surjection
<1>4. IsFiniteSet({PlainOf(c) : c \in batch})
  BY <1>1, <1>3, FS_Surjection
<1>5. IsFiniteSet(UNION {PlainOf(c) : c \in batch})
  BY <1>2, <1>4, FS_UNION
<1> QED BY <1>5 DEF Plain

\* Where the elements of two sequences are in their concatenation.
LEMMA ConcatenationParts ==
    ASSUME NEW S, NEW s \in Seq(S), NEW t \in Seq(S)
    PROVE  /\ s \o t \in Seq(S)
           /\ Len(s \o t) = Len(s) + Len(t)
           /\ \A i \in 1..Len(s) : (s \o t)[i] = s[i]
           /\ \A i \in 1..Len(t) : (s \o t)[Len(s) + i] = t[i]
<1>1. /\ s \o t \in Seq(S)
      /\ Len(s \o t) = Len(s) + Len(t)
      /\ \A i \in 1..(Len(s) + Len(t)) :
            (s \o t)[i] = IF i <= Len(s) THEN s[i] ELSE t[i - Len(s)]
  BY ConcatProperties
<1>2. Len(s) \in Nat /\ Len(t) \in Nat
  BY LenProperties
<1>3. \A i \in 1..Len(s) : (s \o t)[i] = s[i]
  BY <1>1, <1>2
<1>4. ASSUME NEW i \in 1..Len(t)
      PROVE  (s \o t)[Len(s) + i] = t[i]
  <2>1. /\ Len(s) + i \in 1..(Len(s) + Len(t))
        /\ ~(Len(s) + i <= Len(s)) /\ (Len(s) + i) - Len(s) = i
    BY <1>2
  <2> QED BY <1>1, <2>1
<1> QED BY <1>1, <1>3, <1>4

\* Ciphertext for a command: its numbers are appended, its events are gone.
LEMMA EncryptedOutgoing ==
    ASSUME Typed, NEW batch \in SUBSET Retained, NEW c \in batch
    PROVE  LET old == commands[c].outgoing
               events == commands[c].events
               new == Encrypted(c, batch).outgoing
           IN  /\ Encrypted(c, batch) \in PersistedCommand
               /\ Encrypted(c, batch).events = <<>>
               /\ Len(new) = Len(old) + Len(events)
               /\ \A i \in 1..Len(old) : new[i] = old[i]
               /\ \A i \in 1..Len(events) :
                     new[Len(old) + i] = [sequence |-> EventNumber(c, i, batch),
                                          kind |-> events[i]]
<1> DEFINE command == commands[c]
           Response == [sequence: Nat \ {0}, kind: EventKind]
           added == [i \in 1..Len(command.events) |->
                        [sequence |-> EventNumber(c, i, batch), kind |-> command.events[i]]]
<1>1. /\ command \in PersistedCommand
      /\ command.events \in Seq(EventKind) /\ command.outgoing \in Seq(Response)
  BY DEF Typed, Kept, PersistedCommand
<1>2. ASSUME NEW i
      PROVE  EventNumber(c, i, batch) \in Nat \ {0}
  <2> DEFINE before == {p \in Plain(batch) : EncryptedBefore(p, <<c, i>>)}
  <2>1. IsFiniteSet(before)
    BY PlainIsFinite, FS_Subset
  <2>2. Cardinality(before) \in Nat
    BY <2>1, FS_CardinalityType
  <2>3. nextOutgoing \in Nat \ {0}
    BY DEF Typed, LedgerTypeOK
  <2> HIDE DEF before
  <2> QED BY <2>2, <2>3 DEF EventNumber, before
<1>3. /\ Len(command.events) \in Nat /\ Len(command.outgoing) \in Nat
      /\ \A i \in 1..Len(command.events) : command.events[i] \in EventKind
  BY <1>1, LenProperties, ElementOfSeq
<1>4. added \in Seq(Response) /\ Len(added) = Len(command.events)
  <2>1. \A i \in 1..Len(command.events) :
            [sequence |-> EventNumber(c, i, batch), kind |-> command.events[i]] \in Response
    BY <1>2, <1>3
  <2>2. added \in Seq(Response)
    BY <1>3, <2>1, IsASeq
  <2>3. DOMAIN added = 1..Len(command.events)
    OBVIOUS
  <2> QED BY <1>3, <2>2, <2>3, LenProperties
<1>5. Encrypted(c, batch) = [command EXCEPT !.events = <<>>, !.outgoing = command.outgoing \o added]
  BY DEF Encrypted
<1>6. \A i \in 1..Len(command.events) :
          added[i] = [sequence |-> EventNumber(c, i, batch), kind |-> command.events[i]]
  OBVIOUS
<1> DEFINE old == command.outgoing
           outgoing == old \o added
<1>7. /\ outgoing \in Seq(Response) /\ Len(outgoing) = Len(old) + Len(added)
      /\ \A i \in 1..Len(old) : outgoing[i] = old[i]
      /\ \A i \in 1..Len(added) : outgoing[Len(old) + i] = added[i]
  <2> HIDE DEF command, added, Response, old
  <2>1. old \in Seq(Response) /\ added \in Seq(Response)
    BY <1>1, <1>4 DEF old
  <2> QED BY <2>1, ConcatenationParts
<1>8. /\ Encrypted(c, batch) \in PersistedCommand
      /\ Encrypted(c, batch).events = <<>>
      /\ Encrypted(c, batch).outgoing = outgoing
  <2>1. <<>> \in Seq(EventKind) /\ outgoing \in Seq(Response)
    BY <1>7, EmptySeq
  <2>2. Encrypted(c, batch) = [command EXCEPT !.events = <<>>, !.outgoing = outgoing]
    BY <1>5
  <2> HIDE DEF outgoing, command, added, old
  <2> QED BY <1>1, <2>1, <2>2 DEF PersistedCommand, Response
<1> HIDE DEF added, outgoing
<1> QED BY <1>4, <1>6, <1>7, <1>8

\* Every step keeps the types; `Fenced` says of a running command that it is kept.
LEMMA TypedImplies ==
    ASSUME Typed
    PROVE  /\ Kept \subseteq Commands /\ Retained \subseteq Kept
           /\ DOMAIN commands = Commands /\ DOMAIN calls = Commands
BY DEF Typed, LedgerTypeOK, Kept, Retained

\* One command is replaced, the call that works on it goes on or ends.
LEMMA ReplacingKeepsTypes ==
    ASSUME Typed, NEW c \in Commands, NEW command \in PersistedCommand,
           NEW call \in {None, "running"} \cup Settled,
           commands' = [commands EXCEPT ![c] = command],
           calls' = [calls EXCEPT ![c] = call],
           UNCHANGED <<controllerScope, nextOutgoing, acknowledgedDesktop,
                       acknowledgedOutgoing, initialized, crashes>>,
           highestReceived' \in Nat, executions' \in [Commands -> Nat]
    PROVE  Typed'
<1>1. /\ commands' \in [Commands -> PersistedCommand \cup {None}]
      /\ calls' \in [Commands -> {None, "running"} \cup Settled]
  BY DEF Typed, LedgerTypeOK
<1>2. commands'[c] = command /\ \A d \in Commands \ {c} :
          commands'[d] = commands[d] /\ calls'[d] = calls[d]
  BY TypedImplies
<1>3. \A d \in Kept' : commands'[d] \in PersistedCommand
  BY <1>2 DEF Typed, Kept, Retained
<1> QED BY <1>1, <1>3 DEF Typed, LedgerTypeOK

LEMMA StepKeepsTypes ==
    ASSUME Typed, Fenced, Acknowledged', [Next]_vars
    PROVE  Typed'
<1> USE DEF transport
<1>1. CASE initialize
  <2>1. /\ commands' = [c \in Commands |-> Restarted(commands[c])]
        /\ initialized' = TRUE
        /\ UNCHANGED <<controllerScope, transport, calls, crashes, executions>>
    BY <1>1 DEF initialize
  <2>2. Restarted(None) = None
    BY DEF Restarted
  <2>3. \A c \in Commands : Restarted(commands[c]) \in PersistedCommand \cup {None}
    BY <2>2, RestartedIsPersisted DEF Typed, LedgerTypeOK
  <2>4. \A c \in Kept' : c \in Kept /\ commands'[c] = Restarted(commands[c])
    BY <2>1, <2>2 DEF Kept, Retained
  <2>5. \A c \in Kept' : commands'[c] \in PersistedCommand
    BY <2>4, RestartedIsPersisted DEF Typed
  <2> QED BY <2>1, <2>3, <2>5 DEF Typed, LedgerTypeOK
<1>2. CASE crash
  <2>1. /\ initialized' = FALSE /\ crashes' = crashes + 1
        /\ calls' = [c \in Commands |-> None]
        /\ UNCHANGED <<commands, controllerScope, transport, executions>>
    BY <1>2 DEF crash, ledger
  <2>2. Kept' \subseteq Kept
    BY <2>1 DEF Kept, Retained
  <2>3. crashes' \in Nat /\ calls' \in [Commands -> {None, "running"} \cup Settled]
    BY <2>1 DEF Typed, LedgerTypeOK
  <2> QED BY <2>1, <2>2, <2>3 DEF Typed, LedgerTypeOK
<1>3. CASE \E scope \in Scopes : adoptControllerScope(scope)
  BY <1>3 DEF adoptControllerScope, Typed, LedgerTypeOK, Kept, Retained
<1>4. ASSUME NEW c \in Commands, NEW scope \in Scopes, handle(c, scope)
      PROVE  Typed'
  <2>1. executions' \in [Commands -> Nat] /\ highestReceived' \in Nat
    BY <1>4 DEF handle, Typed, LedgerTypeOK, Commands
  <2> QED BY <1>4, <2>1, NewIsPersisted, ReplacingKeepsTypes DEF handle
<1>5. ASSUME NEW c \in Commands, NEW kind \in EventKind, calls[c] # None,
             commands' = Appended(c, kind),
             NEW call \in {None, "running"} \cup Settled,
             calls' = [calls EXCEPT ![c] = call],
             UNCHANGED <<controllerScope, transport, initialized, crashes, executions>>
      PROVE  Typed'
  <2>1. commands[c] \in PersistedCommand
    BY <1>5 DEF Typed, Kept
  <2>2. commands' = [commands EXCEPT ![c] = [commands[c] EXCEPT !.events = Append(@, kind)]]
    BY <1>5 DEF Appended
  <2> QED BY <1>5, <2>1, <2>2, AppendedIsPersisted, ReplacingKeepsTypes DEF Typed, LedgerTypeOK
<1>6. CASE \E c \in Commands : emit(c)
  <2>1. PICK c \in Commands : emit(c)
    BY <1>6
  <2>2. /\ calls[c] = "running" /\ calls' = [calls EXCEPT ![c] = "running"]
        /\ "event" \in EventKind /\ "running" # None
    BY <2>1, NoneIsNoValue DEF emit, EventKind, Typed, LedgerTypeOK
  <2> QED BY <1>5, <2>1, <2>2 DEF emit
<1>7. CASE \E c \in Commands, status \in Settled : appendTerminal(c, status)
  <2>1. PICK c \in Commands, status \in Settled : appendTerminal(c, status)
    BY <1>7
  <2>2. status \in EventKind /\ "running" # None
    BY NoneIsNoValue DEF EventKind
  <2> QED BY <1>5, <2>1, <2>2 DEF appendTerminal
<1>8. ASSUME NEW c \in Commands, settle(c)
      PROVE  Typed'
  <2>1. calls[c] \in Settled /\ commands[c] \in PersistedCommand
    BY <1>8, NoneIsNoValue DEF settle, Typed, Kept
  <2>2. commands' = [commands EXCEPT ![c] = [commands[c] EXCEPT !.status = calls[c]]]
    BY <1>8 DEF settle
  <2> QED BY <1>8, <2>1, <2>2, SettledIsPersisted, ReplacingKeepsTypes
          DEF settle, Typed, LedgerTypeOK
<1>9. ASSUME NEW batch \in SUBSET Retained, prepareOutgoing(batch)
      PROVE  Typed'
  <2>1. /\ commands' = [c \in Commands |-> IF c \in batch THEN Encrypted(c, batch)
                                           ELSE commands[c]]
        /\ nextOutgoing' = nextOutgoing + Cardinality(Plain(batch))
        /\ UNCHANGED <<controllerScope, highestReceived, acknowledgedOutgoing, initialized,
                       calls, crashes, executions>>
    BY <1>9 DEF prepareOutgoing
  <2>2. Cardinality(Plain(batch)) \in Nat
    BY PlainIsFinite, FS_CardinalityType
  <2>3. acknowledgedDesktop' \in Nat
    BY BoundsAreNumbers DEF Acknowledged
  <2>4. \A c \in batch : Encrypted(c, batch) \in PersistedCommand
    BY EncryptedOutgoing
  <2>5. commands' \in [Commands -> PersistedCommand \cup {None}]
    BY <2>1, <2>4 DEF Typed, LedgerTypeOK
  <2>6. \A c \in Kept' : c \in Kept
    BY <2>1 DEF Kept, Retained
  <2>7. \A c \in Kept' : commands'[c] \in PersistedCommand
    BY <2>1, <2>4, <2>6, TypedImplies DEF Typed
  <2>8. nextOutgoing' \in Nat \ {0}
    BY <2>1, <2>2 DEF Typed, LedgerTypeOK
  <2> QED BY <2>1, <2>3, <2>5, <2>7, <2>8 DEF Typed, LedgerTypeOK
<1>10. ASSUME NEW n \in 1..MaxOutgoing, acknowledgeOutgoing(n)
       PROVE  Typed'
  <2>1. /\ commands' = [c \in Commands |-> IF Prunable(c, n) THEN None ELSE commands[c]]
        /\ acknowledgedOutgoing' = n /\ n < nextOutgoing /\ n > acknowledgedOutgoing
        /\ UNCHANGED <<controllerScope, nextOutgoing, acknowledgedDesktop, highestReceived,
                       initialized, calls, crashes, executions>>
    BY <1>10 DEF acknowledgeOutgoing
  <2>2. \A c \in Kept' : c \in Kept /\ commands'[c] = commands[c]
    BY <2>1 DEF Kept, Retained, Fenced, Prunable
  <2>3. LedgerTypeOK'
    BY <2>1 DEF Typed, LedgerTypeOK
  <2> QED BY <2>2, <2>3 DEF Typed
<1>11. CASE UNCHANGED vars
  BY <1>11 DEF vars, ledger, Typed, LedgerTypeOK, Kept, Retained
<1>12. \A c \in Retained : {c} \in SUBSET Retained
  OBVIOUS
<1> QED BY <1>1, <1>2, <1>3, <1>4, <1>6, <1>7, <1>8, <1>9, <1>10, <1>11, <1>12 DEF Next

-----------------------------------------------------------------------------
(* The numbers of the responses.                                           *)

\* The inductive strengthening of OutgoingNumbersAreUnique and UnconsumedRunIsComplete,
\* beside Typed: the desktop has acknowledged numbers that were given.
Numbered ==
    /\ acknowledgedOutgoing < nextOutgoing
    /\ OutgoingNumbersAreUnique
    /\ UnconsumedRunIsComplete

\* The parts of OutgoingNumbersAreUnique, by positions.
NumberAt(c, i) == commands[c].outgoing[i].sequence

NumbersAreDistinct ==
    \A c, d \in Retained : \A i \in DOMAIN commands[c].outgoing :
        \A j \in DOMAIN commands[d].outgoing :
            /\ NumberAt(c, i) < nextOutgoing
            /\ c = d /\ i < j => NumberAt(c, i) < NumberAt(d, j)
            /\ c # d => NumberAt(c, i) # NumberAt(d, j)

LEMMA DistinctByPosition == OutgoingNumbersAreUnique <=> NumbersAreDistinct
<1> DEFINE numbers(c) == {commands[c].outgoing[i].sequence : i \in DOMAIN commands[c].outgoing}
<1>1. (\A c \in Retained : \A n \in numbers(c) : n < nextOutgoing)
      <=> \A c \in Retained : \A i \in DOMAIN commands[c].outgoing : NumberAt(c, i) < nextOutgoing
  BY DEF NumberAt
<1>2. (\A c, d \in Retained : c # d => numbers(c) \cap numbers(d) = {})
      <=> \A c, d \in Retained : c # d =>
              \A i \in DOMAIN commands[c].outgoing : \A j \in DOMAIN commands[d].outgoing :
                  NumberAt(c, i) # NumberAt(d, j)
  <2>1. \A c, d \in Retained :
            numbers(c) \cap numbers(d) = {}
            <=> \A i \in DOMAIN commands[c].outgoing : \A j \in DOMAIN commands[d].outgoing :
                    NumberAt(c, i) # NumberAt(d, j)
    BY DEF NumberAt
  <2> HIDE DEF numbers
  <2> QED BY <2>1
<1>3. (\A c \in Retained : \A i, j \in DOMAIN commands[c].outgoing :
          i < j => commands[c].outgoing[i].sequence < commands[c].outgoing[j].sequence)
      <=> \A c, d \in Retained : c = d =>
              \A i \in DOMAIN commands[c].outgoing : \A j \in DOMAIN commands[d].outgoing :
                  i < j => NumberAt(c, i) < NumberAt(d, j)
  BY DEF NumberAt
<1>4. NumbersAreDistinct <=>
          /\ \A c \in Retained : \A i \in DOMAIN commands[c].outgoing : NumberAt(c, i) < nextOutgoing
          /\ \A c, d \in Retained : c = d =>
                \A i \in DOMAIN commands[c].outgoing : \A j \in DOMAIN commands[d].outgoing :
                    i < j => NumberAt(c, i) < NumberAt(d, j)
          /\ \A c, d \in Retained : c # d =>
                \A i \in DOMAIN commands[c].outgoing : \A j \in DOMAIN commands[d].outgoing :
                    NumberAt(c, i) # NumberAt(d, j)
  BY DEF NumbersAreDistinct
<1> QED BY <1>1, <1>2, <1>3, <1>4 DEF OutgoingNumbersAreUnique

\* The order of a batch is one: no two commands share a first ciphertext.
LEMMA BatchIsOrdered ==
    ASSUME Typed, Numbered, NEW batch \in SUBSET Retained
    PROVE  Orders({r \in Plain(batch) \X Plain(batch) : EncryptedBefore(r[1], r[2])}, Plain(batch))
<1> DEFINE R == {r \in Plain(batch) \X Plain(batch) : EncryptedBefore(r[1], r[2])}
           first(c) == commands[c].outgoing[1].sequence
           hasCiphertext(c) == commands[c].outgoing # <<>>
<1>1. ASSUME NEW c \in batch, hasCiphertext(c)
      PROVE  first(c) \in Nat /\ 1 \in DOMAIN commands[c].outgoing
  <2>1. commands[c].outgoing \in Seq([sequence: Nat \ {0}, kind: EventKind])
    BY DEF Typed, Kept, PersistedCommand
  <2>2. /\ Len(commands[c].outgoing) \in Nat \ {0}
        /\ DOMAIN commands[c].outgoing = 1..Len(commands[c].outgoing)
    BY <1>1, <2>1, LenProperties, EmptySeq
  <2>3. 1 \in DOMAIN commands[c].outgoing /\ 1 \in 1..Len(commands[c].outgoing)
    BY <2>2
  <2>4. commands[c].outgoing[1] \in [sequence: Nat \ {0}, kind: EventKind]
    BY <2>1, <2>3, ElementOfSeq
  <2> QED BY <2>3, <2>4
<1>2. ASSUME NEW c \in batch, NEW d \in batch, c # d, hasCiphertext(c), hasCiphertext(d)
      PROVE  first(c) # first(d)
  BY <1>1, <1>2, DistinctByPosition DEF Numbered, NumbersAreDistinct, NumberAt
<1>3. batch \subseteq Nat
  BY TypedImplies DEF Commands
<1>4. \A c, d \in batch :
          PreparedBefore(c, d) <=>
              \/ hasCiphertext(c) /\ hasCiphertext(d) /\ first(c) < first(d)
              \/ hasCiphertext(c) /\ ~hasCiphertext(d)
              \/ ~hasCiphertext(c) /\ ~hasCiphertext(d) /\ c < d
  BY DEF PreparedBefore
<1> HIDE DEF first
<1>5. /\ \A c \in batch : ~PreparedBefore(c, c)
      /\ \A c, d, e \in batch : PreparedBefore(c, d) /\ PreparedBefore(d, e) => PreparedBefore(c, e)
      /\ \A c, d \in batch : c # d => PreparedBefore(c, d) \/ PreparedBefore(d, c)
  BY <1>1, <1>2, <1>3, <1>4
<1>6. ASSUME NEW p \in Plain(batch)
      PROVE  p = <<p[1], p[2]>> /\ p[1] \in batch /\ p[2] \in Nat
  <2>1. PICK c \in batch : \E i \in DOMAIN commands[c].events : p = <<c, i>>
    BY DEF Plain
  <2> PICK i \in DOMAIN commands[c].events : p = <<c, i>>
    BY <2>1
  <2>2. commands[c].events \in Seq(EventKind)
    BY DEF Typed, Kept, PersistedCommand
  <2>3. i \in Nat
    BY <2>2, LenProperties
  <2> QED BY <2>3
<1>7. \A p, q \in Plain(batch) : <<p, q>> \in R <=> EncryptedBefore(p, q)
  OBVIOUS
<1> HIDE DEF R
<1> QED BY <1>5, <1>6, <1>7 DEF Orders, EncryptedBefore

\* A batch of n events is given the next n numbers, each once, in their order.
LEMMA NumbersOfBatch ==
    ASSUME Typed, Numbered, NEW batch \in SUBSET Retained
    PROVE  /\ Cardinality(Plain(batch)) \in Nat
           /\ \A c \in batch : \A i \in DOMAIN commands[c].events :
                 EventNumber(c, i, batch)
                     \in nextOutgoing..(nextOutgoing + Cardinality(Plain(batch)) - 1)
           /\ \A c, d \in batch : \A i \in DOMAIN commands[c].events :
                 \A j \in DOMAIN commands[d].events :
                    /\ c = d /\ i < j => EventNumber(c, i, batch) < EventNumber(d, j, batch)
                    /\ c # d => EventNumber(c, i, batch) # EventNumber(d, j, batch)
           /\ \A n \in nextOutgoing..(nextOutgoing + Cardinality(Plain(batch)) - 1) :
                 \E c \in batch : \E i \in DOMAIN commands[c].events :
                    EventNumber(c, i, batch) = n
<1> DEFINE S == Plain(batch)
           R == {r \in S \X S : EncryptedBefore(r[1], r[2])}
           place(c, i) == Place(<<c, i>>, R, S)
<1>1. IsFiniteSet(S) /\ Orders(R, S)
  BY PlainIsFinite, BatchIsOrdered
<1>2. Cardinality(S) \in Nat /\ nextOutgoing \in Nat
  BY <1>1, FS_CardinalityType DEF Typed, LedgerTypeOK
<1>3. \A c \in batch : \A i \in DOMAIN commands[c].events : <<c, i>> \in S
  BY DEF Plain
<1>4. \A p \in S : \E c \in batch : \E i \in DOMAIN commands[c].events : p = <<c, i>>
  BY DEF Plain
<1>5. ASSUME NEW c \in batch, NEW i \in DOMAIN commands[c].events
      PROVE  EventNumber(c, i, batch) = nextOutgoing + place(c, i)
  <2>1. {p \in S : EncryptedBefore(p, <<c, i>>)} = Below(<<c, i>>, R, S)
    BY <1>3 DEF Below
  <2> QED BY <2>1 DEF EventNumber, Place
<1>6. ASSUME NEW c \in batch, NEW i \in DOMAIN commands[c].events,
             NEW j \in DOMAIN commands[c].events, i < j
      PROVE  <<<<c, i>>, <<c, j>>>> \in R
  BY <1>3, <1>6 DEF EncryptedBefore
<1> HIDE DEF S, R
<1>7. /\ \A p \in S : Place(p, R, S) \in 0..(Cardinality(S) - 1)
      /\ \A p, q \in S : Place(p, R, S) = Place(q, R, S) => p = q
      /\ \A n \in 0..(Cardinality(S) - 1) : \E p \in S : Place(p, R, S) = n
  BY <1>1, PlacesAreComplete
<1>8. ASSUME NEW c \in batch, NEW i \in DOMAIN commands[c].events
      PROVE  EventNumber(c, i, batch) \in nextOutgoing..(nextOutgoing + Cardinality(S) - 1)
  <2>1. place(c, i) \in 0..(Cardinality(S) - 1)
    BY <1>3, <1>7
  <2>2. EventNumber(c, i, batch) = nextOutgoing + place(c, i)
    BY <1>5
  <2> QED BY <1>2, <2>1, <2>2
<1>9. ASSUME NEW c \in batch, NEW d \in batch, NEW i \in DOMAIN commands[c].events,
             NEW j \in DOMAIN commands[d].events
      PROVE  /\ c = d /\ i < j => EventNumber(c, i, batch) < EventNumber(d, j, batch)
             /\ c # d => EventNumber(c, i, batch) # EventNumber(d, j, batch)
  <2>1. <<c, i>> \in S /\ <<d, j>> \in S /\ place(c, i) \in Nat /\ place(d, j) \in Nat
    BY <1>2, <1>3, <1>7
  <2>2. c = d /\ i < j => place(c, i) < place(d, j)
    BY <1>1, <1>6, <2>1, PlacesAscend
  <2>3. c # d => place(c, i) # place(d, j)
    BY <1>7, <2>1
  <2> QED BY <1>2, <1>5, <2>1, <2>2, <2>3
<1>10. ASSUME NEW n \in nextOutgoing..(nextOutgoing + Cardinality(S) - 1)
       PROVE  \E c \in batch : \E i \in DOMAIN commands[c].events : EventNumber(c, i, batch) = n
  <2>1. n - nextOutgoing \in 0..(Cardinality(S) - 1) /\ nextOutgoing + (n - nextOutgoing) = n
    BY <1>2
  <2>2. PICK p \in S : Place(p, R, S) = n - nextOutgoing
    BY <1>7, <2>1
  <2> QED BY <1>4, <1>5, <2>1, <2>2
<1> QED BY <1>2, <1>8, <1>9, <1>10 DEF S

\* A step that gives no number and drops no command with numbers. A new command has none.
KeepsNumbers ==
    /\ UNCHANGED <<nextOutgoing, acknowledgedOutgoing>>
    /\ \A c \in Retained' :
          commands'[c].outgoing = IF c \in Retained THEN commands[c].outgoing ELSE <<>>
    /\ \A c \in Retained : commands[c].outgoing # <<>> => c \in Retained'

LEMMA KeepingNumbers ==
    ASSUME Typed, Typed', Numbered, KeepsNumbers
    PROVE  Numbered'
<1>1. NumbersAreDistinct
  BY DistinctByPosition DEF Numbered
<1>2. \A c \in Retained' : \A i \in DOMAIN commands'[c].outgoing :
          /\ c \in Retained
          /\ i \in DOMAIN commands[c].outgoing
          /\ commands'[c].outgoing = commands[c].outgoing
  BY DEF KeepsNumbers
<1>3. NumbersAreDistinct'
  BY <1>1, <1>2 DEF NumbersAreDistinct, NumberAt, KeepsNumbers
<1>4. OutgoingNumbersAreUnique'
  BY <1>3, DistinctByPosition, PTL
<1>5. ASSUME NEW c \in Retained, NEW i \in DOMAIN commands[c].outgoing
      PROVE  /\ c \in Retained' /\ i \in DOMAIN commands'[c].outgoing
             /\ commands'[c].outgoing[i].sequence = commands[c].outgoing[i].sequence
  BY DEF KeepsNumbers
<1>6. UnconsumedRunIsComplete'
  BY <1>5 DEF Numbered, UnconsumedRunIsComplete, KeepsNumbers
<1> QED BY <1>4, <1>6 DEF Numbered, KeepsNumbers

\* Ciphertext for a batch: its numbers follow all that were given.
LEMMA PreparationNumbers ==
    ASSUME Typed, Typed', Numbered, NEW batch \in SUBSET Retained, prepareOutgoing(batch)
    PROVE  Numbered'
<1> DEFINE old(c) == commands[c].outgoing
           events(c) == commands[c].events
           number(c, i) == commands'[c].outgoing[i].sequence
           next == nextOutgoing + Cardinality(Plain(batch))
<1>1. /\ commands' = [c \in Commands |-> IF c \in batch THEN Encrypted(c, batch)
                                         ELSE commands[c]]
      /\ nextOutgoing' = next
      /\ acknowledgedOutgoing' = acknowledgedOutgoing
  BY DEF prepareOutgoing
<1>2. /\ Cardinality(Plain(batch)) \in Nat /\ nextOutgoing \in Nat /\ acknowledgedOutgoing \in Nat
      /\ acknowledgedOutgoing < nextOutgoing
  BY NumbersOfBatch DEF Typed, LedgerTypeOK, Numbered
<1>3. ASSUME NEW c \in Retained
      PROVE  /\ Len(old(c)) \in Nat /\ DOMAIN old(c) = 1..Len(old(c))
             /\ Len(events(c)) \in Nat /\ DOMAIN events(c) = 1..Len(events(c))
             /\ \A i \in DOMAIN old(c) : NumberAt(c, i) \in Nat
  <2>1. /\ old(c) \in Seq([sequence: Nat \ {0}, kind: EventKind])
        /\ events(c) \in Seq(EventKind)
    BY DEF Typed, Kept, PersistedCommand
  <2>2. /\ Len(old(c)) \in Nat /\ DOMAIN old(c) = 1..Len(old(c))
        /\ Len(events(c)) \in Nat /\ DOMAIN events(c) = 1..Len(events(c))
    BY <2>1, LenProperties
  <2>3. \A i \in 1..Len(old(c)) : old(c)[i] \in [sequence: Nat \ {0}, kind: EventKind]
    BY <2>1, ElementOfSeq
  <2> QED BY <2>2, <2>3 DEF NumberAt
<1>4. ASSUME NEW c \in batch
      PROVE  /\ commands'[c].outgoing = Encrypted(c, batch).outgoing
             /\ Len(commands'[c].outgoing) = Len(old(c)) + Len(events(c))
             /\ DOMAIN commands'[c].outgoing = 1..(Len(old(c)) + Len(events(c)))
             /\ \A i \in 1..Len(old(c)) : number(c, i) = NumberAt(c, i)
             /\ \A i \in 1..Len(events(c)) :
                   number(c, Len(old(c)) + i) = EventNumber(c, i, batch)
  <2>1. commands'[c].outgoing = Encrypted(c, batch).outgoing
    BY <1>1 DEF Retained
  <2>2. Encrypted(c, batch).outgoing \in Seq([sequence: Nat \ {0}, kind: EventKind])
    BY EncryptedOutgoing DEF PersistedCommand
  <2>3. DOMAIN Encrypted(c, batch).outgoing = 1..Len(Encrypted(c, batch).outgoing)
    BY <2>2, LenProperties
  <2> DEFINE new == Encrypted(c, batch).outgoing
  <2>4. /\ Len(new) = Len(old(c)) + Len(events(c))
        /\ \A i \in 1..Len(old(c)) : new[i] = old(c)[i]
        /\ \A i \in 1..Len(events(c)) :
              new[Len(old(c)) + i] = [sequence |-> EventNumber(c, i, batch),
                                      kind |-> events(c)[i]]
    BY EncryptedOutgoing
  <2> HIDE DEF new
  <2>5. ASSUME NEW i \in 1..Len(events(c))
        PROVE  new[Len(old(c)) + i].sequence = EventNumber(c, i, batch)
    <3>1. new[Len(old(c)) + i] = [sequence |-> EventNumber(c, i, batch), kind |-> events(c)[i]]
      BY <2>4
    <3> QED BY <3>1
  <2> QED BY <2>1, <2>3, <2>4, <2>5 DEF NumberAt, new
<1>5. ASSUME NEW c \in Retained', c \notin batch
      PROVE  c \in Retained /\ commands'[c] = commands[c]
  BY <1>1, <1>5 DEF Retained
<1>6. batch \subseteq Retained' /\ Retained \subseteq Retained'
  <2>1. \A c \in batch : commands'[c] \in PersistedCommand
    BY <1>1, EncryptedOutgoing DEF Retained
  <2> QED BY <1>1, <2>1, NoneIsNoValue DEF Retained
\* The number at a position is an old one of the same position, or one of the batch.
<1>7. ASSUME NEW c \in Retained', NEW i \in DOMAIN commands'[c].outgoing
      PROVE  \/ /\ c \in Retained /\ i \in DOMAIN old(c)
                /\ number(c, i) = NumberAt(c, i)
             \/ /\ c \in batch
                /\ \E k \in DOMAIN events(c) :
                      i = Len(old(c)) + k /\ number(c, i) = EventNumber(c, k, batch)
  <2>1. CASE c \notin batch
    BY <1>5, <2>1 DEF NumberAt
  <2>2. CASE c \in batch
    <3>1. /\ Len(old(c)) \in Nat /\ Len(events(c)) \in Nat
          /\ DOMAIN old(c) = 1..Len(old(c)) /\ DOMAIN events(c) = 1..Len(events(c))
          /\ i \in 1..(Len(old(c)) + Len(events(c)))
      BY <1>3, <1>4, <2>2
    <3>2. CASE i <= Len(old(c))
      <4>1. i \in 1..Len(old(c))
        BY <3>1, <3>2
      <4> QED BY <1>4, <2>2, <3>1, <4>1
    <3>3. CASE ~(i <= Len(old(c)))
      <4>1. PICK k \in 1..Len(events(c)) : i = Len(old(c)) + k
        <5> DEFINE l == Len(old(c))
                   m == Len(events(c))
        <5>1. l \in Nat /\ m \in Nat /\ i \in 1..(l + m) /\ ~(i <= l)
          BY <3>1, <3>3
        <5> HIDE DEF l, m
        <5>2. i - l \in 1..m /\ i = l + (i - l)
          BY <5>1
        <5> QED BY <5>2 DEF l, m
      <4> QED BY <1>4, <2>2, <3>1, <4>1
    <3> QED BY <3>2, <3>3
  <2> QED BY <2>1, <2>2
<1>8. NumbersAreDistinct
  BY DistinctByPosition DEF Numbered
<1>9. next - 1 = nextOutgoing + Cardinality(Plain(batch)) - 1
  BY <1>2
<1>10. \A c \in batch : \A i \in DOMAIN events(c) :
          EventNumber(c, i, batch) \in nextOutgoing..(next - 1)
  BY <1>2, <1>9, NumbersOfBatch
<1>11. \A c, d \in batch : \A i \in DOMAIN events(c) : \A j \in DOMAIN events(d) :
          /\ c = d /\ i < j => EventNumber(c, i, batch) < EventNumber(d, j, batch)
          /\ c # d => EventNumber(c, i, batch) # EventNumber(d, j, batch)
  BY NumbersOfBatch
<1>12. \A n \in nextOutgoing..(next - 1) :
          \E c \in batch : \E i \in DOMAIN events(c) : EventNumber(c, i, batch) = n
  BY <1>2, <1>9, NumbersOfBatch
<1>13. next \in Nat
  BY <1>2
<1>14. \A l, m \in Nat : /\ \A i \in 1..l : i \in 1..(l + m)
                         /\ \A i \in 1..m : l + i \in 1..(l + m)
  OBVIOUS
<1>15. \A c \in Retained' : \A i \in DOMAIN commands'[c].outgoing : number(c, i) < next
  <2> SUFFICES ASSUME NEW c \in Retained', NEW i \in DOMAIN commands'[c].outgoing
               PROVE  number(c, i) < next
    OBVIOUS
  <2>1. CASE c \in Retained /\ i \in DOMAIN old(c) /\ number(c, i) = NumberAt(c, i)
    <3>1. NumberAt(c, i) \in Nat /\ NumberAt(c, i) < nextOutgoing
      BY <1>3, <1>8, <2>1 DEF NumbersAreDistinct
    <3> QED BY <1>2, <2>1, <3>1
  <2>2. CASE c \in batch /\ \E k \in DOMAIN events(c) : number(c, i) = EventNumber(c, k, batch)
    <3>1. number(c, i) \in nextOutgoing..(next - 1)
      BY <1>10, <2>2
    <3> QED BY <1>2, <1>13, <3>1
  <2> QED BY <1>7, <2>1, <2>2
<1>16. ASSUME NEW c \in Retained', NEW d \in Retained', NEW i \in DOMAIN commands'[c].outgoing,
              NEW j \in DOMAIN commands'[d].outgoing
       PROVE  /\ c = d /\ i < j => number(c, i) < number(d, j)
              /\ c # d => number(c, i) # number(d, j)
  <2> DEFINE IsOld(b, k) == b \in Retained /\ k \in DOMAIN old(b) /\ number(b, k) = NumberAt(b, k)
             IsNew(b, k, l) == /\ b \in batch /\ l \in DOMAIN events(b)
                               /\ k = Len(old(b)) + l /\ number(b, k) = EventNumber(b, l, batch)
  <2>1. CASE IsOld(c, i) /\ IsOld(d, j)
    BY <1>8, <2>1 DEF NumbersAreDistinct
  <2>2. ASSUME NEW l, IsOld(c, i), IsNew(d, j, l)
        PROVE  number(c, i) < number(d, j)
    <3>1. number(c, i) \in Nat /\ number(c, i) < nextOutgoing
      BY <1>3, <1>8, <2>2 DEF NumbersAreDistinct
    <3>2. number(d, j) \in nextOutgoing..(next - 1)
      BY <1>10, <2>2
    <3> QED BY <1>2, <3>1, <3>2
  <2>3. ASSUME NEW k, IsNew(c, i, k), IsOld(d, j)
        PROVE  number(d, j) < number(c, i) /\ (c = d => ~(i < j))
    <3>1. number(d, j) \in Nat /\ number(d, j) < nextOutgoing
      BY <1>3, <1>8, <2>3 DEF NumbersAreDistinct
    <3>2. number(c, i) \in nextOutgoing..(next - 1)
      BY <1>10, <2>3
    <3>3. ASSUME c = d PROVE ~(i < j)
      BY <1>3, <2>3, <3>3
    <3> QED BY <1>2, <3>1, <3>2, <3>3
  <2>4. ASSUME NEW k, NEW l, IsNew(c, i, k), IsNew(d, j, l)
        PROVE  /\ c = d /\ i < j => number(c, i) < number(d, j)
               /\ c # d => number(c, i) # number(d, j)
    <3>1. ASSUME c = d, i < j PROVE k < l
      BY <1>3, <2>4, <3>1
    <3> QED BY <1>11, <2>4, <3>1
  <2>5. \A m, n \in Int : m < n => m # n
    OBVIOUS
  <2>6. /\ IsOld(c, i) \/ \E k : IsNew(c, i, k)
        /\ IsOld(d, j) \/ \E l : IsNew(d, j, l)
    BY <1>7
  <2>7. ASSUME NEW b \in Retained', NEW k \in DOMAIN commands'[b].outgoing
        PROVE  number(b, k) \in Int
    <3>1. CASE IsOld(b, k)
      BY <1>3, <3>1
    <3>2. ASSUME NEW l, IsNew(b, k, l)
          PROVE  number(b, k) \in Int
      BY <1>2, <1>10, <3>2
    <3> QED BY <1>7, <3>1, <3>2
  <2> HIDE DEF IsOld, IsNew
  <2> QED BY <2>1, <2>2, <2>3, <2>4, <2>5, <2>6, <2>7
<1>17. NumbersAreDistinct'
  BY <1>1, <1>15, <1>16 DEF NumbersAreDistinct, NumberAt
<1>18. OutgoingNumbersAreUnique'
  BY <1>17, DistinctByPosition, PTL
<1>19. ASSUME NEW n \in (acknowledgedOutgoing + 1)..(next - 1)
       PROVE  \E c \in Retained' : \E i \in DOMAIN commands'[c].outgoing : number(c, i) = n
  <2>1. CASE n < nextOutgoing
    <3>0. n \in (acknowledgedOutgoing + 1)..(nextOutgoing - 1)
      BY <1>2, <2>1
    <3>1. \E c \in Retained : \E i \in DOMAIN old(c) : NumberAt(c, i) = n
      BY <3>0 DEF Numbered, UnconsumedRunIsComplete, NumberAt
    <3> PICK c \in Retained : \E i \in DOMAIN old(c) : NumberAt(c, i) = n
      BY <3>1
    <3> PICK i \in DOMAIN old(c) : NumberAt(c, i) = n
      OBVIOUS
    <3>2. c \in Retained' /\ i \in DOMAIN commands'[c].outgoing /\ number(c, i) = n
      <4>1. CASE c \in batch
        <5>1. i \in 1..Len(old(c)) /\ Len(old(c)) \in Nat /\ Len(events(c)) \in Nat
          BY <1>3
        <5>2. i \in 1..(Len(old(c)) + Len(events(c)))
          BY <1>14, <5>1
        <5> QED BY <1>4, <1>6, <4>1, <5>1, <5>2
      <4>2. CASE c \notin batch
        BY <1>5, <1>6, <4>2 DEF NumberAt
      <4> QED BY <4>1, <4>2
    <3> QED BY <3>2
  <2>2. CASE ~(n < nextOutgoing)
    <3>1. n \in nextOutgoing..(next - 1)
      BY <1>2, <2>2
    <3>2. \E c \in batch : \E i \in DOMAIN events(c) : EventNumber(c, i, batch) = n
      BY <1>12, <3>1
    <3> PICK c \in batch : \E i \in DOMAIN events(c) : EventNumber(c, i, batch) = n
      BY <3>2
    <3> PICK i \in DOMAIN events(c) : EventNumber(c, i, batch) = n
      OBVIOUS
    <3>3. i \in 1..Len(events(c)) /\ Len(old(c)) + i \in 1..(Len(old(c)) + Len(events(c)))
      <4>1. i \in 1..Len(events(c)) /\ Len(old(c)) \in Nat /\ Len(events(c)) \in Nat
        BY <1>3
      <4> QED BY <1>14, <4>1
    <3> QED BY <1>4, <1>6, <3>3
  <2> QED BY <2>1, <2>2
<1>20. UnconsumedRunIsComplete'
  BY <1>1, <1>19 DEF UnconsumedRunIsComplete
<1>21. acknowledgedOutgoing' < nextOutgoing'
  BY <1>1, <1>2
<1> QED BY <1>18, <1>20, <1>21 DEF Numbered

\* Pruning drops only numbers that the desktop has acknowledged: the last one is the
\* largest of its command.
LEMMA PruningNumbers ==
    ASSUME Typed, Numbered, NEW n \in 1..MaxOutgoing, acknowledgeOutgoing(n)
    PROVE  Numbered'
<1>1. /\ commands' = [c \in Commands |-> IF Prunable(c, n) THEN None ELSE commands[c]]
      /\ acknowledgedOutgoing' = n /\ n < nextOutgoing /\ acknowledgedOutgoing < n
      /\ nextOutgoing' = nextOutgoing
  BY DEF acknowledgeOutgoing
<1>2. \A c \in Retained' : c \in Retained /\ commands'[c] = commands[c]
  BY <1>1 DEF Retained
<1>3. NumbersAreDistinct'
  BY <1>1, <1>2, DistinctByPosition DEF Numbered, NumbersAreDistinct, NumberAt
<1>4. OutgoingNumbersAreUnique'
  BY <1>3, DistinctByPosition, PTL
<1>5. ASSUME NEW c \in Retained, NEW i \in DOMAIN commands[c].outgoing, n < NumberAt(c, i)
      PROVE  ~Prunable(c, n)
  <2> DEFINE last == Len(commands[c].outgoing)
  <2>1. commands[c].outgoing \in Seq([sequence: Nat \ {0}, kind: EventKind])
    BY DEF Typed, Kept, PersistedCommand
  <2>2. last \in Nat /\ DOMAIN commands[c].outgoing = 1..last
    BY <2>1, LenProperties
  <2>3. \A j \in 1..last : commands[c].outgoing[j] \in [sequence: Nat \ {0}, kind: EventKind]
    BY <2>1, ElementOfSeq
  <2>4. last \in 1..last /\ i \in 1..last
    BY <2>2
  <2>5. NumberAt(c, i) \in Nat /\ NumberAt(c, last) \in Nat
    BY <2>3, <2>4 DEF NumberAt
  <2>6. NumberAt(c, i) <= NumberAt(c, last)
    <3>1. CASE i = last
      BY <2>5, <3>1
    <3>2. CASE i # last
      <4>1. i < last
        BY <2>2, <2>4, <3>2
      <4> QED BY <2>2, <2>4, <2>5, <4>1, DistinctByPosition DEF Numbered, NumbersAreDistinct
    <3> QED BY <3>1, <3>2
  <2>7. ~(NumberAt(c, last) <= n)
    BY <1>5, <2>5, <2>6
  <2> QED BY <2>7 DEF Prunable, NumberAt
<1>6. ASSUME NEW m \in (n + 1)..(nextOutgoing - 1)
      PROVE  \E c \in Retained' : \E i \in DOMAIN commands'[c].outgoing :
                commands'[c].outgoing[i].sequence = m
  <2>1. m \in (acknowledgedOutgoing + 1)..(nextOutgoing - 1) /\ n < m
    BY <1>1 DEF Typed, LedgerTypeOK
  <2>2. \E c \in Retained : \E i \in DOMAIN commands[c].outgoing : NumberAt(c, i) = m
    BY <2>1 DEF Numbered, UnconsumedRunIsComplete, NumberAt
  <2> PICK c \in Retained : \E i \in DOMAIN commands[c].outgoing : NumberAt(c, i) = m
    BY <2>2
  <2> PICK i \in DOMAIN commands[c].outgoing : NumberAt(c, i) = m
    OBVIOUS
  <2>3. c \in Retained' /\ commands'[c] = commands[c]
    BY <1>1, <1>5, <2>1 DEF Retained
  <2> QED BY <2>3 DEF NumberAt
<1>7. UnconsumedRunIsComplete'
  BY <1>1, <1>6 DEF UnconsumedRunIsComplete
<1> QED BY <1>1, <1>4, <1>7 DEF Numbered

\* All other steps keep the numbers.
LEMMA StepOnNumbers ==
    ASSUME Fenced, Typed, [Next]_vars
    PROVE  \/ KeepsNumbers
           \/ \E batch \in SUBSET Retained : prepareOutgoing(batch)
           \/ \E n \in 1..MaxOutgoing : acknowledgeOutgoing(n)
<1> USE DEF transport
<1>1. ASSUME NEW c \in Commands, NEW command \in PersistedCommand,
             commands' = [commands EXCEPT ![c] = command],
             command.outgoing = IF c \in Retained THEN commands[c].outgoing ELSE <<>>,
             UNCHANGED <<nextOutgoing, acknowledgedOutgoing>>
      PROVE  KeepsNumbers
  <2>1. command # None
    BY NoneIsNoValue
  <2>2. commands'[c] = command /\ \A d \in Commands \ {c} : commands'[d] = commands[d]
    BY <1>1, TypedImplies
  <2> QED BY <1>1, <2>1, <2>2 DEF KeepsNumbers, Retained
<1>2. CASE initialize
  <2>1. /\ commands' = [c \in Commands |-> Restarted(commands[c])]
        /\ UNCHANGED <<nextOutgoing, acknowledgedOutgoing>>
    BY <1>2 DEF initialize
  <2>2. Restarted(None) = None
    BY DEF Restarted
  <2>3. \A c \in Retained : Restarted(commands[c]) # None
                            /\ Restarted(commands[c]).outgoing = commands[c].outgoing
    BY RestartedIsPersisted, NoneIsNoValue, TypedImplies DEF Typed
  <2> QED BY <2>1, <2>2, <2>3 DEF KeepsNumbers, Retained
<1>3. CASE crash \/ (\E scope \in Scopes : adoptControllerScope(scope)) \/ UNCHANGED vars
  <2>1. UNCHANGED <<commands, nextOutgoing, acknowledgedOutgoing>>
    BY <1>3 DEF crash, adoptControllerScope, vars, ledger
  <2> QED BY <2>1 DEF KeepsNumbers, Retained
<1>4. ASSUME NEW c \in Commands, NEW scope \in Scopes, handle(c, scope)
      PROVE  KeepsNumbers
  <2>1. c \notin Retained
    BY <1>4 DEF handle, Admits, Retained
  <2> QED BY <1>1, <1>4, <2>1, NewIsPersisted DEF handle
<1>5. ASSUME NEW c \in Commands, NEW kind \in EventKind, calls[c] # None,
             commands' = Appended(c, kind), UNCHANGED <<nextOutgoing, acknowledgedOutgoing>>
      PROVE  KeepsNumbers
  <2> DEFINE command == [commands[c] EXCEPT !.events = Append(@, kind)]
  <2>1. commands[c] \in PersistedCommand /\ c \in Retained
    BY <1>5, NoneIsNoValue DEF Typed, Kept, Retained
  <2>2. command \in PersistedCommand /\ command.outgoing = commands[c].outgoing
    BY <2>1, AppendedIsPersisted
  <2>3. commands' = [commands EXCEPT ![c] = command]
    BY <1>5 DEF Appended
  <2> HIDE DEF command
  <2> QED BY <1>1, <1>5, <2>1, <2>2, <2>3
<1>6. CASE \E c \in Commands : emit(c)
  BY <1>5, <1>6, NoneIsNoValue DEF emit, EventKind
<1>7. CASE \E c \in Commands, status \in Settled : appendTerminal(c, status)
  BY <1>5, <1>7, NoneIsNoValue DEF appendTerminal, EventKind
<1>8. ASSUME NEW c \in Commands, settle(c)
      PROVE  KeepsNumbers
  <2> DEFINE command == [commands[c] EXCEPT !.status = calls[c]]
  <2>1. calls[c] \in Settled /\ commands[c] \in PersistedCommand /\ c \in Retained
    BY <1>8, NoneIsNoValue DEF settle, Typed, Kept, Retained
  <2>2. command \in PersistedCommand /\ command.outgoing = commands[c].outgoing
    BY <2>1, SettledIsPersisted
  <2>3. commands' = [commands EXCEPT ![c] = command] /\ UNCHANGED <<nextOutgoing, acknowledgedOutgoing>>
    BY <1>8 DEF settle
  <2> HIDE DEF command
  <2> QED BY <1>1, <2>1, <2>2, <2>3
<1>9. \A c \in Retained : {c} \in SUBSET Retained
  OBVIOUS
<1> QED BY <1>2, <1>3, <1>4, <1>6, <1>7, <1>8, <1>9 DEF Next

LEMMA StepKeepsNumbers ==
    ASSUME Fenced, Typed, Typed', Numbered, [Next]_vars
    PROVE  Numbered'
BY StepOnNumbers, KeepingNumbers, PreparationNumbers, PruningNumbers

\* The inductive invariant of the ledger.
LedgerInvariant == Fenced /\ Acknowledged /\ Typed /\ Numbered

LEMMA LedgerStartsInvariant == Init => LedgerInvariant
<1> SUFFICES ASSUME Init PROVE LedgerInvariant
  OBVIOUS
<1>1. Kept = {} /\ Retained = {}
  BY DEF Init, Kept, Retained
<1>2. Fenced /\ Acknowledged
  BY <1>1, BoundsAreNumbers DEF Init, Fenced, Acknowledged
<1>3. /\ commands \in [Commands -> PersistedCommand \cup {None}]
      /\ calls \in [Commands -> {None, "running"} \cup Settled]
      /\ executions \in [Commands -> Nat]
  BY DEF Init
<1>4. initialized \in BOOLEAN
  BY Zenon DEF Init
<1>5. Typed
  BY <1>1, <1>3, <1>4 DEF Init, LedgerTypeOK, Typed
<1>6. Numbered
  BY <1>1 DEF Init, Numbered, OutgoingNumbersAreUnique, UnconsumedRunIsComplete
<1> QED BY <1>2, <1>5, <1>6 DEF LedgerInvariant

LEMMA StepKeepsLedgerInvariant == LedgerInvariant /\ [Next]_vars => LedgerInvariant'
BY StepKeepsTheFence, StepKeepsAcknowledged, StepKeepsTypes, StepKeepsNumbers
   DEF LedgerInvariant

LEMMA LedgerStaysInvariant == Spec => []LedgerInvariant
BY LedgerStartsInvariant, StepKeepsLedgerInvariant, PTL DEF Spec

\* Numbers are never given again: a step gives those from the next one on and changes
\* nothing that has one.
NumbersGoOn ==
    /\ nextOutgoing <= nextOutgoing'
    /\ \A c \in Retained' : \A i \in DOMAIN commands'[c].outgoing :
          \/ nextOutgoing <= commands'[c].outgoing[i].sequence
          \/ /\ c \in Retained /\ i \in DOMAIN commands[c].outgoing
             /\ commands'[c].outgoing[i] = commands[c].outgoing[i]

LEMMA PreparationKeepsCommands ==
    ASSUME Typed, NEW batch \in SUBSET Retained, prepareOutgoing(batch)
    PROVE  Retained' = Retained
<1>1. commands' = [c \in Commands |-> IF c \in batch THEN Encrypted(c, batch)
                                      ELSE commands[c]]
  BY DEF prepareOutgoing
<1>2. \A c \in batch : Encrypted(c, batch) # None
  BY EncryptedOutgoing, NoneIsNoValue
<1> QED BY <1>1, <1>2 DEF Retained

LEMMA StepGoesOn ==
    ASSUME LedgerInvariant, [Next]_vars
    PROVE  NumbersGoOn
<1>1. /\ Fenced /\ Typed /\ Numbered
      /\ nextOutgoing \in Nat /\ nextOutgoing <= nextOutgoing
  BY DEF LedgerInvariant, Typed, LedgerTypeOK
<1>2. CASE KeepsNumbers
  <2>1. ASSUME NEW c \in Retained', NEW i \in DOMAIN commands'[c].outgoing
        PROVE  c \in Retained /\ commands'[c].outgoing = commands[c].outgoing
    BY <1>2, <2>1 DEF KeepsNumbers
  <2> QED BY <1>1, <1>2, <2>1 DEF NumbersGoOn, KeepsNumbers
<1>3. CASE \E n \in 1..MaxOutgoing : acknowledgeOutgoing(n)
  <2>1. nextOutgoing' = nextOutgoing
        /\ \A c \in Retained' : c \in Retained /\ commands'[c] = commands[c]
    BY <1>3 DEF acknowledgeOutgoing, Retained
  <2> QED BY <1>1, <2>1 DEF NumbersGoOn
<1>4. ASSUME NEW batch \in SUBSET Retained, prepareOutgoing(batch)
      PROVE  NumbersGoOn
  <2>1. /\ commands' = [c \in Commands |-> IF c \in batch THEN Encrypted(c, batch)
                                           ELSE commands[c]]
        /\ nextOutgoing' = nextOutgoing + Cardinality(Plain(batch))
    BY <1>4 DEF prepareOutgoing
  <2>2. Cardinality(Plain(batch)) \in Nat
    BY <1>1, NumbersOfBatch
  <2>3. ASSUME NEW c \in Retained', NEW i \in DOMAIN commands'[c].outgoing, c \in batch
        PROVE  \/ nextOutgoing <= commands'[c].outgoing[i].sequence
               \/ /\ c \in Retained /\ i \in DOMAIN commands[c].outgoing
                  /\ commands'[c].outgoing[i] = commands[c].outgoing[i]
    <3> DEFINE old == commands[c].outgoing
               events == commands[c].events
               new == Encrypted(c, batch).outgoing
    <3>1. c \in Commands /\ commands'[c].outgoing = new
      BY <2>1, <2>3 DEF Retained
    <3>2. /\ Encrypted(c, batch) \in PersistedCommand
          /\ Len(new) = Len(old) + Len(events)
          /\ \A j \in 1..Len(old) : new[j] = old[j]
          /\ \A j \in 1..Len(events) :
                new[Len(old) + j] = [sequence |-> EventNumber(c, j, batch), kind |-> events[j]]
      BY <1>1, <2>3, EncryptedOutgoing
    <3>3. /\ commands[c] \in PersistedCommand /\ c \in Retained
      BY <1>1, <2>3 DEF Typed, Kept
    <3>4. /\ Len(new) \in Nat /\ DOMAIN new = 1..Len(new)
          /\ Len(old) \in Nat /\ DOMAIN old = 1..Len(old)
          /\ Len(events) \in Nat /\ DOMAIN events = 1..Len(events)
      BY <3>2, <3>3, LenProperties DEF PersistedCommand
    <3>5. CASE i \in 1..Len(old)
      BY <3>1, <3>2, <3>3, <3>4, <3>5
    <3>6. CASE i \notin 1..Len(old)
      <4> DEFINE j == i - Len(old)
      <4>1. i \in 1..Len(new)
        BY <2>3, <3>1, <3>4
      <4> HIDE DEF new, old, events
      <4>2. j \in 1..Len(events) /\ i = Len(old) + j
        BY <3>2, <3>4, <3>6, <4>1
      <4>3. EventNumber(c, j, batch) \in nextOutgoing..(nextOutgoing + Cardinality(Plain(batch)) - 1)
        BY <1>1, <2>3, <3>4, <4>2, NumbersOfBatch DEF events
      <4>4. commands'[c].outgoing[i].sequence = EventNumber(c, j, batch)
        <5>1. commands'[c].outgoing[i] = [sequence |-> EventNumber(c, j, batch),
                                          kind |-> events[j]]
          BY <3>1, <3>2, <4>2
        <5> QED BY <5>1
      <4> QED BY <1>1, <2>2, <4>3, <4>4
    <3> QED BY <3>5, <3>6
  <2>4. \A c \in Retained' : c \notin batch => c \in Retained /\ commands'[c] = commands[c]
    BY <2>1 DEF Retained
  <2>5. nextOutgoing <= nextOutgoing'
    BY <1>1, <2>1, <2>2
  <2> QED BY <2>3, <2>4, <2>5 DEF NumbersGoOn
<1> QED BY <1>1, <1>2, <1>3, <1>4, StepOnNumbers

-----------------------------------------------------------------------------
(* The order of the events.                                                *)

\* What a step makes of the plain events of a command that it keeps: `kinds` are those
\* events, and perhaps one more, and `at` their places behind all that have numbers,
\* in their order. Some places are numbers now, the rest follows these.
EventsGoOn(c, kinds, at) ==
    /\ kinds \in Seq(EventKind) /\ at \in [1..Len(kinds) -> Nat]
    /\ \A i \in 1..Len(kinds) : nextOutgoing <= at[i]
    /\ \A i, j \in 1..Len(kinds) : i < j => at[i] < at[j]
    /\ \A i \in DOMAIN commands'[c].outgoing :
          \/ /\ c \in Retained /\ i \in DOMAIN commands[c].outgoing
             /\ commands'[c].outgoing[i] = commands[c].outgoing[i]
          \/ \E j \in 1..Len(kinds) :
                commands'[c].outgoing[i] = [sequence |-> at[j], kind |-> kinds[j]]
    /\ \A i \in DOMAIN commands'[c].events : \E j \in 1..Len(kinds) :
          at[j] = nextOutgoing' + i /\ kinds[j] = commands'[c].events[i]

\* What may be added to a command's events, and when: nothing to what has settled.
Extends(c, kinds) ==
    \/ c \notin Retained /\ highestReceived < c /\ kinds = <<>>
    \/ /\ c \in Retained /\ kinds = commands[c].events
       /\ commands'[c].status = "admitted" => commands[c].status = "admitted"
       /\ calls'[c] = "running" => calls[c] = "running"
    \/ /\ c \in Retained
       /\ \E kind \in EventKind :
             /\ kinds = Append(commands[c].events, kind)
             /\ \/ calls[c] = "running" /\ kind = "event"
                \/ calls[c] = "running" /\ calls'[c] # "running"
                \/ /\ commands[c].status = "admitted" /\ kind = "failed"
                   /\ commands'[c].status # "admitted" /\ calls'[c] # "running"

\* The step gives no number to this command.
LEMMA PlainEventsGoOn ==
    ASSUME NEW c \in Retained', commands'[c].events \in Seq(EventKind),
           nextOutgoing \in Nat, nextOutgoing' \in Nat, nextOutgoing <= nextOutgoing',
           \/ c \in Retained /\ commands'[c].outgoing = commands[c].outgoing
           \/ commands'[c].outgoing = <<>>,
           Extends(c, commands'[c].events)
    PROVE  \E kinds, at : EventsGoOn(c, kinds, at) /\ Extends(c, kinds)
<1> DEFINE kinds == commands'[c].events
           at == [i \in 1..Len(kinds) |-> nextOutgoing' + i]
<1>1. Len(kinds) \in Nat /\ DOMAIN kinds = 1..Len(kinds)
  BY LenProperties
<1>2. /\ at \in [1..Len(kinds) -> Nat]
      /\ \A i \in 1..Len(kinds) : nextOutgoing <= at[i] /\ at[i] = nextOutgoing' + i
      /\ \A i, j \in 1..Len(kinds) : i < j => at[i] < at[j]
  <2> HIDE DEF kinds
  <2>1. \A i \in 1..Len(kinds) : at[i] = nextOutgoing' + i
    OBVIOUS
  <2>2. at \in [1..Len(kinds) -> Nat]
    BY <1>1
  <2> HIDE DEF at
  <2> QED BY <1>1, <2>1, <2>2
<1>3. \A i \in DOMAIN commands'[c].outgoing :
          /\ c \in Retained /\ i \in DOMAIN commands[c].outgoing
          /\ commands'[c].outgoing[i] = commands[c].outgoing[i]
  OBVIOUS
<1> HIDE DEF at
<1>4. EventsGoOn(c, kinds, at)
  BY <1>1, <1>2, <1>3 DEF EventsGoOn
<1> QED BY <1>4

LEMMA HighestGoesOn ==
    ASSUME Fenced, [Next]_vars
    PROVE  highestReceived \in Nat /\ highestReceived <= highestReceived'
<1>1. highestReceived \in Nat
  BY DEF Fenced
<1>2. ASSUME NEW c \in Commands, NEW scope \in Scopes, handle(c, scope)
      PROVE  highestReceived <= highestReceived'
  BY <1>1, <1>2 DEF handle, Admits, NewAdmission
<1>3. CASE UNCHANGED vars
  BY <1>1, <1>3 DEF vars, ledger, transport
<1> QED BY <1>1, <1>2, <1>3, OnlyAdmissionCounts

\* Ciphertext: the events of a command get numbers in their order.
LEMMA PreparedEventsGoOn ==
    ASSUME Typed, Typed', Numbered, NEW batch \in SUBSET Retained, prepareOutgoing(batch),
           NEW c \in Retained'
    PROVE  \E kinds, at : EventsGoOn(c, kinds, at) /\ Extends(c, kinds)
<1>1. /\ commands' = [d \in Commands |-> IF d \in batch THEN Encrypted(d, batch)
                                         ELSE commands[d]]
      /\ nextOutgoing' = nextOutgoing + Cardinality(Plain(batch))
      /\ calls' = calls
  BY DEF prepareOutgoing
<1>2. /\ c \in Retained /\ c \in Commands
      /\ commands[c] \in PersistedCommand /\ commands'[c] \in PersistedCommand
      /\ commands[c].events \in Seq(EventKind) /\ commands'[c].events \in Seq(EventKind)
      /\ nextOutgoing \in Nat /\ Cardinality(Plain(batch)) \in Nat
  BY PreparationKeepsCommands, NumbersOfBatch
     DEF Typed, Kept, Retained, PersistedCommand, LedgerTypeOK
<1>3. CASE c \notin batch
  <2>1. commands'[c] = commands[c]
    BY <1>1, <1>2, <1>3
  <2>2. Extends(c, commands'[c].events)
    BY <1>1, <1>2, <2>1 DEF Extends
  <2>3. nextOutgoing' \in Nat /\ nextOutgoing <= nextOutgoing'
    BY <1>1, <1>2
  <2> QED BY <1>2, <2>1, <2>2, <2>3, PlainEventsGoOn
<1>4. CASE c \in batch
  <2> DEFINE old == commands[c].outgoing
             kinds == commands[c].events
             new == Encrypted(c, batch).outgoing
             at == [i \in 1..Len(kinds) |-> EventNumber(c, i, batch)]
  <2>1. /\ commands'[c] = Encrypted(c, batch)
        /\ commands'[c].outgoing = new /\ commands'[c].events = <<>>
        /\ Len(new) = Len(old) + Len(kinds)
        /\ \A i \in 1..Len(old) : new[i] = old[i]
        /\ \A i \in 1..Len(kinds) :
              new[Len(old) + i] = [sequence |-> EventNumber(c, i, batch), kind |-> kinds[i]]
        /\ new \in Seq([sequence: Nat \ {0}, kind: EventKind])
    BY <1>1, <1>2, <1>4, EncryptedOutgoing DEF PersistedCommand
  <2>2. /\ Len(old) \in Nat /\ DOMAIN old = 1..Len(old)
        /\ Len(new) \in Nat /\ DOMAIN new = 1..Len(new)
        /\ Len(kinds) \in Nat /\ DOMAIN kinds = 1..Len(kinds)
    BY <1>2, <2>1, LenProperties DEF PersistedCommand
  <2>3. /\ \A i \in 1..Len(kinds) : EventNumber(c, i, batch) \in Nat
                                    /\ nextOutgoing <= EventNumber(c, i, batch)
        /\ \A i, j \in 1..Len(kinds) :
              i < j => EventNumber(c, i, batch) < EventNumber(c, j, batch)
    <3>1. \A i \in 1..Len(kinds) :
              EventNumber(c, i, batch)
                  \in nextOutgoing..(nextOutgoing + Cardinality(Plain(batch)) - 1)
      BY <1>4, <2>2, NumbersOfBatch
    <3>2. \A i, j \in 1..Len(kinds) :
              i < j => EventNumber(c, i, batch) < EventNumber(c, j, batch)
      BY <1>4, <2>2, NumbersOfBatch
    <3> QED BY <1>2, <3>1, <3>2
  <2>4. /\ at \in [1..Len(kinds) -> Nat]
        /\ \A i \in 1..Len(kinds) : at[i] = EventNumber(c, i, batch)
    BY <2>3
  <2>5. commands'[c].status = commands[c].status
    BY <1>2, <2>1, EncryptedKeepsScope DEF PersistedCommand
  <2>6. Extends(c, kinds)
    BY <1>1, <1>2, <2>5 DEF Extends
  <2> HIDE DEF at, new, old, kinds
  <2>7. ASSUME NEW i \in DOMAIN new
        PROVE  \/ i \in DOMAIN old /\ new[i] = old[i]
               \/ \E j \in 1..Len(kinds) : new[i] = [sequence |-> at[j], kind |-> kinds[j]]
    <3>1. CASE i \in 1..Len(old)
      BY <2>1, <2>2, <3>1
    <3>2. CASE i \notin 1..Len(old)
      <4>1. i - Len(old) \in 1..Len(kinds) /\ i = Len(old) + (i - Len(old))
        BY <2>1, <2>2, <3>2
      <4> QED BY <2>1, <2>4, <4>1
    <3> QED BY <3>1, <3>2
  <2>8. kinds \in Seq(EventKind)
    BY <1>2 DEF kinds
  <2>9. EventsGoOn(c, kinds, at)
    BY <1>2, <2>1, <2>3, <2>4, <2>7, <2>8 DEF EventsGoOn, old
  <2> QED BY <2>6, <2>9
<1> QED BY <1>3, <1>4

\* Every step extends a command's events in this way.
LEMMA EventsStep ==
    ASSUME LedgerInvariant, LedgerInvariant', [Next]_vars, NEW c \in Retained'
    PROVE  \E kinds, at : EventsGoOn(c, kinds, at) /\ Extends(c, kinds)
<1> USE DEF transport
<1>1. /\ Fenced /\ Typed /\ Numbered /\ Typed' /\ Fenced'
      /\ nextOutgoing \in Nat /\ nextOutgoing <= nextOutgoing
      /\ c \in Commands /\ commands'[c] \in PersistedCommand
      /\ commands'[c].events \in Seq(EventKind)
  <2>1. Typed /\ Typed' /\ nextOutgoing \in Nat /\ nextOutgoing' \in Nat
    BY DEF LedgerInvariant, Typed, LedgerTypeOK
  <2>2. c \in Commands /\ c \in Kept'
    BY DEF Kept, Retained
  <2>3. commands'[c] \in PersistedCommand
    BY <2>1, <2>2 DEF Typed
  <2> QED BY <2>1, <2>2, <2>3 DEF LedgerInvariant, PersistedCommand
<1>2. ASSUME nextOutgoing' = nextOutgoing,
             Extends(c, commands'[c].events),
             \/ c \in Retained /\ commands'[c].outgoing = commands[c].outgoing
             \/ commands'[c].outgoing = <<>>
      PROVE  \E kinds, at : EventsGoOn(c, kinds, at) /\ Extends(c, kinds)
  BY <1>1, <1>2, PlainEventsGoOn
<1>3. ASSUME nextOutgoing' = nextOutgoing, commands'[c] = commands[c], calls'[c] \in {calls[c], None}
      PROVE  \E kinds, at : EventsGoOn(c, kinds, at) /\ Extends(c, kinds)
  <2>1. c \in Retained
    BY <1>3 DEF Retained
  <2> QED BY <1>2, <1>3, <2>1, NoneIsNoValue DEF Extends
<1>4. CASE initialize
  <2>1. /\ commands'[c] = Restarted(commands[c]) /\ nextOutgoing' = nextOutgoing
        /\ calls'[c] = calls[c] /\ calls[c] = None
    BY <1>1, <1>4 DEF initialize, Fenced
  <2>2. c \in Retained /\ commands[c] \in PersistedCommand /\ commands[c].events \in Seq(EventKind)
    BY <1>1, <2>1 DEF Retained, Restarted, Typed, Kept, PersistedCommand
  <2>3. CASE commands[c].status = "admitted"
    <3> DEFINE kinds == Append(commands[c].events, "failed")
    <3>1. commands'[c] = [commands[c] EXCEPT !.status = "failed", !.events = kinds]
      BY <2>1, <2>2, <2>3 DEF Restarted, Retained
    <3>2. /\ commands'[c].events = kinds /\ commands'[c].status = "failed"
          /\ commands'[c].outgoing = commands[c].outgoing
      <4> HIDE DEF kinds
      <4> QED BY <2>2, <3>1 DEF PersistedCommand
    <3>3. Extends(c, commands'[c].events)
      BY <2>1, <2>2, <2>3, <3>2, NoneIsNoValue DEF Extends, EventKind, Settled
    <3> QED BY <1>2, <2>1, <2>2, <3>2, <3>3
  <2>4. CASE commands[c].status # "admitted"
    <3>1. commands'[c] = commands[c]
      BY <2>1, <2>4 DEF Restarted
    <3> QED BY <1>3, <2>1, <3>1
  <2> QED BY <2>3, <2>4
<1>5. CASE crash \/ (\E scope \in Scopes : adoptControllerScope(scope)) \/ UNCHANGED vars
  BY <1>1, <1>3, <1>5 DEF crash, adoptControllerScope, vars, ledger
<1>6. ASSUME NEW d \in Commands, NEW scope \in Scopes, handle(d, scope)
      PROVE  \E kinds, at : EventsGoOn(c, kinds, at) /\ Extends(c, kinds)
  <2>1. CASE c = d
    <3>1. /\ c \notin Retained /\ c = highestReceived + 1
          /\ commands'[c] = [scope |-> scope, status |-> "admitted", events |-> <<>>, outgoing |-> <<>>]
          /\ nextOutgoing' = nextOutgoing
      BY <1>1, <1>6, <2>1, TypedImplies DEF handle, Admits, NewAdmission, Retained
    <3>2. highestReceived < c
      BY <1>1, <3>1 DEF Fenced
    <3> QED BY <1>2, <3>1, <3>2 DEF Extends
  <2>2. CASE c # d
    BY <1>1, <1>3, <1>6, <2>2 DEF handle
  <2> QED BY <2>1, <2>2
<1>7. ASSUME NEW d \in Commands, NEW kind \in EventKind, calls[d] = "running",
             commands' = Appended(d, kind), nextOutgoing' = nextOutgoing,
             kind = "event" \/ calls'[d] # "running",
             \A e \in Commands \ {d} : calls'[e] = calls[e]
      PROVE  \E kinds, at : EventsGoOn(c, kinds, at) /\ Extends(c, kinds)
  <2>1. CASE c = d
    <3>1. commands[c] \in PersistedCommand /\ c \in Retained
      BY <1>1, <1>7, <2>1, NoneIsNoValue DEF Typed, Kept, Retained
    <3> DEFINE kinds == Append(commands[c].events, kind)
    <3>2. commands'[c] = [commands[c] EXCEPT !.events = kinds]
      BY <1>1, <1>7, <2>1, TypedImplies DEF Appended
    <3>3. /\ commands'[c].events = kinds /\ commands'[c].outgoing = commands[c].outgoing
      <4> HIDE DEF kinds
      <4> QED BY <3>1, <3>2 DEF PersistedCommand
    <3>4. Extends(c, commands'[c].events)
      BY <1>7, <2>1, <3>1, <3>3 DEF Extends
    <3> QED BY <1>2, <1>7, <3>1, <3>3, <3>4
  <2>2. CASE c # d
    <3>1. commands'[c] = commands[c] /\ calls'[c] = calls[c]
      BY <1>1, <1>7, <2>2 DEF Appended
    <3> QED BY <1>3, <1>7, <3>1
  <2> QED BY <2>1, <2>2
<1>8. CASE \E d \in Commands : emit(d)
  <2>1. PICK d \in Commands : emit(d)
    BY <1>8
  <2>2. "event" \in EventKind
    BY DEF EventKind
  <2> QED BY <1>7, <2>1, <2>2 DEF emit
<1>9. CASE \E d \in Commands, status \in Settled : appendTerminal(d, status)
  <2>1. PICK d \in Commands, status \in Settled : appendTerminal(d, status)
    BY <1>9
  <2>2. /\ calls[d] = "running" /\ commands' = Appended(d, status)
        /\ calls' = [calls EXCEPT ![d] = status] /\ nextOutgoing' = nextOutgoing
    BY <2>1 DEF appendTerminal
  <2>3. calls'[d] = status /\ \A e \in Commands \ {d} : calls'[e] = calls[e]
    BY <1>1, <2>2, TypedImplies
  <2>4. status \in EventKind /\ status # "running"
    BY DEF EventKind, Settled
  <2> QED BY <1>7, <2>2, <2>3, <2>4
<1>10. ASSUME NEW d \in Commands, settle(d)
       PROVE  \E kinds, at : EventsGoOn(c, kinds, at) /\ Extends(c, kinds)
  <2>1. /\ calls[d] \in Settled /\ commands[d] \in PersistedCommand /\ d \in Retained
        /\ commands' = [commands EXCEPT ![d].status = calls[d]]
        /\ calls' = [calls EXCEPT ![d] = None] /\ nextOutgoing' = nextOutgoing
    BY <1>1, <1>10, NoneIsNoValue DEF settle, Typed, Kept, Retained
  <2>2. CASE c = d
    <3>1. /\ commands'[c].events = commands[c].events
          /\ commands'[c].outgoing = commands[c].outgoing
          /\ commands'[c].status \in Settled
          /\ calls'[c] = None
      BY <1>1, <2>1, <2>2, TypedImplies DEF PersistedCommand
    <3>2. Extends(c, commands'[c].events)
      BY <2>1, <2>2, <3>1, NoneIsNoValue DEF Extends, Settled
    <3> QED BY <1>2, <2>1, <2>2, <3>1, <3>2
  <2>3. CASE c # d
    <3>1. commands'[c] = commands[c] /\ calls'[c] = calls[c]
      BY <1>1, <2>1, <2>3
    <3> QED BY <1>3, <2>1, <3>1
  <2> QED BY <2>2, <2>3
<1>11. ASSUME NEW batch \in SUBSET Retained, prepareOutgoing(batch)
       PROVE  \E kinds, at : EventsGoOn(c, kinds, at) /\ Extends(c, kinds)
  BY <1>1, <1>11, PreparedEventsGoOn
<1>12. CASE \E n \in 1..MaxOutgoing : acknowledgeOutgoing(n)
  <2>1. commands'[c] = commands[c] /\ calls' = calls /\ nextOutgoing' = nextOutgoing
    BY <1>1, <1>12 DEF acknowledgeOutgoing, Retained
  <2> QED BY <1>3, <2>1
<1>13. \A d \in Retained : {d} \in SUBSET Retained
  OBVIOUS
<1> QED BY <1>4, <1>5, <1>6, <1>8, <1>9, <1>10, <1>11, <1>12, <1>13 DEF Next

-----------------------------------------------------------------------------
(* The limit on the events of a command.                                   *)

\* The step leaves no command with more events, and no call or status that needs more room.
KeepsRoom ==
    \A c \in Commands :
        /\ calls'[c] = "running" => calls[c] = "running" /\ EventCount(c)' = EventCount(c)
        /\ c \in Retained' => /\ c \in Retained
                              /\ EventCount(c)' = EventCount(c)
                              /\ commands[c].status = "failed" => commands'[c].status = "failed"

LEMMA KeepingRoom ==
    ASSUME TerminalEventFits, KeepsRoom, LedgerInvariant
    PROVE  TerminalEventFits'
<1>1. ASSUME NEW c \in Retained
      PROVE  EventCount(c) \in Nat
  <2>1. commands[c] \in PersistedCommand
    BY DEF LedgerInvariant, Typed, Kept
  <2> DEFINE plain == Len(commands[c].events)
             sent == Len(commands[c].outgoing)
  <2>2. plain \in Nat /\ sent \in Nat
    BY <2>1, LenProperties DEF PersistedCommand
  <2>3. EventCount(c) = sent + plain
    BY DEF EventCount
  <2> HIDE DEF plain, sent
  <2> QED BY <2>2, <2>3
<1>2. MaxEventsPerCommand \in Nat
  BY PolicyIsPositive
<1>3. \A c \in Retained' : c \in Commands
  BY DEF Retained
<1> QED BY <1>1, <1>2, <1>3 DEF TerminalEventFits, KeepsRoom

\* An event more for one command, whose call goes on or ends.
LEMMA AppendingCounts ==
    ASSUME LedgerInvariant, NEW c \in Commands, calls[c] # None, NEW kind \in EventKind,
           NEW call \in {"running"} \cup Settled,
           commands' = Appended(c, kind), calls' = [calls EXCEPT ![c] = call]
    PROVE  /\ EventCount(c)' = EventCount(c) + 1 /\ EventCount(c) \in Nat
           /\ commands'[c].status = "admitted" /\ calls'[c] = call
           /\ \A d \in Commands \ {c} : commands'[d] = commands[d] /\ calls'[d] = calls[d]
<1>1. /\ commands[c] \in PersistedCommand /\ commands[c].status = "admitted"
      /\ DOMAIN commands = Commands /\ DOMAIN calls = Commands
  BY TypedImplies DEF LedgerInvariant, Typed, Kept, Fenced
<1> DEFINE events == Append(commands[c].events, kind)
<1>2. /\ Len(events) = Len(commands[c].events) + 1
      /\ Len(commands[c].events) \in Nat /\ Len(commands[c].outgoing) \in Nat
  BY <1>1, AppendProperties, LenProperties DEF PersistedCommand
<1>3. commands' = [commands EXCEPT ![c] = [commands[c] EXCEPT !.events = events]]
  BY DEF Appended
<1> HIDE DEF events
<1>4. /\ commands'[c].events = events /\ commands'[c].outgoing = commands[c].outgoing
      /\ commands'[c].status = "admitted"
  BY <1>1, <1>3 DEF PersistedCommand
<1>5. /\ EventCount(c) = Len(commands[c].outgoing) + Len(commands[c].events)
      /\ EventCount(c)' = Len(commands'[c].outgoing) + Len(commands'[c].events)
  BY DEF EventCount
<1>6. EventCount(c)' = EventCount(c) + 1 /\ EventCount(c) \in Nat
  <2> DEFINE plain == Len(commands[c].events)
             sent == Len(commands[c].outgoing)
  <2>1. plain \in Nat /\ sent \in Nat
    BY <1>2
  <2>2. EventCount(c) = sent + plain /\ EventCount(c)' = sent + (plain + 1)
    BY <1>2, <1>4, <1>5
  <2> HIDE DEF plain, sent
  <2> QED BY <2>1, <2>2
<1>7. calls'[c] = call
  BY <1>1
<1>8. \A d \in Commands \ {c} : commands'[d] = commands[d] /\ calls'[d] = calls[d]
  BY <1>1, <1>3
<1> QED BY <1>4, <1>6, <1>7, <1>8

LEMMA AppendingKeepsRoom ==
    ASSUME LedgerInvariant, TerminalEventFits, NEW c \in Commands, calls[c] = "running",
           NEW kind \in EventKind, NEW call \in {"running"} \cup Settled,
           commands' = Appended(c, kind), calls' = [calls EXCEPT ![c] = call],
           call = "running" => HasRoom(c)
    PROVE  TerminalEventFits'
<1>1. /\ EventCount(c)' = EventCount(c) + 1 /\ EventCount(c) \in Nat
      /\ commands'[c].status = "admitted" /\ calls'[c] = call
      /\ \A d \in Commands \ {c} : commands'[d] = commands[d] /\ calls'[d] = calls[d]
  BY AppendingCounts, NoneIsNoValue
<1>2. MaxEventsPerCommand \in Nat /\ EventCount(c) < MaxEventsPerCommand
  BY PolicyIsPositive DEF TerminalEventFits
<1>3. call = "running" => EventCount(c)' < MaxEventsPerCommand
  BY <1>1, <1>2 DEF HasRoom
<1>4. EventCount(c)' <= MaxEventsPerCommand
  BY <1>1, <1>2
<1>5. \A d \in Commands \ {c} : EventCount(d)' = EventCount(d) /\ (d \in Retained' <=> d \in Retained)
  BY <1>1 DEF EventCount, Retained
<1> QED BY <1>1, <1>3, <1>4, <1>5 DEF TerminalEventFits, Retained

\* A preparation moves events from plaintext to ciphertext and adds none.
LEMMA PreparingKeepsCount ==
    ASSUME LedgerInvariant, NEW batch \in SUBSET Retained, prepareOutgoing(batch),
           NEW c \in batch
    PROVE  EventCount(c)' = EventCount(c) /\ commands'[c].status = commands[c].status
<1>1. /\ Typed /\ Fenced /\ c \in Commands /\ commands[c] \in PersistedCommand
  BY TypedImplies DEF LedgerInvariant, Typed, Retained
<1>2. commands'[c] = Encrypted(c, batch)
  BY <1>1 DEF prepareOutgoing
<1>3. /\ commands[c].events \in Seq(EventKind) /\ Len(commands[c].events) \in Nat
      /\ Len(commands[c].outgoing) \in Nat
      /\ {"scope", "status"} \subseteq DOMAIN commands[c]
  BY <1>1, LenProperties DEF PersistedCommand
<1>4. /\ commands'[c].events = <<>>
      /\ Len(commands'[c].outgoing) = Len(commands[c].outgoing) + Len(commands[c].events)
  <2>1. /\ Encrypted(c, batch).events = <<>>
        /\ Len(Encrypted(c, batch).outgoing)
              = Len(commands[c].outgoing) + Len(commands[c].events)
    BY <1>1, EncryptedOutgoing
  <2> QED BY <1>2, <2>1
<1>5. commands'[c].status = commands[c].status
  BY <1>2, <1>3, EncryptedKeepsScope
<1>6. Len(<<>>) = 0
  OBVIOUS
<1>7. EventCount(c)' = EventCount(c)
  BY <1>3, <1>4, <1>6 DEF EventCount
<1> QED BY <1>5, <1>7

LEMMA StepKeepsRoom ==
    ASSUME LedgerInvariant, TerminalEventFits, [Next]_vars
    PROVE  TerminalEventFits'
<1>1. /\ Typed /\ Fenced /\ DOMAIN commands = Commands /\ DOMAIN calls = Commands
      /\ \A c \in Retained : commands[c] \in PersistedCommand
  BY TypedImplies DEF LedgerInvariant, Typed
\* A restart appends one event to what was left admitted.
<1>2. CASE initialize
  <2>1. /\ commands' = [c \in Commands |-> Restarted(commands[c])] /\ calls' = calls
        /\ \A c \in Commands : calls[c] = None
    BY <1>1, <1>2 DEF initialize, Fenced
  <2>2. ASSUME NEW c \in Retained'
        PROVE  EventCount(c)' <= IF commands'[c].status = "failed" THEN MaxEventsPerCommand + 1
                                 ELSE MaxEventsPerCommand
    <3>1. c \in Retained /\ c \in Commands /\ commands'[c] = Restarted(commands[c])
      BY <2>1 DEF Retained, Restarted
    <3>2. CASE commands[c].status = "admitted"
      <4> DEFINE events == Append(commands[c].events, "failed")
      <4>1. /\ Len(events) = Len(commands[c].events) + 1
            /\ Len(commands[c].events) \in Nat /\ Len(commands[c].outgoing) \in Nat
        BY <1>1, <3>1, AppendProperties, LenProperties
           DEF PersistedCommand, EventKind, Settled
      <4>2. commands'[c] = [commands[c] EXCEPT !.status = "failed", !.events = events]
        BY <3>1, <3>2 DEF Restarted, Retained
      <4> HIDE DEF events
      <4>3. /\ commands'[c].events = events /\ commands'[c].outgoing = commands[c].outgoing
            /\ commands'[c].status = "failed"
        BY <1>1, <3>1, <4>2 DEF PersistedCommand
      <4>4. EventCount(c)' = EventCount(c) + 1 /\ EventCount(c) \in Nat
        <5>1. /\ EventCount(c) = Len(commands[c].outgoing) + Len(commands[c].events)
              /\ EventCount(c)' = Len(commands'[c].outgoing) + Len(commands'[c].events)
          BY DEF EventCount
        <5> DEFINE plain == Len(commands[c].events)
                   sent == Len(commands[c].outgoing)
        <5>2. plain \in Nat /\ sent \in Nat
          BY <4>1
        <5>3. EventCount(c) = sent + plain /\ EventCount(c)' = sent + (plain + 1)
          BY <4>1, <4>3, <5>1
        <5> HIDE DEF plain, sent
        <5> QED BY <5>2, <5>3
      <4>5. EventCount(c) <= MaxEventsPerCommand
        BY <3>1, <3>2 DEF TerminalEventFits
      <4> QED BY <4>3, <4>4, <4>5, PolicyIsPositive
    <3>3. CASE commands[c].status # "admitted"
      <4>1. commands'[c] = commands[c]
        BY <3>1, <3>3 DEF Restarted
      <4> QED BY <3>1, <4>1 DEF TerminalEventFits, EventCount
    <3> QED BY <3>2, <3>3
  <2>3. \A c \in Commands : calls'[c] # "running"
    BY <2>1, NoneIsNoValue
  <2> QED BY <2>2, <2>3 DEF TerminalEventFits
<1>3. CASE crash \/ (\E scope \in Scopes : adoptControllerScope(scope)) \/ UNCHANGED vars
  <2>1. commands' = commands /\ \A c \in Commands : calls'[c] \in {calls[c], None}
    BY <1>3 DEF crash, adoptControllerScope, vars, ledger
  <2> QED BY <2>1, NoneIsNoValue, KeepingRoom DEF KeepsRoom, EventCount, Retained
<1>4. ASSUME NEW c \in Commands, NEW scope \in Scopes, handle(c, scope)
      PROVE  TerminalEventFits'
  <2> DEFINE command == [scope |-> scope, status |-> "admitted", events |-> <<>>,
                         outgoing |-> <<>>]
  <2>1. /\ commands' = [commands EXCEPT ![c] = command]
        /\ calls' = [calls EXCEPT ![c] = "running"]
    BY <1>4 DEF handle
  <2>2. command.events = <<>> /\ command.outgoing = <<>> /\ command.status = "admitted"
    OBVIOUS
  <2> HIDE DEF command
  <2>3. EventCount(c)' = 0 /\ commands'[c].status = "admitted"
    <3>1. commands'[c].events = <<>> /\ commands'[c].outgoing = <<>>
          /\ commands'[c].status = "admitted"
      BY <1>1, <2>1, <2>2
    <3>2. EventCount(c)' = Len(commands'[c].outgoing) + Len(commands'[c].events)
      BY DEF EventCount
    <3>3. Len(<<>>) = 0
      OBVIOUS
    <3> QED BY <3>1, <3>2, <3>3
  <2>4. \A d \in Commands \ {c} :
            /\ commands'[d] = commands[d] /\ calls'[d] = calls[d]
            /\ EventCount(d)' = EventCount(d)
    BY <1>1, <2>1 DEF EventCount
  <2> QED BY <2>3, <2>4, PolicyIsPositive DEF TerminalEventFits, Retained
<1>5. ASSUME NEW c \in Commands, emit(c)
      PROVE  TerminalEventFits'
  <2>1. calls' = [calls EXCEPT ![c] = "running"] /\ "event" \in EventKind
    BY <1>1, <1>5 DEF emit, EventKind, Typed, LedgerTypeOK
  <2> QED BY <1>5, <2>1, AppendingKeepsRoom DEF emit
<1>6. ASSUME NEW c \in Commands, NEW status \in Settled, appendTerminal(c, status)
      PROVE  TerminalEventFits'
  <2>1. status \in EventKind /\ status # "running"
    BY DEF EventKind, Settled
  <2> QED BY <1>6, <2>1, AppendingKeepsRoom DEF appendTerminal
<1>7. ASSUME NEW c \in Commands, settle(c)
      PROVE  TerminalEventFits'
  <2>1. /\ calls[c] \in Settled /\ c \in Kept /\ commands[c].status = "admitted"
        /\ commands[c] \in PersistedCommand /\ c \in Retained
        /\ commands' = [commands EXCEPT ![c].status = calls[c]]
        /\ calls' = [calls EXCEPT ![c] = None]
    BY <1>1, <1>7, NoneIsNoValue DEF settle, Fenced, Typed, Kept, Retained
  <2>2. /\ commands'[c].events = commands[c].events
        /\ commands'[c].outgoing = commands[c].outgoing
    BY <1>1, <2>1 DEF PersistedCommand
  <2>3. \A d \in Commands \ {c} : commands'[d] = commands[d] /\ calls'[d] = calls[d]
    BY <1>1, <2>1
  <2>4. calls'[c] # "running"
    BY <1>1, <2>1, NoneIsNoValue
  <2>5. commands[c].status # "failed"
    BY <2>1
  <2>6. \A d \in Commands : EventCount(d)' = EventCount(d)
    BY <2>2, <2>3 DEF EventCount
  <2>7. KeepsRoom
    BY <2>1, <2>3, <2>4, <2>5, <2>6 DEF KeepsRoom, Retained
  <2> QED BY <2>7, KeepingRoom
<1>8. ASSUME NEW batch \in SUBSET Retained, prepareOutgoing(batch)
      PROVE  TerminalEventFits'
  <2>1. /\ commands' = [c \in Commands |-> IF c \in batch THEN Encrypted(c, batch)
                                           ELSE commands[c]]
        /\ calls' = calls /\ Retained' = Retained
    BY <1>1, <1>8, PreparationKeepsCommands DEF prepareOutgoing
  <2>2. \A c \in batch : EventCount(c)' = EventCount(c)
                          /\ commands'[c].status = commands[c].status
    BY <1>8, PreparingKeepsCount
  <2>3. \A c \in Commands \ batch : commands'[c] = commands[c] /\ EventCount(c)' = EventCount(c)
    BY <2>1 DEF EventCount
  <2> QED BY <2>1, <2>2, <2>3, KeepingRoom DEF KeepsRoom
<1>9. ASSUME NEW n, acknowledgeOutgoing(n)
      PROVE  TerminalEventFits'
  <2>1. /\ commands' = [c \in Commands |-> IF Prunable(c, n) THEN None ELSE commands[c]]
        /\ calls' = calls
    BY <1>9 DEF acknowledgeOutgoing
  <2>2. \A c \in Commands : calls[c] # None => commands'[c] = commands[c]
    BY <1>1, <2>1 DEF Fenced, Prunable
  <2>3. \A c \in Retained' : c \in Retained /\ commands'[c] = commands[c]
    BY <2>1 DEF Retained
  <2> QED BY <2>1, <2>2, <2>3, NoneIsNoValue, KeepingRoom DEF KeepsRoom, EventCount
<1>10. \A c \in Retained : {c} \in SUBSET Retained
  OBVIOUS
<1> QED BY <1>2, <1>3, <1>4, <1>5, <1>6, <1>7, <1>8, <1>9, <1>10 DEF Next

-----------------------------------------------------------------------------
(* What has settled, and the numbers of the transport.                     *)

CursorsInOrder ==
    /\ acknowledgedDesktop <= highestReceived
    /\ acknowledgedOutgoing < nextOutgoing

LEMMA StepLeavesSettled ==
    ASSUME LedgerInvariant, [Next]_vars, NEW c \in Retained,
           commands[c].status \in Settled, commands'[c] # None
    PROVE  commands'[c].status = commands[c].status /\ EventCount(c)' = EventCount(c)
\* A settled command has no call, and the next one to be admitted is a later one.
<1>1. /\ c \in Commands /\ calls[c] = None /\ c <= highestReceived
      /\ highestReceived \in Nat /\ DOMAIN commands = Commands
      /\ commands[c].status # "admitted"
  BY DEF LedgerInvariant, Fenced, Retained, Kept, Settled
<1>2. CASE \E batch \in SUBSET Retained : prepareOutgoing(batch)
  <2>1. PICK batch \in SUBSET Retained : prepareOutgoing(batch)
    BY <1>2
  <2>2. CASE c \in batch
    BY <2>1, <2>2, PreparingKeepsCount
  <2>3. CASE c \notin batch
    <3>1. commands'[c] = commands[c]
      BY <1>1, <2>1, <2>3 DEF prepareOutgoing
    <3> QED BY <3>1 DEF EventCount
  <2> QED BY <2>2, <2>3
<1>3. CASE commands'[c] = commands[c]
  BY <1>3 DEF EventCount
<1>4. CASE initialize
  BY <1>1, <1>3, <1>4 DEF initialize, Restarted
<1>5. CASE crash \/ (\E scope \in Scopes : adoptControllerScope(scope)) \/ UNCHANGED vars
  BY <1>3, <1>5 DEF crash, adoptControllerScope, vars, ledger
<1>6. CASE \E d \in Commands, scope \in Scopes : handle(d, scope)
  <2>1. PICK d \in Commands, scope \in Scopes : handle(d, scope)
    BY <1>6
  <2>2. d # c
    BY <1>1, <2>1 DEF handle, Admits, NewAdmission
  <2> QED BY <1>1, <1>3, <2>1, <2>2 DEF handle
<1>7. CASE \E d \in Commands : \/ emit(d)
                                \/ \E status \in Settled : appendTerminal(d, status)
                                \/ settle(d)
  <2>1. PICK d \in Commands : \/ emit(d)
                              \/ \E status \in Settled : appendTerminal(d, status)
                              \/ settle(d)
    BY <1>7
  <2>2. d # c
    BY <1>1, <2>1, NoneIsNoValue DEF emit, appendTerminal, settle
  <2> QED BY <1>1, <1>3, <2>1, <2>2 DEF emit, appendTerminal, settle, Appended
<1>8. CASE \E n \in 1..MaxOutgoing : acknowledgeOutgoing(n)
  BY <1>1, <1>3, <1>8 DEF acknowledgeOutgoing
<1>9. \A d \in Retained : {d} \in SUBSET Retained
  OBVIOUS
<1> QED BY <1>2, <1>4, <1>5, <1>6, <1>7, <1>8, <1>9 DEF Next

-----------------------------------------------------------------------------
(* The theorems about types and numbers.                                   *)

\* The ledger file and the process state have the types of the schema, and the four
\* numbers of the transport never overtake one another: only received commands are
\* acknowledged, only numbers that were given are consumed (over batches, prunings and
\* restarts).
THEOREM LedgerIsTyped == Spec => [](LedgerTypeOK /\ CursorsInOrder)
<1>1. LedgerInvariant => LedgerTypeOK /\ CursorsInOrder
  BY DEF LedgerInvariant, Typed, Acknowledged, Numbered, CursorsInOrder
<1> QED BY <1>1, LedgerStaysInvariant, PTL

\* A settled command keeps its status and the number of its events until it is pruned,
\* whatever other commands, tunnels and restarts do (#settle, #initialize, handle).
THEOREM SettledStaysSettled == Spec => SettledIsFinal
<1>1. LedgerInvariant /\ [Next]_vars =>
        [\A c \in Retained :
            commands[c].status \in Settled /\ commands'[c] # None =>
                /\ commands'[c].status = commands[c].status
                /\ EventCount(c)' = EventCount(c)]_vars
  BY StepLeavesSettled
<1> QED BY <1>1, LedgerStaysInvariant, PTL DEF Spec, SettledIsFinal

\* While a command runs there is room for its terminal event, whatever it has emitted and
\* whatever of this was encrypted, sent and acknowledged meanwhile; after a restart a
\* command exceeds the limit by one event at most (#appendEvent, #initialize).
THEOREM TerminalEventAlwaysFits == Spec => []TerminalEventFits
<1>1. Init => TerminalEventFits
  BY NoneIsNoValue DEF Init, TerminalEventFits, Retained
<1>2. LedgerInvariant /\ TerminalEventFits /\ [Next]_vars => TerminalEventFits'
  BY StepKeepsRoom
<1> QED BY <1>1, <1>2, LedgerStaysInvariant, PTL DEF Spec

\* Numbers are given once: over batches, restarts, late events and prunings no two
\* responses of the ledger share a number, and those of a command ascend (#prepareOutgoing).
THEOREM NumbersAreGivenOnce == Spec => []OutgoingNumbersAreUnique
<1>1. LedgerInvariant => OutgoingNumbersAreUnique
  BY DEF LedgerInvariant, Numbered
<1> QED BY <1>1, LedgerStaysInvariant, PTL

\* Nothing the desktop has not consumed is pruned, and no number is left out: what the
\* ledger keeps runs without a gap from the desktop's acknowledgement to the next number.
THEOREM UnconsumedIsKept == Spec => []UnconsumedRunIsComplete
<1>1. LedgerInvariant => UnconsumedRunIsComplete
  BY DEF LedgerInvariant, Numbered
<1> QED BY <1>1, LedgerStaysInvariant, PTL

=============================================================================
