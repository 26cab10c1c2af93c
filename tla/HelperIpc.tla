------------------------------ MODULE HelperIpc ------------------------------
(* The conversation of the application with zarya-helper: requests and       *)
(* replies matched by their ids, events in between (ipc/IpcClient.cpp,       *)
(* ipc/IpcServer.cpp), the helper's commands (helper/HelperCommandServer.cpp)*)
(* and what the application believes of the kill switch                      *)
(* (helperclient/HelperProcessManager.cpp).  sendRequest runs the event loop *)
(* while it waits, so requests nest, and the slot of readyRead can take a    *)
(* reply from under the call that waits for it.  What the kill switch and    *)
(* the tunnel do by themselves is KillSwitch and TunSession.                 *)
EXTENDS Integers, Sequences

CONSTANTS Commands,      \* the commands in use
          MaxRequests,   \* requests in a behaviour
          MaxDepth,      \* requests within requests
          IpcFaults      \* what may go wrong, see IpcFaultKinds

\* "fail": a command of the helper fails.  "die": the helper ends by itself.
\* "kill": the application is killed and started again.
IpcFaultKinds == {"fail", "die", "kill"}
AllCommands == {"hello", "status", "killSwitchStatus", "killSwitchCheckSupport",
                "killSwitchEnable", "killSwitchDisable", "killSwitchRecover",
                "validateConfig", "compileRuleSet", "startTun", "stopTun"}

ASSUME IpcAssumption ==
  /\ "hello" \in Commands /\ Commands \subseteq AllCommands
  /\ MaxRequests \in Nat /\ MaxDepth \in Nat
  /\ IpcFaults \subseteq IpcFaultKinds

VARIABLES
  link,       \* the client's socket is connected
  state,      \* HelperProcessManager::m_state
  token,      \* m_token: kept once it was read
  mirror,     \* m_killSwitchState.status
  calls,      \* the calls of sendRequest that wait, the innermost last
  nextId,     \* the ids given so far
  process,    \* m_helperProcess runs: the child that this application started
  toHelper, toClient,      \* lines on their way, in order
  helper,     \* the helper that would answer, see Helpers
  installed,  \* the service is installed
  active,     \* m_activeClient: none, the client, or one that is gone
  ks,         \* the status of the helper's kill switch
  running,    \* the tunnel runs
  served,     \* history: what the helper answered to each request
  returned,   \* history: what the last call of sendRequest returned
  informed    \* history: this connection has told a status of the kill switch

client == <<link, state, token, mirror, calls, nextId, process>>
lines == <<toHelper, toClient>>
helperVars == <<helper, active, ks, running>>
history == <<served, returned, informed>>
ipcVars == <<client, lines, helperVars, installed, history>>

Kinds == {"child", "service"}
\* An orphan is the child of an application that was killed.  Of several helpers the one that
\* answers to the name in use is modelled.
Helpers == Kinds \cup {"orphan", "none"}
KnownStatuses == {"disabled", "enabled", "failed", "needsRecovery"}
States == {"NotRunning", "Connected", "Error"}
Ids == 1 .. MaxRequests
NotServed == [ok |-> FALSE, status |-> "none"]

\* What carries a status of the kill switch: its event, and the replies that
\* updateKillSwitchState is called with.
Informing == {"killSwitchStatus", "killSwitchCheckSupport", "killSwitchEnable",
              "killSwitchDisable", "killSwitchRecover", "stopTun"}

Reply(id, ok, value) == [type |-> "response", id |-> id, ok |-> ok, status |-> value]
KsEvent(value) == [type |-> "killSwitchState", id |-> 0, ok |-> TRUE, status |-> value]
ExitEvent == [type |-> "runtimeExited", id |-> 0, ok |-> TRUE, status |-> "none"]

IpcInit ==
  /\ link = FALSE /\ state = "NotRunning" /\ token = "none" /\ mirror = "disabled"
  /\ calls = <<>> /\ nextId = 0 /\ process = FALSE
  /\ toHelper = <<>> /\ toClient = <<>>
  /\ helper \in {"none", "service"} /\ installed = (helper = "service")
  /\ active = "none" /\ ks = "disabled" /\ running = FALSE
  /\ served = [id \in Ids |-> NotServed]
  /\ returned = [id |-> 0, ok |-> FALSE]
  /\ informed = FALSE

-----------------------------------------------------------------------------
(* The client                                                                *)

\* sendRequest up to its wait.
Requests(command, auth) ==
  /\ nextId < MaxRequests /\ Len(calls) < MaxDepth
  /\ nextId' = nextId + 1
  /\ calls' = Append(calls, [id |-> nextId', command |-> command])
  /\ toHelper' = Append(toHelper, [id |-> nextId', command |-> command, token |-> auth])

\* A command of the window, of a session or of a dialog; with a call waiting, one from
\* its event loop.
Send ==
  /\ link
  /\ \E command \in Commands \ {"hello"} : Requests(command, token)
  /\ UNCHANGED <<link, state, token, mirror, process, toClient, helperVars, installed, history>>

\* What the service manager says of the service, asked anew each time.
ServiceState ==
  IF ~installed THEN "NotInstalled" ELSE IF helper = "service" THEN "Running" ELSE "Stopped"

\* shouldUseInstalledService
UsesService == ServiceState # "NotInstalled"

\* ensureToken keeps what it has, whichever helper is meant now.
Token == IF token # "none" THEN token ELSE IF UsesService THEN "service" ELSE "child"

\* The name that is connected to is that of the installed service, which is never started, or
\* of any child.
Answers == helper # "none" /\ (UsesService => helper = "service")

\* A new child takes the name over; refreshStartupState goes by the marker that an earlier
\* helper left.
StartsChild ==
  /\ ~UsesService /\ helper \in {"none", "orphan"}
  /\ helper' = "child" /\ process' = TRUE
  /\ active' = "none" /\ running' = FALSE
  /\ ks' \in {"disabled", "needsRecovery"}

\* Also while an orphan answers startHelperDevMode starts a child; connectToHelper never does.
FindsHelper ==
  /\ Answers
  /\ process' \in {process} \cup (IF UsesService THEN {} ELSE {TRUE})
  /\ UNCHANGED helperVars

\* startHelperDevMode or connectToHelper, whatever m_state says, up to the wait for the answer
\* to hello.
ConnectHelper ==
  /\ ~link
  /\ token' = Token
  /\ Requests("hello", Token)
  /\ link' = TRUE
  /\ toClient' = <<>> /\ informed' = FALSE
  /\ StartsChild \/ FindsHelper
  /\ UNCHANGED <<state, mirror, installed, served, returned>>

\* A link that is up is used again, with hello sent anew.
ConnectAgain ==
  /\ link
  /\ token' = Token
  /\ Requests("hello", Token)
  /\ process' \in {process} \cup (IF UsesService THEN {} ELSE {TRUE})
  /\ UNCHANGED <<link, state, mirror, toClient, helperVars, installed, history>>

\* Nobody answers, or not yet, since waitForStarted does not wait until a child listens.
NobodyAnswers ==
  /\ ~link /\ ~Answers
  /\ \/ StartsChild
     \/ UNCHANGED <<process, helperVars>>

\* The executable of the helper is not found or cannot be started, with whatever link.
CannotStartChild ==
  /\ "fail" \in IpcFaults
  /\ ~UsesService /\ ~process
  /\ UNCHANGED <<process, helperVars>>

ConnectFails ==
  /\ NobodyAnswers \/ CannotStartChild
  /\ token' = Token /\ state' = "Error"
  /\ UNCHANGED <<link, mirror, calls, nextId, lines, installed, history>>

Top == calls[Len(calls)]
Popped == SubSeq(calls, 1, Len(calls) - 1)

\* A call of sendRequest comes back to HelperProcessManager.
Returns(ok) ==
  /\ calls' = Popped
  /\ returned' = [id |-> Top.id, ok |-> ok]
  /\ state' = IF Top.command = "hello" THEN IF ok THEN "Connected" ELSE "Error" ELSE state

\* Mutant of TakesReply: whatever reply comes is taken.
TakesAnyReply(message) == message.type = "response"

\* The reply that the innermost call waits for; all others are dropped.
TakesReply(message) == message.type = "response" /\ message.id = Top.id

\* Mutant of Handled: only readyRead's slot hands events on.
HandledBySlotOnly(message) ==
  IF message.type = "killSwitchState" /\ calls = <<>>
  THEN mirror' = message.status /\ informed' = TRUE ELSE UNCHANGED <<mirror, informed>>

\* The event handler, from the loop of sendRequest or from readyRead's slot.
Handled(message) ==
  IF message.type = "killSwitchState"
  THEN mirror' = message.status /\ informed' = TRUE ELSE UNCHANGED <<mirror, informed>>

\* The loop of the innermost sendRequest reads a line; an error counts as a failed call.
ReadReply ==
  /\ calls # <<>> /\ toClient # <<>>
  /\ TakesReply(Head(toClient))
  /\ LET message == Head(toClient)
     IN /\ Returns(message.ok)
        /\ IF message.ok /\ Top.command \in Informing
           THEN mirror' = message.status /\ informed' = TRUE
           ELSE UNCHANGED <<mirror, informed>>
  /\ toClient' = Tail(toClient)
  /\ UNCHANGED <<link, token, nextId, process, toHelper, helperVars, installed, served>>

ReadOther ==
  /\ calls # <<>> /\ toClient # <<>>
  /\ ~TakesReply(Head(toClient))
  /\ Handled(Head(toClient))
  /\ toClient' = Tail(toClient)
  /\ UNCHANGED <<link, state, token, calls, nextId, process, toHelper, helperVars, installed,
                 served, returned>>

\* readyRead's slot hands on events and drops every reply, also the one waited for.
SlotReads ==
  /\ toClient # <<>>
  /\ Handled(Head(toClient))
  /\ toClient' = Tail(toClient)
  /\ UNCHANGED <<link, state, token, calls, nextId, process, toHelper, helperVars, installed,
                 served, returned>>

\* Mutant of TimesOut: a call waits on when the link is gone.
TimesOutWhileLinked ==
  /\ calls # <<>> /\ link
  /\ Returns(FALSE)
  /\ UNCHANGED <<link, token, mirror, nextId, process, lines, helperVars, installed, served,
                 informed>>

\* The timer of the innermost call; those around it go on when it is back.
TimesOut ==
  /\ calls # <<>>
  /\ Returns(FALSE)
  /\ UNCHANGED <<link, token, mirror, nextId, process, lines, helperVars, installed, served,
                 informed>>

-----------------------------------------------------------------------------
(* The helper                                                                *)

\* setState tells the active client of every change before the reply is written; the
\* passing states "enabling" and "disabling" leave the client's status alone.
Answer(request, ok, value, events) ==
  /\ toClient' = toClient \o events \o <<Reply(request.id, ok, value)>>
  /\ served' = [served EXCEPT ![request.id] = [ok |-> ok, status |-> value]]

\* handleRequest's commands that change nothing; validateConfig and compileRuleSet may fail.
Asks(request) ==
  /\ request.command \notin {"killSwitchEnable", "killSwitchDisable", "killSwitchRecover",
                             "startTun", "stopTun"}
  /\ \/ Answer(request, TRUE,
               IF request.command = "killSwitchCheckSupport" THEN "disabled" ELSE ks, <<>>)
     \/ /\ "fail" \in IpcFaults
        /\ request.command \in {"validateConfig", "compileRuleSet"}
        /\ Answer(request, FALSE, ks, <<>>)
  /\ UNCHANGED <<ks, running>>

Enables(request) ==
  /\ request.command = "killSwitchEnable"
  /\ ks' \in {"enabled"} \cup IF "fail" \in IpcFaults THEN {"failed"} ELSE {}
  /\ Answer(request, ks' = "enabled", ks', <<KsEvent(ks')>>)
  /\ UNCHANGED running

\* Where disable of the kill switch ends.
Off == {"disabled"} \cup IF "fail" \in IpcFaults THEN {"failed"} ELSE {}

Disables(request) ==
  /\ request.command \in {"killSwitchDisable", "killSwitchRecover"}
  /\ ks' \in Off
  /\ Answer(request, ks' = "disabled", ks', <<KsEvent(ks')>>)
  /\ UNCHANGED running

\* A second start is refused, and turns the kill switch off like any that fails, if the
\* request says so.
Starts(request) ==
  /\ request.command = "startTun"
  /\ \/ /\ ~running /\ running' = TRUE
        /\ Answer(request, TRUE, ks, <<>>)
        /\ UNCHANGED ks
     \/ /\ running \/ "fail" \in IpcFaults
        /\ \/ ks' \in Off /\ Answer(request, FALSE, ks', <<KsEvent(ks')>>)
           \/ UNCHANGED ks /\ Answer(request, FALSE, ks, <<>>)
        /\ UNCHANGED running

Stops(request) ==
  /\ request.command = "stopTun"
  /\ \/ /\ running' = FALSE
        /\ \/ ks' \in Off /\ Answer(request, TRUE, ks', <<KsEvent(ks')>>)
           \/ UNCHANGED ks /\ Answer(request, TRUE, ks, <<>>)
     \/ /\ "fail" \in IpcFaults
        /\ Answer(request, FALSE, ks, <<>>)
        /\ UNCHANGED <<ks, running>>

HelperToken == IF helper = "service" THEN "service" ELSE "child"

\* processLine: a token that is not the helper's is answered without the handler.
Refuse(request) ==
  /\ request.token # HelperToken
  /\ Answer(request, FALSE, ks, <<>>)
  /\ UNCHANGED <<active, ks, running>>

Handle(request) ==
  /\ request.token = HelperToken
  /\ active' = "client"
  /\ Asks(request) \/ Enables(request) \/ Disables(request) \/ Starts(request) \/ Stops(request)

Serve ==
  /\ helper # "none" /\ toHelper # <<>>
  /\ Refuse(Head(toHelper)) \/ Handle(Head(toHelper))
  /\ toHelper' = Tail(toHelper)
  /\ UNCHANGED <<client, helper, installed, returned, informed>>

\* sing-box ends by itself and the client is told, twice if the kill switch blocks.  The
\* application tells the user which it was by its mirror.
RuntimeExits ==
  /\ helper # "none" /\ running
  /\ running' = FALSE
  /\ toClient' = IF active # "client" THEN toClient
                 ELSE toClient \o <<ExitEvent>>
                               \o IF ks = "enabled" THEN <<KsEvent(ks)>> ELSE <<>>
  /\ UNCHANGED <<client, toHelper, helper, active, ks, installed, history>>

\* Everything that ends a helper.
HelperLost ==
  /\ helper' = "none" /\ active' = "none" /\ ks' = "disabled" /\ running' = FALSE
  /\ link' = FALSE /\ toHelper' = <<>>
  /\ UNCHANGED <<token, mirror, calls, nextId, installed, history>>

\* The end of the child that was started is noticed and empties the buffer.  That of another
\* helper is not noticed, and lines that arrived can still be read.
ChildDies ==
  /\ "die" \in IpcFaults
  /\ helper = "child"
  /\ state' = "NotRunning" /\ toClient' = <<>> /\ process' = FALSE
  /\ HelperLost

\* The child that was started is not the helper that answers, but its end disconnects.
SpareChildDies ==
  /\ "die" \in IpcFaults
  /\ process /\ helper # "child"
  /\ process' = FALSE /\ state' = "NotRunning" /\ link' = FALSE
  /\ toHelper' = <<>> /\ toClient' = <<>>
  /\ active' = IF active = "client" THEN "gone" ELSE active
  /\ UNCHANGED <<token, mirror, calls, nextId, helper, ks, running, installed, history>>

UnwatchedDies ==
  /\ "die" \in IpcFaults
  /\ helper \in {"service", "orphan"}
  /\ UNCHANGED <<state, toClient, process>>
  /\ HelperLost

\* An event for a client that has gone is sent through a socket that was deleted.
StaleClientUsed ==
  /\ helper # "none" /\ active = "gone"
  /\ UNCHANGED <<state, toClient, process>>
  /\ HelperLost

-----------------------------------------------------------------------------
(* The service and the application                                           *)

\* install of the service manager, from the settings or by hand.
InstallService ==
  /\ ~installed
  /\ installed' = TRUE
  /\ UNCHANGED <<client, lines, helperVars, history>>

\* A command of sc.exe, which may fail.
ScOutcomes == {TRUE} \cup (IF "fail" \in IpcFaults THEN {FALSE} ELSE {})

\* uninstall stops the service first; it stays installed if it cannot be deleted then.
UninstallService ==
  /\ installed
  /\ \E deleted \in ScOutcomes : installed' = ~deleted
  /\ IF helper = "service"
     THEN /\ helper' = "none" /\ active' = "none" /\ ks' = "disabled" /\ running' = FALSE
          /\ link' = FALSE /\ toHelper' = <<>>
     ELSE UNCHANGED <<helper, active, ks, running, link, toHelper>>
  /\ UNCHANGED <<state, token, mirror, calls, nextId, process, toClient, history>>

\* The system or the user starts it; an orphan is not asked for from then on.
StartService ==
  /\ installed
  /\ helper = "none" \/ (helper = "orphan" /\ ~link)
  /\ helper' = "service" /\ active' = "none" /\ running' = FALSE
  /\ ks' \in {"disabled", "needsRecovery"}
  /\ UNCHANGED <<client, lines, installed, history>>

\* Stopping the service shuts it down: tunnel and kill switch off.
StopService ==
  /\ helper = "service"
  /\ UNCHANGED <<state, toClient, process>>
  /\ HelperLost

\* A child ends with the application, as when the system ends both, or outlives it.  A helper
\* that lives on keeps the pointer to the socket of the client.
KillApplication ==
  /\ "kill" \in IpcFaults
  /\ link' = FALSE /\ state' = "NotRunning" /\ token' = "none" /\ mirror' = "disabled"
  /\ calls' = <<>> /\ toHelper' = <<>> /\ toClient' = <<>> /\ process' = FALSE
  /\ informed' = FALSE
  /\ \/ /\ helper = "child" /\ helper' = "none"
        /\ active' = "none" /\ ks' = "disabled" /\ running' = FALSE
     \/ /\ helper' = IF helper = "child" THEN "orphan" ELSE helper
        /\ active' = IF active = "client" THEN "gone" ELSE active
        /\ UNCHANGED <<ks, running>>
  /\ UNCHANGED <<nextId, installed, served, returned>>

IpcNext ==
  \/ Send \/ ConnectHelper \/ ConnectAgain \/ ConnectFails
  \/ ReadReply \/ ReadOther \/ SlotReads \/ TimesOut
  \/ Serve \/ RuntimeExits \/ ChildDies \/ SpareChildDies \/ UnwatchedDies \/ StaleClientUsed
  \/ InstallService \/ UninstallService \/ StartService \/ StopService
  \/ KillApplication

\* The event loop of sendRequest sees its timer.
IpcSpec == IpcInit /\ [][IpcNext]_ipcVars /\ WF_ipcVars(TimesOut)

-----------------------------------------------------------------------------
(* Properties                                                                *)

\* A call of sendRequest succeeds only with the answer that the helper gave to that very
\* request: no late reply of a call that timed out, of a call around it or of an earlier
\* connection is taken for it (IpcClient::sendRequest).
AnswerIsOwn == returned.ok => served[returned.id].ok

\* Once told, the application believes of the kill switch what the helper does as soon
\* as every line is read, with whatever calls lost their replies in between
\* (HelperProcessManager::updateKillSwitchState).
MirrorFollows == link /\ informed /\ toClient = <<>> => mirror = ks

\* Every call comes back, also when the helper is gone or another call is made within
\* it (the timer in sendRequest).
CallsReturn == calls # <<>> ~> calls = <<>>
=============================================================================
