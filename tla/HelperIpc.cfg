SPECIFICATION IpcSpec
CONSTANTS
  Commands <- MCCommands
  MaxRequests = 3
  MaxDepth = 2
  IpcFaults = {"fail", "die", "kill"}
INVARIANTS AnswerIsOwn MirrorFollows
PROPERTIES CallsReturn
