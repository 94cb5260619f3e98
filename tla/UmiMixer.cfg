SPECIFICATION UmiSpec
CONSTANTS
  r1 = r1
  r2 = r2
  Requests <- MCRequests
  MaxConnected = 1
  MaxNotifies = 2
INVARIANTS
  OneAnswerEach
  SubscribersTold
PROPERTIES
  MasterRequestsAnswered
