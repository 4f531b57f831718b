SPECIFICATION FairSpec
CONSTANTS
  Input = {"i1", "i2", "i3"}
  Submission <- MCSubmission
  Denom = {"d1", "d2"}
  MaxTransactions = 2
  QueueTimeout = 2
  SigningTimeout = 1
  None = None
INVARIANTS UsersBacked EntriesUniform SignaturesKept
PROPERTIES SessionsEnd
