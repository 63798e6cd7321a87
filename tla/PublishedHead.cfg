SPECIFICATION FairSpec
CONSTANTS
  MergeAttempts = 2
  ResyncLimit = 1
  MaxCandidates = 2
  Changes <- AllChanges
  MaxChanges = 1
  MaxFaults = 2
  MaxResumes = 1
INVARIANTS
  TypeOK
  MergesWhatPassed
  MergeBudget
  ClosesDelivered
  OwnWritesKnown
PROPERTIES
  CompletesOwnClose
  NoReplacementPr
  Settles
