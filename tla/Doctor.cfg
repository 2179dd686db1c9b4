\* Stores without ollama, without models, with good, broken and foreign models;
\* two files added or removed while doctor runs.
CONSTANTS
  Names <- NamesMC
  Store <- StoreMC
  BlobName <- BlobMC
  WorkDir <- WorkDirMC
  FileName <- FileNameMC
  Machines <- Machine
  Stores <- StoresMC
  Pulls <- PullsMC
  MaxChanges = 2
SPECIFICATION Spec
INVARIANTS TrueVerdict ListedRuns ListsLibrary Released SameFile
CHECK_DEADLOCK FALSE
