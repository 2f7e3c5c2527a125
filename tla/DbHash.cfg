CONSTANTS
  Files = {"a", "b"}
  MaxArgs = 4
  MaxFiles = 2
  MaxTables = 2
  MaxVersion = 2
SPECIFICATION FairSpec
INVARIANTS
  TypeOK FilesKept RunsAsAsked
  LineOfItsFile TablesOfOneMoment HashedAreClosed
PROPERTY Terminates
CHECK_DEADLOCK FALSE
