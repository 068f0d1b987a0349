\* Four runs, installations, edits or moves in any order, on eight kinds of computer.
CONSTANTS
  Hosts <- MCHosts
  Options <- MCOptions
  Names = {"work", "env", "opt"}
  Homes <- MCHomes
  MaxActs = 4
SPECIFICATION Spec
INVARIANTS TypeOK SuccessIsWhole FlagMatches LinesWhole NothingFetched
PROPERTIES OwnersFilesKept RelocationKeepsWorking
CHECK_DEADLOCK FALSE
