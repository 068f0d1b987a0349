\* Four requests of two browsers, every interleaving of their processes with init_db.
CONSTANTS
  Browsers <- MCBrowsers
  Parallel <- MCParallel
  Kinds = {"show", "add", "login", "logout"}
  MaxRequests = 4
  Troubles = {"kill", "init_db"}
SPECIFICATION Spec
INVARIANTS TypeOK AnswerTellsOutcome OnlyMembersPost ReadsOwnEntries FlashedOnce SessionFollows
CHECK_DEADLOCK FALSE
