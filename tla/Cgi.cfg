\* Seven pipelines; buffers and pipes of two units; everything that may go wrong.
CONSTANTS
  Pipelines <- MCPipelines
  BufSize = 2
  PipeSize = 2
  Faults = {"fork", "execve", "fin", "reset"}
SPECIFICATION Spec
INVARIANTS TypeOK OwnInput OutputIntact WsgiKept OnlyCarelessPrograms
PROPERTIES Answered
CHECK_DEADLOCK FALSE
