SPECIFICATION Spec
CONSTANTS
  Caller = {cli_thread, worker}
  Cli = cli_thread
  Worker = worker
  NULL = NULL
  NUL = NUL
  LINE_SIZE = 20
  MAX_HISTORY = 2
  MAX_ARG_LEN = 12
  HOST <- MCHost
  command_group <- MCGroup
  action_files <- MCFiles
  Loads <- MCLoads
  Chunk <- MCChunk
INVARIANTS Durable  TokensKeepText TerminalRestored  
PROPERTIES ImplementsEditor SigintEnds  AgentStops
CHECK_DEADLOCK FALSE
