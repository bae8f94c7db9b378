CONSTANTS
  Base = 3
  AES_BLOCK_SIZE = 2
  Half = 2
SPECIFICATION ResyncSpec
INVARIANTS HeardAgain AnswerHelps
