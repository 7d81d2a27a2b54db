\* Types; a message whose stream is over is not streaming.
SPECIFICATION ChatSpec
CONSTANTS
  Questions = {"who", "what"}
  Words <- SomeWords
INVARIANTS
  ChatTypeOK
  NoStreamLeftOpen
CHECK_DEADLOCK FALSE
