\* Two questions, chunks cut anywhere, a stream that may break anywhere.
SPECIFICATION FairChatSpec
CONSTANTS
  Questions = {"who", "what"}
  Words <- SomeWords
INVARIANTS
  ShowsTheAnswer
PROPERTY
  AnswersEnd
CHECK_DEADLOCK FALSE
