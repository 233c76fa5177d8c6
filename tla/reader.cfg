SPECIFICATION FairSpec
CONSTANTS
  Companies = {"A", "B"}
  Lists = {"l", "m"}
  Requests = {"r", "q"}
  MaxToken = 2
  MaxVersion = 2
  Setups <- McSetups
INVARIANTS AnswerTrue NothingHidden NothingMissing
PROPERTIES EveryRequestEnds TokensNamed
