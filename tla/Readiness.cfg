SPECIFICATION FairSpec
CONSTANTS
  p1 = p1
  p2 = p2
  sink = sink
  llm = llm
  Caller = {p1, p2}
  Dep = {sink, llm}
  Checkers <- MCCheckers
  TTL = 2
  MaxCheck = 1
INVARIANT AnswersRecent
PROPERTY RefusedEventuallyPasses
