SPECIFICATION FairSpec
CONSTANTS
  Pkg <- FourPkgs
  DepGraphs <- FourGraphs
  Unanswered <- NoRuleForB
  MaxDepths = {0, 2}
INVARIANTS TypeOK CollectsAll NothingLost DepthRespected
PROPERTIES Terminates
CHECK_DEADLOCK FALSE
