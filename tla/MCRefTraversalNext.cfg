CONSTANTS
  MaxBlocks <- MCMaxBlocks
  MaxBlockLen <- MCMaxBlockLen
SPECIFICATION Spec
INVARIANT NextAlwaysVisited
