CONSTANTS
  Order <- MCOrder
  InGame <- ThreeColors
  BoardSize = 4
  Sides = 3
  Config <- ThreeConfig
  Starts <- ThreeStarts
  BotSets <- SomeHuman
SPECIFICATION FairSpec
INVARIANT TypeOK
INVARIANT OnePawnPerSpot
PROPERTY KeepsRules
PROPERTY RequestEnds
\* the page stays on the result once the game is over
CHECK_DEADLOCK FALSE
