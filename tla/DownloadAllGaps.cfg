\* Two torrents of one blob each, two workers.  CachedHandleIsFresh and
\* BankedIsVerified (INVARIANT) fail as it is, DropForgetsBank (PROPERTY) and
\* CompletionIsBacked with DropUnresolved = TRUE, CompletionIsBacked also with
\* Overlap = TRUE, LostIsFetchedAgain (PROPERTY) with SPECIFICATION LossSpec,
\* MayLose <- MCTwoPaths, one reader and one worker.
SPECIFICATION DaSpec
CONSTANTS
  r1 = r1
  r2 = r2
  w1 = w1
  w2 = w2
  p1 = p1
  p2 = p2
  p3 = p3
  d1 = d1
  d2 = d2
  h1 = h1
  h2 = h2
  h3 = h3
  None = None
  Readers <- MCReaders
  Removers <- MCTwoRemovers
  Paths <- MCTwoPaths
  Dirs <- MCDirs
  Dir <- MCApart
  Handles <- MCHandles
  Max = 1
  MaxClock = 3
  MaxInode = 2
  DropUnresolved = FALSE
  Overlap = FALSE
  MayLose <- MCNothing
  MaxFaults = 1
INVARIANT
  CachedHandleIsFresh
