CONSTANTS
  Starts = {0, 3, 6}
  MaxCount = 4
  WorkgroupSize = 2
  MaxGroups = 2
  Window = 5
  Peers = {p1, p2}
  Scenes = {"A", "B"}
  Nothing = nothing
  Attempts = 2
  MaxServing = 1
  MaxSignals = 1
  Renders <- MCRenders
  TileSide = 2
  Sizes = {1, 2}
  Renderers = {r1, r2}
  Nobody = nobody
  MaxSequence = 1
  MockTasks = {m1, m2, m3}
  HonestTasks = 1
  Judged = {j1, j2}
  Tokens = {t1, t2}
  NoToken = notoken
  Prior = 2
  Severities = {4}
  MaxPenalty = 6
  BlacklistBelow = 30
  TrustedAt = 60
  Cooldown = 1
  Agreement = 2
  MaxCopies = 3
  MaxRecord = 17
  MaxPrims = 6
  MaxMaterials = 2
  MaxLeafPrims = 1
  BlobNodes <- MCBlobNodes
  MaxNodes = 5
  BlobPrims = 1
  BlobPalettes <- MCBlobPalettes
  MaxBvhNodes = 7
  MaxBvhPrims = 5
  MaxBvhMaterials = 1
  BlobLimit = 26
  StackSize = 3
  Word = 16
  HeaderBytes = 1
  MaxEnvelope = 2
  MaxOutput = 2
  SizeMax = 8
  FrameSizes = {0, 1, 3, 5, 6}
  ChunkBytes = 2
  AssetSizes = {1, 2, 3, 5}
  Target = 6
  LeaseTime = 8
  ProbeDivisor = 2
  MinUnits = 1
  MaxUnits = 2
  Left = {1, 9}
  MinCorrection = 5
  MaxCorrection = 30
  Slowness = {1, 4}
  Throttles = {5, 10}
  MaxFlight = 2
  Sign = 8
  Infinite = 6
  Scale <- MCScale
  AbsEps = 1
  RelEps = 2
  Payloads <- MCPayloads
SPECIFICATION MCSpec
INVARIANTS
  ResultIsWhole
  BuffersComeBack
  RenderBooks
  PictureIsWhole
  ExperimentIsSound
  WatchedUntilTrusted
  BuiltTreeIsWalked
  LoadedIsWalkable
  FramesAgree
  ChunksAgree
  ComparisonIsSound
PROPERTIES
  FetchEnds
  OpenedSlotComesBack
  BlacklistEnds
  OversizedLearns
  StallForgotten
CHECK_DEADLOCK FALSE
