\* The host runs again and again over one output file; the other parts stop
\* when they have returned.
CONSTANTS
  LeafValues = {la, lb}
  MaxLeaves = 7
  ZeroHash = zero
  H <- MCH
  LeafVecs <- MCLeafVecs
  Indices <- MCIndices
  Presented <- LeafValues
  Sizes <- MCSizes
  Seeds = {1, 3, 8, 64}
  SourcePlanes <- MCPlanes
  Qps = {0, 1, 2, 8, 26, 51}
  Infinite = 1000000
  Levels = {0, 1, 2, 5, 9, 10}
  Tolerances <- MCTolerances
  Base = 2
  RootSize = 2
  DeviceIdSize = 2
  PubkeySize = 2
  SignatureSize = 3
  Inputs <- MCInputs
  Dark = Dark
  Light = Light
  Noise = Noise
  Lumas <- MCLumas
  PlanePsnr <- MCPlanePsnr
  Reconstruct <- MCReconstruct
  Requests <- MCRequests
  Claims <- MCClaims
SPECIFICATION MCSpec
INVARIANTS
  WalkBinds InBounds LoopsAgree
  Faithful FiguresFollowPlanes BytesBind
  SavedProofIsSound SmokePredictsGuest OutFileFollowsExit
PROPERTY Terminates
CHECK_DEADLOCK FALSE
