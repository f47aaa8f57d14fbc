CONSTANTS
  Dark = Dark
  Light = Light
  Noise = Noise
  SignedLuma <- MCSignedLuma
  Tolerances = {20, 40}
  Infinite = 1000000
  ZeroHash = zero
  H <- MCH
  PlanePsnr <- MCPlanePsnr
  Claims <- MCClaims
  Frames <- MCFrames
SPECIFICATION MCSpec
INVARIANTS
  AcceptedBlocksAreBound GuestAgreesWithNative
PROPERTY BothKeepContract
CHECK_DEADLOCK FALSE
