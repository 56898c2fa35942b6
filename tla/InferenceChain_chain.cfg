SPECIFICATION Spec
CONSTANTS
  groq = groq
  cloudflare = cloudflare
  sambanova = sambanova
  Tiers = {groq, cloudflare, sambanova}
  Window = 2
  FailureThreshold <- Thresholds
  Callers = {c1, c2}
  Chain <- FullChain
  QuotaKind <- Kind
  Kinds = {"call", "stream"}
  Ceiling = 1
  PoolCeiling = 1
  MaxWalks = 3
  MaxDays = 1
  MaxFaults = 1
SYMMETRY Symmetry
INVARIANTS
  ChainTypeOK
  BreakersSound
  OneTierOutput
  InFlightWithinCeiling
CHECK_DEADLOCK FALSE
