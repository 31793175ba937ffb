CONSTANTS
  Beat <- MCBeat
  MaxMisses <- MCMaxMisses
  Check <- MCCheck
  Slack <- MCSlack
  Stale <- MCStale
  Ttl <- MCTtl
  DownLimit <- MCDownLimit
SPECIFICATION Spec
INVARIANTS DeathPagedInTime BlindnessEscalates OneBlindPage NoFalseAlarm
