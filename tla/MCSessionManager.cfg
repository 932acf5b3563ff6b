CONSTANTS
  c1 = c1
  c2 = c2
  extended = extended
  programming = programming
  Default = default
  Caller <- TwoCallers
  Sessions <- TwoSessions
  IdleBeats = 2
  S3Beats = 1

SPECIFICATION FairSpec

INVARIANT TypeOK
INVARIANT HeartbeatMatchesSession
INVARIANT NoTerminate
INVARIANT BookkeepingMatchesEcu
PROPERTY AbandonedEcuReverts
PROPERTY CallsReturn
