CONSTANTS
  c1 = c1
  c2 = c2
  extended = extended
  programming = programming
  Default = default
  Caller <- TwoCallers
  Sessions <- OneSession
  IdleBeats = 2
  S3Beats = 1

SPECIFICATION Spec

INVARIANT EscalatedHasHeartbeat
