\* Two people, two callbacks at a time, two challenges, two codes.
SPECIFICATION Spec
CONSTANTS
  Users = {u1, u2}
  Callbacks = {h1, h2}
  Requests = {r1}
  MaxChallenges = 2
  MaxCodes = 2
  MaxSessions = 2
  MaxClock = 2
  ChallengeLife = 1
  SessionTTL = 1
  None = None
SYMMETRY Symmetry
INVARIANTS TypeOK SessionFollowsConsent
PROPERTIES AdmittedIsCurrent
