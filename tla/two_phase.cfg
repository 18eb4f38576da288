SPECIFICATION FairSpec
CONSTANTS
  Participants = {p1, p2}
  Worlds = {{"refuse", "throw", "log", "timeout", "crash", "recover"}, {"refuse", "timeout"}}
INVARIANTS
  TypeOK
  CommitNeedsEveryVote
  AgreementInTime
PROPERTIES
  ParticipantsAreReleased
  TransactionEnds
CHECK_DEADLOCK FALSE
