SPECIFICATION FairSpec
CONSTANTS
  Sockets = {s1, s2, s3}
  Broadcasts = {b1, b2}
INVARIANTS TypeOK SentOnce MissesBounded ConnectedStaysListed
PROPERTIES ServesAudience FailedLeaves
