CONSTANTS
    Thread = {a, b, c, d}
    Nobody = Nobody
    Message = {m1, m2}
SPECIFICATION FairSpec
PROPERTY ImplementsRendezvous
PROPERTY SenderMeetsReceiver
\* A channel with only senders or only receivers stops.
CHECK_DEADLOCK FALSE
