CONSTANTS
    Thread = {w, a, b}
    Nobody = Nobody
    Worker = w
    Sender = {x, y}
    MaxAppends = 2
SPECIFICATION MailSpec
INVARIANTS
    WaitersAreAccountedFor
    
    PacketsKeepOrder
    OneSendAtATime
PROPERTIES
    ItemsArePopped
    SendsReturn
    PacketsReachTheBox
\* When all is sent the readers may wait for ever.
CHECK_DEADLOCK FALSE
