SPECIFICATION FairSpec
CONSTANTS
    Request = {r1, r2, r3}
    Lenient = {r1}
    Untagged = {r3}
    Code = {200, 403}
    None = None
PROPERTIES
    RequestReplySpec
    ExchangeEnds
CHECK_DEADLOCK FALSE
