SPECIFICATION FilterSpec
CONSTANTS
    EOS = EOS
    FLUSH = FLUSH
    None = None
    BufSize = 2
    Bytes = 3
    MaxFlush = 1
    Wanted = {1, 2, 4}
    HeaderLen = 2
INVARIANTS
    Conserved
    FlushDelivers
PROPERTIES
    ImplementsStream
    EosEventually
