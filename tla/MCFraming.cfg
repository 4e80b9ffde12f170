CONSTANTS
    garbage = garbage
    Packets <- MCPackets
    ReadBufSize = 8
    Radix = 4
    Garbage <- garbage
    MaxSent = 3
SPECIFICATION FairSpec
INVARIANTS TypeOK BufferMatchesStream
PROPERTIES StreamImplemented StreamServed
