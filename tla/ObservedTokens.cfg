CONSTANTS
    s1 = s1
    s2 = s2
    Stream <- TwoStreams
    TokenCount = {0, 1, 2, 3, 4, 5, 6, 7, 8, 9, 10, 11, 12}
    Duration = {0, 1}
    Speed <- PerSecond
    UsageOf <- Usage
    ByteOf <- BytesOf
    Body <- Bodies
SPECIFICATION MSpec
INVARIANT ObservedCounted
