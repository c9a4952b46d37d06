\* Two threads on one file of at most two bytes.  int32_t has 8 values and
\* int64_t 32: the arguments of skip are 2^32 + 1, 2^31 + 1, the largest
\* int32_t and -1.
SPECIFICATION Spec
CONSTANTS
    Threads = {t1, t2}
    Files = {f1}
    NoFile = NoFile
    FdCount = 2
    ArrayLength = 3
    BufferSize = 2
    MaxSize = 2
    Narrow = 8
    Wide = 32
    Lengths = {3}
    SkipArguments = {9, 5, 3, 31}
SYMMETRY ThreadSymmetry
INVARIANTS
    TypeOK
    DescriptorsOwned
PROPERTIES
    WrittenAsGiven
    OnlyReadBytes
    SkipWithinFile
    AvailableIsRest
