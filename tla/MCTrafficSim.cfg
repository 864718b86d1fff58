\* Buffers of BUFF_SIZE = 2 (the code has 10, and the loop limit equals it);
\* index counters modulo 4 so that each slot is reused with a new car.
CONSTANTS
    B = 2
    Limit = 2
    M = 4
SPECIFICATION Spec
INVARIANTS FlagNeverWaitsOnFull MutualExclusion BufferAccounting
PROPERTY QueuesRefined CarsServedUnlessBothFull
