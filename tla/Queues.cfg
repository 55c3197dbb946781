\* Queue: two producers and two consumers around a queue of two pointers, large
\* enough for the indices to wrap, for both sides to block, and for a thread
\* that was signalled to be overtaken.  Any thread may be cancelled at any
\* moment, and the queue is flushed once its producers are gone.
\* SeqQueue: three blocks in flight and numbers modulo 4, so that every window
\* of numbers wraps around, and the blocks arrive in any order.  The producers
\* may be stopped at any moment.
\* Both may stop: once everybody is cancelled or joined and the queue flushed,
\* nothing need be left to do.  No symmetry, because of the liveness property.
CONSTANTS
    p1 = p1  p2 = p2  c1 = c1  c2 = c2  d1 = d1  d2 = d2  none = none
    b1 = b1  b2 = b2  b3 = b3
    Producers <- MCProducers
    Consumers <- MCConsumers
    Data <- MCData
    Capacity = 2
    None = none
    Cancellable <- MCThreads
    Blocks <- MCBlocks
    SeqMod = 4
    Interrupt = TRUE
SPECIFICATION QueuesSpec
INVARIANTS NoLostWakeup NoLostMainWakeup CountsExact NumbersInFlight
PROPERTIES ImplementsFIFO EveryBlockDelivered
CHECK_DEADLOCK FALSE
