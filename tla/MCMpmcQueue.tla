----------------------------- MODULE MCMpmcQueue -----------------------------
\* Small instances of MpmcQueue.
EXTENDS MpmcQueue, TLC

\* A queue asked to hold one element gets two cells.
MCCapacity == RoundUpPow2(1)

\* Threads of one kind are interchangeable.
QueueSymmetry == Permutations(Producers) \cup Permutations(Consumers)
=============================================================================
