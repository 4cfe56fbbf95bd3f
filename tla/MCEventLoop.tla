---------------------------- MODULE MCEventLoop -----------------------------
(* Instances of EventLoop for TLC: the threads are interchangeable.        *)
EXTENDS EventLoop, TLC

ThreadSymmetry == Permutations(Threads)

=============================================================================
