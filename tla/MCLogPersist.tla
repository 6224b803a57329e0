------------------------------ MODULE MCLogPersist ------------------------------
(* Instances of LogPersist for TLC.  The two reader slots of log_stream.h.   *)
EXTENDS LogPersist

TwoReaders == 0 .. 1
===============================================================================
