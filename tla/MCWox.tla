------------------------------- MODULE MCWox --------------------------------
EXTENDS Wox

\* The pids suffice for every fork the bounds allow: a fork never waits for
\* want of a pid.
ASSUME PidsSuffice ==
  Cardinality(Pid) >= WorkerNum * (1 + MaxReloads) + MaxCrashes
=============================================================================
