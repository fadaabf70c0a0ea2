----------------------------- MODULE MCScheduler -----------------------------
(* One one-shot entry: until it has run it behaves as a recurring one.     *)
EXTENDS Scheduler

CONSTANT e1

McEntries == {e1}
=============================================================================
