----------------------------- MODULE MCTuxLdisc -----------------------------
(* Instances of TuxLdisc: a behaviour receives bytes or puts them, not both;  *)
(* the two directions share nothing but the lock.                            *)
EXTENDS TuxLdisc

MCBounds == {<<9, 0>>, <<0, 7>>}

\* A byte put into the ring does not stay there: the wakeups drain it.
RingDrains == \A b \in 1..7 : (b \in InRing) ~> (b \notin InRing)

=============================================================================
