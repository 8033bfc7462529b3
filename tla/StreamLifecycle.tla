--------------------------- MODULE StreamLifecycle ---------------------------
(***************************************************************************)
(* What SinkSDDS does with the streams upstream opens, seen from outside:  *)
(* a stream that arrives becomes the current one when there is none and    *)
(* otherwise waits on deck, displacing the stream that waited there; a     *)
(* waiting stream may become current, a current one ends, and a stream     *)
(* that has ended or was dropped never comes back.                         *)
(*                                                                         *)
(* Strict is the promise of README.md and SinkSDDS.prf.xml: a waiting      *)
(* stream becomes current only when no other one is, and it keeps its      *)
(* place until then unless a newer stream takes it.                        *)
(***************************************************************************)
CONSTANTS Streams, Strict

VARIABLE status   \* of each stream

States == {"unseen", "current", "waiting", "gone"}
InState(st) == {s \in Streams : status[s] = st}

LifecycleInit == status = [s \in Streams |-> "unseen"]

Accept(s) ==
    /\ status[s] = "unseen"
    /\ InState("current") = {}
    /\ status' = [status EXCEPT ![s] = "current"]

Park(s) ==
    /\ status[s] = "unseen"
    /\ InState("current") # {}
    /\ status' = [t \in Streams |-> IF t = s THEN "waiting"
                                    ELSE IF status[t] = "waiting" THEN "gone"
                                    ELSE status[t]]

Promote(s) ==
    /\ status[s] = "waiting"
    /\ Strict => InState("current") = {}
    /\ status' = [status EXCEPT ![s] = "current"]

Drop(s) ==
    /\ ~Strict
    /\ status[s] = "waiting"
    /\ status' = [status EXCEPT ![s] = "gone"]

Finish(s) ==
    /\ status[s] = "current"
    /\ status' = [status EXCEPT ![s] = "gone"]

LifecycleNext ==
    \E s \in Streams : Accept(s) \/ Park(s) \/ Promote(s) \/ Drop(s) \/ Finish(s)

LifecycleSpec == LifecycleInit /\ [][LifecycleNext]_status

=============================================================================
