------------------------------ MODULE MCValve ------------------------------
(***************************************************************************)
(* One valve (thing t1, feature f1) on one source, exported whole with     *)
(* signature verification on.  Its properties are "open" (a boolean) and   *)
(* "timestamp" (the clock).  The valve starts open at time 0.              *)
(***************************************************************************)
EXTENDS Valve

CONSTANTS s1, t1, f1

MCValues == {JTrue, JFalse} \cup (0..MaxTime)

StartBundle ==
    LET vals == [p \in Props |-> IF p = POpen THEN JTrue ELSE 0] IN [vals |-> vals, sig |-> vals]

MCValveDitto == [s \in Sources |-> [t \in Things |-> [f \in Features |-> StartBundle]]]

ValvePolicy ==
    [sources |-> << [url |-> s1,
                     things |-> << [thing |-> t1, downtime |-> [start |-> 9, end |-> 9],
                                    features |-> << [feature |-> f1,
                                                     properties |-> {Wildcard}] >>] >>] >>,
     verify |-> TRUE]

ValvePolicies == {ValvePolicy}

NoProducerVals == {}

=============================================================================
