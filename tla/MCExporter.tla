----------------------------- MODULE MCExporter -----------------------------
(***************************************************************************)
(* One source, two things, two features, two properties, two values.       *)
(* t1 carries a feature with both properties and one with one property;    *)
(* t2 one feature.  The policies exercise a property filter with pruning,  *)
(* a feature left unconfigured, a wildcard selector, a downtime window the *)
(* clock passes through, and the "export nothing" policy of a missing      *)
(* policy file.                                                            *)
(***************************************************************************)
EXTENDS Exporter

CONSTANTS s1, t1, t2, f1, f2, p1, p2, v1, v2, Verify

Signed(vals) == [vals |-> vals, sig |-> vals]

MCInitDitto ==
    [s \in Sources |->
        [t \in Things |->
            IF t = t1
            THEN [f \in Features |-> IF f = f1 THEN Signed([p \in Props |-> v1])
                                     ELSE Signed([p \in Props |-> IF p = p1 THEN v1 ELSE Absent])]
            ELSE [f \in Features |-> IF f = f1 THEN Signed([p \in Props |-> v1]) ELSE Absent]]]

\* p1 of f1 only on every thing, with a downtime window at time 1.
FilterPolicy ==
    [sources |-> << [url |-> s1,
                     things |-> << [thing |-> Wildcard, downtime |-> [start |-> 1, end |-> 1],
                                    features |-> << [feature |-> f1, properties |-> {p1}] >>] >>] >>,
     verify |-> Verify]

\* Everything of t1, nothing of t2.
WildcardPolicy ==
    [sources |-> << [url |-> s1,
                     things |-> << [thing |-> t1, downtime |-> [start |-> 9, end |-> 9],
                                    features |-> << [feature |-> Wildcard,
                                                     properties |-> {Wildcard}] >>] >>] >>,
     verify |-> Verify]

\* load_config without a policy file.
NothingPolicy == [sources |-> << >>, verify |-> Verify]

MCPolicies == {FilterPolicy, WildcardPolicy, NothingPolicy}

MCProducerVals == {[p \in Props |-> v2], [p \in Props |-> IF p = p2 THEN v2 ELSE Absent]}

=============================================================================
