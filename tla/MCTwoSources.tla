---------------------------- MODULE MCTwoSources ----------------------------
(***************************************************************************)
(* Two source registries holding the same thing ids (MCInitDitto gives     *)
(* every source t1 and t2).  The policy exports all of t1 from s1 and only *)
(* t2's f1 from s2.                                                         *)
(***************************************************************************)
EXTENDS MCExporter

CONSTANTS s2

SharedIdPolicy ==
    [sources |-> << [url |-> s1,
                     things |-> << [thing |-> t1, downtime |-> [start |-> 9, end |-> 9],
                                    features |-> << [feature |-> Wildcard,
                                                     properties |-> {Wildcard}] >>] >> ],
                    [url |-> s2,
                     things |-> << [thing |-> t2, downtime |-> [start |-> 9, end |-> 9],
                                    features |-> << [feature |-> f1, properties |-> {p1}] >>] >> ] >>,
     verify |-> Verify]

SharedPolicies == {SharedIdPolicy}

=============================================================================
