--------------------------- MODULE SourceDeletion ---------------------------
(***************************************************************************)
(* The exporter while things and features disappear from the source       *)
(* registry: a DELETE of a thing or of one feature in Ditto, as when a     *)
(* simulator is removed.  Nothing in the repository issues these requests; *)
(* Ditto accepts them from any holder of the shared Basic credential, and  *)
(* they are the case spec.md 9 leaves open.                                *)
(***************************************************************************)
EXTENDS Exporter

DeleteThing(s, t) ==
    /\ EnvStep /\ ditto[s][t] # Absent
    /\ ditto' = [ditto EXCEPT ![s][t] = Absent]
    /\ UNCHANGED <<policyFile, now, signed>>

DeleteFeature(s, t, f) ==
    /\ EnvStep /\ ditto[s][t] # Absent /\ ditto[s][t][f] # Absent
    /\ PutFeature(s, t, f, Absent)
    /\ UNCHANGED <<policyFile, now, signed>>

SourceDelete ==
    \E s \in Sources, t \in Things :
        \/ DeleteThing(s, t)
        \/ \E f \in Features : DeleteFeature(s, t, f)

DNext ==
    \/ Next
    \/ SourceDelete /\ UNCHANGED <<fails, targetVars, loopVars>>

DSpec == Init /\ [][DNext]_vars /\ WF_vars(Exporter)

=============================================================================
