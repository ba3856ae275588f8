----------------------------- MODULE MCAttacker -----------------------------
(***************************************************************************)
(* The exporter instance of MCExporter with the attack simulator aimed at  *)
(* t1's feature f1, property p1 (as ATTACK_CONFIG aims at the valve's      *)
(* "open"), writing vA, a value no producer signs.                          *)
(***************************************************************************)
EXTENDS Attacker, MCExporter

CONSTANTS vA

\* The source served by attack_2.py: the same things and features, every
\* signature random (generate_random_signature).
MCForgedDitto ==
    [s \in Sources |-> [t \in Things |->
        [f \in Features |-> IF MCInitDitto[s][t][f] = Absent THEN Absent
                            ELSE [MCInitDitto[s][t][f] EXCEPT !.sig = Forged]]]]

=============================================================================
