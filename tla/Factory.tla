------------------------------ MODULE Factory ------------------------------
(***************************************************************************)
(* The deployed pipeline: valve.py writes its signed state to Ditto, the   *)
(* exporter mirrors Ditto into BaSyx, and attack.py writes its embedded    *)
(* target straight into BaSyx.  ATTACK_CONFIG aims at the valve itself     *)
(* (attack.py 28-44: the openplc thing, feature coughsyrupvalve, property *)
(* open).  Three processes share two registries; each step is one of      *)
(* them.                                                                   *)
(***************************************************************************)
EXTENDS Valve, Attacker

factoryVars == <<vars, valveVars, atkVars>>

FTypeOK == VTypeOK /\ AtkTypeOK

FInit == VInit /\ AInit

FNext ==
    \/ Exporter /\ UNCHANGED <<valveVars, atkVars>>
    \/ /\ \/ ValveRun
          \/ Replay
          \/ Tick /\ UNCHANGED valveVars
       /\ UNCHANGED <<fails, targetVars, loopVars, atkVars>>
    \/ AttackSim /\ UNCHANGED valveVars

\* Only the exporter loop is assumed to keep running (see Valve, Attacker).
FSpec == FInit /\ [][FNext]_factoryVars
             /\ WF_factoryVars(Exporter /\ UNCHANGED <<valveVars, atkVars>>)

=============================================================================
