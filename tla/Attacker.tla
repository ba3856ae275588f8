------------------------------ MODULE Attacker ------------------------------
(***************************************************************************)
(* attack.py composed with the exporter: a second writer to the target    *)
(* registry.  Every ATTACK_INTERVAL the attack simulator runs one cycle    *)
(* over its embedded targets (one, as configured: a thing, a feature, a    *)
(* property and a value no producer signs).  For the target it ensures the *)
(* shell, then the submodel and its link, then upserts the element, each   *)
(* with its own check-then-create against the same registry the exporter *)
(* checks and creates in.  Every helper catches RequestException and       *)
(* returns False or None, so a failed request ends the attack on that     *)
(* target for this cycle; nothing raises out of the loop.                  *)
(***************************************************************************)
EXTENDS Exporter

CONSTANTS
    AtkThing, AtkFeature, AtkProp, AtkValue,  \* ATTACK_CONFIG's one target
    MaxAttacks                                \* bound on attack cycles

VARIABLES
    apc,      \* where simulate_attack is
    attacks   \* attack cycles started

atkVars == <<apc, attacks>>
aAllVars == <<vars, atkVars>>

APCs == {"idle", "shell_get", "shell_create", "sm_get", "sm_create", "sm_link",
         "elem_get", "elem_create", "elem_update"}

AtkSubmodel == <<AtkThing, AtkFeature>>

AtkTypeOK ==
    /\ TypeOK
    /\ apc \in APCs /\ attacks \in 0..MaxAttacks
    /\ AtkThing \in Things /\ AtkFeature \in Features /\ AtkProp \in Props
    /\ AtkValue \in Values

AInit == Init /\ apc = "idle" /\ attacks = 0

\* Every attacker request leaves the exporter's loop alone.
AtkStep(ok, next) ==
    /\ Failed(ok) /\ apc' = next
    /\ UNCHANGED <<envVars, loopVars, attacks>>

\* run_continuous_attacks / execute_attack_cycle (287-298, 243-265): the
\* embedded target passes the field check of line 260; simulate_attack
\* starts with get_basyx_shell.
AtCycle ==
    /\ apc = "idle" /\ attacks < MaxAttacks
    /\ apc' = "shell_get" /\ attacks' = attacks + 1
    /\ UNCHANGED <<vars>>

\* Line 222, get_basyx_shell (74-83): a RequestException is caught and
\* reads as None, i.e. as "no shell".
AtShellGet ==
    /\ apc = "shell_get"
    /\ \E ok \in Outcomes :
        /\ AtkStep(ok, IF ok /\ AtkThing \in shells THEN "sm_get" ELSE "shell_create")
        /\ UNCHANGED targetVars

\* Lines 223-224, create_basyx_shell (86-103): POST /shells; a 409 or a
\* failure returns False and the target is given up for this cycle.
AtShellCreate ==
    /\ apc = "shell_create"
    /\ \E ok \in Outcomes :
        IF ok /\ AtkThing \notin shells
        THEN /\ AtkStep(ok, "sm_get")
             /\ shells' = shells \cup {AtkThing}
             /\ shellRefs' = [shellRefs EXCEPT ![AtkThing] = {}]
             /\ UNCHANGED <<submodels, elements>>
        ELSE AtkStep(ok, "idle") /\ UNCHANGED targetVars

\* Line 230, get_basyx_submodel (106-115), None on a RequestException.
AtSmGet ==
    /\ apc = "sm_get"
    /\ \E ok \in Outcomes :
        /\ AtkStep(ok, IF ok /\ AtkSubmodel \in submodels THEN "elem_get" ELSE "sm_create")
        /\ UNCHANGED targetVars

\* create_basyx_submodel, first request (118-134).
AtSmCreate ==
    /\ apc = "sm_create"
    /\ \E ok \in Outcomes :
        IF ok /\ AtkSubmodel \notin submodels
        THEN /\ AtkStep(ok, "sm_link")
             /\ submodels' = submodels \cup {AtkSubmodel}
             /\ elements' = [elements EXCEPT ![AtkSubmodel] = NoElements]
             /\ UNCHANGED <<shells, shellRefs>>
        ELSE AtkStep(ok, "idle") /\ UNCHANGED targetVars

\* create_basyx_submodel, second request (136-149): POST the submodel-ref;
\* a failure returns False after the submodel was created.
AtSmLink ==
    /\ apc = "sm_link"
    /\ \E ok \in Outcomes :
        IF ok /\ AtkThing \in shells
        THEN /\ AtkStep(ok, "elem_get")
             /\ shellRefs' = [shellRefs EXCEPT ![AtkThing] = @ \cup {AtkFeature}]
             /\ UNCHANGED <<shells, submodels, elements>>
        ELSE AtkStep(ok, "idle") /\ UNCHANGED targetVars

\* update_basyx_element, the check (155-161): 404 creates, every other
\* status updates; a RequestException returns False.
AtElemGet ==
    /\ apc = "elem_get"
    /\ \E ok \in Outcomes :
        /\ AtkStep(ok, IF ~ok THEN "idle"
                       ELSE IF elements[AtkSubmodel][AtkProp] = Absent
                            THEN "elem_create" ELSE "elem_update")
        /\ UNCHANGED targetVars

AtkWrite == elements' = [elements EXCEPT ![AtkSubmodel][AtkProp] = AtkValue]

\* Lines 162-171: POST the element (404 without the submodel, 409 when the
\* element exists by now); either way the cycle is over (235-240).
AtElemCreate ==
    /\ apc = "elem_create"
    /\ \E ok \in Outcomes :
        /\ AtkStep(ok, "idle")
        /\ IF ok /\ AtkSubmodel \in submodels /\ elements[AtkSubmodel][AtkProp] = Absent
           THEN AtkWrite ELSE UNCHANGED elements
        /\ UNCHANGED <<shells, shellRefs, submodels>>

\* Lines 172-176: PATCH $value (404 when the element or submodel is gone).
AtElemUpdate ==
    /\ apc = "elem_update"
    /\ \E ok \in Outcomes :
        /\ AtkStep(ok, "idle")
        /\ IF ok /\ AtkSubmodel \in submodels /\ elements[AtkSubmodel][AtkProp] # Absent
           THEN AtkWrite ELSE UNCHANGED elements
        /\ UNCHANGED <<shells, shellRefs, submodels>>

AttackSim ==
    \/ AtCycle \/ AtShellGet \/ AtShellCreate \/ AtSmGet \/ AtSmCreate
    \/ AtSmLink \/ AtElemGet \/ AtElemCreate \/ AtElemUpdate

ANext ==
    \/ Exporter /\ UNCHANGED atkVars
    \/ Environment /\ UNCHANGED <<fails, targetVars, loopVars, atkVars>>
    \/ AttackSim

\* Only the exporter loop is assumed to keep running; attack cycles are
\* bounded by MaxAttacks and may stop at any point.
ASpec == AInit /\ [][ANext]_aAllVars /\ WF_aAllVars(Exporter /\ UNCHANGED atkVars)

-----------------------------------------------------------------------------
(* Properties.                                                             *)

(***************************************************************************)
(* A shell create that meets a shell created since the check counts as    *)
(* success (spec.md 4.4 step 4: "tolerate the create racing with another  *)
(* create by treating 'already exists' as success"): when the exporter's   *)
(* POST /shells (exporter.py 442, create_basyx_shell 144-159) gets an     *)
(* answer while the shell is there, the loop goes on to the submodel of   *)
(* that feature rather than abandoning the source.                        *)
(***************************************************************************)
ShellCreateTolerated ==
    [][ (pc = "rc_shell_create" /\ pc' # pc /\ fails' = fails /\ thing \in shells)
          => pc' = "rc_sm_get" ]_aAllVars

(***************************************************************************)
(* Injected values do not last: once the attacks stop, the target ends up  *)
(* holding only values a valid signature covered, and keeps doing so.      *)
(* The exporter overwrites an element only while the feature passes the   *)
(* gate and the property is selected and present at the source (exporter.py*)
(* 453-473), and cleanup removes only properties the source reports        *)
(* (290-298).                                                               *)
(***************************************************************************)
EventuallyAuthentic == <>[]AuthenticMirror

=============================================================================
