------------------------------ MODULE Exporter ------------------------------
(***************************************************************************)
(* The exporter loop of exporter.py (lines 390-486) and the two registries *)
(* it talks to.  One cycle: load the policy file, run the cleanup pass     *)
(* (cleanup_basyx_resources), then the reconciliation pass over every      *)
(* source entry, then sleep.  Each registry call of the loop is one step,  *)
(* so that the environment (producers writing to the source registry, the *)
(* policy file being edited, the clock) interleaves between calls exactly  *)
(* as it can between the blocking HTTP requests of the real loop.          *)
(*                                                                         *)
(* Source registry (Ditto): ditto[s][t] is Absent or maps each feature to *)
(* its property bundle or Absent.  Target registry (BaSyx): the set of     *)
(* shells (keyed by thing id), each shell's submodel-refs, the set of      *)
(* submodels (keyed by <<thing, feature>>, the "thing:feature" id) and the *)
(* elements of each submodel.  Loop iteration order over things, features *)
(* and properties is whatever the registries return, so the model picks   *)
(* any element not yet visited.                                            *)
(***************************************************************************)
EXTENDS ExportPolicy, FiniteSets

CONSTANTS
    Policies,     \* policy documents the policy file may hold
    InitPolicy,   \* the policy file at start
    InitDitto,    \* the source registry at start
    ProducerVals, \* property mappings a producer (valve, notifier) may write
    MaxTime,      \* bound on the clock
    MaxEnv,       \* bound on writes to the source registry and policy edits
    MaxFail       \* bound on failed registry calls

SubmodelIds == Things \X Features

DittoThing == [Features -> Bundle \cup {Absent}] \cup {Absent}

NoFeatures == [f \in Features |-> Absent]

NoElements == [p \in Props |-> Absent]

VARIABLES
    \* environment
    ditto, policyFile, now, envSteps, fails,
    signed,      \* history: <<t, f, p, v>> some valid signature ever covered
    \* target registry
    shells, shellRefs, submodels, elements,
    \* exporter
    pc, cfg, srcIdx, thingsLeft, thing, feats, featsLeft, hasExports,
    feat, sel, propsLeft, prop, toRemove, elemsToRemove

envVars == <<ditto, policyFile, now, envSteps, signed>>
targetVars == <<shells, shellRefs, submodels, elements>>
loopVars == <<pc, cfg, srcIdx, thingsLeft, thing, feats, featsLeft, hasExports,
              feat, sel, propsLeft, prop, toRemove, elemsToRemove>>
vars == <<envVars, fails, targetVars, loopVars>>

PCs == {"load", "cl_source", "cl_thing", "cl_delete", "rc_source", "rc_thing",
        "rc_feature", "rc_shell_get", "rc_shell_create", "rc_sm_get",
        "rc_sm_create", "rc_sm_link", "rc_elem_get", "rc_elem_create",
        "rc_elem_update", "sleep"}

\* <<t, f, p, v>> for every property value a valid signature of b covers.
SignedBy(t, f, b) ==
    IF verify_feature_signature(b) THEN {<<t, f, p, b.vals[p]>> : p \in Present(b)} ELSE {}

InitSigned ==
    {x \in Things \X Features \X Props \X Values :
        \E s \in Sources : /\ InitDitto[s][x[1]] # Absent
                          /\ InitDitto[s][x[1]][x[2]] # Absent
                          /\ x \in SignedBy(x[1], x[2], InitDitto[s][x[1]][x[2]])}

TypeOK ==
    /\ ditto \in [Sources -> [Things -> DittoThing]]
    /\ policyFile \in Policies /\ cfg \in Policies
    /\ now \in 0..MaxTime /\ envSteps \in 0..MaxEnv /\ fails \in 0..MaxFail
    /\ shells \subseteq Things
    /\ shellRefs \in [Things -> SUBSET Features]
    /\ submodels \subseteq SubmodelIds
    /\ elements \in [SubmodelIds -> PropVals]
    /\ pc \in PCs
    /\ srcIdx \in Nat /\ thingsLeft \subseteq Things /\ thing \in Things \cup {Absent}
    /\ feats \in [Features -> Bundle \cup {Absent}] /\ featsLeft \subseteq Features
    /\ hasExports \in BOOLEAN /\ feat \in Features \cup {Absent}
    /\ sel \in Selectors \cup {Absent} /\ propsLeft \subseteq Props /\ prop \in Props \cup {Absent}
    /\ toRemove \subseteq ({"shell"} \X Things) \cup ({"submodel"} \X SubmodelIds)
    /\ elemsToRemove \subseteq SubmodelIds \X Props

Init ==
    /\ ditto = InitDitto /\ policyFile = InitPolicy /\ now = 0
    /\ envSteps = 0 /\ fails = 0 /\ signed = InitSigned
    /\ shells = {} /\ shellRefs = [t \in Things |-> {}]
    /\ submodels = {} /\ elements = [sm \in SubmodelIds |-> NoElements]
    /\ pc = "load" /\ cfg = InitPolicy /\ srcIdx = 1 /\ thingsLeft = {}
    /\ thing = Absent /\ feats = NoFeatures /\ featsLeft = {} /\ hasExports = FALSE
    /\ feat = Absent /\ sel = Absent /\ propsLeft = {} /\ prop = Absent
    /\ toRemove = {} /\ elemsToRemove = {}

-----------------------------------------------------------------------------
(* Registry calls.  A call either answers or raises (transport error,      *)
(* non-2xx on raise_for_status); Outcomes are the answers the next call    *)
(* may get, a failure only while the failure budget lasts.                 *)

Outcomes == IF fails < MaxFail THEN {TRUE, FALSE} ELSE {TRUE}

Failed(ok) == fails' = IF ok THEN fails ELSE fails + 1

SourceUrl == cfg.sources[srcIdx].url

\* get_ditto_things: the things the source registry currently holds.
ListThings(s) == {t \in Things : ditto[s][t] # Absent}

PresentFeatures(fs) == {f \in Features : fs[f] # Absent}

Resolve(s, t, f) == get_export_config(s, t, f, cfg, now)

-----------------------------------------------------------------------------
(* Scheduler: load_config at the top of the loop (exporter.py 391-393,    *)
(* 16-29).  A missing or unparsable file yields the "export nothing"       *)
(* policy, which is one of the Policies.                                   *)

load_config ==
    /\ pc = "load"
    /\ cfg' = policyFile
    /\ pc' = "cl_source"
    /\ srcIdx' = 1 /\ toRemove' = {} /\ elemsToRemove' = {}
    /\ UNCHANGED <<envVars, fails, targetVars, thingsLeft, thing, feats, featsLeft,
                   hasExports, feat, sel, propsLeft, prop>>

-----------------------------------------------------------------------------
(* cleanup_basyx_resources (exporter.py 226-323).  The whole scan and the *)
(* deletions sit in one try block: any exception (a source or thing fetch *)
(* failing, the resolver raising) ends the pass, and the items queued so   *)
(* far are never deleted (lines 321-323).                                  *)

CleanupAborted ==
    /\ pc' = "rc_source" /\ srcIdx' = 1
    /\ toRemove' = {} /\ elemsToRemove' = {} /\ thingsLeft' = {}

\* Lines 243-251: next source entry, get_ditto_things.
ClSource ==
    /\ pc = "cl_source"
    /\ IF srcIdx > Len(cfg.sources)
       THEN /\ pc' = "cl_delete" /\ fails' = fails
            /\ UNCHANGED <<srcIdx, thingsLeft, toRemove, elemsToRemove>>
       ELSE \E ok \in Outcomes :
              /\ Failed(ok)
              /\ IF ok THEN /\ thingsLeft' = ListThings(SourceUrl) /\ pc' = "cl_thing"
                            /\ UNCHANGED <<srcIdx, toRemove, elemsToRemove>>
                       ELSE CleanupAborted
    /\ UNCHANGED <<envVars, targetVars, cfg, thing, feats, featsLeft, hasExports,
                   feat, sel, propsLeft, prop>>

\* A variant that queues the submodels of an unexported thing under the
\* shell tag.
UnjustifiedMistagged(t, present, exported) ==
    IF exported = {}
    THEN {<<"shell", t>>} \cup {<<"shell", <<t, f>>>> : f \in present}
    ELSE {<<"submodel", <<t, f>>>> : f \in present \ exported}

\* Lines 268-286: the shell and every submodel of a thing none of whose
\* features is exported; otherwise the submodels of its unexported features.
Unjustified(t, present, exported) ==
    IF exported = {}
    THEN {<<"shell", t>>} \cup {<<"submodel", <<t, f>>>> : f \in present}
    ELSE {<<"submodel", <<t, f>>>> : f \in present \ exported}

\* Lines 253-299 for one thing: get_ditto_features (raises on a thing gone
\* since the listing), resolve every feature, queue what is unjustified.
ClThing ==
    /\ pc = "cl_thing"
    /\ IF thingsLeft = {}
       THEN /\ srcIdx' = srcIdx + 1 /\ pc' = "cl_source" /\ fails' = fails
            /\ UNCHANGED <<thingsLeft, toRemove, elemsToRemove>>
       ELSE \E t \in thingsLeft, ok \in Outcomes :
              LET s == SourceUrl
                  fs == ditto[s][t]
                  present == IF fs = Absent THEN {} ELSE PresentFeatures(fs)
                  res == [f \in present |-> Resolve(s, t, f)]
                  exported == {f \in present : IsSelector(res[f])}
              IN
              /\ Failed(ok)
              /\ IF ~ok \/ fs = Absent \/ \E f \in present : res[f] = Raised
                 THEN CleanupAborted
                 ELSE /\ thingsLeft' = thingsLeft \ {t}
                      /\ toRemove' = toRemove \cup Unjustified(t, present, exported)
                      /\ elemsToRemove' = elemsToRemove \cup
                           {e \in ({t} \X exported) \X Props : e[2] \in Pruned(res[e[1][2]], fs[e[1][2]])}
                      /\ UNCHANGED <<srcIdx, pc>>
    /\ UNCHANGED <<envVars, targetVars, cfg, thing, feats, featsLeft, hasExports,
                   feat, sel, propsLeft, prop>>

\* delete_basyx_shell / delete_basyx_submodel (lines 170-195, 306-312):
\* a 404 or a failed request is logged and the pass goes on.
ClDeleteItem ==
    /\ pc = "cl_delete"
    /\ \E item \in toRemove, ok \in Outcomes :
        /\ Failed(ok)
        /\ toRemove' = toRemove \ {item}
        /\ IF item[1] = "shell"
           THEN /\ shells' = IF ok THEN shells \ {item[2]} ELSE shells
                /\ shellRefs' = IF ok /\ item[2] \in shells
                                THEN [shellRefs EXCEPT ![item[2]] = {}] ELSE shellRefs
                /\ UNCHANGED <<submodels, elements>>
           ELSE /\ submodels' = IF ok THEN submodels \ {item[2]} ELSE submodels
                /\ elements' = IF ok THEN [elements EXCEPT ![item[2]] = NoElements] ELSE elements
                /\ UNCHANGED <<shells, shellRefs>>
    /\ UNCHANGED <<envVars, pc, cfg, srcIdx, thingsLeft, thing, feats, featsLeft,
                   hasExports, feat, sel, propsLeft, prop, elemsToRemove>>

\* delete_basyx_element (lines 198-209, 315-317), after all shells and
\* submodels.
ClDeleteElement ==
    /\ pc = "cl_delete" /\ toRemove = {}
    /\ \E e \in elemsToRemove, ok \in Outcomes :
        /\ Failed(ok)
        /\ elemsToRemove' = elemsToRemove \ {e}
        /\ elements' = IF ok THEN [elements EXCEPT ![e[1]][e[2]] = Absent] ELSE elements
    /\ UNCHANGED <<envVars, shells, shellRefs, submodels, pc, cfg, srcIdx, thingsLeft,
                   thing, feats, featsLeft, hasExports, feat, sel, propsLeft, prop, toRemove>>

\* Line 319: the pass ends; the loop goes on to the export (line 398).
ClDone ==
    /\ pc = "cl_delete" /\ toRemove = {} /\ elemsToRemove = {}
    /\ pc' = "rc_source" /\ srcIdx' = 1
    /\ UNCHANGED <<envVars, fails, targetVars, cfg, thingsLeft, thing, feats, featsLeft,
                   hasExports, feat, sel, propsLeft, prop, toRemove, elemsToRemove>>

-----------------------------------------------------------------------------
(* The export pass (exporter.py 407-483).  Each source entry has its own  *)
(* try block: an exception anywhere in it abandons the rest of that source *)
(* and the loop goes on with the next entry (lines 481-483).               *)

ThingDone == /\ thing' = Absent /\ feats' = NoFeatures /\ featsLeft' = {}
             /\ hasExports' = FALSE
FeatureDone == /\ feat' = Absent /\ sel' = Absent /\ propsLeft' = {} /\ prop' = Absent

SourceAborted ==
    /\ srcIdx' = srcIdx + 1 /\ pc' = "rc_source" /\ thingsLeft' = {}
    /\ ThingDone /\ FeatureDone

\* Lines 410-419: next source entry, get_ditto_things; past the last entry
\* the loop goes to sleep (line 485).
RcSource ==
    /\ pc = "rc_source"
    /\ IF srcIdx > Len(cfg.sources)
       THEN /\ pc' = "sleep" /\ fails' = fails /\ UNCHANGED <<srcIdx, thingsLeft>>
       ELSE \E ok \in Outcomes :
              /\ Failed(ok)
              /\ IF ok THEN /\ thingsLeft' = ListThings(SourceUrl) /\ pc' = "rc_thing"
                            /\ UNCHANGED srcIdx
                       ELSE /\ srcIdx' = srcIdx + 1 /\ UNCHANGED <<pc, thingsLeft>>
    /\ UNCHANGED <<envVars, targetVars, cfg, thing, feats, featsLeft, hasExports,
                   feat, sel, propsLeft, prop, toRemove, elemsToRemove>>

\* Lines 420-425: next thing, get_ditto_features (the snapshot every later
\* step of this thing reads), thing_has_exports = False.
RcThing ==
    /\ pc = "rc_thing"
    /\ IF thingsLeft = {}
       THEN /\ srcIdx' = srcIdx + 1 /\ pc' = "rc_source" /\ fails' = fails
            /\ UNCHANGED <<thingsLeft, thing, feats, featsLeft, hasExports>>
       ELSE \E t \in thingsLeft, ok \in Outcomes :
              /\ Failed(ok)
              /\ IF ok /\ ditto[SourceUrl][t] # Absent
                 THEN /\ thing' = t /\ feats' = ditto[SourceUrl][t]
                      /\ featsLeft' = PresentFeatures(ditto[SourceUrl][t])
                      /\ hasExports' = FALSE /\ thingsLeft' = thingsLeft \ {t}
                      /\ pc' = "rc_feature" /\ UNCHANGED srcIdx
                 ELSE SourceAborted
    /\ UNCHANGED <<envVars, targetVars, cfg, toRemove, elemsToRemove, feat, sel, propsLeft, prop>>

\* A variant that goes to the submodel without ensuring the shell first.
RcFeatureNoShell ==
    /\ pc = "rc_feature"
    /\ IF featsLeft = {}
       THEN /\ pc' = "rc_thing" /\ ThingDone
            /\ UNCHANGED <<srcIdx, thingsLeft, feat, sel, propsLeft, prop>>
       ELSE \E f \in featsLeft :
              LET r == Resolve(SourceUrl, thing, f) IN
              IF r = Raised THEN SourceAborted
              ELSE /\ featsLeft' = featsLeft \ {f}
                   /\ IF r = NotConfigured
                      THEN UNCHANGED <<pc, feat, sel>>
                      ELSE /\ feat' = f /\ sel' = r /\ pc' = "rc_sm_get"
                   /\ UNCHANGED <<srcIdx, thingsLeft, thing, feats, hasExports, propsLeft, prop>>
    /\ UNCHANGED <<envVars, fails, targetVars, cfg, toRemove, elemsToRemove>>

\* Lines 432-443: next feature, get_export_config; None skips the feature,
\* an exception abandons the source, the first exported feature of the thing
\* goes to the shell check.
RcFeature ==
    /\ pc = "rc_feature"
    /\ IF featsLeft = {}
       THEN /\ pc' = "rc_thing" /\ ThingDone
            /\ UNCHANGED <<srcIdx, thingsLeft, feat, sel, propsLeft, prop>>
       ELSE \E f \in featsLeft :
              LET r == Resolve(SourceUrl, thing, f) IN
              IF r = Raised THEN SourceAborted
              ELSE /\ featsLeft' = featsLeft \ {f}
                   /\ IF r = NotConfigured
                      THEN UNCHANGED <<pc, feat, sel>>
                      ELSE /\ feat' = f /\ sel' = r
                           /\ pc' = IF hasExports THEN "rc_sm_get" ELSE "rc_shell_get"
                   /\ UNCHANGED <<srcIdx, thingsLeft, thing, feats, hasExports, propsLeft, prop>>
    /\ UNCHANGED <<envVars, fails, targetVars, cfg, toRemove, elemsToRemove>>

\* Line 441: get_basyx_shell.
RcShellGet ==
    /\ pc = "rc_shell_get"
    /\ IF thing \in shells
       THEN /\ pc' = "rc_sm_get" /\ hasExports' = TRUE
       ELSE /\ pc' = "rc_shell_create" /\ UNCHANGED hasExports
    /\ UNCHANGED <<envVars, fails, targetVars, cfg, srcIdx, thingsLeft, thing, feats,
                   featsLeft, feat, sel, propsLeft, prop, toRemove, elemsToRemove>>

\* Lines 442-443, create_basyx_shell (144-159): POST /shells, which fails
\* with 409 when a shell with that id exists by now.
RcShellCreate ==
    /\ pc = "rc_shell_create"
    /\ \E ok \in Outcomes :
        /\ Failed(ok)
        /\ IF ok /\ thing \notin shells
           THEN /\ shells' = shells \cup {thing}
                /\ shellRefs' = [shellRefs EXCEPT ![thing] = {}]
                /\ hasExports' = TRUE /\ pc' = "rc_sm_get"
                /\ UNCHANGED <<srcIdx, thingsLeft, thing, feats, featsLeft, feat, sel, propsLeft, prop>>
           ELSE /\ SourceAborted /\ UNCHANGED <<shells, shellRefs>>
    /\ UNCHANGED <<envVars, submodels, elements, cfg, toRemove, elemsToRemove>>

\* A variant that upserts only the properties without an element yet.
StartPropertiesCreateOnly ==
    /\ propsLeft' = IF cfg.verify /\ ~verify_feature_signature(feats[feat])
                    THEN {}
                    ELSE {p \in Filtered(sel, feats[feat]) : elements[<<thing, feat>>][p] = Absent}
    /\ pc' = "rc_elem_get"

\* Lines 453-469: with verify_signatures on, a feature whose bundle fails
\* verify_feature_signature writes no element (the shell and submodel stay);
\* otherwise the filtered properties of the snapshot are upserted.
StartProperties ==
    /\ propsLeft' = IF cfg.verify /\ ~verify_feature_signature(feats[feat])
                    THEN {} ELSE Filtered(sel, feats[feat])
    /\ pc' = "rc_elem_get"

\* Line 448: get_basyx_submodel.
RcSubmodelGet ==
    /\ pc = "rc_sm_get"
    /\ IF <<thing, feat>> \in submodels THEN StartProperties
       ELSE /\ pc' = "rc_sm_create" /\ UNCHANGED propsLeft
    /\ UNCHANGED <<envVars, fails, targetVars, cfg, srcIdx, thingsLeft, thing, feats,
                   featsLeft, hasExports, feat, sel, prop, toRemove, elemsToRemove>>

\* create_basyx_submodel, first request (lines 331-342): POST /submodels.
RcSubmodelCreate ==
    /\ pc = "rc_sm_create"
    /\ \E ok \in Outcomes :
        /\ Failed(ok)
        /\ IF ok /\ <<thing, feat>> \notin submodels
           THEN /\ submodels' = submodels \cup {<<thing, feat>>}
                /\ elements' = [elements EXCEPT ![<<thing, feat>>] = NoElements]
                /\ pc' = "rc_sm_link"
                /\ UNCHANGED <<srcIdx, thingsLeft, thing, feats, featsLeft, hasExports,
                               feat, sel, propsLeft, prop>>
           ELSE /\ SourceAborted /\ UNCHANGED <<submodels, elements>>
    /\ UNCHANGED <<envVars, shells, shellRefs, cfg, toRemove, elemsToRemove>>

\* create_basyx_submodel, second request (lines 344-353): POST the
\* reference to /shells/{thing}/submodel-refs (404 when the shell is gone).
RcSubmodelLink ==
    /\ pc = "rc_sm_link"
    /\ \E ok \in Outcomes :
        /\ Failed(ok)
        /\ IF ok /\ thing \in shells
           THEN /\ shellRefs' = [shellRefs EXCEPT ![thing] = @ \cup {feat}]
                /\ StartProperties
                /\ UNCHANGED <<srcIdx, thingsLeft, thing, feats, featsLeft, hasExports,
                               feat, sel, prop>>
           ELSE /\ SourceAborted /\ UNCHANGED shellRefs
    /\ UNCHANGED <<envVars, shells, submodels, elements, cfg, toRemove, elemsToRemove>>

\* Lines 472-473, update_basyx_element (364-372): GET the element; when the
\* filtered properties are exhausted, on to the next feature.
RcElemGet ==
    /\ pc = "rc_elem_get"
    /\ IF propsLeft = {}
       THEN /\ pc' = "rc_feature" /\ FeatureDone
       ELSE \E p \in propsLeft :
              /\ prop' = p /\ propsLeft' = propsLeft \ {p}
              /\ pc' = IF elements[<<thing, feat>>][p] = Absent
                       THEN "rc_elem_create" ELSE "rc_elem_update"
              /\ UNCHANGED <<feat, sel>>
    /\ UNCHANGED <<envVars, fails, targetVars, cfg, srcIdx, thingsLeft, thing, feats,
                   featsLeft, hasExports, toRemove, elemsToRemove>>

\* A variant that reads the value from the source registry when it writes
\* instead of from the snapshot the gate checked.
WriteElementLive ==
    elements' = [elements EXCEPT ![<<thing, feat>>][prop] =
                    ditto[SourceUrl][thing][feat].vals[prop]]

\* The value written is the one of the snapshot taken by get_ditto_features.
WriteElement ==
    elements' = [elements EXCEPT ![<<thing, feat>>][prop] = feats[feat].vals[prop]]

\* Lines 373-382: POST the element (404 when the submodel is gone, 409
\* when the element exists by now).
RcElemCreate ==
    /\ pc = "rc_elem_create"
    /\ \E ok \in Outcomes :
        /\ Failed(ok)
        /\ IF ok /\ <<thing, feat>> \in submodels /\ elements[<<thing, feat>>][prop] = Absent
           THEN /\ WriteElement /\ pc' = "rc_elem_get" /\ prop' = Absent
                /\ UNCHANGED <<srcIdx, thingsLeft, thing, feats, featsLeft, hasExports,
                               feat, sel, propsLeft>>
           ELSE /\ SourceAborted /\ UNCHANGED elements
    /\ UNCHANGED <<envVars, shells, shellRefs, submodels, cfg, toRemove, elemsToRemove>>

\* Lines 383-387: PATCH the element's $value (404 when it is gone).
RcElemUpdate ==
    /\ pc = "rc_elem_update"
    /\ \E ok \in Outcomes :
        /\ Failed(ok)
        /\ IF ok /\ <<thing, feat>> \in submodels /\ elements[<<thing, feat>>][prop] # Absent
           THEN /\ WriteElement /\ pc' = "rc_elem_get" /\ prop' = Absent
                /\ UNCHANGED <<srcIdx, thingsLeft, thing, feats, featsLeft, hasExports,
                               feat, sel, propsLeft>>
           ELSE /\ SourceAborted /\ UNCHANGED elements
    /\ UNCHANGED <<envVars, shells, shellRefs, submodels, cfg, toRemove, elemsToRemove>>

\* Lines 485-486: time.sleep(POLL_INTERVAL), then the next cycle.
Sleep ==
    /\ pc = "sleep"
    /\ pc' = "load" /\ srcIdx' = 1 /\ thingsLeft' = {}
    /\ UNCHANGED <<envVars, fails, targetVars, cfg, thing, feats, featsLeft, hasExports,
                   feat, sel, propsLeft, prop, toRemove, elemsToRemove>>

Exporter ==
    \/ load_config
    \/ ClSource \/ ClThing \/ ClDeleteItem \/ ClDeleteElement \/ ClDone
    \/ RcSource \/ RcThing \/ RcFeature \/ RcShellGet \/ RcShellCreate
    \/ RcSubmodelGet \/ RcSubmodelCreate \/ RcSubmodelLink
    \/ RcElemGet \/ RcElemCreate \/ RcElemUpdate \/ Sleep

-----------------------------------------------------------------------------
(* The environment.  Producers (valve.py open/close, notifier.py notify)  *)
(* PUT a whole feature whose properties are signed by sign.py; a writer    *)
(* without the private key changes one property and leaves the signature; *)
(* the mock source of attack_2.py serves features with random signatures; *)
(* the policy file is edited; the clock advances.                          *)

EnvStep == envSteps < MaxEnv /\ envSteps' = envSteps + 1

PutFeature(s, t, f, b) ==
    ditto' = [ditto EXCEPT ![s][t] = [@ EXCEPT ![f] = b]]

Produce(s, t, f, vals) ==
    /\ EnvStep /\ ditto[s][t] # Absent
    /\ PutFeature(s, t, f, [vals |-> vals, sig |-> vals])
    /\ signed' = signed \cup SignedBy(t, f, [vals |-> vals, sig |-> vals])
    /\ UNCHANGED <<policyFile, now>>

Tamper(s, t, f, p, v) ==
    /\ EnvStep /\ ditto[s][t] # Absent /\ ditto[s][t][f] # Absent
    /\ ditto[s][t][f].vals[p] # v
    /\ PutFeature(s, t, f, [ditto[s][t][f] EXCEPT !.vals[p] = v])
    /\ UNCHANGED <<policyFile, now, signed>>

Forge(s, t, f, vals) ==
    /\ EnvStep /\ ditto[s][t] # Absent
    /\ PutFeature(s, t, f, [vals |-> vals, sig |-> Forged])
    /\ UNCHANGED <<policyFile, now, signed>>

EditPolicy(p) ==
    /\ EnvStep /\ p # policyFile
    /\ policyFile' = p
    /\ UNCHANGED <<ditto, now, signed>>

Tick ==
    /\ now < MaxTime /\ now' = now + 1
    /\ UNCHANGED <<ditto, policyFile, envSteps, signed>>

Environment ==
    \/ \E s \in Sources, t \in Things, f \in Features, vals \in ProducerVals :
          Produce(s, t, f, vals) \/ Forge(s, t, f, vals)
    \/ \E s \in Sources, t \in Things, f \in Features, p \in Props, v \in Values :
          Tamper(s, t, f, p, v)
    \/ \E p \in Policies : EditPolicy(p)
    \/ Tick

Next ==
    \/ Exporter
    \/ Environment /\ UNCHANGED <<fails, targetVars, loopVars>>

\* The loop runs forever (while True, line 391); nothing forces the
\* environment to act.
Spec == Init /\ [][Next]_vars /\ WF_vars(Exporter)

-----------------------------------------------------------------------------
(* Properties.                                                             *)

(***************************************************************************)
(* No unauthenticated data in the target: when every policy the exporter  *)
(* may load has verify_signatures on, every element in the target holds a *)
(* value that some valid signature covered for that thing, feature and     *)
(* property, although bundles are forged and tampered with between the    *)
(* loop's requests (exporter.py 453-473: the gate and the writes both read *)
(* the snapshot taken by get_ditto_features).                              *)
(***************************************************************************)
AuthenticMirror ==
    (\A p \in Policies : p.verify) =>
        \A sm \in SubmodelIds, p \in Props :
            elements[sm][p] # Absent => <<sm[1], sm[2], p, elements[sm][p]>> \in signed

Listed(s) == \E i \in 1..Len(cfg.sources) : cfg.sources[i].url = s

(***************************************************************************)
(* The target mirrors the current policy and source registry: for every   *)
(* thing of a listed source, its shell exists iff some feature of it is    *)
(* exported; a feature's submodel exists iff it is exported; an exported *)
(* feature has no element for a property its selector excludes, and when  *)
(* its bundle passes the gate (or the gate is off) every selected property *)
(* holds the source's value.  This is what cleanup (226-323) followed by  *)
(* the export pass (407-483) is meant to establish.                        *)
(***************************************************************************)
Mirrored ==
    /\ cfg = policyFile
    /\ \A s \in Sources, t \in Things :
        (Listed(s) /\ ditto[s][t] # Absent) =>
            LET fs == ditto[s][t]
                present == PresentFeatures(fs)
                res == [f \in present |-> Resolve(s, t, f)]
            IN
            /\ t \in shells <=> \E f \in present : IsSelector(res[f])
            /\ \A f \in present :
                 /\ <<t, f>> \in submodels <=> IsSelector(res[f])
                 /\ IsSelector(res[f]) =>
                      \A p \in Present(fs[f]) :
                        IF Wildcard \in res[f] \/ p \in res[f]
                        THEN (~cfg.verify \/ verify_feature_signature(fs[f])) =>
                                elements[<<t, f>>][p] = fs[f].vals[p]
                        ELSE elements[<<t, f>>][p] = Absent

(***************************************************************************)
(* Convergence: once the source, the policy file and the clock stop       *)
(* changing and the registries stop failing, the periodic re-run (the only *)
(* retry mechanism, spec.md 7) brings the target to a mirror of them and  *)
(* keeps it there.                                                         *)
(***************************************************************************)
MirrorConverges == <>[]Mirrored

(***************************************************************************)
(* Shell references end up matching the submodels: from some point on,    *)
(* every shell references exactly the submodels of its thing.  spec.md 4.4 *)
(* step 5 creates a missing submodel "and links it to the Shell"; the code *)
(* links only right after creating it (create_basyx_submodel 344-353) and  *)
(* its existence check (448) never looks at the link, while cleanup        *)
(* deletes submodels (311) and never touches a shell's references.         *)
(***************************************************************************)
RefsMatchSubmodels ==
    <>[](\A t \in shells : shellRefs[t] = {f \in Features : <<t, f>> \in submodels})

(***************************************************************************)
(* With verify_signatures on, the loop implements the target-registry     *)
(* contract of TargetRegistry, seen through the registry's resources: a   *)
(* shell is the set of its submodel-refs, a submodel its elements, and a  *)
(* deleted shell or submodel is no resource at all.  Every write of an    *)
(* element carries a signed value into an existing submodel, every        *)
(* submodel is created under an existing shell (the shell check of lines  *)
(* 438-443 precedes the submodel check of line 448 for each thing), and   *)
(* every reference links an existing submodel.                             *)
(***************************************************************************)
Target == INSTANCE TargetRegistry WITH
    aas <- [t \in shells |-> shellRefs[t]],
    sms <- [sm \in submodels |-> elements[sm]]

RefinesTargetRegistry == Target!RegSpec

(***************************************************************************)
(* A failed request aborts only its own unit of work (spec.md 7 (a), and  *)
(* "no error in processing one source may prevent other sources from being*)
(* processed"): when cleanup gives up (exporter.py 321-323) it has queued  *)
(* no deletion it then drops and it is at the last source entry, so no    *)
(* other thing or source loses its cleanup in this cycle.                  *)
(***************************************************************************)
CleanupAbortContained ==
    [][ (pc \in {"cl_source", "cl_thing"} /\ pc' = "rc_source")
          => /\ toRemove = {} /\ elemsToRemove = {}
             /\ srcIdx = Len(cfg.sources) ]_vars

\* A listed source holds the thing and the policy exports a feature of it.
ExportedFrom(s, t) ==
    /\ Listed(s) /\ ditto[s][t] # Absent
    /\ \E f \in PresentFeatures(ditto[s][t]) : IsSelector(Resolve(s, t, f))

(***************************************************************************)
(* Shells of exported things are stable: from some point on, no step       *)
(* deletes the shell of a thing that some listed source exports.  Shells  *)
(* are keyed by thing id alone (exporter.py 270, 442), while cleanup       *)
(* decides per source entry (243-299).                                     *)
(***************************************************************************)
ExportedShellsStay ==
    <>[][ \A t \in shells : (\E s \in Sources : ExportedFrom(s, t)) => t \in shells' ]_vars

\* Every shell and submodel of the target stands for a thing, or a feature,
\* that a source the loaded policy lists holds.
SourceBacked ==
    /\ \A t \in shells : \E s \in Sources : Listed(s) /\ ditto[s][t] # Absent
    /\ \A sm \in submodels :
          \E s \in Sources : /\ Listed(s) /\ ditto[s][sm[1]] # Absent
                             /\ ditto[s][sm[1]][sm[2]] # Absent

(***************************************************************************)
(* No orphans: the target ends up holding shells and submodels only for    *)
(* things and features that a listed source holds, and keeps it so        *)
(* (spec.md 4.5, 6: cleanup "removes stale target objects").  Cleanup      *)
(* queues deletions only while walking the sources the policy lists now   *)
(* (exporter.py 243) and the things and features they list now (251-299), *)
(* so an object whose source entry, thing or feature is gone is never     *)
(* visited again.                                                          *)
(***************************************************************************)
NoOrphans == <>[]SourceBacked

=============================================================================
