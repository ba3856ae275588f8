--------------------------- MODULE MCExportPolicy ---------------------------
(***************************************************************************)
(* Checks the resolver get_export_config of ExportPolicy over every policy *)
(* document of a bounded shape: one or two source entries for the same    *)
(* url, up to two thing rules each, up to two feature rules per thing rule.*)
(* The policy is the only variable; it is chosen in Init and never changes,*)
(* so each reachable state is one policy and the invariants quantify over  *)
(* every (thing, feature) query against it.                                *)
(***************************************************************************)
EXTENDS ExportPolicy, FiniteSets

CONSTANTS
    Now,          \* the clock reading of the query
    RuleThings,   \* thing ids rules name besides "*"
    RuleFeatures, \* feature ids rules name besides "*"
    MissingDowntime \* whether thing rules without a downtime block are enumerated

VARIABLE policy

\* Downtime blocks: one containing Now, one not containing it, and none.
Downtimes == {[start |-> Now, end |-> Now], [start |-> Now + 1, end |-> Now + 1]}
             \cup (IF MissingDowntime THEN {NoDowntime} ELSE {})

FRules == [feature : RuleFeatures \cup {Wildcard}, properties : {{Wildcard}} \cup {{p} : p \in Props}]

TRules == [thing : RuleThings \cup {Wildcard}, downtime : Downtimes,
           features : BoundedSeq(FRules, 2) \ {<< >>}]

\* One source entry with one or two thing rules, or two entries for the
\* same url with one thing rule each.
Policies ==
    {[sources |-> << [url |-> s, things |-> rs] >>, verify |-> TRUE] :
        s \in Sources, rs \in BoundedSeq(TRules, 2) \ {<< >>}}
    \cup
    {[sources |-> << [url |-> s, things |-> << r1 >>], [url |-> s, things |-> << r2 >>] >>,
      verify |-> TRUE] : s \in Sources, r1 \in TRules, r2 \in TRules}

Init == policy \in Policies

\* Re-reading an unchanged policy file: the resolver is a pure function.
Next == UNCHANGED policy

Spec == Init /\ [][Next]_policy

\* The rules the resolver must honour, located by index rather than by the
\* resolver's own walk: the first (entry, rule) pair in declaration order
\* whose url and thing pattern match, and its first matching feature rule.
RulePairs(s, t) ==
    {q \in (1..Len(policy.sources)) \X (1..2) :
        /\ policy.sources[q[1]].url = s
        /\ q[2] \in DOMAIN policy.sources[q[1]].things
        /\ Matches(policy.sources[q[1]].things[q[2]].thing, t)}

Earliest(Q) == CHOOSE m \in Q : \A q \in Q : m[1] < q[1] \/ (m[1] = q[1] /\ m[2] <= q[2])

FirstRule(s, t) == LET m == Earliest(RulePairs(s, t)) IN policy.sources[m[1]].things[m[2]]

FeatureIdx(rule, f) == {k \in DOMAIN rule.features : Matches(rule.features[k].feature, f)}

FirstSelector(rule, f) ==
    rule.features[CHOOSE k \in FeatureIdx(rule, f) : \A j \in FeatureIdx(rule, f) : k <= j].properties

(***************************************************************************)
(* First match wins (spec 8, first bullet): when the first thing rule that *)
(* matches a thing declares a downtime window not containing now and has a *)
(* feature rule matching the feature, get_export_config returns that       *)
(* rule's first matching feature selector, whatever more specific rule     *)
(* comes later (exporter.py 36-60).                                        *)
(***************************************************************************)
FirstMatchWins ==
    \A s \in Sources, t \in Things, f \in Features :
        (RulePairs(s, t) # {} /\ FirstRule(s, t).downtime # NoDowntime
            /\ ~InDowntime(FirstRule(s, t), Now) /\ FeatureIdx(FirstRule(s, t), f) # {})
        => get_export_config(s, t, f, policy, Now) = FirstSelector(FirstRule(s, t), f)

(***************************************************************************)
(* Downtime suppresses the whole thing (spec 8, second bullet): when the   *)
(* first thing rule matching a thing is in its downtime window, no feature *)
(* of that thing resolves to a selector, including features that rule has *)
(* no feature rule for and that a later rule would select (exporter.py     *)
(* 49-54 run before the feature loop).                                     *)
(***************************************************************************)
DowntimeWholeThing ==
    \A s \in Sources, t \in Things :
        (RulePairs(s, t) # {} /\ FirstRule(s, t).downtime # NoDowntime
            /\ InDowntime(FirstRule(s, t), Now))
        => \A f \in Features : get_export_config(s, t, f, policy, Now) = NotConfigured

(***************************************************************************)
(* The resolver of the code agrees with the resolver the spec describes   *)
(* (spec.md 4.2: stop at the first matching thing rule; a missing downtime *)
(* block means never in downtime).                                         *)
(***************************************************************************)
ResolverMatchesSpec ==
    \A s \in Sources, t \in Things, f \in Features :
        get_export_config(s, t, f, policy, Now) = SpecResolve(s, t, f, policy, Now)

=============================================================================
