---------------------------- MODULE ExportPolicy ----------------------------
(***************************************************************************)
(* The export policy document and the pure functions of exporter.py that   *)
(* read it: the resolver get_export_config, the signature gate             *)
(* verify_feature_signature, and the property filter of the main loop.    *)
(*                                                                         *)
(* Abstractions.  A property value is a model value of Values; a feature's *)
(* property bundle is a record [vals, sig] where vals maps every data      *)
(* property to a value or Absent.  A signature is modelled by the content  *)
(* it was computed over (ideal cryptography): sign.py signs                *)
(* json.dumps(payload, sort_keys=True), which depends only on the mapping, *)
(* never on insertion order, so the canonical form of a mapping is the     *)
(* function itself.  A random or garbled signature is Forged, an absent or *)
(* empty one NoSig.  Time is an integer clock; a downtime block is a       *)
(* window [start, end] or NoDowntime when the block is missing.            *)
(***************************************************************************)
EXTENDS Integers, Sequences, SequencesExt

CONSTANTS
    Sources,     \* source_url values
    Things,      \* thing ids
    Features,    \* feature ids
    Props,       \* data property names (the "signature" key is kept apart)
    Values,      \* property values
    Absent,      \* a property, feature or thing that is not there
    NoDowntime,  \* a thing rule without a "downtime" block
    Forged,      \* a signature that verifies against no content
    NoSig,       \* a missing or empty "signature" property
    NotConfigured, \* get_export_config returned None
    Raised         \* get_export_config raised an exception

Wildcard == "*"

PropVals == [Props -> Values \cup {Absent}]

Bundle == [vals : PropVals, sig : PropVals \cup {Forged, NoSig}]

Window == [start : Int, end : Int]

FeatureRule == [feature : Features \cup {Wildcard},
                properties : SUBSET (Props \cup {Wildcard})]

\* A thing rule; features is the ordered "features" list.
ThingRuleOf(FR) == [thing : Things \cup {Wildcard},
                    downtime : Window \cup {NoDowntime},
                    features : FR]

\* A selector: the "properties" list of the matched feature rule.  Only
\* membership is ever tested on it, so it is kept as a set.
Selectors == SUBSET (Props \cup {Wildcard})

Matches(pattern, id) == pattern = id \/ pattern = Wildcard

InDowntime(rule, now) ==
    rule.downtime.start <= now /\ now <= rule.downtime.end

(***************************************************************************)
(* get_export_config (exporter.py 32-62).  The code walks every source     *)
(* entry whose source_url equals the source, and in each every thing rule  *)
(* matching the thing; it does NOT stop at the first matching thing rule:  *)
(* when none of that rule's feature rules matches it moves on to the next  *)
(* rule and to the next source entry.  For each rule reached it parses the *)
(* downtime block first: datetime.fromisoformat(None) raises when the      *)
(* block is missing (Raised); a window containing now returns None.        *)
(***************************************************************************)
ThingRulesFor(policy, s, t) ==
    FlattenSeq([i \in 1..Len(policy.sources) |->
        IF policy.sources[i].url = s
        THEN SelectSeq(policy.sources[i].things, LAMBDA r : Matches(r.thing, t))
        ELSE << >>])

\* A variant that takes the last matching feature rule.
LastFeatureRule(rule, f) ==
    LET m == SelectSeq(rule.features, LAMBDA fr : Matches(fr.feature, f)) IN m[Len(m)]

FirstFeatureRule(rule, f) ==
    Head(SelectSeq(rule.features, LAMBDA fr : Matches(fr.feature, f)))

HasFeatureRule(rule, f) == \E i \in DOMAIN rule.features : Matches(rule.features[i].feature, f)

\* A variant that consults the downtime window only once a feature rule
\* matches, so a thing rule without one falls through to the next rule.
RECURSIVE WalkDowntimePerFeature(_, _, _)
WalkDowntimePerFeature(rules, f, now) ==
    IF rules = << >> THEN NotConfigured
    ELSE LET r == Head(rules) IN
         IF r.downtime = NoDowntime THEN Raised
         ELSE IF HasFeatureRule(r, f)
              THEN IF InDowntime(r, now) THEN NotConfigured
                   ELSE FirstFeatureRule(r, f).properties
         ELSE WalkDowntimePerFeature(Tail(rules), f, now)

RECURSIVE WalkThingRules(_, _, _)
WalkThingRules(rules, f, now) ==
    IF rules = << >> THEN NotConfigured
    ELSE LET r == Head(rules) IN
         IF r.downtime = NoDowntime THEN Raised
         ELSE IF InDowntime(r, now) THEN NotConfigured
         ELSE IF HasFeatureRule(r, f) THEN FirstFeatureRule(r, f).properties
         ELSE WalkThingRules(Tail(rules), f, now)

get_export_config(s, t, f, policy, now) ==
    WalkThingRules(ThingRulesFor(policy, s, t), f, now)

IsSelector(x) == x \notin {NotConfigured, Raised}

(***************************************************************************)
(* The resolver as the spec states it (spec.md 4.2): the first source     *)
(* entry with the url, the first thing rule in it that matches, a missing *)
(* downtime block meaning "never in downtime", the first matching feature *)
(* rule or Unconfigured.  This is the reference the code is compared to.  *)
(***************************************************************************)
SpecResolve(s, t, f, policy, now) ==
    LET entries == SelectSeq(policy.sources, LAMBDA e : e.url = s) IN
    IF entries = << >> THEN NotConfigured
    ELSE LET rules == SelectSeq(Head(entries).things, LAMBDA r : Matches(r.thing, t)) IN
         IF rules = << >> THEN NotConfigured
         ELSE LET r == Head(rules) IN
              IF r.downtime # NoDowntime /\ InDowntime(r, now) THEN NotConfigured
              ELSE IF HasFeatureRule(r, f) THEN FirstFeatureRule(r, f).properties
              ELSE NotConfigured

(***************************************************************************)
(* verify_feature_signature (exporter.py 72-121): False for a missing or   *)
(* empty signature, for an undecodable one and for one over other content *)
(* than the properties without "signature"; never raises.                  *)
(***************************************************************************)
verify_feature_signature(b) == b.sig \notin {Forged, NoSig} /\ b.sig = b.vals

\* The properties the source reports on a feature (all_properties).
Present(b) == {p \in Props : b.vals[p] # Absent}

\* A variant that takes "*" as a property name.
FilteredLiterally(sel, b) == Present(b) \cap sel

\* filtered_properties (exporter.py 462-469): all of them under "*",
\* otherwise those named by the selector.
Filtered(sel, b) == IF Wildcard \in sel THEN Present(b) ELSE Present(b) \cap sel

\* The properties cleanup prunes on a configured feature (exporter.py 293-298).
Pruned(sel, b) == IF Wildcard \in sel THEN {} ELSE Present(b) \ sel

=============================================================================
