------------------------------ MODULE MCIdCodec ------------------------------
(***************************************************************************)
(* Every pair of a thing id and a feature id up to a small length.  Ditto  *)
(* thing ids are "namespace:name"; the namespace has no ":", the name and *)
(* feature ids may contain one; here they begin and end with a letter, as *)
(* ids written by people do.  Letters are all "a": a collision needs only *)
(* where the colons are.                                                   *)
(***************************************************************************)
EXTENDS IdCodec

CONSTANT MaxLen

Letter == 97

\* Non-empty strings over chars of length at most MaxLen.
Strings(chars) == UNION {[1..n -> chars] : n \in 1..MaxLen}

\* Names and feature ids: begin and end with a letter, ":" allowed inside.
Names == {w \in Strings({Letter, Colon}) : w[1] = Letter /\ w[Len(w)] = Letter}

ThingIds == {ns \o <<Colon>> \o nm : ns \in Strings({Letter}), nm \in Names}

FeatureIds == Names

\* Known answers of Python's base64.urlsafe_b64encode, the bytes of
\* "a", "a:", "a:a", "a:a:a:a" and two inputs that reach "-", "_" and "=".
ASSUME
    /\ encode_id(<<97>>) = <<89, 81, 61, 61>>
    /\ encode_id(<<97, 58>>) = <<89, 84, 111, 61>>
    /\ encode_id(<<97, 58, 97>>) = <<89, 84, 112, 104>>
    /\ encode_id(<<97, 58, 97, 58, 97, 58, 97>>) = <<89, 84, 112, 104, 79, 109, 69, 54, 89, 81, 61, 61>>
    /\ encode_id(<<255, 254, 0, 58>>) = <<95, 95, 52, 65, 79, 103, 61, 61>>
    /\ encode_id(<<251, 255>>) = <<45, 95, 56, 61>>

VARIABLES thingId, featureId

Init == thingId \in ThingIds /\ featureId \in FeatureIds

Next == UNCHANGED <<thingId, featureId>>

Spec == Init /\ [][Next]_<<thingId, featureId>>

(***************************************************************************)
(* Distinct features get distinct submodels: no other (thing, feature)    *)
(* pair has the address of this one's submodel.  The target holds one     *)
(* object per thing/feature (spec.md 4.1, 5); the exporter names the       *)
(* submodel f"{thing_id}:{feature_id}" (exporter.py 445, 275, 284, 289;   *)
(* attack.py 227) before encoding it, and ":" also occurs inside ids.      *)
(***************************************************************************)
SubmodelIdsDistinct ==
    \A t \in ThingIds, f \in FeatureIds :
        <<t, f>> # <<thingId, featureId>> =>
            encode_id(SubmodelId(t, f)) # encode_id(SubmodelId(thingId, featureId))

=============================================================================
