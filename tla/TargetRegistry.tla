--------------------------- MODULE TargetRegistry ---------------------------
(***************************************************************************)
(* What the exporter promises about the target registry when signature    *)
(* verification is on, stated as the registry's REST resources without    *)
(* the loop: aas maps each shell id to the set of submodels it references, *)
(* sms maps each submodel id to its elements (property -> value).  They   *)
(* change only by                                                          *)
(*   - a shell created for a thing;                                        *)
(*   - a submodel created for a thing that has a shell;                    *)
(*   - a reference added from a shell to one of its existing submodels;   *)
(*   - an element of an existing submodel set to a value that a valid     *)
(*     signature covered for that thing, feature and property;             *)
(*   - any deletion;                                                       *)
(* while the set of signed values only grows.                              *)
(***************************************************************************)
EXTENDS Functions, TLC

CONSTANTS Things, Features, Props, Values, Absent

VARIABLES aas, sms, signed

regVars == <<aas, sms, signed>>

Signable == Things \X Features \X Props \X Values

Empty == [p \in Props |-> Absent]

\* Drop one id from a resource map.
Without(m, id) == Restrict(m, DOMAIN m \ {id})

RegInit ==
    /\ aas = [t \in {} |-> {}] /\ sms = [sm \in {} |-> Empty]
    /\ signed \subseteq Signable

Publish ==
    /\ signed \subseteq signed' /\ signed' \subseteq Signable
    /\ UNCHANGED <<aas, sms>>

CreateShell(t) ==
    /\ t \notin DOMAIN aas
    /\ aas' = aas @@ (t :> {})
    /\ UNCHANGED <<sms, signed>>

CreateSubmodel(t, f) ==
    /\ t \in DOMAIN aas /\ <<t, f>> \notin DOMAIN sms
    /\ sms' = sms @@ (<<t, f>> :> Empty)
    /\ UNCHANGED <<aas, signed>>

Link(t, f) ==
    /\ t \in DOMAIN aas /\ <<t, f>> \in DOMAIN sms
    /\ aas' = [aas EXCEPT ![t] = @ \cup {f}]
    /\ UNCHANGED <<sms, signed>>

WriteAuthentic(sm, p, v) ==
    /\ sm \in DOMAIN sms /\ <<sm[1], sm[2], p, v>> \in signed
    /\ sms' = [sms EXCEPT ![sm][p] = v]
    /\ UNCHANGED <<aas, signed>>

DeleteShell(t) == aas' = Without(aas, t) /\ UNCHANGED <<sms, signed>>

DeleteSubmodel(sm) == sms' = Without(sms, sm) /\ UNCHANGED <<aas, signed>>

DeleteElement(sm, p) ==
    /\ sm \in DOMAIN sms
    /\ sms' = [sms EXCEPT ![sm][p] = Absent]
    /\ UNCHANGED <<aas, signed>>

RegNext ==
    \/ Publish
    \/ \E t \in Things : CreateShell(t) \/ DeleteShell(t)
    \/ \E t \in Things, f \in Features : CreateSubmodel(t, f) \/ Link(t, f)
                                         \/ DeleteSubmodel(<<t, f>>)
    \/ \E sm \in Things \X Features, p \in Props :
          \/ DeleteElement(sm, p)
          \/ \E v \in Values : WriteAuthentic(sm, p, v)

RegSpec == RegInit /\ [][RegNext]_regVars

=============================================================================
