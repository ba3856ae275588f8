------------------------------- MODULE Valve -------------------------------
(***************************************************************************)
(* valve.py as the producer of one feature, composed with the exporter.   *)
(* Each internal_run reads "open" from the PLC; when it is set the valve   *)
(* calls open() or close(), which sign {open, timestamp} with sign.py and  *)
(* PUT it as the feature's whole property set.  Ditto may answer with an   *)
(* error status, which the valve only prints.  The timestamp is the clock  *)
(* now.  Anyone holding the Basic credential hard-coded beside these PUTs *)
(* (valve.py 37, attack.py 20) can PUT again a bundle the valve signed    *)
(* earlier: the signature still verifies.                                  *)
(***************************************************************************)
EXTENDS Exporter

CONSTANTS
    VSource, VThing, VFeature,  \* the Ditto thing and feature of the valve
    POpen, PTs,                 \* the "open" and "timestamp" properties
    JTrue, JFalse,              \* the JSON true and false "open" carries
    MaxReplay                   \* bound on replayed PUTs

VARIABLES
    vOpen,    \* Valve._open
    latest,   \* the bundle the valve signed last
    issued,   \* every bundle the valve ever signed
    replays

valveVars == <<vOpen, latest, issued, replays>>
vAllVars == <<vars, valveVars>>

VSubmodel == <<VThing, VFeature>>

ValveFeature == ditto[VSource][VThing][VFeature]

\* What open() and close() PUT: "open" and "timestamp", signed over both.
ValveBundle ==
    {[vals |-> v, sig |-> v] :
        v \in {v \in PropVals : v[POpen] \in {JTrue, JFalse} /\ v[PTs] \in 0..MaxTime}}

VTypeOK ==
    /\ TypeOK
    /\ vOpen \in BOOLEAN /\ latest \in ValveBundle /\ issued \subseteq ValveBundle
    /\ replays \in 0..MaxReplay

\* The constructor already called open() or close() (valve.py 16-19): the
\* source holds its bundle.
VInit ==
    /\ Init
    /\ latest = InitDitto[VSource][VThing][VFeature]
    /\ vOpen = (latest.vals[POpen] = JTrue)
    /\ issued = {latest} /\ replays = 0

\* The payload of open()/close(): {"open": b, "timestamp": now}.
\* requests' json= argument serializes the payload: Python True/False go
\* out as JSON true/false.
Json(b) == IF b THEN JTrue ELSE JFalse

Payload(b) == [p \in Props |-> IF p = POpen THEN Json(b) ELSE IF p = PTs THEN now ELSE Absent]

\* open()/close() with the signature taken before the timestamp is added.
ValveSetSignFirst(b) ==
    LET bndl == [vals |-> Payload(b), sig |-> [Payload(b) EXCEPT ![PTs] = Absent]] IN
    /\ EnvStep
    /\ vOpen' = b /\ latest' = bndl /\ issued' = issued \cup {bndl}
    /\ signed' = signed \cup SignedBy(VThing, VFeature, bndl)
    /\ \E ok \in BOOLEAN :
         IF ok THEN PutFeature(VSource, VThing, VFeature, bndl) ELSE UNCHANGED ditto
    /\ UNCHANGED <<policyFile, now, replays>>

\* open() (21-43) and close() (45-68): set _open, sign the payload, PUT it;
\* an error status from Ditto is printed and nothing else happens.
ValveSet(b) ==
    LET bndl == [vals |-> Payload(b), sig |-> Payload(b)] IN
    /\ EnvStep
    /\ vOpen' = b /\ latest' = bndl /\ issued' = issued \cup {bndl}
    /\ signed' = signed \cup SignedBy(VThing, VFeature, bndl)
    /\ \E ok \in BOOLEAN :
         IF ok THEN PutFeature(VSource, VThing, VFeature, bndl) ELSE UNCHANGED ditto
    /\ UNCHANGED <<policyFile, now, replays>>

\* internal_run (70-79): a PLC value of True opens, False closes.
ValveRun == \E b \in BOOLEAN : ValveSet(b)

\* A PUT of a bundle the valve signed before.
Replay ==
    /\ replays < MaxReplay
    /\ \E bndl \in issued :
         /\ bndl # ValveFeature
         /\ PutFeature(VSource, VThing, VFeature, bndl)
    /\ replays' = replays + 1
    /\ UNCHANGED <<policyFile, now, envSteps, signed, vOpen, latest, issued>>

VNext ==
    \/ Exporter /\ UNCHANGED valveVars
    \/ /\ \/ ValveRun
          \/ Replay
          \/ Tick /\ UNCHANGED valveVars
       /\ UNCHANGED <<fails, targetVars, loopVars>>

VSpec == VInit /\ [][VNext]_vAllVars /\ WF_vAllVars(Exporter /\ UNCHANGED valveVars)

-----------------------------------------------------------------------------
(* Properties.                                                             *)

(***************************************************************************)
(* The valve's state reaches the target: whenever the source holds the    *)
(* bundle the valve signed last, the target eventually shows exactly that *)
(* bundle's open and timestamp, and keeps showing it.  This needs the      *)
(* exporter to update existing elements (exporter.py 383-387), not only to *)
(* create missing ones, and to re-read the source every cycle.             *)
(***************************************************************************)
ValveShown ==
    <>[](ValveFeature = latest => VSubmodel \in submodels /\ elements[VSubmodel] = latest.vals)

(***************************************************************************)
(* The target never goes back in time: the timestamp element of the valve *)
(* never changes to an earlier timestamp than the one it shows.  The       *)
(* valve signs the timestamp (valve.py 29, 53) so that staleness can be    *)
(* told; verify_feature_signature (exporter.py 72-121) checks only that   *)
(* the properties match the signature.                                     *)
(***************************************************************************)
TimestampNeverDecreases ==
    [][ LET o == elements[VSubmodel][PTs]
            n == elements'[VSubmodel][PTs]
        IN  o # Absent /\ n # Absent => o <= n ]_vAllVars

=============================================================================
