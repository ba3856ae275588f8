# TLA+ models of the Ditto → BaSyx exporter

This directory holds TLA+ models of `src/exporter.py`, the service that copies
digital-twin data from Eclipse Ditto sources into an Eclipse BaSyx registry.
It also models the parts of the repository that feed the exporter data or
attack it. Every module is translated from the source. `PROJECT.json` maps
each definition to the lines it models.

## The system

| Part | Code | What it does |
|---|---|---|
| Scheduler | `exporter.py` 389-486 | `while True`: load the policy file, run cleanup, run the export pass, sleep. There is no retry within a cycle. |
| Policy resolver | `get_export_config` 32-62 | Maps (source, thing, feature) to a property selector or None. Downtime windows are checked against `datetime.now()`. |
| Signature gate | `verify_feature_signature` 72-121 | RSA-PSS over `json.dumps(properties without "signature", sort_keys=True)`. |
| Cleanup pass | `cleanup_basyx_resources` 226-323 | Scans every listed source, queues shells, submodels and elements that the policy no longer justifies, then deletes them. Everything runs in one `try`. |
| Export pass | main loop 407-483 | Per source, inside a `try`: for each thing and each exported feature, it ensures the shell, then the submodel and its link, checks the signature, filters the properties and writes the elements. |
| Identifier codec | `encode_id` 65-69, submodel id 445 | Base64url of the UTF-8 id addresses every target object. A submodel is named `thing_id:feature_id`. |
| Registry clients | 124-209, 326-387 | One HTTP request each. They answer or raise. |
| Producers | `valve.py`, `notifier.py`, `sign.py` | Simulators PUT whole features to Ditto, signed over their properties and a timestamp. |
| Mock source | `attack_2.py` | Serves features whose signatures are random. |
| Target attacker | `attack.py` | Writes values straight into BaSyx elements every 2 s. It creates the shell and submodel it needs with its own check-then-create. |

The parts interact through two shared registries. Producers and the mock
source write the source registry (Ditto). The exporter reads it. The exporter
and `attack.py` both write the target registry (BaSyx). The policy file is
re-read at every cycle and may change between cycles.

## Modules

- **`ExportPolicy.tla`** holds the pure functions of the exporter.
  - `get_export_config` is a recursive walk, `WalkThingRules`, over the thing
    rules the code reaches (`ThingRulesFor`). The walk keeps the code's
    fall-through to later rules and entries. A missing downtime block makes it
    return `Raised`.
  - `verify_feature_signature` uses ideal cryptography. A signature is the
    content it was computed over. `sort_keys` makes that content the mapping
    itself.
  - `Filtered` and `Pruned` are the property filters of the export pass and
    of cleanup.
  - `SpecResolve` is the resolver that spec.md 4.2 describes. It serves as
    the reference.
- **`MCExportPolicy.tla`** enumerates every policy of a bounded shape as the
  initial state. Its properties restate the rules independently of the walk,
  using index arithmetic over the rule sequences.
- **`Exporter.tla`** is the scheduler, the cleanup pass and the export pass.
  - Each registry request is one action, so the environment can act between
    any two requests. Each action is named after the request it makes.
    - Cleanup actions: `ClSource`, `ClThing`, `ClDeleteItem`,
      `ClDeleteElement` and `ClDone`.
    - Export actions: `RcSource`, `RcThing`, `RcFeature`, `RcShellGet`,
      `RcShellCreate`, `RcSubmodelGet`, `RcSubmodelCreate`, `RcSubmodelLink`,
      `StartProperties`, `RcElemGet`, `RcElemCreate` and `RcElemUpdate`.
  - The loop's local variables (`pc`, `cfg`, `thing`, `feats`, `sel`,
    `toRemove`, ...) are state variables.
  - A failing request goes to `SourceAborted` or `CleanupAborted`, exactly
    where the code's `except` clauses catch it.
  - The environment changes the source and the policy in four ways:
    - `Produce`: a producer's signed PUT (`valve.py`, `notifier.py`);
    - `Tamper`: an unsigned change of one property;
    - `Forge`: `attack_2.py` serving a random signature;
    - `EditPolicy` and `Tick`: a policy file edit and the clock advancing.
- **`MCExporter.tla`** instantiates the model with two things, two features,
  two properties and two values. It also defines three policies:
  - a filtering policy with a wildcard thing and a downtime window;
  - a wildcard-feature policy;
  - the "export nothing" policy that `load_config` returns for a missing file.
- **`TargetRegistry.tla`** states what the exporter promises about the
  target registry, with the loop left out:
  - a shell is created for a thing;
  - a submodel is created only under an existing shell;
  - a reference links only an existing submodel;
  - an element only ever receives a value that a valid signature covered;
  - anything may be deleted, and deleting a shell drops its references.

  `Exporter.tla` instantiates it with a refinement mapping that views the registry as resources: `aas <- [t \in shells |-> shellRefs[t]]` and `sms <- [sm \in submodels |-> elements[sm]]`
  (`Target == INSTANCE TargetRegistry WITH ...`). `RefinesTargetRegistry` is checked
  as a property of the core run, where every policy has
  `verify_signatures` on.
- **`Attacker.tla`** composes `attack.py` with the exporter. The attacker is a
  second process writing the same target registry.
  - Its actions mirror `simulate_attack`: `AtShellGet`, `AtShellCreate`,
    `AtSmGet`, `AtSmCreate`, `AtSmLink`, `AtElemGet`, `AtElemCreate` and
    `AtElemUpdate`, one per request.
  - `AtCycle` starts one attack cycle.
  - Every failure is caught and ends the cycle (`return False`). Nothing
    aborts the attack loop.
- **`MCAttacker.tla`** aims the attack at t1/f1/p1, as `ATTACK_CONFIG` aims
  at the valve's `open`. It writes vA, a value no producer signs.
  `MCForgedDitto` is the source that `attack_2.py` serves: the same things,
  every signature random.
- **`MCTwoSources.tla`** uses two source registries holding the same thing
  ids. Its policy exports t1 from s1 and t2 from s2.
- **`Valve.tla`** composes `valve.py` with the exporter as the producer of one
  feature.
  - `VInit` is the state after `__init__`, which already PUT the first
    bundle.
  - `ValveSet(b)` is `open()`/`close()`. It sets `_open`, signs
    `{open, timestamp}` with the timestamp taken from the clock, and PUTs it.
    An error status is only printed, so a failed PUT leaves Ditto unchanged.
  - `ValveRun` is `internal_run`: a PLC value of true opens and false closes.
  - `Replay` is a PUT of a bundle the valve signed earlier. Anyone with the
    Basic credential hard-coded in `valve.py` and `attack.py` can send one.
  - JSON `true`/`false` are two model values, `JTrue` and `JFalse`, because
    TLC cannot hold booleans and integers in one set.
- **`MCValve.tla`** puts the valve on t1/f1. The whole feature is exported
  with verification on, and the valve starts open at time 0.
- **`Factory.tla`** composes the valve, the exporter and `attack.py` the way
  they are deployed. `ATTACK_CONFIG` aims at the valve's own `open` property
  (attack.py 28-44). Each step belongs to one of the three processes.
  **`MCFactory.tla`** is the valve instance with the attack writing vA, a
  value nobody signs, as `"ABCD"` is.
- **`IdCodec.tla`** holds the identifier functions.
  - `encode_id` works byte by byte: UTF-8 bytes in 3-byte words, 6-bit groups
    mapped through the base64url alphabet, and `=` padding.
  - `SubmodelId` is `f"{thing_id}:{feature_id}"`.
- **`MCIdCodec.tla`** enumerates Ditto-shaped ids: `namespace:name` thing
  ids, and names and feature ids that may contain `:`. It checks `encode_id`
  against known answers of Python's `base64.urlsafe_b64encode` in an
  `ASSUME`.
- **`SourceDeletion.tla`** adds Ditto DELETEs of a thing or a feature to the
  environment. No code here sends them, but Ditto accepts them from any
  holder of the shared credential. **`MCSourceDeletion.tla`** runs them under
  one fixed policy.

## Runs

| Run | Checks | Result |
|---|---|---|
| `resolver_first_match` | `FirstMatchWins`, `DowntimeWholeThing` over 28,920 policies (one or two entries, 1-2 thing rules, 1-2 feature rules, windows before/at/after now) | pass |
| `resolver_fallthrough` | `ResolverMatchesSpec` with every downtime present | violated: the code falls through to later thing rules (exporter.py 43-60) |
| `exporter_core` | `TypeOK`, `AuthenticMirror`, `MirrorConverges`, `RefinesTargetRegistry` | pass |
| `exporter_unlinked_submodel` | `RefsMatchSubmodels` | violated: a failed link POST is never repaired (exporter.py 344-353, 448) |
| `exporter_cleanup_abort` | `CleanupAbortContained` | violated: one failed features fetch in cleanup drops the deletions queued for other things (exporter.py 238/321) |
| `attack_shell_race` | `ShellCreateTolerated` | violated: `attack.py` creates the shell between the exporter's GET and POST, and the 409 abandons the source (exporter.py 158, 442) |
| `attack_injection_persists` | `EventuallyAuthentic` with the `attack_2.py` source | violated: an injected value stays forever, because the gate skips writes but removes nothing (exporter.py 457) |
| `two_sources_flap` | `ExportedShellsStay` | violated: each source's cleanup deletes the shell the other source exports, every cycle (exporter.py 270) |
| `factory_converges` | `FTypeOK`, `ValveShown`, `MirrorConverges` with the valve, the exporter and one `attack.py` cycle on the valve's `open` (258,656 states) | pass |
| `valve_replay_rollback` | `TimestampNeverDecreases` | violated: a replayed older bundle passes the gate and the target goes back from closed at time 1 to open at time 0 (exporter.py 107) |
| `source_delete_orphans` | `NoOrphans` | violated: the shell and submodels of a thing deleted in Ditto stay in the target forever (exporter.py 251) |
| `id_collision` | `SubmodelIdsDistinct` | violated: thing `a:a` with feature `a:a` and thing `a:a:a` with feature `a` share submodel `a:a:a:a` (exporter.py 445) |

One further defect is reachable in a run, although that run's counterexample
shows another route:

- `RefsMatchSubmodels` also fails when cleanup deletes the submodel of an
  unconfigured feature and leaves the shell's reference to it
  (exporter.py 311). `exporter_unlinked_submodel` edits the policy, so it
  reaches this route.

Three more defects are read from the code, and no run checks them:

- When a source entry is dropped from the policy, cleanup never visits that
  source again (exporter.py 243). `NoOrphans` would see it, but
  `source_delete_orphans` keeps one fixed policy.
- `attack.py` creates a submodel for a feature the source never held. Only
  `Factory` has the attacker, and it aims at a feature the valve owns.
- A thing rule without a downtime block raises (exporter.py 49).
  `ResolverMatchesSpec` would see it with `MissingDowntime = TRUE`, but both
  resolver runs set it `FALSE`.

What the passing runs show:

- **`AuthenticMirror`.** No element of the target ever holds a value that no
  valid signature covered. This holds even though forgeries and tampering
  interleave with every request of the loop. It holds because the gate and
  the writes use the same snapshot (exporter.py 424, 457, 472).
- **`MirrorConverges`.** Once the environment is quiet and requests stop
  failing, cleanup and export make the target a mirror of policy and source,
  and keep it one. A mirror means:
  - shells exist exactly for things with an exported feature;
  - submodels exist exactly for exported features;
  - an excluded property has no element;
  - a verified selected property holds the source value.

  The property is stated directly from the selector semantics, not through
  `Filtered`, so a wrong filter breaks it.

- **`RefinesTargetRegistry`.** The loop never creates a submodel without its
  shell, never links a missing submodel, and writes only signed values into
  existing submodels.
- **`ValveShown`.** Whenever Ditto holds the bundle the valve signed last,
  the target eventually shows its `open` and `timestamp` and keeps showing
  them. Failed PUTs, a replay and an attack on `open` happen in the run.
  The property holds across them, but it says nothing about the states they
  leave behind. After a failed PUT or a replay, Ditto no longer holds the
  latest bundle, so the antecedent is false. It breaks if the export only
  creates elements and never updates them.
- **`factory_converges`.** The attacker's races cost the exporter at most an
  abandoned source in one cycle. They never cost it convergence. Once the
  attack cycle is over, `MirrorConverges` and `ValveShown` hold again.

### Bounds

- **`MaxFail = 1`** gives every POST, PATCH, DELETE and Ditto GET one chance
  to fail. The BaSyx existence GETs (`RcShellGet`, `RcSubmodelGet`,
  `RcElemGet`, exporter.py 138, 166, 370) never fail in the model. Their
  failure aborts the source exactly as a failure of the request that follows
  them does. That one failure reaches each abort path and the half-done
  submodel create.
- **`MaxEnv = 1`** allows one environment change: a produce, a tamper, a
  forge or a policy edit. It can land between any two requests of a cycle.
- **`MaxTime = 2`** moves the clock through a downtime window.

Two things, two features and two properties are the fewest that can tell
these cases apart:

- wildcard from literal rules;
- an exported from an unexported feature of one thing;
- a selected from an excluded property.

The attacker runs keep `MaxEnv = 0`: the attacker alone is the extra
writer there, and with source edits as well the state space exceeds the time
budget. One attack cycle places the attacker's shell, submodel or element
writes between any two requests of the exporter. The two-source run uses no
failures, no edits and a frozen clock, because the flapping needs none of
them.

The valve runs allow two valve runs (`MaxEnv = 2`), one replay and one
failed request. That is enough for an open at time 0, a close at time 1 and
a replay of the first. The replay run lets the clock go to 2. The composed
run stops it at 1 and adds one attack cycle, so that it finishes in under a
minute.

The id run uses strings of up to 3 characters for the namespace, the name
and the feature. The shortest collision needs a name and a feature of 3
characters each (`a:a`). The deletion run freezes the clock and
allows no failures, with one deletion.

The resolver run covers every combination of match, wildcard, order and
window position for two rules of each level.

### Fairness

Only the exporter has fairness: `WF_vars(Exporter)`. The loop is
`while True` with no blocking other than `sleep`, so it always makes
progress. Producers, attackers, policy edits and the clock get no fairness,
and may stop at any time. Request failures are bounded by `MaxFail`, so a
behaviour cannot fail forever. This matches the code's assumption that the
registries eventually answer.
The valve, the replays and deletions at the source get no fairness either.
`ValveShown` is therefore claimed only about states where Ditto already holds
the valve's latest bundle.
The attack simulator gets no fairness either. `MaxAttacks` bounds its
cycles, so convergence is claimed only for the time after the attacks
stop. While `attack.py` runs every 2 s, the target alternates between the
injected value and the mirrored one, and no convergence can hold.

## Not modelled

- **Ids in the loop modules.** `Exporter` and the modules built on it use
  atomic model values for ids, with `<<thing, feature>>` as the submodel id.
  `IdCodec` shows where this abstraction is wrong: with `:` inside ids the
  real submodel ids collide.
- **The text an element stores.** The create branch stores `str(value)`, and
  the update branch PATCHes the JSON string `'"value"'` (exporter.py 378,
  386). Values are model values in every module. The difference holds on
  every update, so a unit test with a mocked BaSyx shows it directly.
- **The `signature` key as an element.** `Props` leaves out the `signature`
  key. In the code, a `"*"` selector also writes it as an element
  (exporter.py 464), and cleanup prunes it like any other property
  (293-298). No property depends on that element.
- **HTTP payload layout, status codes other than 404/409, printing and
  `POLL_INTERVAL` itself.** The length of a sleep is not observable to the
  properties.
- **Process plumbing.** This covers `kill_process_on_port` and the FastAPI
  server of `attack_2.py`.
- **The simulators' physics.**

## Plan

1. Resolver (`ExportPolicy`, `MCExportPolicy`). Done.
2. Core loop with cleanup, export, signature gate and request failures
   (`Exporter`). Done.
3. `attack.py` composed with the exporter (`Attacker`). Done. It covers the
   shell-create race and injected values.
4. Two sources sharing thing ids (`MCTwoSources`). Done. The cleanup abort
   is covered by `exporter_cleanup_abort`.
5. Abstract target-registry contract with refinement (`TargetRegistry`).
   Done.
6. Things and features deleted at the source (`SourceDeletion`). Done.
   Together with attack targets the source does not hold, they leave orphans
   (`NoOrphans`).
7. The valve as a producer, with timestamps and replay (`Valve`). Done. The
   signed timestamp is never compared, so the target can roll back.
8. Submodel-id collisions for ids that contain `:` (`IdCodec`). Done. Ids
   are byte sequences there.
9. The deployed composition of valve, exporter and attacker (`Factory`).
   Done.
