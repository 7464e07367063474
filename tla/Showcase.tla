------------------------------ MODULE Showcase ------------------------------
(***************************************************************************)
(* The public showcase (showcase.py, curation.py, the pins of catalog.py,  *)
(* the public handlers of main.py).  A deployment pins a run to an example; *)
(* an entry appears when the manifest of that run is complete and its       *)
(* evidence is what the example stands for.  Manifests that pass are kept   *)
(* in the artifacts table, by run; examples that do not are remembered as   *)
(* unpublished for a while, in memory.                                     *)
(*                                                                         *)
(* A request is a thread that makes one call per step.  Finalizations       *)
(* replace a run's manifest, and deployments replace the pins, at any time. *)
(* Of a manifest only what a gate looks at is kept, and digests are values. *)
(***************************************************************************)
EXTENDS Naturals, FiniteSets

CONSTANTS Examples, Threads, None,
          Manifests,    \* what a finalization may publish, by run
          Pinnings,     \* functions from examples to runs or None
          Environment,  \* CANONICAL_ENVIRONMENTS
          Backend,      \* CANONICAL_BACKENDS
          Phases,       \* CANONICAL_PHASE_ENVIRONMENTS, a partial function
          Recordings,   \* VERIFIED_RECORDINGS: example, run, environment, phases
          Required,     \* REQUIRED_ARTIFACT_IDS
          Patience,     \* NEGATIVE_TTL_SECONDS, in ticks
          MaxDeploys, MaxPublished   \* bounds, for model checking

Runs == DOMAIN Manifests

ASSUME PatienceAssumption == {Patience, MaxDeploys, MaxPublished} \subseteq Nat
ASSUME PinningsAssumption == Pinnings \subseteq [Examples -> Runs \union {None}]

VARIABLES
  pins,      \* SHOWCASE_RUNS of the running deployment
  bucket,    \* the manifest in object storage, by run
  artifacts, \* the rows of the artifacts table
  hidden,    \* _unpublished_until: what is left of it
  request,   \* the requests in progress
  deploys, published,
  shown      \* history: the last entry served of each example

vars == <<pins, bucket, artifacts, hidden, request, deploys, published, shown>>

Idle == [pc |-> "idle", example |-> None, run |-> None, manifest |-> None]

Init ==
  /\ pins \in Pinnings
  /\ bucket = [r \in Runs |-> None] /\ artifacts = [r \in Runs |-> None]
  /\ hidden = [e \in Examples |-> 0]
  /\ request = [h \in Threads |-> Idle]
  /\ deploys = 0 /\ published = 0
  /\ shown = [e \in Examples |-> None]
-----------------------------------------------------------------------------
\* validate_showcase_runs: a run two examples claim is served for neither.
\* A placeholder and an unsafe identity are None.
Unclaimed(e) == \A other \in Examples \ {e} : pins[other] # pins[e]
resolve_showcase_run(e) == IF Unclaimed(e) THEN pins[e] ELSE None

\* normalize_success: the verdict must be stated.  "checkable": the criterion
\* reads "metric >= number" and the aggregate has that metric; only then is the
\* verdict compared with what the numbers say ("reached").  The criterion of a
\* locomotion run never reads so.
normalize_success(m) == m.met \in BOOLEAN /\ (m.checkable => m.met = m.reached)

\* "marked": the digests of the progression's entries flagged selected.
LinksSelected(m) == m.selected \in m.marked
SeedsApart(m) == m.seeds # None =>
  /\ m.seeds.selection # {} /\ m.seeds.final # {}
  /\ m.seeds.selection \intersect m.seeds.final = {}

Reviewed(e, run) == {x \in Recordings : x.example = e /\ x.run = run}
PhasesKnown(e, m, run) ==
  LET known == IF Reviewed(e, run) # {} THEN {x.phases : x \in Reviewed(e, run)}
               ELSE IF e \in DOMAIN Phases THEN {Phases[e]} ELSE {}
  IN  \A allowed \in known : m.phases \subseteq allowed

\* curate, for publication.  "measured": matrix digest, immutable image, cost
\* and runtime are all recorded.
curate(e, m, run) ==
  LET reviewed == Reviewed(e, run) # {}
  IN  /\ IF reviewed THEN \E x \in Reviewed(e, run) : m.environment = x.environment
         ELSE m.environment = Environment[e]
      /\ m.backend = Backend[e]
      /\ normalize_success(m) /\ (m.met \/ reviewed)
      /\ m.measured
      /\ (m.hard \/ reviewed)
      /\ LinksSelected(m) /\ SeedsApart(m) /\ PhasesKnown(e, m, run)

_artifacts_complete(m) == Required \subseteq m.artifacts /\ m.described
_gate(e, m, run) == _artifacts_complete(m) /\ curate(e, m, run)

-----------------------------------------------------------------------------
Do(h, next) == request' = [request EXCEPT ![h] = next]
Serve(h) == /\ shown' = [shown EXCEPT ![request[h].example] =
                           [run |-> request[h].run, manifest |-> request[h].manifest]]
            /\ Do(h, Idle)

\* _published: the pin, then the table.
Ask(h, e) ==
  /\ request[h].pc = "idle" /\ resolve_showcase_run(e) # None
  /\ Do(h, [Idle EXCEPT !.pc = "cached", !.example = e,
                        !.run = resolve_showcase_run(e)])
  /\ UNCHANGED <<pins, bucket, artifacts, hidden, deploys, published, shown>>

get_artifacts(h) ==
  /\ request[h].pc = "cached"
  /\ LET row == artifacts[request[h].run]
     IN  Do(h, IF row # None
               THEN [request[h] EXCEPT !.pc = "gate", !.manifest = row]
               ELSE IF hidden[request[h].example] > 0 THEN Idle
               ELSE [request[h] EXCEPT !.pc = "read"])
  /\ UNCHANGED <<pins, bucket, artifacts, hidden, deploys, published, shown>>

MarkTwiceAsLong(h) ==                                         \* mutant
  hidden' = [hidden EXCEPT ![request[h].example] = @ + Patience]
_mark_unpublished(h) ==
  hidden' = [hidden EXCEPT ![request[h].example] = Patience]

\* read_showcase_manifest raises, or finds nothing.
ReadFails(h) ==
  /\ request[h].pc = "read"
  /\ _mark_unpublished(h) /\ Do(h, Idle)
  /\ UNCHANGED <<pins, bucket, artifacts, deploys, published, shown>>

ReadManifest(h) ==
  /\ request[h].pc = "read" /\ bucket[request[h].run] # None
  /\ Do(h, [request[h] EXCEPT !.pc = "fresh", !.manifest = bucket[request[h].run]])
  /\ UNCHANGED <<pins, bucket, artifacts, hidden, deploys, published, shown>>

PassesCached(h) ==                                            \* mutant
  \/ request[h].pc = "gate"
  \/ _gate(request[h].example, request[h].manifest, request[h].run)
Passes(h) == _gate(request[h].example, request[h].manifest, request[h].run)

Withhold(h) ==
  /\ request[h].pc \in {"gate", "fresh"} /\ ~Passes(h)
  /\ _mark_unpublished(h) /\ Do(h, Idle)
  /\ UNCHANGED <<pins, bucket, artifacts, deploys, published, shown>>

ServeCached(h) ==
  /\ request[h].pc = "gate" /\ Passes(h)
  /\ Serve(h)
  /\ UNCHANGED <<pins, bucket, artifacts, hidden, deploys, published>>

\* set_artifacts, and the entry is served.
Keep(h) ==
  /\ request[h].pc = "fresh" /\ Passes(h)
  /\ artifacts' = [artifacts EXCEPT ![request[h].run] = request[h].manifest]
  /\ Serve(h)
  /\ UNCHANGED <<pins, bucket, hidden, deploys, published>>

LessNever(n) == n                                             \* mutant
Less(n) == IF n = 0 THEN 0 ELSE n - 1

\* _recently_unpublished forgets what has expired.
Tick ==
  /\ hidden' = [e \in Examples |-> Less(hidden[e])]
  /\ UNCHANGED <<pins, bucket, artifacts, request, deploys, published, shown>>

Publish(r, m) ==
  /\ published < MaxPublished /\ published' = published + 1
  /\ bucket' = [bucket EXCEPT ![r] = m]
  /\ UNCHANGED <<pins, artifacts, hidden, request, deploys, shown>>

Deploy(p) ==
  /\ deploys < MaxDeploys /\ deploys' = deploys + 1
  /\ pins' = p /\ hidden' = [e \in Examples |-> 0]
  /\ request' = [h \in Threads |-> Idle]
  /\ UNCHANGED <<bucket, artifacts, published, shown>>

Handle(h) == \/ get_artifacts(h) \/ ReadFails(h) \/ ReadManifest(h)
             \/ Withhold(h) \/ ServeCached(h) \/ Keep(h)

Next ==
  \/ \E h \in Threads : Handle(h) \/ \E e \in Examples : Ask(h, e)
  \/ Tick
  \/ \E r \in Runs : \E m \in Manifests[r] : Publish(r, m)
  \/ \E p \in Pinnings : Deploy(p)

\* Threads and the clock run.  Visitors keep asking for every example, and a
\* run that is read again and again is read once: without either, an entry
\* may stay hidden.
Fairness ==
  /\ WF_vars(Tick)
  /\ \A h \in Threads : WF_vars(Handle(h))
  /\ \A e \in Examples : SF_vars(\E h \in Threads : Ask(h, e))
  /\ \A r \in Runs : SF_vars(\E h \in Threads : request[h].run = r /\ ReadManifest(h))

Spec == Init /\ [][Next]_vars /\ Fairness
-----------------------------------------------------------------------------
TypeOK ==
  /\ pins \in Pinnings /\ hidden \in [Examples -> 0..Patience]
  /\ \A r \in Runs : /\ bucket[r] \in Manifests[r] \union {None}
                     /\ artifacts[r] \in Manifests[r] \union {None}
  /\ \A h \in Threads :
       /\ request[h].pc \in {"idle", "cached", "gate", "read", "fresh"}
       /\ request[h].example \in Examples \union {None}
       /\ request[h].run \in Runs \union {None}
  /\ deploys \in 0..MaxDeploys /\ published \in 0..MaxPublished

(* "A cached manifest must never bypass the evidence gate" (showcase.py):    *)
(* whatever deployment cached it, for whatever example, an entry that is     *)
(* served is of the example's own task and backend, is complete, names the   *)
(* policy it publishes, states no verdict that a checkable criterion refutes *)
(* and, unless it was reviewed, claims to have met criterion and acceptance. *)
ServedIsEvidenced ==
  \A e \in Examples : shown[e] # None =>
    LET m == shown[e].manifest
        exact == \A x \in Recordings : x.example # e \/ x.run # shown[e].run
    IN  /\ Required \subseteq m.artifacts /\ m.backend = Backend[e]
        /\ m.checkable => m.met = m.reached
        /\ exact => m.environment = Environment[e] /\ m.met /\ m.hard
        /\ m.selected \in m.marked

\* The pinned run has good evidence, and so has what the table keeps of it.
Publishable(e) ==
  LET run == resolve_showcase_run(e)
  IN  /\ run # None /\ bucket[run] # None /\ _gate(e, bucket[run], run)
      /\ artifacts[run] # None => _gate(e, artifacts[run], run)

Served(e) == \E h \in Threads :
               request[h].example = e /\ (ServeCached(h) \/ Keep(h))

(* A run that was absent, unreadable or incomplete when it was asked for is  *)
(* not forgotten, nor is one that disappeared after it had been shown: once  *)
(* its evidence is good and stays so, it is served again and again.          *)
GoodRunsAppear ==
  \A e \in Examples : <>[]Publishable(e) => []<><<Served(e)>>_vars
=============================================================================
