--------------------------- MODULE ShowcaseProofs ---------------------------
(***************************************************************************)
(* Proofs about Showcase, for any examples, runs, manifests, reviewed       *)
(* recordings, pinnings and request threads, and any number of deployments  *)
(* and finalizations.                                                       *)
(***************************************************************************)
EXTENDS Showcase, TLAPS

RunManifests == UNION {Manifests[r] : r \in Runs}
AnyManifest == RunManifests \union {None}
Places == {"idle", "cached", "gate", "read", "fresh"}
Request == [pc : Places, example : Examples \union {None},
            run : Runs \union {None}, manifest : AnyManifest]

(* A request under way is for an example and a run, and what it holds and   *)
(* what the table and the bucket keep of a run are manifests of that run.   *)
TypeInv ==
  /\ TypeOK
  /\ bucket \in [Runs -> AnyManifest] /\ artifacts \in [Runs -> AnyManifest]
  /\ request \in [Threads -> Request]
  /\ shown \in [Examples -> [run : Runs, manifest : AnyManifest] \union {None}]
  /\ \A h \in Threads : request[h].pc # "idle" =>
       request[h].example \in Examples /\ request[h].run \in Runs
  /\ \A h \in Threads : request[h].pc \in {"gate", "fresh"} =>
       request[h].manifest \in Manifests[request[h].run]

(* Whatever is shown passed the gate of its example when it was served.     *)
ShownPassed ==
  \A e \in Examples : shown[e] # None => _gate(e, shown[e].manifest, shown[e].run)

IInv == TypeInv /\ ShownPassed

(* A request may hold no manifest, or one of some run.                      *)
LEMMA ManifestTypes ==
  None \in AnyManifest /\ \A r \in Runs : Manifests[r] \subseteq AnyManifest
<1>1. None \in AnyManifest
  BY DEF AnyManifest
<1>2. ASSUME NEW r \in Runs, NEW m \in Manifests[r]
      PROVE  m \in AnyManifest
  <2>1. m \in RunManifests
    BY DEF RunManifests
  <2> QED BY <2>1 DEF AnyManifest
<1> QED BY <1>1, <1>2

(* The pin that a request resolves is a run.                                *)
LEMMA PinType ==
  ASSUME TypeOK, NEW e \in Examples, resolve_showcase_run(e) # None
  PROVE  resolve_showcase_run(e) \in Runs
  BY PinningsAssumption DEF TypeOK, resolve_showcase_run

(* A request moves on with well-typed local variables.                      *)
LEMMA DoType ==
  ASSUME TypeInv, NEW h \in Threads, NEW next \in Request, Do(h, next),
         next.pc # "idle" => next.example \in Examples /\ next.run \in Runs,
         next.pc \in {"gate", "fresh"} => next.manifest \in Manifests[next.run]
  PROVE  /\ request' \in [Threads -> Request]
         /\ \A g \in Threads : request'[g].pc # "idle" =>
              request'[g].example \in Examples /\ request'[g].run \in Runs
         /\ \A g \in Threads : request'[g].pc \in {"gate", "fresh"} =>
              request'[g].manifest \in Manifests[request'[g].run]
         /\ \A g \in Threads : /\ request'[g].pc \in Places
                               /\ request'[g].example \in Examples \union {None}
                               /\ request'[g].run \in Runs \union {None}
<1>1. request' = [request EXCEPT ![h] = next] /\ request \in [Threads -> Request]
  BY DEF Do, TypeInv
<1>2. request' \in [Threads -> Request]
  BY <1>1
<1>3. \A g \in Threads : request'[g] = IF g = h THEN next ELSE request[g]
  BY <1>1
<1> QED BY <1>2, <1>3 DEF TypeInv, Request

(* An idle request is one.                                                  *)
LEMMA IdleType == Idle \in Request /\ Idle.pc = "idle"
  BY ManifestTypes DEF Idle, Request, Places

(* Steps of a request that change nothing but its local variables and, when *)
(* it ends, how long its example is hidden.                                 *)
LEMMA QuietStep ==
  ASSUME IInv, NEW h \in Threads, NEW next \in Request, Do(h, next),
         next.pc # "idle" => next.example \in Examples /\ next.run \in Runs,
         next.pc \in {"gate", "fresh"} => next.manifest \in Manifests[next.run],
         hidden' \in [Examples -> 0..Patience],
         UNCHANGED <<pins, bucket, artifacts, deploys, published, shown>>
  PROVE  IInv'
<1>1. TypeInv'
  BY DoType DEF IInv, TypeInv, TypeOK, Places
<1>2. ShownPassed'
  BY DEF IInv, ShownPassed
<1> QED BY <1>1, <1>2 DEF IInv

(* An example that is withheld is hidden for a while.                       *)
LEMMA HiddenType ==
  ASSUME IInv, NEW h \in Threads, request[h].pc # "idle", _mark_unpublished(h)
  PROVE  hidden' \in [Examples -> 0..Patience]
  BY PatienceAssumption DEF IInv, TypeInv, TypeOK, _mark_unpublished

(* Serving an entry that passes its gate.                                   *)
LEMMA ServeStep ==
  ASSUME IInv, NEW h \in Threads, request[h].pc \in {"gate", "fresh"}, Passes(h),
         Serve(h), artifacts' \in [Runs -> AnyManifest],
         \A r \in Runs : artifacts'[r] \in Manifests[r] \union {None},
         UNCHANGED <<pins, bucket, hidden, deploys, published>>
  PROVE  IInv'
<1> DEFINE entry == [run |-> request[h].run, manifest |-> request[h].manifest]
<1>1. /\ request[h].example \in Examples /\ request[h].run \in Runs
      /\ entry \in [run : Runs, manifest : AnyManifest]
  BY DEF IInv, TypeInv, Request
<1>2. shown' = [shown EXCEPT ![request[h].example] = entry] /\ Do(h, Idle)
  BY DEF Serve
<1>3. TypeInv'
  <2>1. shown' \in [Examples -> [run : Runs, manifest : AnyManifest] \union {None}]
    BY <1>1, <1>2 DEF IInv, TypeInv
  <2> QED BY <1>2, <2>1, IdleType, DoType DEF IInv, TypeInv, TypeOK, Places
<1>4. ShownPassed'
  <2>1. _gate(request[h].example, entry.manifest, entry.run)
    BY DEF Passes
  <2> HIDE DEF entry
  <2> QED BY <1>1, <1>2, <2>1 DEF IInv, TypeInv, ShownPassed
<1> QED BY <1>3, <1>4 DEF IInv

(* Every step of every actor keeps the invariant.                           *)
LEMMA IndStep == IInv /\ [Next]_vars => IInv'
<1> SUFFICES ASSUME IInv, [Next]_vars PROVE IInv'
  OBVIOUS
<1>0. /\ hidden \in [Examples -> 0..Patience]
      /\ \A h \in Threads : request[h] \in Request
      /\ \A h \in Threads : request[h].pc # "idle" =>
           request[h].example \in Examples /\ request[h].run \in Runs
  BY DEF IInv, TypeInv, TypeOK
<1>1. ASSUME NEW h \in Threads, NEW e \in Examples, Ask(h, e) PROVE IInv'
  <2> DEFINE next == [Idle EXCEPT !.pc = "cached", !.example = e,
                                  !.run = resolve_showcase_run(e)]
  <2>1. resolve_showcase_run(e) \in Runs
    BY <1>1, PinType DEF Ask, IInv, TypeInv
  <2>2. /\ next \in Request /\ next.pc = "cached" /\ next.example \in Examples
        /\ next.run \in Runs
    BY <2>1, ManifestTypes DEF Idle, Request, Places
  <2>3. Do(h, next)
    BY <1>1 DEF Ask
  <2> HIDE DEF next
  <2> QED BY <1>0, <1>1, <2>2, <2>3, QuietStep DEF Ask
<1>2. ASSUME NEW h \in Threads, get_artifacts(h) PROVE IInv'
  <2> DEFINE row == artifacts[request[h].run]
  <2>1. /\ request[h] \in Request /\ request[h].example \in Examples
        /\ request[h].run \in Runs
        /\ UNCHANGED <<pins, bucket, artifacts, hidden, deploys, published, shown>>
    BY <1>0, <1>2 DEF get_artifacts
  <2>2. CASE row # None
    <3> DEFINE next == [request[h] EXCEPT !.pc = "gate", !.manifest = row]
    <3>1. row \in Manifests[request[h].run] /\ row \in AnyManifest
      BY <2>1, <2>2, ManifestTypes DEF IInv, TypeInv, TypeOK
    <3>2. /\ next \in Request /\ next.example \in Examples /\ next.run \in Runs
          /\ next.manifest \in Manifests[next.run]
      BY <2>1, <3>1 DEF Request, Places
    <3>3. Do(h, next)
      BY <1>2, <2>2 DEF get_artifacts
    <3> HIDE DEF next
    <3> QED BY <1>0, <2>1, <3>2, <3>3, QuietStep
  <2>3. CASE Do(h, Idle)
    BY <1>0, <2>1, <2>3, IdleType, QuietStep
  <2>4. CASE Do(h, [request[h] EXCEPT !.pc = "read"])
    <3> DEFINE next == [request[h] EXCEPT !.pc = "read"]
    <3>1. /\ next \in Request /\ next.pc = "read" /\ next.example \in Examples
          /\ next.run \in Runs
      BY <2>1 DEF Request, Places
    <3> HIDE DEF next
    <3>2. Do(h, next)
      BY <2>4 DEF next
    <3> QED BY <1>0, <2>1, <3>1, <3>2, QuietStep
  <2> QED BY <1>2, <2>2, <2>3, <2>4 DEF get_artifacts
<1>3. ASSUME NEW h \in Threads, ReadFails(h) \/ Withhold(h) PROVE IInv'
  <2>1. hidden' \in [Examples -> 0..Patience]
    BY <1>3, HiddenType DEF ReadFails, Withhold
  <2> QED BY <1>3, <2>1, IdleType, QuietStep DEF ReadFails, Withhold
<1>4. ASSUME NEW h \in Threads, ReadManifest(h) PROVE IInv'
  <2> DEFINE m == bucket[request[h].run]
             next == [request[h] EXCEPT !.pc = "fresh", !.manifest = m]
  <2>1. /\ request[h] \in Request /\ request[h].example \in Examples
        /\ request[h].run \in Runs
        /\ UNCHANGED <<pins, bucket, artifacts, hidden, deploys, published, shown>>
    BY <1>0, <1>4 DEF ReadManifest
  <2>2. m \in Manifests[request[h].run] /\ m \in AnyManifest
    BY <1>4, <2>1, ManifestTypes DEF ReadManifest, IInv, TypeInv, TypeOK
  <2>3. /\ next \in Request /\ next.example \in Examples /\ next.run \in Runs
        /\ next.manifest \in Manifests[next.run]
    BY <2>1, <2>2 DEF Request, Places
  <2>4. Do(h, next)
    BY <1>4 DEF ReadManifest
  <2> HIDE DEF next
  <2> QED BY <1>0, <2>1, <2>3, <2>4, QuietStep
<1>5. ASSUME NEW h \in Threads, ServeCached(h) PROVE IInv'
  BY <1>5, ServeStep DEF ServeCached, IInv, TypeInv, TypeOK
<1>6. ASSUME NEW h \in Threads, Keep(h) PROVE IInv'
  <2>1. /\ request[h].run \in Runs
        /\ request[h].manifest \in Manifests[request[h].run]
    BY <1>6 DEF Keep, IInv, TypeInv
  <2>2. request[h].manifest \in AnyManifest
    BY <2>1, ManifestTypes
  <2>3. /\ artifacts' \in [Runs -> AnyManifest]
        /\ \A r \in Runs : artifacts'[r] \in Manifests[r] \union {None}
    BY <1>6, <2>1, <2>2 DEF Keep, IInv, TypeInv, TypeOK
  <2> QED BY <1>6, <2>3, ServeStep DEF Keep
<1>7. ASSUME Tick PROVE IInv'
  <2>1. \A n \in 0..Patience : Less(n) \in 0..Patience
    BY PatienceAssumption DEF Less
  <2>2. hidden' \in [Examples -> 0..Patience]
    BY <1>0, <1>7, <2>1 DEF Tick
  <2> QED BY <1>7, <2>2 DEF Tick, IInv, TypeInv, TypeOK, ShownPassed
<1>8. ASSUME NEW r \in Runs, NEW m \in Manifests[r], Publish(r, m) PROVE IInv'
  <2>1. m \in AnyManifest
    BY ManifestTypes
  <2>2. /\ bucket' \in [Runs -> AnyManifest]
        /\ \A q \in Runs : bucket'[q] \in Manifests[q] \union {None}
        /\ published' \in 0..MaxPublished
    BY <1>8, <2>1, PatienceAssumption DEF Publish, IInv, TypeInv, TypeOK
  <2> QED BY <1>8, <2>2 DEF Publish, IInv, TypeInv, TypeOK, ShownPassed
<1>9. ASSUME NEW p \in Pinnings, Deploy(p) PROVE IInv'
  <2>1. /\ hidden' \in [Examples -> 0..Patience] /\ deploys' \in 0..MaxDeploys
        /\ request' \in [Threads -> Request]
        /\ \A h \in Threads : request'[h] = Idle
    BY <1>9, PatienceAssumption, IdleType DEF Deploy, IInv, TypeInv, TypeOK
  <2>2. /\ Idle.pc = "idle" /\ Idle.example = None /\ Idle.run = None
    BY DEF Idle
  <2> QED BY <1>9, <2>1, <2>2 DEF Deploy, IInv, TypeInv, TypeOK, ShownPassed
<1>10. CASE UNCHANGED vars
  BY <1>10 DEF vars, IInv, TypeInv, TypeOK, ShownPassed
<1> QED
  BY <1>1, <1>2, <1>3, <1>4, <1>5, <1>6, <1>7, <1>8, <1>9, <1>10 DEF Next, Handle

(* The invariant holds before the first visitor.                            *)
LEMMA IndInit == Init => IInv
<1> SUFFICES ASSUME Init PROVE IInv
  OBVIOUS
<1>1. /\ request \in [Threads -> Request]
      /\ \A h \in Threads : request[h] = Idle
  BY IdleType DEF Init
<1>2. Idle.pc = "idle" /\ Idle.example = None /\ Idle.run = None
  BY DEF Idle
<1>3. /\ hidden \in [Examples -> 0..Patience]
      /\ deploys \in 0..MaxDeploys /\ published \in 0..MaxPublished
  BY PatienceAssumption DEF Init
<1>4. bucket \in [Runs -> AnyManifest] /\ artifacts \in [Runs -> AnyManifest]
  BY ManifestTypes DEF Init
<1> QED BY <1>1, <1>2, <1>3, <1>4 DEF Init, IInv, TypeInv, TypeOK, ShownPassed

(* Every reachable state is well-typed and has only shown what passed.      *)
THEOREM Invariance == Spec => []IInv
  BY IndInit, IndStep, PTL DEF Spec

(* Every reachable state of the showcase is well-typed.                     *)
THEOREM Typing == Spec => []TypeOK
<1>1. IInv => TypeOK
  BY DEF IInv, TypeInv
<1> QED BY <1>1, Invariance, PTL

(* The table of artifacts, the negative cache and the pins never bring an   *)
(* entry past its gate: what an example shows is complete, of its task and  *)
(* backend, names the policy it publishes, contradicts no checkable number, *)
(* and claims criterion and acceptance met, or was reviewed.                *)
THEOREM OnlyEvidenceIsServed == Spec => []ServedIsEvidenced
<1>1. IInv => ServedIsEvidenced
  <2> SUFFICES ASSUME ShownPassed, NEW e \in Examples, shown[e] # None
               PROVE  LET m == shown[e].manifest
                          exact == \A x \in Recordings : x.example # e \/ x.run # shown[e].run
                      IN  /\ Required \subseteq m.artifacts /\ m.backend = Backend[e]
                          /\ m.checkable => m.met = m.reached
                          /\ exact => m.environment = Environment[e] /\ m.met /\ m.hard
                          /\ m.selected \in m.marked
    BY DEF IInv, ServedIsEvidenced
  <2> DEFINE m == shown[e].manifest
             run == shown[e].run
  <2>1. /\ Required \subseteq m.artifacts /\ m.backend = Backend[e] /\ LinksSelected(m)
        /\ m.met \in BOOLEAN /\ (m.checkable => m.met = m.reached)
        /\ Reviewed(e, run) = {} =>
             m.environment = Environment[e] /\ m.met /\ m.hard
    BY DEF ShownPassed, _gate, _artifacts_complete, curate, normalize_success
  <2>2. (\A x \in Recordings : x.example # e \/ x.run # run) => Reviewed(e, run) = {}
    BY DEF Reviewed
  <2> QED BY <2>1, <2>2 DEF LinksSelected
<1> QED BY <1>1, Invariance, PTL
=============================================================================
