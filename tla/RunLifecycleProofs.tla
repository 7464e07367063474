------------------------- MODULE RunLifecycleProofs -------------------------
(***************************************************************************)
(* Proofs about RunLifecycle, for any budget, retention, parent and number  *)
(* of containers.                                                           *)
(***************************************************************************)
EXTENDS RunLifecycle, FiniteSetTheorems, WellFoundedInduction, TLAPS

(* Run trees of checkpoints, sets of other artifacts, and what Select picks. *)
Dirs == [Names -> [data : Tokens \cup {None}, meta : Tokens \cup {None}]]
Prints == [Artifacts -> Products \cup {None}]
Picks == [initial : Names, quarter : Names, final : Names, selected : Names]

Starting == {"resume", "begin", "load"}
Rendered == {"evaluate", "package", "upload", "declare", "complete"}

StoreTypes ==
  /\ remote \in Dirs /\ out \in Prints
  /\ latest \in {None} \cup [name : Names, sha : Tokens]
  /\ manifest \in {None} \cup Prints
  /\ status \in {None, "queued", "starting", "training", "rendering",
                 "evaluating", "completed", "failed"}

JobTypes ==
  /\ trainer \in Trainers /\ launches \in 0..MaxLaunches
  /\ mode \in {"train", "hosted", "finalize"}
  /\ resume \in {"fresh", "remote", "named"}
  /\ want \in Tokens \cup {None}
  /\ exit \in {"none", "ok", "error", "storage", "interrupted", "killed"}
  /\ pc \in {"idle", "resume", "begin", "load", "learn", "publish",
             "report", "playground", "sync", "trained"} \cup Finalizing
  /\ cur \in Names \cup {None} /\ at \in 0..Total
  /\ local \in Dirs /\ made \in Prints
  /\ picked \in {None} \cup Picks
  /\ api \in {"none", "queued", "submit", "confirm", "done"}

(* What the store always says.                                              *)
LatestInv ==
  trainer = "sb3" /\ latest # None =>
    /\ latest.name.kind = "final" => latest.name.step = Total
    /\ latest.name.kind # "interrupted" => LatestIsRestorable

StoreInv == /\ StoreTypes /\ LatestInv /\ CompletedIsWhole /\ SelectedIsPublic
            /\ launches = 0 => latest = None

(* A container on its way to training: the first has nothing to resume from *)
(* but a named parent, a later one has what the latest record names.  It    *)
(* starts without a bundle and downloads none, so that there is one in the  *)
(* tree only from its packaging to the end of the container.                *)
Beginning ==
  /\ made["bundle"] # None => pc \in {"upload", "declare", "complete"}
  /\ pc # "idle" => launches # 0
  /\ api \in {"queued", "submit"} => launches = 0
  /\ pc \in Starting /\ resume # "remote" => latest = None
  /\ pc \in {"begin", "load"} /\ resume = "remote" =>
       latest # None /\ cur = latest.name
  /\ pc \in {"begin", "load"} /\ resume = "named" => cur \in Names
  /\ status = "completed" =>
       pc \in {"idle", "resume", "begin", "download", "select"}

(* A checkpoint is saved before it is published.                            *)
Saving ==
  /\ pc \in {"publish", "report"} => cur \in Names
  /\ pc = "publish" =>
       local[cur].data # None /\ local[cur].meta = local[cur].data
  /\ pc = "publish" /\ trainer = "mjx" /\ cur.kind = "step" => cur.step < Total

(* An SB3 model is at or past the latest record, and republishes no name    *)
(* but an interrupted one.                                                  *)
Learning ==
  /\ pc \in {"learn", "report"} => trainer = "sb3"
  /\ pc = "playground" => trainer = "mjx"
  /\ trainer = "sb3" =>
      /\ pc = "learn" /\ latest # None =>
           latest.name.step <= at /\ latest.name.kind # "final"
      /\ pc \in {"publish", "report"} =>
           cur.step = at /\ (cur.kind = "final" => at = Total)
      /\ pc = "publish" /\ latest # None =>
           /\ latest.name.step <= at
           /\ cur = latest.name => cur.kind = "interrupted"
      /\ pc = "report" =>
           latest # None /\ latest.name = cur /\ remote[cur] = local[cur]
      /\ pc = "sync" =>
           latest # None /\ remote[latest.name] = local[latest.name]

(* The run tree of a finalization has all that the store has, then what it  *)
(* picked and made of it, and at the end the store has the same.            *)
Covers ==
  \A n \in Names : /\ remote[n].data \in {None, local[n].data}
                   /\ remote[n].meta \in {None, local[n].meta}

(* What is made of the selected checkpoint: the bundle and its configuration*)
(* where there is a bundle.                                                 *)
PublicNow == {"video_final", "metrics", "final_policy"} \cup
             {b \in Bundled : made["bundle"] # None}

Finalization ==
  /\ pc \in Finalizing \ {"download"} => Covers
  /\ pc \in {"render"} \cup Rendered =>
       picked \in Picks /\ picked.final = Progression(local).final
  /\ pc \in Rendered =>
       /\ Attested(picked.selected) /\ Attested(picked.final)
       /\ made["video_final"] = Product(picked.selected)
       /\ made["video_final_step"] = Product(picked.final)
  /\ pc \in {"upload", "declare", "complete"} =>
       \A a \in PublicNow : made[a] = Product(picked.selected)
  /\ pc \in {"declare", "complete"} =>
       /\ remote = local
       /\ \A a \in Artifacts : made[a] # None => out[a] = made[a]
  /\ pc = "complete" => manifest = made

JobInv == JobTypes /\ Beginning /\ Saving /\ Learning /\ Finalization

IInv == StoreInv /\ JobInv

USE DEF vars, container, store

-----------------------------------------------------------------------------
(* A nonempty set has an element of the least rank.                         *)
LEMMA LeastRank ==
  ASSUME NEW S, S # {}, NEW f, \A x \in S : f[x] \in Nat
  PROVE  \E x \in S : \A y \in S : f[x] <= f[y]
<1> DEFINE T == {f[x] : x \in S}
<1>1. T # {} /\ T \subseteq Nat
  OBVIOUS
<1>2. PICK k \in T : \A y \in T : ~(<<y, k>> \in OpToRel(<, Nat))
  BY <1>1, NatLessThanWellFounded, WFMin
<1>3. k \in Nat /\ \A y \in T : y \in Nat /\ ~(y < k)
  BY <1>1, <1>2 DEF OpToRel
<1>4. PICK x \in S : k = f[x]
  BY <1>2
<1> QED BY <1>3, <1>4

(* One of the listed names comes first by any rank.                         *)
LEMMA FirstByIn ==
  ASSUME NEW S \in SUBSET Names, S # {}, NEW rank \in [Names -> Nat]
  PROVE  FirstBy(S, rank) \in S
<1> DEFINE step == [n \in Names |-> n.step]
           alph == [n \in Names |-> Alphabetical[n.kind]]
<1>1. \A n \in Names : rank[n] \in Nat /\ step[n] \in Nat /\ alph[n] \in Nat
  <2> SUFFICES ASSUME NEW n \in Names
               PROVE  rank[n] \in Nat /\ step[n] \in Nat /\ alph[n] \in Nat
    OBVIOUS
  <2>1. n.step \in 0..Total /\ n.kind \in Kinds
    BY DEF Names
  <2>2. step[n] \in Nat
    BY <2>1, TotalAssumption
  <2>3. alph[n] \in Nat
    BY <2>1 DEF Kinds, Alphabetical
  <2> QED BY <2>2, <2>3
<1>2. PICK a \in S : \A n \in S : rank[a] <= rank[n]
  BY <1>1, LeastRank
<1> DEFINE S1 == {n \in S : rank[n] = rank[a]}
<1>3. PICK b \in S1 : \A n \in S1 : step[b] <= step[n]
  <2>1. a \in S1 /\ \A n \in S1 : step[n] \in Nat
    BY <1>1
  <2>2. S1 # {}
    BY <2>1
  <2> HIDE DEF S1, step
  <2> QED BY <2>1, <2>2, LeastRank
<1> DEFINE S2 == {n \in S1 : step[n] = step[b]}
<1>4. PICK c \in S2 : \A n \in S2 : alph[c] <= alph[n]
  <2>1. b \in S2 /\ \A n \in S2 : alph[n] \in Nat
    BY <1>1, <1>3
  <2>2. S2 # {}
    BY <2>1
  <2> HIDE DEF S2, alph
  <2> QED BY <2>1, <2>2, LeastRank
<1>5. /\ c \in S /\ rank[c] = rank[a] /\ step[c] = step[b]
      /\ c \in Names /\ step[c] = c.step /\ alph[c] = Alphabetical[c.kind]
  BY <1>4
<1>6. ASSUME NEW m \in S \ {c}
      PROVE  rank[c] < rank[m] \/ (rank[c] = rank[m] /\ Before(c, m))
  <2>1. m \in Names /\ m # c /\ step[m] = m.step /\ alph[m] = Alphabetical[m.kind]
    OBVIOUS
  <2>2. CASE rank[m] # rank[a]
    BY <1>1, <1>2, <1>5, <2>1, <2>2
  <2>3. CASE rank[m] = rank[a] /\ step[m] # step[b]
    <3>1. step[b] < step[m]
      <4>1. m \in S1 /\ step[b] <= step[m]
        BY <1>3, <2>3
      <4>2. step[b] \in Nat /\ step[m] \in Nat
        BY <1>1, <2>1
      <4> HIDE DEF step
      <4> QED BY <2>3, <4>1, <4>2
    <3> QED BY <1>5, <2>1, <2>3, <3>1 DEF Before
  <2>4. CASE rank[m] = rank[a] /\ step[m] = step[b]
    <3>1. alph[c] <= alph[m]
      BY <1>4, <2>1, <2>4
    <3>2. m.kind # c.kind
      <4>1. m = [kind |-> m.kind, step |-> m.step] /\ c = [kind |-> c.kind, step |-> c.step]
        BY <1>5, <2>1 DEF Names
      <4> QED BY <1>5, <2>1, <2>4, <4>1
    <3>3. Alphabetical[m.kind] # Alphabetical[c.kind]
      BY <1>5, <2>1, <3>2 DEF Names, Kinds, Alphabetical
    <3>4. Alphabetical[c.kind] < Alphabetical[m.kind]
      BY <1>1, <1>5, <2>1, <3>1, <3>3
    <3> QED BY <1>5, <2>1, <2>4, <3>4 DEF Before
  <2> QED BY <2>2, <2>3, <2>4
<1> QED BY <1>5, <1>6 DEF FirstBy

(* What the progression names is listed.                                    *)
LEMMA ProgressionIn ==
  ASSUME NEW dir, Listed(dir) # {}
  PROVE  /\ Progression(dir).initial \in Names /\ Progression(dir).quarter \in Names
         /\ Progression(dir).final \in Names
<1>1. Listed(dir) \subseteq Names
  BY DEF Listed
<1>2. \A n \in Names : n.step \in 0..Total
  BY DEF Names
<1>3. [n \in Names |-> n.step] \in [Names -> Nat]
  BY <1>2, TotalAssumption
<1>4. [n \in Names |-> Total - n.step] \in [Names -> Nat]
  BY <1>2, TotalAssumption
<1>5. [n \in Names |-> Distance(4 * n.step, Total)] \in [Names -> Nat]
  BY <1>2, TotalAssumption DEF Distance
<1>6. \A rank \in [Names -> Nat] : FirstBy(Listed(dir), rank) \in Names
  BY <1>1, FirstByIn
<1> QED BY <1>3, <1>4, <1>5, <1>6 DEF Progression

(* A checkpoint that resolves uniquely is there.                            *)
LEMMA ResolvedIn ==
  ASSUME NEW dir, NEW digest, ResolvesUniquely(dir, digest)
  PROVE  (CHOOSE n \in ByDigest(dir, digest) : TRUE) \in Names
<1>1. ByDigest(dir, digest) # {}
  BY FS_EmptySet DEF ResolvesUniquely
<1>2. ByDigest(dir, digest) \subseteq Names
  BY DEF ByDigest, Listed
<1> QED BY <1>1, <1>2

(* Tokens, trees and artifacts that steps make.                             *)
LEMMA Made ==
  /\ EmptyTree \in Dirs /\ Nothing \in Prints
  /\ Parent \in Names /\ ParentToken \in Tokens /\ Initial \in Names
  /\ \A n \in Names : launches \in 0..MaxLaunches => Fresh(n) \in Tokens
  /\ \A d \in Dirs, n \in Names, t \in Tokens :
       /\ Saved(d, n, t) \in Dirs /\ Saved(d, n, t)[n].data = t
       /\ Saved(d, n, t)[n].meta = t
       /\ \A m \in Names \ {n} : Saved(d, n, t)[m] = d[m]
<1>1. EmptyTree \in Dirs /\ Nothing \in Prints
  BY DEF EmptyTree, NoFile, Dirs, Nothing, Prints
<1>2. Parent \in Names /\ Initial \in Names
  BY RunAssumption, TotalAssumption DEF Parent, Initial, Name, Names, Kinds
<1>3. ParentToken \in Tokens
  BY <1>2, RunAssumption DEF ParentToken, Tokens
<1>4. \A n \in Names : launches \in 0..MaxLaunches => Fresh(n) \in Tokens
  BY DEF Fresh, Tokens
<1>5. \A d \in Dirs, n \in Names, t \in Tokens :
       /\ Saved(d, n, t) \in Dirs /\ Saved(d, n, t)[n].data = t
       /\ Saved(d, n, t)[n].meta = t
       /\ \A m \in Names \ {n} : Saved(d, n, t)[m] = d[m]
  BY DEF Saved, Dirs
<1> QED BY <1>1, <1>2, <1>3, <1>4, <1>5

-----------------------------------------------------------------------------
(* Types, and the parts they are made of.                                   *)
LEMMA TypesSplit == TypeOK <=> StoreTypes /\ JobTypes
<1>1. ASSUME NEW a, NEW b PROVE (\A dir \in {a, b} : dir \in Dirs) <=> a \in Dirs /\ b \in Dirs
  OBVIOUS
<1> QED BY DEF TypeOK, StoreTypes, JobTypes, Dirs, Prints, Picks

Exits == {"ok", "error", "storage", "interrupted", "killed"}

(* The store is as it was, or its status moved, not to completed.           *)
LEMMA StoreKept ==
  ASSUME IInv, UNCHANGED <<trainer, remote, latest, out, manifest>>,
         launches' = launches \/ launches' = launches + 1,
         status' \in {"queued", "starting", "training", "rendering", "evaluating",
                      "failed", status}
  PROVE  StoreInv'
<1>1. StoreTypes'
  BY DEF IInv, StoreInv, StoreTypes
<1>2. LatestInv'
  BY DEF IInv, StoreInv, LatestInv, LatestIsRestorable
<1>3. status' = "completed" => status = "completed"
  OBVIOUS
<1>4. CompletedIsWhole' /\ SelectedIsPublic'
  BY <1>3 DEF IInv, StoreInv, CompletedIsWhole, SelectedIsPublic
<1>5. launches' = 0 => latest' = None
  BY DEF IInv, StoreInv, JobInv, JobTypes
<1> QED BY <1>1, <1>2, <1>4, <1>5 DEF StoreInv

(* A container that ended says nothing.                                     *)
LEMMA EndedInv ==
  ASSUME IInv, pc # "idle", NEW why \in Exits, Ended(why),
         UNCHANGED <<trainer, launches, api>>, StoreInv'
  PROVE  IInv'
<1>1. /\ pc' = "idle" /\ exit' = why /\ mode' = "train" /\ resume' = "fresh"
      /\ want' = None /\ cur' = None /\ at' = 0 /\ local' = EmptyTree
      /\ made' = Nothing /\ picked' = None
  BY DEF Ended
<1>2. JobTypes'
  BY <1>1, Made, TotalAssumption DEF IInv, JobInv, JobTypes, Exits
<1>3. Beginning'
  BY <1>1 DEF IInv, JobInv, Beginning, Starting, Nothing, Artifacts
<1>4. Saving' /\ Learning' /\ Finalization'
  BY <1>1 DEF Saving, Learning, Finalization, Finalizing, Rendered
<1> QED BY <1>2, <1>3, <1>4 DEF IInv, JobInv

(* It ends, and has written nothing, or the status failed.                  *)
LEMMA EndsInv ==
  ASSUME IInv, pc # "idle", NEW why \in Exits, Ended(why),
         UNCHANGED <<trainer, launches, api, remote, latest, out, manifest>>,
         status' \in {status, "failed"}
  PROVE  IInv'
BY StoreKept, EndedInv

(* Uploading files of the tree: an object keeps its bytes or gets those of  *)
(* the tree, and the latest record stays right.                             *)
LEMMA UploadKept ==
  ASSUME IInv, pc \in {"sync", "evaluate", "upload"}, NEW F, NEW A,
         NEW arts \in Prints, Upload(F, A, arts),
         UNCHANGED <<trainer, launches>>, status' \in {status, "failed"}
  PROVE  /\ StoreInv'
         /\ \A n \in Names : /\ remote'[n].data \in {remote[n].data, local[n].data}
                             /\ remote'[n].meta \in {remote[n].meta, local[n].meta}
<1>1. /\ remote' = [n \in Names |->
           [data |-> IF <<n, "data">> \in F THEN local[n].data ELSE remote[n].data,
            meta |-> IF <<n, "meta">> \in F THEN local[n].meta ELSE remote[n].meta]]
      /\ out' = [a \in Artifacts |-> IF a \in A THEN arts[a] ELSE out[a]]
      /\ UNCHANGED <<latest, manifest>>
  BY DEF Upload
<1>2. \A n \in Names : /\ remote'[n].data \in {remote[n].data, local[n].data}
                       /\ remote'[n].meta \in {remote[n].meta, local[n].meta}
                       /\ remote'[n] = [data |-> remote'[n].data,
                                        meta |-> remote'[n].meta]
  BY <1>1
<1>3. \A n \in Names : /\ remote[n].data \in Tokens \cup {None}
                       /\ remote[n].meta \in Tokens \cup {None}
                       /\ local[n].data \in Tokens \cup {None}
                       /\ local[n].meta \in Tokens \cup {None}
  BY DEF IInv, StoreInv, StoreTypes, JobInv, JobTypes, Dirs
<1>4. StoreTypes'
  <2>1. remote' = [n \in Names |-> remote'[n]]
    BY <1>1
  <2>2. \A n \in Names : remote'[n] \in [data : Tokens \cup {None},
                                         meta : Tokens \cup {None}]
    <3> SUFFICES ASSUME NEW n \in Names
                 PROVE  remote'[n] \in [data : Tokens \cup {None},
                                        meta : Tokens \cup {None}]
      OBVIOUS
    <3>1. PICK d, m : /\ remote'[n] = [data |-> d, meta |-> m]
                      /\ d \in Tokens \cup {None} /\ m \in Tokens \cup {None}
      BY <1>2, <1>3
    <3> QED BY <3>1
  <2>3. remote' \in Dirs
    BY <2>1, <2>2 DEF Dirs
  <2>4. out' \in Prints
    BY <1>1 DEF IInv, StoreInv, StoreTypes, Prints
  <2> QED BY <1>1, <2>3, <2>4 DEF IInv, StoreInv, StoreTypes
<1>5. LatestInv'
  <2> SUFFICES ASSUME trainer = "sb3", latest # None,
                      latest.name.kind # "interrupted"
               PROVE  /\ remote'[latest.name].data = latest.sha
                      /\ remote'[latest.name].meta = latest.sha
    BY <1>1 DEF IInv, StoreInv, LatestInv, LatestIsRestorable
  <2>1. /\ remote[latest.name].data = latest.sha
        /\ remote[latest.name].meta = latest.sha
    BY DEF IInv, StoreInv, LatestInv, LatestIsRestorable
  <2>2. latest.name \in Names /\ latest.sha # None
    <3>1. latest \in [name : Names, sha : Tokens]
      BY DEF IInv, StoreInv, StoreTypes
    <3> QED BY <3>1, NoneAssumption
  <2>3. CASE pc = "sync"
    BY <1>2, <2>1, <2>2, <2>3 DEF IInv, JobInv, Learning
  <2>4. CASE pc \in {"evaluate", "upload"}
    <3>1. Covers
      BY <2>4 DEF IInv, JobInv, Finalization, Finalizing
    <3> QED BY <1>2, <2>1, <2>2, <3>1 DEF Covers
  <2> QED BY <2>3, <2>4
<1>6. status' # "completed"
  BY DEF IInv, JobInv, Beginning
<1>7. launches' = 0 => latest' = None
  BY <1>1 DEF IInv, StoreInv
<1> QED BY <1>2, <1>4, <1>5, <1>6, <1>7
        DEF StoreInv, CompletedIsWhole, SelectedIsPublic

(* Nothing is there at the start.                                           *)
LEMMA InitInv == Init => IInv
<1> SUFFICES ASSUME Init PROVE IInv
  OBVIOUS
<1>1. /\ trainer \in Trainers /\ launches = 0 /\ pc = "idle" /\ latest = None
      /\ manifest = None /\ status = None /\ api = "none"
      /\ remote = EmptyTree /\ out = Nothing /\ made = Nothing
  BY DEF Init
<1>2. StoreTypes /\ JobTypes
  BY Made, RunAssumption, TotalAssumption DEF Init, StoreTypes, JobTypes
<1>3. StoreInv
  BY <1>1, <1>2, NoneAssumption
     DEF StoreInv, LatestInv, CompletedIsWhole, SelectedIsPublic
<1>4. Beginning /\ Saving /\ Learning /\ Finalization
  BY <1>1 DEF Beginning, Saving, Learning, Finalization, Starting, Finalizing, Rendered,
              Nothing, Artifacts
<1> QED BY <1>2, <1>3, <1>4 DEF IInv, JobInv

-----------------------------------------------------------------------------
(* A launch: with something to resume from, or with nothing published.      *)
LEMMA StartInv ==
  ASSUME IInv, NEW m \in {"train", "hosted", "finalize"},
         NEW r \in {"fresh", "remote", "named"}, NEW digest \in Tokens \cup {None},
         Start(m, r, digest), m = "finalize" \/ r = "remote" \/ latest = None,
         api' \in {"none", "done", "confirm"}
  PROVE  IInv'
<1>1. /\ pc = "idle" /\ launches < MaxLaunches /\ launches' = launches + 1
      /\ mode' = m /\ resume' = r /\ want' = digest /\ exit' = "none"
      /\ pc' = IF m = "finalize" THEN "download"
               ELSE IF r = "fresh" THEN "begin" ELSE "resume"
      /\ UNCHANGED <<trainer, cur, at, local, made, picked, store>>
  BY DEF Start
<1>2. launches \in Nat /\ launches' \in 0..MaxLaunches /\ launches' # 0
  <2>1. launches \in 0..MaxLaunches /\ MaxLaunches \in Nat
    BY RunAssumption DEF IInv, JobInv, JobTypes
  <2> QED BY <1>1, <2>1
<1>3. StoreInv'
  BY <1>1, StoreKept
<1>4. JobTypes'
  BY <1>1, <1>2 DEF IInv, JobInv, JobTypes, Finalizing
<1>5. Beginning'
  BY <1>1, <1>2 DEF IInv, JobInv, Beginning, Starting
<1>6. Saving' /\ Learning' /\ Finalization'
  BY <1>1 DEF Saving, Learning, Finalization, Finalizing, Rendered
<1> QED BY <1>3, <1>4, <1>5, <1>6 DEF IInv, JobInv

(* Training resumes what the store has, except for the first launch.        *)
LEMMA TrainInv ==
  ASSUME IInv, NEW m \in {"train", "hosted"}, NEW r \in {"fresh", "remote", "named"},
         Train(m, r)
  PROVE  IInv'
<1>1. r = "remote" \/ latest = None
  BY DEF Train, IInv, StoreInv, JobInv, JobTypes
<1> QED BY <1>1, StartInv DEF Train

(* A finalization may select anything.                                      *)
LEMMA FinalizeInv ==
  ASSUME IInv, NEW d, Finalize(d)
  PROVE  IInv'
<1>1. \A n \in Names : remote[n].data \in Tokens \cup {None}
  BY DEF IInv, StoreInv, StoreTypes, Dirs
<1>2. d \in Tokens \cup {None}
  BY <1>1 DEF Finalize
<1> QED BY <1>2, StartInv DEF Finalize

(* The API's request runs beside the container it starts.                   *)
LEMMA ApiInv ==
  ASSUME IInv, ApiRequest \/ ApiAnnounce \/ ApiSubmit \/ ApiConfirm \/ ApiDies
  PROVE  IInv'
<1>1. CASE ApiSubmit /\ Start("train", "fresh", None) /\ api' = "confirm"
  <2>1. latest = None
    BY <1>1 DEF ApiSubmit, IInv, StoreInv, JobInv, Beginning
  <2> QED BY <1>1, <2>1, StartInv
<1>2. CASE /\ UNCHANGED <<trainer, launches, container, remote, latest, out, manifest>>
           /\ status' \in {"queued", "starting", "failed", status}
           /\ api' \in {"queued", "submit", "done"}
           /\ api' \in {"queued", "submit"} => launches = 0
  <2>1. StoreInv'
    BY <1>2, StoreKept
  <2>2. JobTypes' /\ Beginning'
    BY <1>2 DEF IInv, JobInv, JobTypes, Beginning, Starting
  <2>3. Saving' /\ Learning'
    BY <1>2 DEF IInv, JobInv, Saving, Learning
  <2>4. Finalization'
    BY <1>2 DEF IInv, JobInv, Finalization, Covers, Attested, Product,
                  PublicNow
  <2> QED BY <2>1, <2>2, <2>3, <2>4 DEF IInv, JobInv
<1>3. api \in {"queued", "submit"} => launches = 0
  BY DEF IInv, JobInv, Beginning
<1> QED BY <1>1, <1>2, <1>3 DEF ApiRequest, ApiAnnounce, ApiSubmit, ApiConfirm, ApiDies

(* Ends that write nothing: any time for a kill, and the failures before    *)
(* training and in the finalization.                                        *)
LEMMA EndsQuietlyInv ==
  ASSUME IInv, \/ Killed \/ NotAttested \/ ResumeUnavailable \/ FinalizationFails
               \/ FinalizationTimeout
  PROVE  IInv'
<1>1. PICK why \in Exits : Ended(why)
  BY DEF Killed, NotAttested, ResumeUnavailable, FinalizationFails,
         FinalizationTimeout, Exits
<1>2. pc # "idle" /\ UNCHANGED <<trainer, launches, store, api>>
  BY DEF Killed, NotAttested, ResumeUnavailable, FinalizationFails,
         FinalizationTimeout, Finalizing, FirstOperation
<1> QED BY <1>1, <1>2, EndsInv

(* A failure of the training is recorded, or the record fails too.          *)
LEMMA TrainingFailsInv ==
  ASSUME IInv, TrainingFails
  PROVE  IInv'
<1>1. PICK why \in Exits : Failed(why)
  BY DEF TrainingFails, Exits
<1>2. pc # "idle"
  BY DEF TrainingFails
<1> QED BY <1>1, <1>2, EndsInv DEF TrainingFails, StatusOnly, Failed

(* What is restored is what the latest record names.                        *)
LEMMA ResumeLatestInv ==
  ASSUME IInv, ResumeLatest
  PROVE  IInv'
<1>1. pc = "resume" /\ resume = "remote" /\ UNCHANGED <<trainer, launches, store, api>>
  BY DEF ResumeLatest
<1>2. CASE Ended("storage") \/ Ended("error")
  BY <1>1, <1>2, EndsInv DEF Exits
<1>3. CASE /\ latest # None
           /\ local' = [local EXCEPT ![latest.name] = remote[latest.name]]
           /\ cur' = latest.name /\ pc' = "begin"
           /\ UNCHANGED <<mode, resume, want, exit, at, made, picked>>
  <2>1. StoreInv'
    BY <1>1, StoreKept
  <2>2. latest.name \in Names
    BY <1>3 DEF IInv, StoreInv, StoreTypes
  <2>3. local' \in Dirs
    BY <1>3, <2>2 DEF IInv, StoreInv, StoreTypes, JobInv, JobTypes, Dirs
  <2>4. JobTypes'
    BY <1>1, <1>3, <2>2, <2>3 DEF IInv, JobInv, JobTypes
  <2>5. Beginning'
    BY <1>1, <1>3 DEF IInv, JobInv, Beginning, Starting
  <2>6. Saving' /\ Learning' /\ Finalization'
    BY <1>3 DEF Saving, Learning, Finalization, Finalizing, Rendered
  <2> QED BY <2>1, <2>4, <2>5, <2>6 DEF IInv, JobInv
<1> QED BY <1>2, <1>3 DEF ResumeLatest

(* A named parent is another run's.                                         *)
LEMMA ResumeNamedInv ==
  ASSUME IInv, ResumeNamed
  PROVE  IInv'
<1>1. /\ pc = "resume" /\ resume = "named" /\ local' = Saved(local, Parent, ParentToken)
      /\ cur' = Parent /\ pc' = "begin"
      /\ UNCHANGED <<trainer, launches, mode, resume, want, exit, at, made, picked,
                     store, api>>
  BY DEF ResumeNamed
<1>2. StoreInv'
  BY <1>1, StoreKept
<1>3. JobTypes'
  BY <1>1, Made DEF IInv, JobInv, JobTypes
<1>4. Beginning'
  BY <1>1, Made DEF IInv, JobInv, Beginning, Starting
<1>5. Saving' /\ Learning' /\ Finalization'
  BY <1>1 DEF Saving, Learning, Finalization, Finalizing, Rendered
<1> QED BY <1>2, <1>3, <1>4, <1>5 DEF IInv, JobInv

(* The status says training.                                                *)
LEMMA BeginInv ==
  ASSUME IInv, Begin
  PROVE  IInv'
<1>1. /\ pc = "begin" /\ status' = "training" /\ pc' = "load"
      /\ UNCHANGED <<trainer, launches, remote, latest, out, manifest, api,
                     mode, resume, want, exit, cur, at, local, made, picked>>
  BY DEF Begin, StatusOnly
<1>2. StoreInv'
  BY <1>1, StoreKept
<1>3. JobTypes' /\ Beginning'
  BY <1>1 DEF IInv, JobInv, JobTypes, Beginning, Starting
<1>4. Saving' /\ Learning' /\ Finalization'
  BY <1>1 DEF Saving, Learning, Finalization, Finalizing, Rendered
<1> QED BY <1>2, <1>3, <1>4 DEF IInv, JobInv

-----------------------------------------------------------------------------
(* A checkpoint is saved with its own digest, and goes on to be published.  *)
LEMMA CheckpointInv ==
  ASSUME IInv, pc \in {"load", "learn", "playground"}, NEW n \in Names,
         Checkpoint(n), at' \in 0..Total,
         trainer = "mjx" /\ n.kind = "step" => n.step < Total,
         trainer = "sb3" =>
           /\ n.step = at' /\ (n.kind = "final" => at' = Total)
           /\ latest # None => /\ latest.name.step <= at'
                               /\ n = latest.name => n.kind = "interrupted"
  PROVE  IInv'
<1>1. /\ local' = Saved(local, n, Fresh(n)) /\ cur' = n /\ pc' = "publish"
      /\ UNCHANGED <<trainer, launches, mode, resume, want, exit,
                     made, picked, store, api>>
  BY DEF Checkpoint
<1>2. /\ Fresh(n) \in Tokens /\ local' \in Dirs
      /\ local'[n].data = Fresh(n) /\ local'[n].meta = Fresh(n)
  <2>1. Fresh(n) \in Tokens /\ local \in Dirs
    BY Made DEF IInv, JobInv, JobTypes
  <2> QED BY <1>1, <2>1, Made
<1>3. StoreInv'
  BY <1>1, StoreKept
<1>4. JobTypes'
  BY <1>1, <1>2 DEF IInv, JobInv, JobTypes
<1>5. Beginning'
  BY <1>1 DEF IInv, JobInv, Beginning, Starting
<1>6. Saving'
  BY <1>1, <1>2, NoneAssumption DEF Saving
<1>7. Learning'
  BY <1>1 DEF Learning
<1>8. Finalization'
  BY <1>1 DEF Finalization, Finalizing, Rendered
<1> QED BY <1>3, <1>4, <1>5, <1>6, <1>7, <1>8 DEF IInv, JobInv

(* Names in use have a step of the budget.                                  *)
LEMMA StepNames ==
  ASSUME NEW k \in 0..Total
  PROVE  /\ Name("step", k) \in Names /\ Name("final", k) \in Names
         /\ Name("interrupted", k) \in Names
         /\ MJXName(k) \in Names /\ MJXName(k).step = k
         /\ MJXName(k).kind = "step" => k < Total
<1>1. \A kind \in Kinds : [kind |-> kind, step |-> k] \in Names
  BY DEF Names
<1>2. {"step", "final", "interrupted"} \subseteq Kinds
  BY DEF Kinds
<1>3. /\ Name("step", k) \in Names /\ Name("final", k) \in Names
      /\ Name("interrupted", k) \in Names
  BY <1>1, <1>2 DEF Name
<1>4. k \in Int /\ Total \in Int /\ k <= Total
  BY TotalAssumption
<1>5. CASE k = Total
  <2>1. MJXName(k) = Name("final", k) /\ MJXName(k).kind = "final" /\ MJXName(k).step = k
    BY <1>5 DEF MJXName, Name
  <2> QED BY <1>3, <2>1
<1>6. CASE k # Total
  <2>1. MJXName(k) = Name("step", k) /\ MJXName(k).step = k
    BY <1>6 DEF MJXName, Name
  <2> QED BY <1>3, <1>4, <1>6, <2>1
<1> QED BY <1>3, <1>5, <1>6

(* A new model is at the beginning, where nothing was published.            *)
LEMMA LoadFreshSB3Inv ==
  ASSUME IInv, LoadFreshSB3
  PROVE  IInv'
<1>1. /\ pc = "load" /\ trainer = "sb3" /\ resume = "fresh" /\ at' = 0
      /\ local' = Saved(local, Initial, Fresh(Initial)) /\ pc' = "learn"
      /\ UNCHANGED <<trainer, launches, mode, resume, want, exit, cur, made, picked,
                     store, api>>
  BY DEF LoadFreshSB3
<1>2. local' \in Dirs /\ latest = None
  BY <1>1, Made DEF IInv, JobInv, JobTypes, Beginning, Starting
<1>3. StoreInv'
  BY <1>1, StoreKept
<1>4. JobTypes'
  BY <1>1, <1>2, TotalAssumption DEF IInv, JobInv, JobTypes
<1>5. Beginning' /\ Saving' /\ Learning' /\ Finalization'
  BY <1>1, <1>2
     DEF IInv, JobInv, Beginning, Saving, Learning, Finalization, Starting,
         Finalizing, Rendered
<1> QED BY <1>3, <1>4, <1>5 DEF IInv, JobInv

(* A resumed model is at the step of the latest record, below the budget,   *)
(* or starts from a parent with nothing published.                          *)
LEMMA LoadResumedSB3Inv ==
  ASSUME IInv, LoadResumedSB3
  PROVE  IInv'
<1>1. pc = "load" /\ trainer = "sb3" /\ resume # "fresh"
  BY DEF LoadResumedSB3
<1>2. CASE Failed("error") /\ StatusOnly
  BY <1>1, <1>2, EndsInv DEF Exits, Failed, StatusOnly
<1>3. CASE /\ cur.step < Total /\ at' = cur.step /\ cur' = None /\ pc' = "learn"
           /\ UNCHANGED <<trainer, launches, mode, resume, want, exit, local,
                          made, picked, store, api>>
  <2>1. /\ cur \in Names
        /\ latest = None \/ (latest # None /\ cur = latest.name)
    BY <1>1 DEF IInv, StoreInv, StoreTypes, JobInv, JobTypes, Beginning, Starting
  <2>2. cur.step \in 0..Total
    BY <2>1 DEF Names
  <2>3. latest # None => latest.name.step <= at' /\ latest.name.kind # "final"
    BY <1>1, <1>3, <2>1, <2>2, TotalAssumption DEF IInv, StoreInv, LatestInv
  <2>4. StoreInv'
    BY <1>3, StoreKept
  <2>5. JobTypes'
    BY <1>1, <1>3, <2>2 DEF IInv, JobInv, JobTypes
  <2>6. Beginning' /\ Saving' /\ Learning' /\ Finalization'
    BY <1>1, <1>3, <2>3
       DEF IInv, JobInv, Beginning, Saving, Learning, Finalization, Starting,
           Finalizing, Rendered
  <2> QED BY <2>4, <2>5, <2>6 DEF IInv, JobInv
<1> QED BY <1>2, <1>3 DEF LoadResumedSB3, StepOf

(* MJX publishes an initial policy at every launch.                         *)
LEMMA LoadMJXInv ==
  ASSUME IInv, LoadMJX
  PROVE  IInv'
<1>1. pc = "load" /\ trainer = "mjx"
  BY DEF LoadMJX
<1>2. CASE Failed("error") /\ StatusOnly
  BY <1>1, <1>2, EndsInv DEF Exits, Failed, StatusOnly
<1>3. CASE Checkpoint(Initial) /\ at' = at
  <2>1. Initial \in Names /\ Initial.kind = "initial" /\ at' \in 0..Total
    BY <1>3, Made DEF IInv, JobInv, JobTypes, Initial, Name
  <2> QED BY <1>1, <1>3, <2>1, CheckpointInv
<1> QED BY <1>2, <1>3 DEF LoadMJX, Checkpoint

(* Training saves names past the latest record; an interrupted one may have *)
(* been used before.                                                        *)
LEMMA LearnInv ==
  ASSUME IInv, Learn \/ Interrupt
  PROVE  IInv'
<1>1. pc = "learn" /\ at \in 0..Total
  BY DEF Learn, Interrupt, IInv, JobInv, JobTypes
<1>2. trainer = "sb3" /\ latest # None =>
        latest.name.step <= at /\ latest.name.kind # "final"
        /\ latest.name.step \in 0..Total
  BY <1>1 DEF IInv, StoreInv, StoreTypes, JobInv, Learning, Names
<1>3. trainer = "sb3"
  BY <1>1, RunAssumption DEF IInv, JobInv, JobTypes, Learning
<1>4. CASE at < Total /\ at' = at + 1 /\ Checkpoint(Name("step", at + 1))
  <2>1. at + 1 \in 0..Total
    BY <1>1, <1>4, TotalAssumption
  <2>2. Name("step", at + 1) \in Names /\ Name("step", at + 1).step = at + 1
        /\ Name("step", at + 1).kind = "step"
    BY <2>1, StepNames DEF Name
  <2>3. latest # None => latest.name.step <= at + 1 /\ latest.name.step # at + 1
    BY <1>1, <1>2, <1>3, TotalAssumption
  <2> QED BY <1>1, <1>3, <1>4, <2>1, <2>2, <2>3, CheckpointInv
<1>5. CASE ~(at < Total) /\ at' = at /\ Checkpoint(Name("final", at))
  <2>1. at = Total
    BY <1>1, <1>5, TotalAssumption
  <2>2. Name("final", at) \in Names /\ Name("final", at).step = at
        /\ Name("final", at).kind = "final"
    BY <1>1, StepNames DEF Name
  <2> QED BY <1>1, <1>2, <1>3, <1>5, <2>1, <2>2, CheckpointInv
<1>6. CASE at' = at /\ Checkpoint(Name("interrupted", at))
  <2>1. Name("interrupted", at) \in Names /\ Name("interrupted", at).step = at
        /\ Name("interrupted", at).kind = "interrupted"
    BY <1>1, StepNames DEF Name
  <2> QED BY <1>1, <1>2, <1>3, <1>6, <2>1, CheckpointInv
<1> QED BY <1>4, <1>5, <1>6 DEF Learn, Interrupt, BudgetLeft

(* Playground's checkpoints come one by one, the last at the end of the      *)
(* budget.                                                                  *)
LEMMA PlaygroundInv ==
  ASSUME IInv, Playground
  PROVE  IInv'
<1>1. pc = "playground" /\ at' = at /\ Checkpoint(MJXName(1)) /\ at \in 0..Total
  BY DEF Playground, IInv, JobInv, JobTypes
<1>2. 1 \in 0..Total
  BY TotalAssumption
<1>3. trainer = "mjx"
  BY <1>1, RunAssumption DEF IInv, JobInv, JobTypes, Learning
<1>4. MJXName(1) \in Names /\ (MJXName(1).kind = "step" => MJXName(1).step < Total)
  BY <1>2, StepNames
<1> QED BY <1>1, <1>3, <1>4, CheckpointInv

(* Publishing, up to any of its writes: latest.json is written last, and the *)
(* object it named before is another, but for an interrupted checkpoint.    *)
LEMMA PublishKept ==
  ASSUME IInv, pc = "publish", NEW k \in 0..3, PublishWrites(k),
         UNCHANGED <<trainer, launches, out, manifest>>, status' \in {status, "failed"}
  PROVE  /\ StoreInv'
         /\ k = 3 => /\ latest' # None /\ latest'.name = cur
                     /\ remote'[cur] = local[cur]
<1>1. /\ cur \in Names /\ local \in Dirs /\ remote \in Dirs
      /\ local[cur].data # None /\ local[cur].meta = local[cur].data
  BY DEF IInv, JobInv, JobTypes, Saving, StoreInv, StoreTypes
<1>2. /\ local[cur].data \in Tokens /\ local[cur].meta \in Tokens
      /\ local[cur] = [data |-> local[cur].data, meta |-> local[cur].meta]
      /\ remote[cur].data \in Tokens \cup {None}
      /\ remote[cur].meta \in Tokens \cup {None}
  BY <1>1 DEF Dirs
<1>3. /\ remote'[cur] =
           [data |-> IF k > 0 THEN local[cur].data ELSE remote[cur].data,
            meta |-> IF k > 1 THEN local[cur].meta ELSE remote[cur].meta]
      /\ \A n \in Names \ {cur} : remote'[n] = remote[n]
      /\ latest' = IF k > 2 THEN [name |-> cur, sha |-> local[cur].meta] ELSE latest
  BY <1>1 DEF PublishWrites, Dirs
<1>4. remote' \in Dirs
  <2>1. remote'[cur] \in [data : Tokens \cup {None}, meta : Tokens \cup {None}]
    BY <1>2, <1>3
  <2>2. remote' = [remote EXCEPT ![cur] = remote'[cur]]
    BY <1>1, <1>3 DEF PublishWrites
  <2> QED BY <1>1, <2>1, <2>2 DEF Dirs
<1>5. latest' \in {None} \cup [name : Names, sha : Tokens]
  BY <1>1, <1>2, <1>3 DEF IInv, StoreInv, StoreTypes
<1>6. StoreTypes'
  BY <1>4, <1>5 DEF IInv, StoreInv, StoreTypes
<1>7. status # "completed" /\ launches # 0
  BY DEF IInv, JobInv, Beginning
<1>8. CompletedIsWhole' /\ SelectedIsPublic'
  BY <1>7 DEF CompletedIsWhole, SelectedIsPublic
<1>9. LatestInv'
  <2> SUFFICES ASSUME trainer = "sb3", latest' # None
               PROVE  /\ latest'.name.kind = "final" => latest'.name.step = Total
                      /\ latest'.name.kind # "interrupted" =>
                           /\ remote'[latest'.name].data = latest'.sha
                           /\ remote'[latest'.name].meta = latest'.sha
    BY DEF LatestInv, LatestIsRestorable
  <2>1. CASE k = 3
    <3>1. latest'.name = cur /\ latest'.sha = local[cur].meta
      BY <1>3, <2>1
    <3>2. cur.kind = "final" => cur.step = Total
      BY DEF IInv, JobInv, Learning
    <3>3. remote'[cur].data = local[cur].data /\ remote'[cur].meta = local[cur].meta
      BY <1>3, <2>1
    <3> QED BY <1>1, <3>1, <3>2, <3>3
  <2>2. CASE k # 3
    <3>1. latest' = latest
      BY <1>3, <2>2
    <3>2. latest # None /\ latest.name \in Names
      BY <3>1 DEF IInv, StoreInv, StoreTypes
    <3>3. CASE latest.name = cur
      <4>1. latest.name.kind = "interrupted"
        BY <3>2, <3>3 DEF IInv, JobInv, Learning
      <4> QED BY <3>1, <4>1
    <3>4. CASE latest.name # cur
      <4>1. remote'[latest.name] = remote[latest.name]
        BY <1>3, <3>2, <3>4
      <4> QED BY <3>1, <3>2, <4>1 DEF IInv, StoreInv, LatestInv, LatestIsRestorable
    <3> QED BY <3>3, <3>4
  <2> QED BY <2>1, <2>2
<1>10. launches' # 0
  BY <1>7
<1>11. k = 3 => /\ latest' # None /\ latest'.name = cur
                /\ remote'[cur] = local[cur]
  <2> SUFFICES ASSUME k = 3
               PROVE  latest' # None /\ latest'.name = cur /\ remote'[cur] = local[cur]
    OBVIOUS
  <2>1. latest' = [name |-> cur, sha |-> local[cur].meta]
    BY <1>3
  <2>2. latest' \in [name : Names, sha : Tokens]
    BY <1>1, <1>2, <2>1
  <2>3. remote'[cur] = [data |-> local[cur].data, meta |-> local[cur].meta]
    BY <1>3
  <2> QED BY <1>2, <2>1, <2>2, <2>3, NoneAssumption
<1> QED BY <1>6, <1>8, <1>9, <1>10, <1>11 DEF StoreInv

(* Publishing that stops between two writes.                                *)
LEMMA PublishStopsInv ==
  ASSUME IInv, PublishStops
  PROVE  IInv'
<1>1. PICK k \in 0..2 : PublishWrites(k)
  BY DEF PublishStops
<1>2. /\ pc = "publish" /\ UNCHANGED <<trainer, launches, out, manifest, api>>
      /\ Ended("storage") \/ Ended("killed")
      /\ status' \in {status, "failed"}
  BY DEF PublishStops, Failed
<1>3. k \in 0..3
  OBVIOUS
<1>4. StoreInv'
  BY <1>1, <1>2, <1>3, PublishKept
<1> QED BY <1>2, <1>4, EndedInv DEF Exits

(* After the last write the record names what the run tree has.             *)
LEMMA PublishInv ==
  ASSUME IInv, Publish
  PROVE  IInv'
<1>1. /\ pc = "publish" /\ PublishWrites(3)
      /\ UNCHANGED <<trainer, launches, mode, resume, want, exit, at, made, picked,
                     out, manifest, status, api>>
  BY DEF Publish
<1>2. /\ StoreInv' /\ latest' # None /\ latest'.name = cur
      /\ remote'[cur] = local[cur]
  BY <1>1, PublishKept
<1>3. cur \in Names /\ cur.step \in 0..Total
  BY <1>1 DEF IInv, JobInv, Saving, Names
<1>4. CASE trainer = "mjx" /\ cur.kind = "step"
  <2> DEFINE n == MJXName(cur.step + 1)
  <2>1. local' = Saved(local, n, Fresh(n)) /\ cur' = n /\ pc' = "publish"
    BY <1>4 DEF Publish
  <2>2. cur.step + 1 \in 0..Total
    BY <1>1, <1>3, <1>4, TotalAssumption DEF IInv, JobInv, Saving
  <2>3. n \in Names /\ (n.kind = "step" => n.step < Total)
    BY <2>2, StepNames
  <2> HIDE DEF n
  <2>4. Fresh(n) \in Tokens /\ local \in Dirs
    BY <2>3, Made DEF IInv, JobInv, JobTypes
  <2>5. /\ local' \in Dirs /\ local'[n].data = Fresh(n) /\ local'[n].meta = Fresh(n)
    BY <2>1, <2>3, <2>4, Made
  <2>6. JobTypes'
    BY <1>1, <2>1, <2>3, <2>5 DEF IInv, JobInv, JobTypes
  <2>7. Beginning'
    BY <1>1, <2>1 DEF IInv, JobInv, Beginning, Starting
  <2>8. Saving'
    BY <2>1, <2>3, <2>4, <2>5, NoneAssumption DEF Saving
  <2>9. Learning' /\ Finalization'
    BY <1>1, <1>4, <2>1 DEF Learning, Finalization, Finalizing, Rendered
  <2> QED BY <1>2, <2>6, <2>7, <2>8, <2>9 DEF IInv, JobInv
<1>5. CASE ~(trainer = "mjx" /\ cur.kind = "step")
  <2>1. /\ UNCHANGED <<local, cur>>
        /\ pc' = IF trainer = "sb3" THEN "report"
                 ELSE IF cur = Initial THEN "playground" ELSE "sync"
    BY <1>5 DEF Publish
  <2>2. JobTypes'
    BY <1>1, <2>1 DEF IInv, JobInv, JobTypes
  <2>3. Beginning'
    BY <1>1, <2>1 DEF IInv, JobInv, Beginning, Starting
  <2>4. Saving' /\ Finalization'
    BY <1>3, <2>1 DEF Saving, Finalization, Finalizing, Rendered
  <2>5. Learning'
    <3>1. trainer \in {"sb3", "mjx"}
      BY RunAssumption DEF IInv, JobInv, JobTypes
    <3>2. CASE trainer = "sb3"
      <4>1. pc' = "report" /\ cur'.step = at' /\ (cur'.kind = "final" => at' = Total)
        BY <1>1, <2>1, <3>2 DEF IInv, JobInv, Learning
      <4> QED BY <1>1, <1>2, <2>1, <3>2, <4>1 DEF Learning
    <3>3. CASE trainer = "mjx"
      BY <1>1, <2>1, <3>3 DEF Learning
    <3> QED BY <3>1, <3>2, <3>3
  <2> QED BY <1>2, <2>2, <2>3, <2>4, <2>5 DEF IInv, JobInv
<1> QED BY <1>4, <1>5

(* Retention removes no file but of periodic checkpoints.                   *)
LEMMA PrunedTree ==
  ASSUME NEW d \in Dirs
  PROVE  Pruned(d) \in Dirs
<1>1. NoFile \in [data : Tokens \cup {None}, meta : Tokens \cup {None}]
  BY DEF NoFile
<1> QED BY <1>1 DEF Pruned, Dirs

(* After the hook: the next interval, the sync at the end, or the exit of an *)
(* interrupted run.                                                         *)
LEMMA ReportInv ==
  ASSUME IInv, Report
  PROVE  IInv'
<1>1. /\ pc = "report" /\ status' = "training"
      /\ out' = [a \in Artifacts |-> IF made[a] # None THEN made[a] ELSE out[a]]
      /\ UNCHANGED <<trainer, launches, remote, latest, manifest, api>>
  BY DEF Report
<1>2. /\ trainer = "sb3" /\ cur \in Names /\ cur.step = at
      /\ latest # None /\ latest.name = cur /\ remote[cur] = local[cur]
  BY <1>1, RunAssumption DEF IInv, JobInv, JobTypes, Saving, Learning
<1>3. out' \in Prints
  BY <1>1 DEF IInv, StoreInv, StoreTypes, JobInv, JobTypes, Prints
<1>4. StoreInv'
  <2>1. StoreTypes'
    BY <1>1, <1>3 DEF IInv, StoreInv, StoreTypes
  <2>2. LatestInv'
    BY <1>1 DEF IInv, StoreInv, LatestInv, LatestIsRestorable
  <2>3. CompletedIsWhole' /\ SelectedIsPublic'
    BY <1>1 DEF CompletedIsWhole, SelectedIsPublic
  <2>4. launches' = 0 => latest' = None
    BY <1>1 DEF IInv, StoreInv
  <2> QED BY <2>1, <2>2, <2>3, <2>4 DEF StoreInv
<1>5. CASE cur.kind = "interrupted"
  BY <1>1, <1>4, <1>5, EndedInv DEF Report, Exits
<1>6. CASE cur.kind # "interrupted"
  <2>1. /\ local' = IF cur.kind = "step" THEN Pruned(local) ELSE local
        /\ cur' = None
        /\ pc' = IF cur.kind = "step" THEN "learn" ELSE "sync"
        /\ UNCHANGED <<mode, resume, want, exit, at, made, picked>>
    BY <1>6 DEF Report
  <2>2. local' \in Dirs
    BY <2>1, PrunedTree DEF IInv, JobInv, JobTypes
  <2>3. JobTypes'
    BY <1>1, <2>1, <2>2 DEF IInv, JobInv, JobTypes
  <2>4. Beginning'
    BY <1>1, <2>1 DEF IInv, JobInv, Beginning, Starting
  <2>5. Saving' /\ Finalization'
    BY <2>1 DEF Saving, Finalization, Finalizing, Rendered
  <2>6. at \in 0..Total
    BY DEF IInv, JobInv, JobTypes
  <2>7. Learning'
    <3>1. CASE cur.kind = "step"
      <4>1. pc' = "learn" /\ latest'.name.step <= at' /\ latest'.name.kind # "final"
        BY <1>1, <1>2, <2>1, <2>6, <3>1, TotalAssumption
      <4> QED BY <1>1, <1>2, <4>1 DEF Learning
    <3>2. CASE cur.kind # "step"
      <4>1. pc' = "sync" /\ latest' # None /\ remote'[latest'.name] = local'[latest'.name]
        BY <1>1, <1>2, <2>1, <3>2
      <4> QED BY <1>1, <1>2, <4>1 DEF Learning
    <3> QED BY <3>1, <3>2
  <2> QED BY <1>4, <2>3, <2>4, <2>5, <2>7 DEF IInv, JobInv
<1> QED BY <1>5, <1>6

-----------------------------------------------------------------------------
(* The sync at the end of the training.                                     *)
LEMMA SyncTrainedInv ==
  ASSUME IInv, SyncTrained
  PROVE  IInv'
<1>1. /\ pc = "sync" /\ UploadAll(made) /\ pc' = "trained"
      /\ UNCHANGED <<trainer, launches, mode, resume, want, exit, cur, at, local,
                     made, picked, status, api>>
  BY DEF SyncTrained
<1>2. StoreInv'
  <2>1. made \in Prints
    BY DEF IInv, JobInv, JobTypes
  <2> QED BY <1>1, <2>1, UploadKept DEF UploadAll
<1>3. UNCHANGED <<latest, manifest>>
  BY <1>1 DEF UploadAll, Upload
<1>4. JobTypes'
  BY <1>1 DEF IInv, JobInv, JobTypes
<1>5. Beginning'
  BY <1>1 DEF IInv, JobInv, Beginning, Starting
<1>6. Saving' /\ Learning' /\ Finalization'
  BY <1>1 DEF Saving, Learning, Finalization, Finalizing, Rendered
<1> QED BY <1>2, <1>4, <1>5, <1>6 DEF IInv, JobInv

(* What a rendering or an evaluation makes of an attested checkpoint.        *)
LEMMA ProductsOfAttested ==
  ASSUME IInv, pc # "idle", NEW n \in Names, Attested(n)
  PROVE  Product(n) \in Products
<1>1. local[n].data \in Tokens
  BY DEF Attested, Loadable, IInv, JobInv, JobTypes, Dirs
<1>2. launches \in 0..MaxLaunches /\ launches # 0 /\ MaxLaunches \in Nat
  BY RunAssumption DEF IInv, JobInv, JobTypes, Beginning
<1>3. launches \in 1..MaxLaunches
  BY <1>2
<1> QED BY <1>1, <1>3 DEF Product, Products

(* The metrics of the evaluation come from the selected checkpoint.         *)
LEMMA EvaluatedPrints ==
  ASSUME IInv, pc = "evaluate"
  PROVE  Evaluated \in Prints
<1>1. picked.selected \in Names /\ Attested(picked.selected) /\ made \in Prints
  BY DEF IInv, JobInv, JobTypes, Finalization, Rendered, Picks
<1>2. Product(picked.selected) \in Products
  BY <1>1, ProductsOfAttested
<1> QED BY <1>1, <1>2 DEF Evaluated, Prints

(* A sync that stops, of the training or of the finalization.               *)
LEMMA SyncStopsInv ==
  ASSUME IInv, SyncTrainedStops \/ EvaluateStops \/ UploadFinalStops
  PROVE  IInv'
<1>1. /\ pc \in {"sync", "evaluate", "upload"}
      /\ UploadPart(made) \/ (pc = "evaluate" /\ UploadPart(Evaluated))
      /\ UNCHANGED <<trainer, launches, api>>
      /\ Ended("storage") \/ Ended("killed")
      /\ status' \in {status, "failed"}
  BY DEF SyncTrainedStops, EvaluateStops, UploadFinalStops, SyncRaises, Failed
<1>2. made \in Prints
  BY DEF IInv, JobInv, JobTypes
<1>3. pc = "evaluate" => Evaluated \in Prints
  BY <1>2, EvaluatedPrints
<1>4. PICK arts \in Prints : UploadPart(arts)
  BY <1>1, <1>2, <1>3
<1>5. PICK F \in SUBSET StaleFiles, A \in SUBSET StaleArtifacts(arts) :
        Upload(F, A, arts)
  BY <1>4 DEF UploadPart
<1>6. StoreInv'
  BY <1>1, <1>5, UploadKept
<1> QED BY <1>1, <1>6, EndedInv DEF Exits

(* The trainer's last writes.                                               *)
LEMMA TrainedInv ==
  ASSUME IInv, Trained
  PROVE  IInv'
<1>1. /\ pc = "trained" /\ manifest' = (IF made = Nothing THEN manifest ELSE made)
      /\ status' = "training" /\ UNCHANGED <<trainer, launches, remote, latest, out, api>>
  BY DEF Trained
<1>2. StoreInv'
  <2>1. StoreTypes'
    BY <1>1 DEF IInv, StoreInv, StoreTypes, JobInv, JobTypes
  <2>2. LatestInv'
    BY <1>1 DEF IInv, StoreInv, LatestInv, LatestIsRestorable
  <2>3. CompletedIsWhole' /\ SelectedIsPublic'
    BY <1>1 DEF CompletedIsWhole, SelectedIsPublic
  <2>4. launches' = 0 => latest' = None
    BY <1>1 DEF IInv, StoreInv
  <2> QED BY <2>1, <2>2, <2>3, <2>4 DEF StoreInv
<1>3. CASE Ended("ok")
  BY <1>1, <1>2, <1>3, EndedInv DEF Exits
<1>4. CASE /\ pc' = "download"
           /\ UNCHANGED <<mode, resume, want, exit, cur, at, local, made, picked>>
  <2>1. JobTypes'
    BY <1>1, <1>4 DEF IInv, JobInv, JobTypes, Finalizing
  <2>2. Beginning'
    BY <1>1, <1>4 DEF IInv, JobInv, Beginning, Starting
  <2>3. Saving' /\ Learning' /\ Finalization'
    BY <1>4 DEF Saving, Learning, Finalization, Finalizing, Rendered
  <2> QED BY <1>2, <2>1, <2>2, <2>3 DEF IInv, JobInv
<1> QED BY <1>3, <1>4 DEF Trained, HostedGoesOn

-----------------------------------------------------------------------------
(* The finalization starts from all that the store has.                     *)
LEMMA DownloadInv ==
  ASSUME IInv, Download
  PROVE  IInv'
<1>1. /\ pc = "download" /\ pc' = "select"
      /\ local' = [n \in Names |->
           [data |-> IF remote[n].data # None THEN remote[n].data ELSE local[n].data,
            meta |-> IF remote[n].meta # None THEN remote[n].meta ELSE local[n].meta]]
      /\ made' = [a \in Artifacts |->
           IF a \in {"final_policy", "metrics", "resolved_config"} /\ out[a] # None
           THEN out[a] ELSE made[a]]
      /\ UNCHANGED <<trainer, launches, mode, resume, want, exit, cur, at, picked,
                     store, api>>
  BY DEF Download
<1>2. local \in Dirs /\ remote \in Dirs /\ made \in Prints /\ out \in Prints
  BY DEF IInv, StoreInv, StoreTypes, JobInv, JobTypes
<1>3. local' \in Dirs
  BY <1>1, <1>2 DEF Dirs
<1>4. made' \in Prints
  BY <1>1, <1>2 DEF Prints
<1>5. StoreInv'
  BY <1>1, StoreKept
<1>6. JobTypes'
  BY <1>1, <1>3, <1>4 DEF IInv, JobInv, JobTypes, Finalizing
<1>7. Beginning'
  BY <1>1 DEF IInv, JobInv, Beginning, Starting, Artifacts
<1>8. Saving' /\ Learning'
  BY <1>1 DEF Saving, Learning
<1>9. Covers'
  BY <1>1 DEF Covers
<1>10. Finalization'
  BY <1>1, <1>9 DEF Finalization, Rendered
<1> QED BY <1>5, <1>6, <1>7, <1>8, <1>10 DEF IInv, JobInv

(* It picks names of checkpoints that are there.                            *)
LEMMA SelectInv ==
  ASSUME IInv, Select
  PROVE  IInv'
<1>1. pc = "select" /\ UNCHANGED <<trainer, launches, remote, latest, out, manifest, api>>
  BY DEF Select, StatusOnly
<1>2. CASE Ended("error") /\ UNCHANGED status
  BY <1>1, <1>2, EndsInv DEF Exits
<1>3. CASE ~(Listed(local) = {} \/ (want # None /\ ~ResolvesUniquely(local, want)))
  <2> DEFINE p == Progression(local)
             sel == IF want = None THEN p.final
                    ELSE CHOOSE n \in ByDigest(local, want) : TRUE
  <2>1. /\ picked' = [initial |-> p.initial, quarter |-> p.quarter,
                      final |-> p.final, selected |-> sel]
        /\ status' = "rendering" /\ pc' = "render"
        /\ UNCHANGED <<mode, resume, want, exit, cur, at, local, made>>
    BY <1>3 DEF Select
  <2>2. p.initial \in Names /\ p.quarter \in Names /\ p.final \in Names
    BY <1>3, ProgressionIn
  <2>3. sel \in Names
    BY <1>3, <2>2, ResolvedIn
  <2>4. p.final = Progression(local').final
    BY <2>1
  <2> HIDE DEF p, sel
  <2>5. picked' \in Picks /\ picked'.final = Progression(local').final
    BY <2>1, <2>2, <2>3, <2>4 DEF Picks
  <2>6. StoreInv'
    BY <1>1, <2>1, StoreKept
  <2>7. JobTypes'
    BY <1>1, <2>1, <2>5 DEF IInv, JobInv, JobTypes, Finalizing
  <2>8. Beginning'
    BY <1>1, <2>1 DEF IInv, JobInv, Beginning, Starting
  <2>9. Saving' /\ Learning'
    BY <2>1 DEF Saving, Learning
  <2>10. Covers'
    BY <1>1, <2>1 DEF IInv, JobInv, Finalization, Finalizing, Covers
  <2>11. Finalization'
    BY <2>1, <2>5, <2>10 DEF Finalization, Rendered
  <2> QED BY <2>6, <2>7, <2>8, <2>9, <2>11 DEF IInv, JobInv
<1> QED BY <1>2, <1>3 DEF Select

(* The videos are those of attested checkpoints.                            *)
LEMMA RenderInv ==
  ASSUME IInv, Render
  PROVE  IInv'
<1>1. pc = "render" /\ UNCHANGED <<trainer, launches, remote, latest, out, manifest, api>>
  BY DEF Render, StatusOnly
<1>2. CASE Ended("error") /\ UNCHANGED status
  BY <1>1, <1>2, EndsInv DEF Exits
<1>3. CASE \A f \in DOMAIN picked : Attested(picked[f])
  <2>1. /\ picked \in Picks /\ picked.final = Progression(local).final /\ Covers
    BY <1>1 DEF IInv, JobInv, Finalization, Finalizing
  <2>2. /\ picked.initial \in Names /\ picked.quarter \in Names
        /\ picked.final \in Names /\ picked.selected \in Names
        /\ Attested(picked.initial) /\ Attested(picked.quarter)
        /\ Attested(picked.final) /\ Attested(picked.selected)
    BY <1>3, <2>1 DEF Picks
  <2>3. /\ Product(picked.initial) \in Products /\ Product(picked.quarter) \in Products
        /\ Product(picked.final) \in Products /\ Product(picked.selected) \in Products
    BY <1>1, <2>2, ProductsOfAttested
  <2>4. /\ made' = [made EXCEPT
             !["video_untrained"] = Product(picked.initial),
             !["video_mid"] = Product(picked.quarter),
             !["video_final"] = Product(picked.selected),
             !["video_final_step"] = Product(picked.final)]
        /\ status' = "evaluating" /\ pc' = "evaluate"
        /\ UNCHANGED <<mode, resume, want, exit, cur, at, local, picked>>
    BY <1>3 DEF Render, PublicFinal
  <2>5. made' \in Prints /\ made'["video_final"] = Product(picked.selected)
        /\ made'["video_final_step"] = Product(picked.final)
    BY <2>3, <2>4 DEF IInv, JobInv, JobTypes, Prints, Artifacts
  <2>6. StoreInv'
    BY <1>1, <2>4, StoreKept
  <2>7. JobTypes'
    BY <1>1, <2>4, <2>5 DEF IInv, JobInv, JobTypes, Finalizing
  <2>8. Beginning'
    <3>1. made'["bundle"] = made["bundle"]
      BY <2>4 DEF IInv, JobInv, JobTypes, Prints, Artifacts
    <3>2. pc' = "evaluate" /\ made["bundle"] = None
      BY <1>1, <2>4 DEF IInv, JobInv, Beginning
    <3>3. status' # "completed" /\ pc' \notin {"idle", "resume", "begin", "load"}
      BY <2>4
    <3>4. launches # 0 /\ launches' = launches /\ api' = api
      BY <1>1 DEF IInv, JobInv, Beginning
    <3>5. api \notin {"queued", "submit"}
      BY <3>4 DEF IInv, JobInv, Beginning
    <3> QED BY <3>1, <3>2, <3>3, <3>4, <3>5 DEF Beginning, Starting
  <2>9. Saving' /\ Learning'
    BY <2>4 DEF Saving, Learning
  <2>10. Covers'
    BY <1>1, <2>1, <2>4 DEF Covers
  <2>11. Finalization'
    BY <1>1, <2>1, <2>2, <2>4, <2>5, <2>10
       DEF Finalization, Attested, Product, Rendered
  <2> QED BY <2>6, <2>7, <2>8, <2>9, <2>11 DEF IInv, JobInv
<1> QED BY <1>2, <1>3 DEF Render

(* What holds of the picks from the rendering on.                           *)
LEMMA RenderedFacts ==
  ASSUME IInv, pc \in Rendered
  PROVE  /\ picked \in Picks /\ picked.selected \in Names /\ picked.final \in Names
         /\ picked.final = Progression(local).final /\ Covers
         /\ Attested(picked.selected) /\ Attested(picked.final)
         /\ Product(picked.selected) \in Products /\ Product(picked.final) \in Products
         /\ made["video_final"] = Product(picked.selected)
         /\ made["video_final_step"] = Product(picked.final)
         /\ made \in Prints
<1>1. /\ picked \in Picks /\ picked.final = Progression(local).final
      /\ Attested(picked.selected) /\ Attested(picked.final)
      /\ made["video_final"] = Product(picked.selected)
      /\ made["video_final_step"] = Product(picked.final)
      /\ made \in Prints
  BY DEF IInv, JobInv, JobTypes, Finalization
<1>2. Covers /\ pc # "idle"
  BY DEF IInv, JobInv, Finalization, Finalizing, Rendered
<1>3. picked.selected \in Names /\ picked.final \in Names
  BY <1>1 DEF Picks
<1>4. Product(picked.selected) \in Products /\ Product(picked.final) \in Products
  BY <1>1, <1>2, <1>3, ProductsOfAttested
<1> QED BY <1>1, <1>2, <1>3, <1>4

(* The evaluation syncs, and the tree still covers the store.               *)
LEMMA EvaluateInv ==
  ASSUME IInv, Evaluate
  PROVE  IInv'
<1>1. /\ pc = "evaluate" /\ made' = Evaluated /\ UploadAll(Evaluated)
      /\ pc' = "package"
      /\ UNCHANGED <<trainer, launches, mode, resume, want, exit, cur, at, local,
                     picked, status, api>>
  BY DEF Evaluate
<1>2. Evaluated \in Prints
  BY <1>1, EvaluatedPrints
<1>3. /\ StoreInv'
      /\ \A n \in Names : /\ remote'[n].data \in {remote[n].data, local[n].data}
                          /\ remote'[n].meta \in {remote[n].meta, local[n].meta}
  BY <1>1, <1>2, UploadKept DEF UploadAll
<1>4. JobTypes'
  BY <1>1, <1>2 DEF IInv, JobInv, JobTypes, Finalizing
<1>5. Beginning'
  BY <1>1 DEF IInv, JobInv, Beginning, Starting, Evaluated, JobTypes, Prints
<1>6. Saving' /\ Learning'
  BY <1>1 DEF Saving, Learning
<1>7. /\ picked \in Picks /\ picked.final = Progression(local).final /\ Covers
      /\ Attested(picked.selected) /\ Attested(picked.final)
      /\ made["video_final"] = Product(picked.selected)
      /\ made["video_final_step"] = Product(picked.final)
      /\ made \in Prints
  BY <1>1, RenderedFacts DEF Rendered
<1>8. made'["video_final"] = made["video_final"]
      /\ made'["video_final_step"] = made["video_final_step"]
  BY <1>1, <1>7 DEF Evaluated, Prints, Artifacts
<1>9. Covers'
  BY <1>1, <1>3, <1>7 DEF Covers
<1>10. Finalization'
  BY <1>1, <1>7, <1>8, <1>9 DEF Finalization, Attested, Product, Rendered
<1> QED BY <1>3, <1>4, <1>5, <1>6, <1>10 DEF IInv, JobInv

(* The package is the selected checkpoint's.                                *)
LEMMA PackageInv ==
  ASSUME IInv, Package
  PROVE  IInv'
<1>1. /\ pc = "package" /\ pc' = "upload"
      /\ \/ Make({"metrics", "final_policy"} \cup Bundled)
         \/ Make({"metrics", "final_policy"})
      /\ UNCHANGED <<trainer, launches, mode, resume, want, exit, cur, at, local,
                     picked, store, api>>
  BY DEF Package
<1>2. /\ picked \in Picks /\ picked.final = Progression(local).final /\ Covers
      /\ Attested(picked.selected) /\ Attested(picked.final)
      /\ Product(picked.selected) \in Products
      /\ made["video_final"] = Product(picked.selected)
      /\ made["video_final_step"] = Product(picked.final)
      /\ made \in Prints
  BY <1>1, RenderedFacts DEF Rendered
<1>3. /\ made' \in Prints
      /\ made'["video_final"] = Product(picked.selected)
      /\ made'["video_final_step"] = Product(picked.final)
      /\ \A a \in PublicNow' : made'[a] = Product(picked.selected)
  <2>1. made["bundle"] = None
    BY <1>1 DEF IInv, JobInv, Beginning
  <2>2. CASE Make({"metrics", "final_policy"} \cup Bundled)
    BY <1>2, <2>2 DEF Make, Bundled, PublicNow, Prints, Artifacts
  <2>3. CASE Make({"metrics", "final_policy"})
    BY <1>2, <2>1, <2>3 DEF Make, Bundled, PublicNow, Prints, Artifacts
  <2> QED BY <1>1, <2>2, <2>3
<1>4. StoreInv'
  BY <1>1, StoreKept
<1>5. JobTypes'
  BY <1>1, <1>3 DEF IInv, JobInv, JobTypes, Finalizing
<1>6. Beginning'
  BY <1>1 DEF IInv, JobInv, Beginning, Starting
<1>7. Saving' /\ Learning'
  BY <1>1 DEF Saving, Learning
<1>8. Covers'
  BY <1>1, <1>2 DEF Covers
<1>9. Finalization'
  BY <1>1, <1>2, <1>3, <1>8 DEF Finalization, Attested, Product, Rendered
<1> QED BY <1>4, <1>5, <1>6, <1>7, <1>9 DEF IInv, JobInv

(* After the whole upload the store has the tree, and nothing else that a   *)
(* checkpoint could be.                                                     *)
LEMMA UploadedAll ==
  ASSUME local \in Dirs, remote \in Dirs, made \in Prints, Covers, UploadAll(made)
  PROVE  /\ remote' = local
         /\ \A a \in Artifacts : made[a] # None => out'[a] = made[a]
<1>1. /\ remote' = [n \in Names |->
           [data |-> IF <<n, "data">> \in StaleFiles
                     THEN local[n].data ELSE remote[n].data,
            meta |-> IF <<n, "meta">> \in StaleFiles
                     THEN local[n].meta ELSE remote[n].meta]]
      /\ out' = [a \in Artifacts |-> IF a \in StaleArtifacts(made) THEN made[a]
                                                                  ELSE out[a]]
  BY DEF UploadAll, Upload
<1>2. ASSUME NEW n \in Names
      PROVE  remote'[n] = local[n]
  <2>1. local[n] = [data |-> local[n].data, meta |-> local[n].meta]
    BY DEF Dirs
  <2>2. /\ remote[n].data \in {None, local[n].data}
        /\ remote[n].meta \in {None, local[n].meta}
    BY DEF Covers
  <2>3. <<n, "data">> \notin StaleFiles => remote[n].data = local[n].data
    BY <2>2 DEF StaleFiles
  <2>4. <<n, "meta">> \notin StaleFiles => remote[n].meta = local[n].meta
    BY <2>2 DEF StaleFiles
  <2>5. remote'[n] = [data |-> local[n].data, meta |-> local[n].meta]
    BY <1>1, <2>3, <2>4
  <2> QED BY <2>1, <2>5
<1>3. remote' = local
  BY <1>1, <1>2 DEF Dirs
<1>4. \A a \in Artifacts : made[a] # None => out'[a] = made[a]
  BY <1>1 DEF StaleArtifacts
<1> QED BY <1>3, <1>4

(* The final upload.                                                        *)
LEMMA UploadFinalInv ==
  ASSUME IInv, UploadFinal
  PROVE  IInv'
<1>1. /\ pc = "upload" /\ UploadAll(made) /\ pc' = "declare"
      /\ UNCHANGED <<trainer, launches, mode, resume, want, exit, cur, at, local,
                     made, picked, status, api>>
  BY DEF UploadFinal
<1>2. /\ picked \in Picks /\ picked.final = Progression(local).final /\ Covers
      /\ Attested(picked.selected) /\ Attested(picked.final)
      /\ made["video_final"] = Product(picked.selected)
      /\ made["video_final_step"] = Product(picked.final)
      /\ made \in Prints
  BY <1>1, RenderedFacts DEF Rendered
<1>3. local \in Dirs /\ remote \in Dirs
  BY DEF IInv, StoreInv, StoreTypes, JobInv, JobTypes
<1>4. remote' = local /\ \A a \in Artifacts : made[a] # None => out'[a] = made[a]
  BY <1>1, <1>2, <1>3, UploadedAll
<1>5. StoreInv'
  BY <1>1, <1>2, UploadKept DEF UploadAll
<1>6. JobTypes'
  BY <1>1 DEF IInv, JobInv, JobTypes, Finalizing
<1>7. Beginning'
  BY <1>1 DEF IInv, JobInv, Beginning, Starting
<1>8. Saving' /\ Learning'
  BY <1>1 DEF Saving, Learning
<1>9. Covers'
  BY <1>1, <1>4 DEF Covers
<1>10. \A a \in PublicNow : made[a] = Product(picked.selected)
  BY <1>1 DEF IInv, JobInv, Finalization
<1>11. Finalization'
  BY <1>1, <1>2, <1>4, <1>9, <1>10
     DEF Finalization, PublicNow, Attested, Product, Rendered
<1> QED BY <1>5, <1>6, <1>7, <1>8, <1>11 DEF IInv, JobInv

(* The manifest declares the tree the store has.                            *)
LEMMA DeclareInv ==
  ASSUME IInv, Declare
  PROVE  IInv'
<1>1. /\ pc = "declare" /\ manifest' = made /\ pc' = "complete"
      /\ UNCHANGED <<trainer, launches, mode, resume, want, exit, cur, at,
                     local, made, picked, remote, latest, out, status, api>>
  BY DEF Declare
<1>2. StoreInv'
  <2>1. StoreTypes'
    BY <1>1 DEF IInv, StoreInv, StoreTypes, JobInv, JobTypes
  <2>2. LatestInv'
    BY <1>1 DEF IInv, StoreInv, LatestInv, LatestIsRestorable
  <2>3. status # "completed"
    BY <1>1 DEF IInv, JobInv, Beginning
  <2>4. CompletedIsWhole' /\ SelectedIsPublic'
    BY <1>1, <2>3 DEF CompletedIsWhole, SelectedIsPublic
  <2>5. launches' = 0 => latest' = None
    BY <1>1 DEF IInv, StoreInv
  <2> QED BY <2>1, <2>2, <2>4, <2>5 DEF StoreInv
<1>3. JobTypes'
  BY <1>1 DEF IInv, JobInv, JobTypes, Finalizing
<1>4. Beginning'
  BY <1>1 DEF IInv, JobInv, Beginning, Starting
<1>5. Saving' /\ Learning'
  BY <1>1 DEF Saving, Learning
<1>6. Finalization'
  BY <1>1 DEF IInv, JobInv, Finalization, Covers, Attested, Product, Rendered, Finalizing,
            PublicNow
<1> QED BY <1>2, <1>3, <1>4, <1>5, <1>6 DEF IInv, JobInv

(* Completion: everything declared is stored, and it is the selected one's. *)
LEMMA CompleteInv ==
  ASSUME IInv, Complete
  PROVE  IInv'
<1>1. /\ pc = "complete" /\ status' = "completed" /\ Ended("ok")
      /\ UNCHANGED <<trainer, launches, remote, latest, out, manifest, api>>
  BY DEF Complete, StatusOnly
<1>2. /\ picked.selected \in Names /\ picked.final = Progression(local).final
      /\ Attested(picked.selected) /\ Attested(picked.final)
      /\ Product(picked.selected) \in Products /\ Product(picked.final) \in Products
      /\ made["video_final"] = Product(picked.selected)
      /\ made["video_final_step"] = Product(picked.final)
      /\ made \in Prints
  BY <1>1, RenderedFacts DEF Rendered
<1>3. /\ \A a \in PublicNow : made[a] = Product(picked.selected)
      /\ remote = local /\ manifest = made
      /\ \A a \in Artifacts : made[a] # None => out[a] = made[a]
  BY <1>1 DEF IInv, JobInv, Finalization
<1>4. CompletedIsWhole'
  <2>1. manifest # None
    BY <1>2, <1>3, NoneAssumption DEF Prints
  <2>2. manifest' # None /\ \A a \in Artifacts : manifest'[a] # None => out'[a] = manifest'[a]
    BY <1>1, <1>3, <2>1
  <2> QED BY <2>2 DEF CompletedIsWhole
<1>5. SelectedIsPublic'
  <2>1. picked.selected \in Listed(remote')
    BY <1>1, <1>2, <1>3 DEF Listed, Attested, Loadable
  <2>2. \A a \in PublicNow :
          made[a] = Product(picked.selected) /\ a \in Artifacts
    BY <1>2, <1>3 DEF PublicNow, Bundled, Artifacts
  <2>3. Product(picked.selected) # None /\ Product(picked.final) # None
    BY <1>2, NoneAssumption
  <2>4. \A a \in PublicNow : out'[a] = Product(picked.selected)
    BY <1>1, <1>3, <2>2, <2>3
  <2>5. out'["video_final_step"] = Product(picked.final)
    BY <1>1, <1>2, <1>3, <2>3 DEF Artifacts
  <2>6. /\ Product(picked.selected).of = remote'[picked.selected].data
        /\ Product(picked.final).of = remote'[picked.final].data
    BY <1>1, <1>3 DEF Product
  <2>7. picked.final = Progression(remote').final
    BY <1>1, <1>2, <1>3
  <2>8. \A a \in PublicNow :
          out'[a] # None /\ out'[a].of = remote'[picked.selected].data
    BY <2>3, <2>4, <2>6
  <2>9. out'["video_final_step"].of = remote'[Progression(remote').final].data
    BY <2>5, <2>6, <2>7
  <2>10. PublicNow = {"video_final", "metrics", "final_policy"} \cup
                       {b \in Bundled : manifest'["bundle"] # None}
    BY <1>1, <1>3 DEF PublicNow
  <2> QED BY <2>1, <2>8, <2>9, <2>10 DEF SelectedIsPublic
<1>6. StoreTypes'
  BY <1>1 DEF IInv, StoreInv, StoreTypes
<1>7. LatestInv'
  BY <1>1 DEF IInv, StoreInv, LatestInv, LatestIsRestorable
<1>8. launches' = 0 => latest' = None
  BY <1>1 DEF IInv, StoreInv
<1>9. StoreInv'
  BY <1>4, <1>5, <1>6, <1>7, <1>8 DEF StoreInv
<1> QED BY <1>1, <1>9, EndedInv DEF Exits

-----------------------------------------------------------------------------
(* The invariant holds of every behaviour.                                  *)
LEMMA StepInv ==
  ASSUME IInv, [Next]_vars
  PROVE  IInv'
<1>1. ASSUME NEW m \in {"train", "hosted"}, NEW r \in {"fresh", "remote", "named"},
             Train(m, r)
      PROVE  IInv'
  BY <1>1, TrainInv
<1>2. ASSUME NEW d, Finalize(d)
      PROVE  IInv'
  BY <1>2, FinalizeInv
<1>3. CASE ApiRequest \/ ApiAnnounce \/ ApiSubmit \/ ApiConfirm \/ ApiDies
  BY <1>3, ApiInv
<1>4. CASE \/ Killed \/ NotAttested \/ ResumeUnavailable \/ FinalizationFails
           \/ FinalizationTimeout
  BY <1>4, EndsQuietlyInv
<1>5. CASE ResumeLatest \/ ResumeNamed \/ Begin \/ TrainingFails
  BY <1>5, ResumeLatestInv, ResumeNamedInv, BeginInv, TrainingFailsInv
<1>6. CASE LoadFreshSB3 \/ LoadResumedSB3 \/ LoadMJX
  BY <1>6, LoadFreshSB3Inv, LoadResumedSB3Inv, LoadMJXInv
<1>7. CASE Learn \/ Interrupt \/ Playground
  BY <1>7, LearnInv, PlaygroundInv
<1>8. CASE Publish \/ PublishStops \/ Report
  BY <1>8, PublishInv, PublishStopsInv, ReportInv
<1>9. CASE SyncTrained \/ SyncTrainedStops \/ EvaluateStops \/ UploadFinalStops
  BY <1>9, SyncTrainedInv, SyncStopsInv
<1>10. CASE Trained \/ Download \/ Select \/ Render
  BY <1>10, TrainedInv, DownloadInv, SelectInv, RenderInv
<1>11. CASE Evaluate \/ Package \/ UploadFinal
  BY <1>11, EvaluateInv, PackageInv, UploadFinalInv
<1>12. CASE Declare \/ Complete
  BY <1>12, DeclareInv, CompleteInv
<1>13. CASE UNCHANGED vars
  <2>1. UNCHANGED <<trainer, launches, mode, resume, want, pc, exit, cur, at, local,
                    made, picked, remote, latest, out, manifest, status, api>>
    BY <1>13
  <2>2. StoreInv'
    BY <2>1, StoreKept
  <2>3. JobTypes' /\ Beginning'
    BY <2>1 DEF IInv, JobInv, JobTypes, Beginning
  <2>4. Saving' /\ Learning'
    BY <2>1 DEF IInv, JobInv, Saving, Learning
  <2>5. Finalization'
    BY <2>1 DEF IInv, JobInv, Finalization, Covers, Attested, Product,
                  PublicNow
  <2> QED BY <2>2, <2>3, <2>4, <2>5 DEF IInv, JobInv
<1> QED BY <1>1, <1>2, <1>3, <1>4, <1>5, <1>6, <1>7, <1>8, <1>9, <1>10, <1>11,
           <1>12, <1>13 DEF Next

(* Every reachable state satisfies it.                                      *)
LEMMA AlwaysIInv == Spec => []IInv
<1>1. Init => IInv
  BY InitInv
<1>2. IInv /\ [Next]_vars => IInv'
  BY StepInv
<1> QED BY <1>1, <1>2, PTL DEF Spec

(* Only publishing writes the latest record.                                *)
LEMMA LatestMoves ==
  ASSUME IInv, [Next]_vars, latest' # latest
  PROVE  pc = "publish" /\ latest'.name = cur /\ latest' # None
<1>1. Publish \/ PublishStops
  BY DEF Next, Train, Finalize, Start, ApiRequest, ApiAnnounce, ApiSubmit,
         ApiConfirm, ApiDies, NotAttested, ResumeLatest, ResumeNamed,
         ResumeUnavailable, Begin, LoadFreshSB3, LoadResumedSB3, LoadMJX, Learn,
         Interrupt, Playground, Checkpoint, Report, SyncTrained,
         SyncTrainedStops, Trained, TrainingFails, StatusOnly, Download, Select,
         Render, Evaluate, EvaluateStops, Package, UploadFinal,
         UploadFinalStops, UploadAll, UploadPart, Upload, Declare, Complete,
         FinalizationFails, FinalizationTimeout, Killed
<1>2. pc = "publish" /\ \E k \in 0..3 : PublishWrites(k)
  <2>1. 3 \in 0..3 /\ \A k \in 0..2 : k \in 0..3
    OBVIOUS
  <2> QED BY <1>1, <2>1 DEF Publish, PublishStops
<1>3. latest' = [name |-> cur, sha |-> local[cur].meta]
  BY <1>2 DEF PublishWrites
<1>4. cur \in Names /\ local[cur].meta \in Tokens
  BY <1>2 DEF IInv, JobInv, JobTypes, Saving, Dirs
<1> QED BY <1>2, <1>3, <1>4, NoneAssumption

-----------------------------------------------------------------------------
(* Every variable keeps its type: what the containers of train_sb3.py,      *)
(* train_mjx.py and finalize.py and the demo API leave in the store is of   *)
(* the declared kind.                                                       *)
THEOREM Typing == Spec => []TypeOK
<1>1. IInv => TypeOK
  BY TypesSplit DEF IInv, StoreInv, JobInv
<1> QED BY <1>1, AlwaysIInv, PTL

(* A run that finalize.py has called completed is whole in the store.       *)
THEOREM Whole == Spec => []CompletedIsWhole
<1>1. IInv => CompletedIsWhole
  BY DEF IInv, StoreInv
<1> QED BY <1>1, AlwaysIInv, PTL

(* What finalize.py published as final is of the selected checkpoint alone. *)
THEOREM Public == Spec => []SelectedIsPublic
<1>1. IInv => SelectedIsPublic
  BY DEF IInv, StoreInv
<1> QED BY <1>1, AlwaysIInv, PTL

(* What publish_checkpoint last announced can be restored, for SB3 and but  *)
(* for an interrupted checkpoint.                                           *)
THEOREM Restorable == Spec => []SB3LatestIsRestorable
<1>1. IInv => SB3LatestIsRestorable
  BY DEF IInv, StoreInv, LatestInv, SB3LatestIsRestorable
<1> QED BY <1>1, AlwaysIInv, PTL

(* publish_checkpoint never announces an earlier step than before, for SB3. *)
THEOREM NeverRegresses == Spec => SB3LatestNeverRegresses
<1>1. ASSUME IInv, [Next]_vars, trainer = "sb3", latest # None
      PROVE  latest' # None /\ latest'.name.step >= latest.name.step
  <2>1. latest.name.step \in 0..Total
    BY <1>1 DEF IInv, StoreInv, StoreTypes, Names
  <2>2. CASE latest' = latest
    BY <1>1, <2>1, <2>2, TotalAssumption
  <2>3. CASE latest' # latest
    <3>1. pc = "publish" /\ latest'.name = cur /\ latest' # None
      BY <1>1, <2>3, LatestMoves
    <3>2. cur.step = at /\ latest.name.step <= at
      BY <1>1, <3>1 DEF IInv, JobInv, Learning
    <3>3. at \in 0..Total
      BY <1>1 DEF IInv, JobInv, JobTypes
    <3> QED BY <2>1, <3>1, <3>2, <3>3, TotalAssumption
  <2> QED BY <2>2, <2>3
<1>2. IInv /\ [Next]_vars =>
        [trainer = "sb3" /\ latest # None =>
           latest' # None /\ latest'.name.step >= latest.name.step]_vars
  BY <1>1
<1> QED BY <1>2, AlwaysIInv, PTL DEF Spec, SB3LatestNeverRegresses
=============================================================================
