---------------------------- MODULE RobotInputs -----------------------------
(***************************************************************************)
(* The documents a custom-robot job runs on: built by the backend          *)
(* (custom_training.build_input_documents), put under the prefix of the    *)
(* job (custom_storage.py), and validated by the container that reads them *)
(* (custom_robot_io.py).  And what the backend reads back: the preparation *)
(* report and the artifact manifest (artifacts.read_manifest).             *)
(*                                                                         *)
(* A digest is the content it digests: SHA-256 of canonical JSON and of    *)
(* raw bytes is taken to be injective.  A release is the set of contract   *)
(* versions (schema, adapter, reward, profile) a program is built with;    *)
(* the backend has one and every container image has one.                  *)
(***************************************************************************)
EXTENDS Integers, Sequences

CONSTANTS None,
          Robot,       \* the uploaded XML of the setup's robot
          Setup,       \* the normalized setup
          Releases,
          Images,
          ReleaseOf,   \* the release an image is built from
          Supports     \* release -> the setups its closed contract admits

\* preparation_fingerprint, on both sides.
Fingerprint(robot, setup, image, release) == <<robot, setup, image, release>>

build_input_documents(image, release) ==
  [robot |-> Robot,
   setup |-> Setup,
   manifest |-> [robot |-> [source |-> Robot, sha256 |-> Robot],
                 setup |-> [source |-> Setup, sha256 |-> Setup],
                 image |-> image,
                 release |-> release,
                 fingerprint |-> Fingerprint(Robot, Setup, image, release)]]

\* The order in which the members are put.
Members == <<"robot", "setup", "manifest">>

\* The container's checks, with the contract versions of its own release.
\* It does not compare the image named in the manifest with its own.
validate_documents(d, own) ==
  LET m == d.manifest
  IN  /\ None \notin {d.robot, d.setup, m}
      /\ m.release = own
      /\ d.robot = m.robot.sha256 /\ d.setup = m.setup.sha256
      /\ d.setup \in Supports[own]
      /\ m.fingerprint = Fingerprint(m.robot.source, m.setup.source, m.image, own)
      /\ d.robot = m.robot.source

-----------------------------------------------------------------------------

Phases == <<"compile", "rollouts", "render", "environment-checker", "ppo-smoke">>

\* read_preparation_report: the report carries its own digest.
read_preparation_report(prefix) == prefix.report

Artifacts == <<"final_policy", "metrics_json", "report_md", "reward_curve",
               "video_final", "resolved_config", "runtime_versions",
               "policy_bundle", "bundle_manifest", "robot_xml",
               "normalized_setup">>
ArtifactNames == {Artifacts[i] : i \in DOMAIN Artifacts}

\* Every listed artifact is there and has the listed digest.
Readable(prefix) ==
  /\ prefix.manifest # None
  /\ DOMAIN prefix.manifest = ArtifactNames
  /\ \A a \in ArtifactNames : prefix.artifacts[a] = prefix.manifest[a]
=============================================================================
