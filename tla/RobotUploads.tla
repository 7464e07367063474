---------------------------- MODULE RobotUploads ----------------------------
(***************************************************************************)
(* What a tenant may store: validate_mjcf (robot_validation.py) over the   *)
(* facts of an uploaded document, and normalize_setup                      *)
(* (environment_catalog.py) over a requested environment.  Of an object's  *)
(* parameters only the height, in centimetres, is kept: the others are     *)
(* treated alike.                                                          *)
(***************************************************************************)
EXTENDS Naturals, Sequences, SequencesExt

CONSTANT Absent      \* a parameter the request leaves out

MAX_BODIES == 64
MAX_JOINTS == 64
MAX_ACTUATORS == 64
MAX_GEOMS == 128

RobotTypes == {"quadruped", "biped"}
Prohibited == {"include", "plugin", "mesh", "texture", "hfield", "composite", "flexcomp"}
Allowed ==
  {"mujoco", "compiler", "option", "size", "statistic", "default", "asset", "material",
   "worldbody", "body", "inertial", "freejoint", "joint", "geom", "site", "contact",
   "exclude", "actuator", "motor", "position", "velocity", "general", "equality",
   "connect", "weld"}
Primitive == {"box", "sphere", "capsule", "cylinder", "ellipsoid"}

(***************************************************************************)
(* A document: whether its bytes are one small well-formed XML tree under  *)
(* <mujoco>, its tags, whether an attribute refers outside, the number of  *)
(* root bodies, and the names of its parts in document order.              *)
(***************************************************************************)
Names(parts) == {parts[i].name : i \in DOMAIN parts}
UniqueNames(parts, required) ==
  /\ required => \A i \in DOMAIN parts : parts[i].name # Absent
  /\ \A i, j \in DOMAIN parts :
       i # j /\ parts[i].name = parts[j].name => parts[i].name = Absent

Count(parts, kind) == Len(SelectSeq(parts, LAMBDA p : p.kind = kind))

OneFloatingBase(d) ==
  /\ Count(d.joints, "free") = 1
  /\ \A i \in DOMAIN d.joints : d.joints[i].kind = "free" => d.joints[i].onRoot

Hinges(d) == {d.joints[i].name : i \in {k \in DOMAIN d.joints : d.joints[k].kind = "hinge"}}
Driven(d) == {d.actuators[i].joint : i \in DOMAIN d.actuators}

Controllable(d) ==
  /\ Driven(d) \subseteq Names(d.joints)
  /\ Hinges(d) \intersect Driven(d) # {}

WithinLimits(d) == /\ Len(d.bodies) <= MAX_BODIES /\ Len(d.joints) <= MAX_JOINTS
                   /\ Len(d.actuators) <= MAX_ACTUATORS /\ Len(d.geoms) <= MAX_GEOMS

validate_mjcf(d) ==
  /\ d.parses /\ d.tags \subseteq Allowed \ Prohibited /\ ~d.outside
  /\ d.roots = 1
  /\ WithinLimits(d)
  /\ UniqueNames(d.bodies, TRUE) /\ UniqueNames(d.joints, TRUE)
  /\ UniqueNames(d.geoms, FALSE) /\ UniqueNames(d.actuators, TRUE)
  /\ \A i \in DOMAIN d.geoms : d.geoms[i].kind \in Primitive
  /\ OneFloatingBase(d)
  /\ Controllable(d)
-----------------------------------------------------------------------------
MAX_OBJECTS == 6

\* The robot types of each task template.
TASKS == [t \in {"stand-balance", "walk-forward", "recover-from-fall"} |->
            IF t = "recover-from-fall" THEN {"quadruped"} ELSE RobotTypes]

\* Each object type's height: default, least, greatest.
OBJECT_TYPES ==
  [box    |-> <<30, 5, 200>>, ramp |-> <<60, 10, 200>>,
   hurdle |-> <<35, 5, 150>>, step |-> <<20, 5, 75>>]

Known(o) == o.type \in DOMAIN OBJECT_TYPES
Height(o) == IF o.height = Absent THEN OBJECT_TYPES[o.type][1] ELSE o.height
normalize_object(o, source) == [type |-> o.type, height |-> Height(o), source |-> source]
ValidObject(o) ==
  /\ Known(o)
  /\ OBJECT_TYPES[o.type][2] <= Height(o) /\ Height(o) <= OBJECT_TYPES[o.type][3]

Preset(type, height) == normalize_object([type |-> type, height |-> height], "preset")
SCENES ==
  [s \in {"flat-arena", "ramp-course", "hurdle-course", "step-course"} |->
     CASE s = "flat-arena"    -> <<>>
       [] s = "ramp-course"   -> <<Preset("ramp", Absent)>>
       [] s = "hurdle-course" -> [i \in 1..3 |-> Preset("hurdle", Absent)]
       [] s = "step-course"   -> [i \in 1..3 |-> Preset("step", 10 * (i + 1))]]

\* normalize_setup answers with a setup, or raises BuilderValidationError.
SetupIsValid(type, r) ==
  /\ r.task \in DOMAIN TASKS /\ type \in TASKS[r.task]
  /\ r.scene \in DOMAIN SCENES
  /\ Len(SCENES[r.scene]) + Len(r.objects) <= MAX_OBJECTS
  /\ \A i \in DOMAIN r.objects : ValidObject(r.objects[i])

normalize_setup(type, r) ==
  [type |-> type, task |-> r.task, scene |-> r.scene,
   objects |-> SCENES[r.scene] \o
     [i \in DOMAIN r.objects |-> normalize_object(r.objects[i], "custom")]]

\* eligibility: every catalog task and scene is supported for training.
Eligible(environment, enabled) ==
  /\ enabled
  /\ environment.task \in DOMAIN TASKS /\ environment.type \in TASKS[environment.task]
  /\ environment.scene \in DOMAIN SCENES
=============================================================================
