----------------------------- MODULE Inventory -----------------------------
(***************************************************************************)
(* The robots and setups of the tenants (RobotStore of store.py, the "Bring *)
(* Your Robot" handlers of main.py).  A row is never removed: deleting it   *)
(* marks it.  A store call is one transaction; a handler makes several, so  *)
(* a robot or a setup may be deleted while another request is using it.     *)
(*                                                                         *)
(* A digest is the content it was computed from.  What the rest of a        *)
(* preparation does is in Preparations and RobotJob: here it is the row     *)
(* that reserve_preparation inserts, with the documents built for it.       *)
(***************************************************************************)
EXTENDS RobotUploads, FiniteSets

CONSTANTS Tenants, RobotIds, SetupIds, Clients, Nothing,
          Uploads,        \* the [type, document] a tenant may upload
          Requests,       \* the environments a tenant may ask for
          RobotQuota, SetupQuota,
          MaxPreparations \* bound on preparations, for model checking

ASSUME InventoryAssumption == {RobotQuota, SetupQuota, MaxPreparations} \subseteq Nat

VARIABLES robots, setups,
          client,         \* the requests that have read and not yet written
          preparations    \* rows of preparation_attempts, with their inputs

inventoryVars == <<robots, setups, client, preparations>>

Free == [pc |-> "idle", tenant |-> Nothing, robot |-> Nothing, setup |-> Nothing,
         environment |-> Nothing]

Valid == {p \in RobotTypes \X Requests : SetupIsValid(p[1], p[2])}
Environments == {normalize_setup(p[1], p[2]) : p \in Valid}

InventoryInit ==
  /\ robots = [r \in RobotIds |-> Nothing] /\ setups = [s \in SetupIds |-> Nothing]
  /\ client = [c \in Clients |-> Free] /\ preparations = {}

Active(table) == {k \in DOMAIN table : table[k] # Nothing /\ ~table[k].deleted}
ActiveOf(table, t) == {k \in Active(table) : table[k].tenant = t}

OfAnyone(table, t) == Active(table)                          \* mutant
Visible(table, t) == ActiveOf(table, t)   \* get_robot, get_setup, the lists

\* create_robot, create_setup: the active row of the same content, or a new
\* row below the quota, in one BEGIN IMMEDIATE transaction.
MayInsert(table, row, quota) ==
  /\ row \notin {table[k] : k \in Active(table)}
  /\ Cardinality(ActiveOf(table, row.tenant)) < quota

Insert(table, k, row, quota) == /\ table[k] = Nothing
                                /\ MayInsert(table, row, quota)

upload_robot(t, r, u) ==
  /\ u.type \in RobotTypes /\ validate_mjcf(u.document)
  /\ LET row == [tenant |-> t, type |-> u.type, document |-> u.document,
                 deleted |-> FALSE]
     IN  /\ Insert(robots, r, row, RobotQuota)
         /\ robots' = [robots EXCEPT ![r] = row]
  /\ UNCHANGED <<setups, client, preparations>>

delete_robot(t, r) ==
  /\ r \in Visible(robots, t)
  /\ robots' = [robots EXCEPT ![r].deleted = TRUE]
  /\ UNCHANGED <<setups, client, preparations>>

\* create_robot_setup reads the robot, then inserts the setup.
ReadRobot(c, t, r, request) ==
  /\ client[c].pc = "idle" /\ r \in Visible(robots, t)
  /\ SetupIsValid(robots[r].type, request)
  /\ client' = [client EXCEPT ![c] =
       [pc |-> "create", tenant |-> t, robot |-> r, setup |-> Nothing,
        environment |-> normalize_setup(robots[r].type, request)]]
  /\ UNCHANGED <<robots, setups, preparations>>

NewSetup(c) == [tenant |-> client[c].tenant, robot |-> client[c].robot,
                environment |-> client[c].environment, deleted |-> FALSE]

create_setup(c, s) ==
  /\ client[c].pc = "create"
  /\ client' = [client EXCEPT ![c] = Free]
  /\ \/ Insert(setups, s, NewSetup(c), SetupQuota)
        /\ setups' = [setups EXCEPT ![s] = NewSetup(c)]
     \/ ~MayInsert(setups, NewSetup(c), SetupQuota) /\ UNCHANGED setups
  /\ UNCHANGED <<robots, preparations>>

delete_robot_setup(t, s) ==
  /\ s \in Visible(setups, t)
  /\ setups' = [setups EXCEPT ![s].deleted = TRUE]
  /\ UNCHANGED <<robots, client, preparations>>

\* prepare_robot_setup: get_setup, then get_robot_content, then the
\* reservation.  404, 409 and an ineligible setup end the request.
ReadSetup(c, t, s) ==
  /\ client[c].pc = "idle" /\ s \in Visible(setups, t)
  /\ client' = [client EXCEPT ![c] =
       [pc |-> "content", tenant |-> t, robot |-> setups[s].robot, setup |-> s,
        environment |-> setups[s].environment]]
  /\ UNCHANGED <<robots, setups, preparations>>

get_robot_content(c, enabled) ==
  /\ client[c].pc = "content"
  /\ client' = [client EXCEPT ![c] =
       IF /\ client[c].robot \in Visible(robots, client[c].tenant)
          /\ Eligible(client[c].environment, enabled)
       THEN [@ EXCEPT !.pc = "reserve"] ELSE Free]
  /\ UNCHANGED <<robots, setups, preparations>>

\* The documents are built from the rows read before.
Reserve(c) ==
  /\ client[c].pc = "reserve" /\ Cardinality(preparations) < MaxPreparations
  /\ preparations' = preparations \union
       {[tenant |-> client[c].tenant, setup |-> client[c].setup,
         robot |-> client[c].robot, environment |-> client[c].environment]}
  /\ client' = [client EXCEPT ![c] = Free]
  /\ UNCHANGED <<robots, setups>>

\* Threads end with the process; the tables stay.
Abandoned == /\ client' = [c \in Clients |-> Free]
             /\ UNCHANGED <<robots, setups, preparations>>

\* What the request of tenant t may do, once its session is found.
InventoryStep(t) ==
  \/ \E r \in RobotIds, u \in Uploads : upload_robot(t, r, u)
  \/ \E r \in RobotIds : delete_robot(t, r)
  \/ \E s \in SetupIds : delete_robot_setup(t, s)
  \/ \E c \in Clients :
       \/ \E r \in RobotIds, request \in Requests : ReadRobot(c, t, r, request)
       \/ \E s \in SetupIds : ReadSetup(c, t, s)

\* A request under way continues; its session may have ended.
InventoryContinues ==
  \E c \in Clients :
    \/ \E s \in SetupIds : create_setup(c, s)
    \/ \E enabled \in BOOLEAN : get_robot_content(c, enabled)
    \/ Reserve(c)
-----------------------------------------------------------------------------
Robot == [tenant : Tenants, type : RobotTypes,
          document : {u.document : u \in Uploads}, deleted : BOOLEAN]
Setup == [tenant : Tenants, robot : RobotIds, environment : Environments, deleted : BOOLEAN]

ASSUME NothingAssumption == Nothing \notin Robot \union Setup

InventoryTypeOK ==
  /\ robots \in [RobotIds -> Robot \union {Nothing}]
  /\ setups \in [SetupIds -> Setup \union {Nothing}]
  /\ \A c \in Clients : /\ client[c].pc \in {"idle", "create", "content", "reserve"}
                        /\ client[c].tenant \in Tenants \union {Nothing}
  /\ \A p \in preparations : p.setup \in SetupIds /\ p.robot \in RobotIds

Stored(table) == {k \in DOMAIN table : table[k] # Nothing}

(* The tables refer to each other within one tenant, for as long as rows    *)
(* exist: the robot of a setup and the setup of a preparation are rows of   *)
(* its tenant, deleted or not; the environment fits the robot's type; and   *)
(* the documents of a preparation are the ones those rows still hold.       *)
HistoryIsWhole ==
  /\ \A s \in Stored(setups) :
       LET r == setups[s].robot
       IN  /\ r \in Stored(robots)
           /\ robots[r].tenant = setups[s].tenant
           /\ robots[r].type = setups[s].environment.type
  /\ \A p \in preparations :
       /\ p.setup \in Stored(setups)
       /\ setups[p.setup].tenant = p.tenant
       /\ setups[p.setup].robot = p.robot
       /\ setups[p.setup].environment = p.environment
=============================================================================
