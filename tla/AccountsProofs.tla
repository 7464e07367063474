--------------------------- MODULE AccountsProofs ---------------------------
(***************************************************************************)
(* Proofs about Accounts, for any addresses, threads (finitely many), codes *)
(* and sessions, any robots, setups, uploads and requests, any limits and   *)
(* any number of restarts: what a tenant's tables refer to, and how often a *)
(* sign-in code can be guessed.                                             *)
(***************************************************************************)
EXTENDS Accounts, FiniteSetTheorems, WellFoundedInduction, TLAPS

-----------------------------------------------------------------------------
(* The tables of robots, setups and preparations.                           *)

Preparation == [tenant : Tenants, setup : SetupIds, robot : RobotIds,
                environment : Environments]
InUse == {"create", "content", "reserve"}
InventoryClient ==
  [pc : {"idle"} \union InUse, tenant : Tenants \union {Nothing},
   robot : RobotIds \union {Nothing}, setup : SetupIds \union {Nothing},
   environment : Environments \union {Nothing}]

TablesTyped ==
  /\ robots \in [RobotIds -> Robot \union {Nothing}]
  /\ setups \in [SetupIds -> Setup \union {Nothing}]
  /\ client \in [Clients -> InventoryClient]
  /\ preparations \subseteq Preparation

(* The robot r is a row of tenant t, of the type the environment is for.    *)
RobotFits(r, t, environment) ==
  /\ r \in RobotIds /\ robots[r] # Nothing
  /\ robots[r].tenant = t /\ robots[r].type = environment.type

(* The setup s is a row of tenant t that names this robot and environment.  *)
SetupFits(s, t, r, environment) ==
  /\ s \in SetupIds /\ setups[s] # Nothing
  /\ setups[s].tenant = t /\ setups[s].robot = r
  /\ setups[s].environment = environment

(* A request under way holds what rows of its tenant still say.             *)
RequestFits(c) ==
  /\ client[c].pc \in InUse =>
       client[c].tenant \in Tenants /\ client[c].environment \in Environments
  /\ client[c].pc = "create" =>
       RobotFits(client[c].robot, client[c].tenant, client[c].environment)
  /\ client[c].pc \in {"content", "reserve"} =>
       SetupFits(client[c].setup, client[c].tenant, client[c].robot,
                 client[c].environment)

TablesInv ==
  /\ TablesTyped
  /\ \A c \in Clients : RequestFits(c)
  /\ \A s \in SetupIds : setups[s] # Nothing =>
       RobotFits(setups[s].robot, setups[s].tenant, setups[s].environment)
  /\ \A p \in preparations : SetupFits(p.setup, p.tenant, p.robot, p.environment)

(* A row, once inserted, keeps all it says but its deletion mark: this is   *)
(* what a handler may rely on between two of its store calls.               *)
RowsKept ==
  /\ \A r \in RobotIds : robots[r] # Nothing =>
       /\ robots'[r] # Nothing
       /\ robots'[r].tenant = robots[r].tenant /\ robots'[r].type = robots[r].type
       /\ robots'[r].document = robots[r].document
  /\ \A s \in SetupIds : setups[s] # Nothing =>
       /\ setups'[s] # Nothing
       /\ setups'[s].tenant = setups[s].tenant /\ setups'[s].robot = setups[s].robot
       /\ setups'[s].environment = setups[s].environment

(* A setup that normalize_setup builds is for the type of its robot.        *)
LEMMA NormalizedFits ==
  ASSUME NEW type \in RobotTypes, NEW r \in Requests, SetupIsValid(type, r)
  PROVE  /\ normalize_setup(type, r) \in Environments
         /\ normalize_setup(type, r).type = type
<1>1. <<type, r>> \in Valid
  BY DEF Valid
<1>2. normalize_setup(<<type, r>>[1], <<type, r>>[2]) \in Environments
  BY <1>1 DEF Environments
<1>3. normalize_setup(type, r).type = type
  BY DEF normalize_setup
<1> QED BY <1>2, <1>3

(* What was true of rows stays true when rows are kept.                     *)
LEMMA FitsStay ==
  ASSUME RowsKept
  PROVE  /\ \A r, t, environment : RobotFits(r, t, environment) =>
                                     RobotFits(r, t, environment)'
         /\ \A s, t, r, environment : SetupFits(s, t, r, environment) =>
                                        SetupFits(s, t, r, environment)'
  BY DEF RowsKept, RobotFits, SetupFits

(* The initial tables are empty.                                            *)
LEMMA TablesStart == InventoryInit => TablesInv
<1> SUFFICES ASSUME InventoryInit PROVE TablesInv
  OBVIOUS
<1>1. TablesTyped
  BY DEF InventoryInit, TablesTyped, InventoryClient, Free
<1> QED BY <1>1 DEF InventoryInit, TablesInv, RequestFits, Free, InUse

(* A step that keeps rows, types, and what setups and requests it changed   *)
(* refer to, keeps the invariant.                                           *)
LEMMA TablesKept ==
  ASSUME TablesInv, RowsKept, TablesTyped',
         \A c \in Clients : client'[c] = client[c] \/ RequestFits(c)',
         \A s \in SetupIds : setups[s] = Nothing =>
           \/ setups'[s] = Nothing
           \/ RobotFits(setups[s].robot, setups[s].tenant, setups[s].environment)',
         \A p \in preparations' : p \in preparations
           \/ SetupFits(p.setup, p.tenant, p.robot, p.environment)'
  PROVE  TablesInv'
<1>1. ASSUME NEW c \in Clients PROVE RequestFits(c)'
  <2> SUFFICES ASSUME client'[c] = client[c] PROVE RequestFits(c)'
    OBVIOUS
  <2>1. RequestFits(c)
    BY DEF TablesInv
  <2> QED BY <2>1, FitsStay DEF RequestFits
<1>2. ASSUME NEW s \in SetupIds, setups'[s] # Nothing
      PROVE  RobotFits(setups[s].robot, setups[s].tenant, setups[s].environment)'
  <2>1. CASE setups[s] = Nothing
    BY <1>2, <2>1
  <2>2. CASE setups[s] # Nothing
    <3>1. RobotFits(setups[s].robot, setups[s].tenant, setups[s].environment)
      BY <2>2 DEF TablesInv
    <3> QED BY <2>2, <3>1, FitsStay DEF RowsKept
  <2> QED BY <2>1, <2>2
<1>3. ASSUME NEW p \in preparations'
      PROVE  SetupFits(p.setup, p.tenant, p.robot, p.environment)'
  BY FitsStay DEF TablesInv
<1> QED BY <1>1, <1>2, <1>3 DEF TablesInv

(* Each store call keeps the invariant: rows are only added and marked, and *)
(* what a request adds is what it read.                                     *)
LEMMA UploadKeeps ==
  ASSUME TablesInv, NEW t \in Tenants, NEW r \in RobotIds, NEW u \in Uploads,
         upload_robot(t, r, u)
  PROVE  TablesInv'
<1> DEFINE row == [tenant |-> t, type |-> u.type, document |-> u.document,
                   deleted |-> FALSE]
<1>1. row \in Robot
  BY DEF upload_robot, Robot
<1>2. robots' = [robots EXCEPT ![r] = row] /\ robots[r] = Nothing
  BY DEF upload_robot, Insert
<1>3. UNCHANGED <<setups, client, preparations>>
  BY DEF upload_robot
<1> HIDE DEF row
<1>4. TablesTyped'
  BY <1>1, <1>2, <1>3 DEF TablesInv, TablesTyped
<1>5. RowsKept
  BY <1>2, <1>3 DEF TablesInv, TablesTyped, RowsKept
<1> QED BY <1>3, <1>4, <1>5, TablesKept

LEMMA DeleteRobotKeeps ==
  ASSUME TablesInv, NEW t \in Tenants, NEW r \in RobotIds, delete_robot(t, r)
  PROVE  TablesInv'
<1>1. robots[r] \in Robot
  BY DEF delete_robot, Visible, ActiveOf, Active, TablesInv, TablesTyped
<1>2. [robots[r] EXCEPT !.deleted = TRUE] \in Robot
  BY <1>1 DEF Robot
<1>3. /\ robots' = [robots EXCEPT ![r] = [robots[r] EXCEPT !.deleted = TRUE]]
      /\ UNCHANGED <<setups, client, preparations>>
  BY DEF delete_robot
<1>4. TablesTyped'
  BY <1>2, <1>3 DEF TablesInv, TablesTyped
<1>5. RowsKept
  <2>1. ASSUME NEW q \in RobotIds, robots[q] # Nothing
        PROVE  /\ robots'[q] # Nothing
               /\ robots'[q].tenant = robots[q].tenant
               /\ robots'[q].type = robots[q].type
               /\ robots'[q].document = robots[q].document
    <3>1. CASE q = r
      <4>1. robots'[q] = [robots[r] EXCEPT !.deleted = TRUE]
        BY <3>1, <1>3 DEF TablesInv, TablesTyped
      <4> QED BY <3>1, <4>1, <1>1, <1>2, NothingAssumption DEF Robot
    <3>2. CASE q # r
      BY <2>1, <3>2, <1>3 DEF TablesInv, TablesTyped
    <3> QED BY <3>1, <3>2
  <2> QED BY <2>1, <1>3 DEF RowsKept
<1> QED BY <1>3, <1>4, <1>5, TablesKept

LEMMA DeleteSetupKeeps ==
  ASSUME TablesInv, NEW t \in Tenants, NEW s \in SetupIds, delete_robot_setup(t, s)
  PROVE  TablesInv'
<1>1. setups[s] \in Setup /\ setups[s] # Nothing
  BY DEF delete_robot_setup, Visible, ActiveOf, Active, TablesInv, TablesTyped
<1>2. [setups[s] EXCEPT !.deleted = TRUE] \in Setup
  BY <1>1 DEF Setup
<1>3. /\ setups' = [setups EXCEPT ![s] = [setups[s] EXCEPT !.deleted = TRUE]]
      /\ UNCHANGED <<robots, client, preparations>>
  BY DEF delete_robot_setup
<1>4. TablesTyped'
  BY <1>2, <1>3 DEF TablesInv, TablesTyped
<1>5. RowsKept
  <2>1. ASSUME NEW q \in SetupIds, setups[q] # Nothing
        PROVE  /\ setups'[q] # Nothing
               /\ setups'[q].tenant = setups[q].tenant
               /\ setups'[q].robot = setups[q].robot
               /\ setups'[q].environment = setups[q].environment
    <3>1. CASE q = s
      <4>1. setups'[q] = [setups[s] EXCEPT !.deleted = TRUE]
        BY <3>1, <1>3 DEF TablesInv, TablesTyped
      <4> QED BY <3>1, <4>1, <1>1, <1>2, NothingAssumption DEF Setup
    <3>2. CASE q # s
      BY <2>1, <3>2, <1>3 DEF TablesInv, TablesTyped
    <3> QED BY <3>1, <3>2
  <2> QED BY <2>1, <1>3 DEF RowsKept
<1> QED BY <1>1, <1>3, <1>4, <1>5, TablesKept

LEMMA ReadRobotKeeps ==
  ASSUME TablesInv, NEW t \in Tenants, NEW c \in Clients, NEW r \in RobotIds,
         NEW request \in Requests, ReadRobot(c, t, r, request)
  PROVE  TablesInv'
<1> DEFINE built == normalize_setup(robots[r].type, request)
           next == [pc |-> "create", tenant |-> t, robot |-> r,
                    setup |-> Nothing, environment |-> built]
<1>1. /\ robots[r] \in Robot /\ robots[r] # Nothing /\ robots[r].tenant = t
      /\ SetupIsValid(robots[r].type, request)
  BY DEF ReadRobot, Visible, ActiveOf, Active, TablesInv, TablesTyped
<1>2. robots[r].type \in RobotTypes
  BY <1>1 DEF Robot
<1>3. built \in Environments /\ built.type = robots[r].type
  BY <1>1, <1>2, NormalizedFits
<1>4. client' = [client EXCEPT ![c] = next] /\ UNCHANGED <<robots, setups, preparations>>
  BY DEF ReadRobot
<1> HIDE DEF built
<1>5. next \in InventoryClient
  BY <1>3 DEF InventoryClient, InUse
<1>6. client'[c] = next
  BY <1>4 DEF TablesInv, TablesTyped
<1>7. RequestFits(c)'
  BY <1>1, <1>3, <1>4, <1>6 DEF RequestFits, RobotFits
<1> HIDE DEF next
<1>8. TablesTyped'
  BY <1>4, <1>5 DEF TablesInv, TablesTyped
<1>9. RowsKept
  BY <1>4 DEF RowsKept
<1>10. \A d \in Clients : client'[d] = client[d] \/ RequestFits(d)'
  BY <1>4, <1>7 DEF TablesInv, TablesTyped
<1> QED BY <1>4, <1>8, <1>9, <1>10, TablesKept

LEMMA ReadSetupKeeps ==
  ASSUME TablesInv, NEW t \in Tenants, NEW c \in Clients, NEW s \in SetupIds,
         ReadSetup(c, t, s)
  PROVE  TablesInv'
<1> DEFINE next == [pc |-> "content", tenant |-> t, robot |-> setups[s].robot,
                    setup |-> s, environment |-> setups[s].environment]
<1>1. setups[s] \in Setup /\ setups[s] # Nothing /\ setups[s].tenant = t
  BY DEF ReadSetup, Visible, ActiveOf, Active, TablesInv, TablesTyped
<1>2. setups[s].robot \in RobotIds /\ setups[s].environment \in Environments
  BY <1>1 DEF Setup
<1>3. client' = [client EXCEPT ![c] = next] /\ UNCHANGED <<robots, setups, preparations>>
  BY DEF ReadSetup
<1>4. next \in InventoryClient
  BY <1>2 DEF InventoryClient, InUse
<1>5. client'[c] = next
  BY <1>3 DEF TablesInv, TablesTyped
<1>6. RequestFits(c)'
  BY <1>1, <1>2, <1>3, <1>5 DEF RequestFits, SetupFits
<1> HIDE DEF next
<1>7. TablesTyped'
  BY <1>3, <1>4 DEF TablesInv, TablesTyped
<1>8. RowsKept
  BY <1>3 DEF RowsKept
<1>9. \A d \in Clients : client'[d] = client[d] \/ RequestFits(d)'
  BY <1>3, <1>6 DEF TablesInv, TablesTyped
<1> QED BY <1>3, <1>7, <1>8, <1>9, TablesKept

(* A request that ends holds nothing.                                       *)
LEMMA FreeIsTyped == Free \in InventoryClient /\ Free.pc = "idle"
  BY DEF Free, InventoryClient

LEMMA CreateKeeps ==
  ASSUME TablesInv, NEW c \in Clients, NEW s \in SetupIds, create_setup(c, s)
  PROVE  TablesInv'
<1> DEFINE row == NewSetup(c)
<1>1. client[c].pc = "create" /\ RequestFits(c) /\ client[c] \in InventoryClient
  BY DEF create_setup, TablesInv, TablesTyped
<1>2. RobotFits(client[c].robot, client[c].tenant, client[c].environment)
  BY <1>1 DEF RequestFits
<1>3. row \in Setup /\ RobotFits(row.robot, row.tenant, row.environment)
  BY <1>1, <1>2 DEF RequestFits, NewSetup, Setup, RobotFits, InUse
<1>4. client' = [client EXCEPT ![c] = Free] /\ UNCHANGED <<robots, preparations>>
  BY DEF create_setup
<1>5. \/ setups[s] = Nothing /\ setups' = [setups EXCEPT ![s] = row]
      \/ UNCHANGED setups
  BY DEF create_setup, Insert
<1> HIDE DEF row
<1>6. TablesTyped'
  BY <1>3, <1>4, <1>5, FreeIsTyped DEF TablesInv, TablesTyped
<1>7. RowsKept
  BY <1>4, <1>5 DEF TablesInv, TablesTyped, RowsKept
<1>8. \A d \in Clients : client'[d] = client[d] \/ RequestFits(d)'
  BY <1>4, FreeIsTyped DEF TablesInv, TablesTyped, RequestFits, InUse
<1>9. ASSUME NEW q \in SetupIds, setups[q] = Nothing, setups'[q] # Nothing
      PROVE  RobotFits(setups[q].robot, setups[q].tenant, setups[q].environment)'
  <2>1. setups'[q] = row
    BY <1>5, <1>9 DEF TablesInv, TablesTyped
  <2> QED BY <2>1, <1>3, <1>4 DEF RobotFits
<1> QED BY <1>4, <1>6, <1>7, <1>8, <1>9, TablesKept

LEMMA ContentKeeps ==
  ASSUME TablesInv, NEW c \in Clients, NEW enabled \in BOOLEAN,
         get_robot_content(c, enabled)
  PROVE  TablesInv'
<1> DEFINE next == [client[c] EXCEPT !.pc = "reserve"]
<1>1. client[c].pc = "content" /\ RequestFits(c) /\ client[c] \in InventoryClient
  BY DEF get_robot_content, TablesInv, TablesTyped
<1>2. UNCHANGED <<robots, setups, preparations>>
  BY DEF get_robot_content
<1>3. \/ client' = [client EXCEPT ![c] = next]
      \/ client' = [client EXCEPT ![c] = Free]
  BY DEF get_robot_content
<1>4. /\ next \in InventoryClient /\ next.pc = "reserve"
      /\ next.tenant = client[c].tenant /\ next.robot = client[c].robot
      /\ next.setup = client[c].setup /\ next.environment = client[c].environment
  BY <1>1 DEF InventoryClient, InUse
<1> HIDE DEF next
<1>5. TablesTyped'
  BY <1>2, <1>3, <1>4, FreeIsTyped DEF TablesInv, TablesTyped
<1>6. RowsKept
  BY <1>2 DEF RowsKept
<1>7. client'[c] = next \/ client'[c] = Free
  BY <1>3 DEF TablesInv, TablesTyped
<1>8. RequestFits(c)'
  BY <1>1, <1>2, <1>4, <1>7, FreeIsTyped DEF RequestFits, SetupFits, InUse
<1>9. \A d \in Clients : client'[d] = client[d] \/ RequestFits(d)'
  BY <1>3, <1>8 DEF TablesInv, TablesTyped
<1> QED BY <1>2, <1>5, <1>6, <1>9, TablesKept

LEMMA ReserveKeeps ==
  ASSUME TablesInv, NEW c \in Clients, Reserve(c)
  PROVE  TablesInv'
<1> DEFINE p == [tenant |-> client[c].tenant, setup |-> client[c].setup,
                 robot |-> client[c].robot, environment |-> client[c].environment]
<1>1. client[c].pc = "reserve" /\ RequestFits(c)
  BY DEF Reserve, TablesInv
<1>2. SetupFits(client[c].setup, client[c].tenant, client[c].robot, client[c].environment)
  BY <1>1 DEF RequestFits
<1>3. /\ preparations' = preparations \union {p}
      /\ client' = [client EXCEPT ![c] = Free] /\ UNCHANGED <<robots, setups>>
  BY DEF Reserve
<1>4. client[c].robot \in RobotIds
  BY <1>2 DEF SetupFits, TablesInv, RobotFits
<1>5. p \in Preparation /\ SetupFits(p.setup, p.tenant, p.robot, p.environment)
  BY <1>1, <1>2, <1>4 DEF RequestFits, SetupFits, Preparation, InUse
<1> HIDE DEF p
<1>6. TablesTyped'
  BY <1>3, <1>5, FreeIsTyped DEF TablesInv, TablesTyped
<1>7. RowsKept
  BY <1>3 DEF RowsKept
<1>8. \A d \in Clients : client'[d] = client[d] \/ RequestFits(d)'
  BY <1>3, FreeIsTyped DEF TablesInv, TablesTyped, RequestFits, InUse
<1>9. PICK q : q = p
  OBVIOUS
<1>10. SetupFits(q.setup, q.tenant, q.robot, q.environment)'
  BY <1>5, <1>7, <1>9, FitsStay
<1>11. preparations' = preparations \union {q}
  BY <1>3, <1>9
<1> QED BY <1>3, <1>6, <1>7, <1>8, <1>10, <1>11, TablesKept

(* A stop ends the requests and keeps the tables; so does a step that only  *)
(* concerns sign-in.                                                        *)
LEMMA StopKeeps == TablesInv /\ Abandoned => TablesInv'
<1> SUFFICES ASSUME TablesInv, Abandoned PROVE TablesInv'
  OBVIOUS
<1>1. TablesTyped'
  BY FreeIsTyped DEF Abandoned, TablesInv, TablesTyped
<1>2. RowsKept
  BY DEF Abandoned, RowsKept
<1>3. \A d \in Clients : RequestFits(d)'
  BY FreeIsTyped DEF Abandoned, RequestFits, InUse
<1> QED BY <1>1, <1>2, <1>3, TablesKept DEF Abandoned

LEMMA RestKeeps == TablesInv /\ UNCHANGED inventoryVars => TablesInv'
<1> SUFFICES ASSUME TablesInv, UNCHANGED inventoryVars PROVE TablesInv'
  OBVIOUS
<1>1. TablesTyped' /\ RowsKept
  BY DEF inventoryVars, TablesInv, TablesTyped, RowsKept
<1> QED BY <1>1, TablesKept DEF inventoryVars

(* The invariant of the tables is inductive.                                *)
LEMMA TablesStep == TablesInv /\ [Next]_vars => TablesInv'
<1> SUFFICES ASSUME TablesInv, [Next]_vars PROVE TablesInv'
  OBVIOUS
<1>1. CASE UNCHANGED inventoryVars
  BY <1>1, RestKeeps
<1>2. ASSUME NEW t \in Tenants, InventoryStep(t) PROVE TablesInv'
  BY <1>2, UploadKeeps, DeleteRobotKeeps, DeleteSetupKeeps, ReadRobotKeeps,
     ReadSetupKeeps DEF InventoryStep
<1>3. CASE InventoryContinues
  BY <1>3, CreateKeeps, ContentKeeps, ReserveKeeps DEF InventoryContinues
<1>4. CASE Restart
  BY <1>4, StopKeeps DEF Restart
<1> QED BY <1>1, <1>2, <1>3, <1>4 DEF Next, vars

(* The tables are well typed in every reachable state (store.py).           *)
THEOREM TablesTyping == Spec => []InventoryTypeOK
<1>1. TablesInv => InventoryTypeOK
  BY DEF TablesInv, TablesTyped, InventoryTypeOK, InventoryClient, InUse, Preparation
<1> QED BY <1>1, TablesStart, TablesStep, PTL DEF Spec, Init

(* A setup's robot and a preparation's setup stay rows of their tenant that *)
(* say what they said, whoever deletes what while a request is under way    *)
(* (create_robot_setup and prepare_robot_setup of main.py).                 *)
THEOREM WholeHistory == Spec => []HistoryIsWhole
<1>1. TablesInv => HistoryIsWhole
  BY DEF TablesInv, TablesTyped, HistoryIsWhole, Stored, RobotFits, SetupFits
<1> QED BY <1>1, TablesStart, TablesStep, PTL DEF Spec, Init
-----------------------------------------------------------------------------
(* Sign-in: how often a code is compared with what somebody submits.        *)

CodeRow == [code : Codes, issue : Issues, left : Nat, attempts : Nat]
ReadCode == [code : Codes, issue : Issues]
Busy == {"make", "send", "bump", "drop", "use", "user", "session"}
ThreadRow == [pc : Busy \union {"idle"}, email : Emails \union {None},
              code : Codes \union {None}, pending : ReadCode \union {None}]

CodesTyped ==
  /\ codes \in [Emails -> CodeRow \union {None}]
  /\ thread \in [Threads -> ThreadRow]
  /\ issued \in 0..MaxIssues
  /\ compared \in [Issues -> Nat]
  /\ \A h \in Threads : thread[h].pc \in Busy => thread[h].email \in Emails
  /\ \A h \in Threads : thread[h].pc = "bump" => thread[h].pending \in ReadCode

IsPending(e, i) == codes[e] # None /\ codes[e].issue = i
Holds(h, i) == thread[h].pc = "bump" /\ thread[h].pending.issue = i
Readers(i) == {h \in Threads : Holds(h, i)}
Dead(i) == \A e \in Emails : ~IsPending(e, i)

(* Each issue is of one address and was made before now.                    *)
IssuesOrdered ==
  /\ \A e \in Emails : \A i \in Issues : IsPending(e, i) => i <= issued
  /\ \A h \in Threads : \A i \in Issues : Holds(h, i) => i <= issued
  /\ \A i \in Issues : i > issued => compared[i] = 0
  /\ \A e, f \in Emails : \A i \in Issues : IsPending(e, i) /\ IsPending(f, i) => e = f
  /\ \A h \in Threads, e \in Emails : \A i \in Issues :
       Holds(h, i) /\ IsPending(e, i) => e = thread[h].email

(* A pending code was compared no more often than was counted on it.  A code *)
(* no longer pending may still be compared by the requests that hold it, of  *)
(* which the one that dropped it was none.                                   *)
Bounded(i) ==
  /\ \A e \in Emails : IsPending(e, i) =>
       compared[i] <= codes[e].attempts /\ compared[i] <= MaxAttempts
  /\ Dead(i) => compared[i] + Cardinality(Readers(i))
                  <= MaxAttempts + Cardinality(Threads) - 1

CodesInv == CodesTyped /\ IssuesOrdered /\ \A i \in Issues : Bounded(i)

(* The threads, and the threads but one, in numbers.                        *)
LEMMA ReaderCounts ==
  ASSUME NEW i
  PROVE  /\ Cardinality(Threads) \in Nat /\ Cardinality(Threads) >= 1
         /\ IsFiniteSet(Readers(i)) /\ Cardinality(Readers(i)) \in Nat
         /\ \A h \in Threads : h \notin Readers(i) =>
              Cardinality(Readers(i)) <= Cardinality(Threads) - 1
<1>1. IsFiniteSet(Threads) /\ Threads # {}
  BY IdsAssumption
<1>2. Cardinality(Threads) \in Nat /\ Cardinality(Threads) # 0
  BY <1>1, FS_CardinalityType, FS_EmptySet
<1>3. Readers(i) \subseteq Threads
  BY DEF Readers
<1>4. IsFiniteSet(Readers(i)) /\ Cardinality(Readers(i)) \in Nat
  BY <1>1, <1>3, FS_Subset, FS_CardinalityType
<1>5. ASSUME NEW h \in Threads, h \notin Readers(i)
      PROVE  Cardinality(Readers(i)) <= Cardinality(Threads) - 1
  <2>1. IsFiniteSet(Threads \ {h}) /\ Cardinality(Threads \ {h}) = Cardinality(Threads) - 1
    BY <1>1, FS_RemoveElement
  <2>2. Readers(i) \subseteq Threads \ {h}
    BY <1>3, <1>5
  <2> QED BY <2>1, <2>2, FS_Subset
<1> QED BY <1>2, <1>4, <1>5

(* An issue that is not compared stays bounded when only requests that hold *)
(* a pending code join its readers, counts only grow, and whoever drops it  *)
(* is not one of its readers.                                               *)
LEMMA BoundKept ==
  ASSUME CodesTyped, CodesTyped', NEW i \in Issues, Bounded(i),
         compared'[i] = compared[i],
         Dead(i) => Readers(i)' \subseteq Readers(i),
         \A e \in Emails : IsPending(e, i)' =>
           IsPending(e, i) /\ codes'[e].attempts >= codes[e].attempts,
         ~Dead(i) /\ Dead(i)' => \E h \in Threads : h \notin Readers(i)'
  PROVE  Bounded(i)'
<1>1. compared[i] \in Nat /\ MaxAttempts \in Nat
  BY LifeAssumption DEF CodesTyped
<1>2. ASSUME NEW e \in Emails, IsPending(e, i)'
      PROVE  compared'[i] <= codes'[e].attempts /\ compared'[i] <= MaxAttempts
  <2>1. /\ compared[i] <= codes[e].attempts /\ compared[i] <= MaxAttempts
        /\ codes'[e].attempts >= codes[e].attempts
    BY <1>2 DEF Bounded
  <2>2. codes[e].attempts \in Nat /\ codes'[e].attempts \in Nat
    BY <1>2 DEF CodesTyped, CodeRow, IsPending
  <2> QED BY <1>1, <2>1, <2>2
<1>3. ASSUME Dead(i)'
      PROVE  compared'[i] + Cardinality(Readers(i)')
               <= MaxAttempts + Cardinality(Threads) - 1
  <2>1. CASE Dead(i)
    <3>1. /\ compared[i] + Cardinality(Readers(i)) <= MaxAttempts + Cardinality(Threads) - 1
          /\ Readers(i)' \subseteq Readers(i)
      BY <2>1 DEF Bounded
    <3>2. /\ Cardinality(Readers(i)') \in Nat
          /\ Cardinality(Readers(i)') <= Cardinality(Readers(i))
      BY <3>1, ReaderCounts, FS_Subset, FS_CardinalityType
    <3>3. Cardinality(Readers(i)) \in Nat /\ Cardinality(Threads) \in Nat
      BY ReaderCounts
    <3> QED BY <1>1, <3>1, <3>2, <3>3
  <2>2. CASE ~Dead(i)
    <3>1. PICK h \in Threads : h \notin Readers(i)'
      BY <1>3, <2>2
    <3>2. compared[i] <= MaxAttempts
      BY <2>2 DEF Dead, Bounded
    <3>3. /\ Readers(i)' \subseteq Threads \ {h}
          /\ IsFiniteSet(Threads \ {h})
          /\ Cardinality(Threads \ {h}) = Cardinality(Threads) - 1
      BY <3>1, IdsAssumption, FS_RemoveElement DEF Readers
    <3>4. /\ Cardinality(Readers(i)') \in Nat
          /\ Cardinality(Readers(i)') <= Cardinality(Threads) - 1
      BY <3>3, FS_Subset, FS_CardinalityType
    <3>5. Cardinality(Threads) \in Nat
      BY ReaderCounts
    <3> QED BY <1>1, <3>2, <3>4, <3>5
  <2> QED BY <2>1, <2>2
<1> QED BY <1>2, <1>3 DEF Bounded

(* The initial state: no code was made.                                     *)
LEMMA CodesStart == AuthInit => CodesInv
<1> SUFFICES ASSUME AuthInit PROVE CodesInv
  OBVIOUS
<1>1. CodesTyped
  BY LifeAssumption DEF AuthInit, CodesTyped, ThreadRow, Idle, Busy, Issues
<1>2. IssuesOrdered
  BY DEF AuthInit, IssuesOrdered, IsPending, Holds, Idle
<1>3. ASSUME NEW i \in Issues PROVE Bounded(i)
  <2>1. Readers(i) = {} /\ compared[i] = 0
    BY DEF AuthInit, Readers, Holds, Idle
  <2>2. Cardinality(Readers(i)) = 0
    BY <2>1, FS_EmptySet
  <2> QED BY <2>1, <2>2, ReaderCounts, LifeAssumption DEF AuthInit, Bounded, IsPending
<1> QED BY <1>1, <1>2, <1>3 DEF CodesInv

(* A request that does not hold a code moves on and does not take one; it   *)
(* may drop the code pending for an address.                                *)
LEMMA MoveKeeps ==
  ASSUME CodesInv, NEW h \in Threads, NEW next \in ThreadRow,
         thread[h].pc # "bump", next.pc # "bump",
         next.pc \in Busy => next.email \in Emails,
         Do(h, next), UNCHANGED <<issued, compared>>,
         UNCHANGED codes \/ \E e \in Emails : Drop(e)
  PROVE  CodesInv'
<1>1. thread' = [thread EXCEPT ![h] = next] /\ thread' \in [Threads -> ThreadRow]
  BY DEF Do, CodesInv, CodesTyped
<1>2. \A e \in Emails : codes'[e] = codes[e] \/ codes'[e] = None
  BY DEF Drop, CodesInv, CodesTyped
<1>3. codes' \in [Emails -> CodeRow \union {None}]
  BY DEF Drop, CodesInv, CodesTyped
<1>4. CodesTyped'
  BY <1>1, <1>3 DEF CodesInv, CodesTyped
<1>5. \A g \in Threads : \A i \in Issues :
        Holds(g, i)' => Holds(g, i) /\ thread'[g] = thread[g]
  BY <1>1 DEF Holds, CodesInv, CodesTyped
<1>6. \A e \in Emails : \A i \in Issues :
        IsPending(e, i)' => IsPending(e, i) /\ codes'[e] = codes[e]
  BY <1>2 DEF IsPending
<1>7. IssuesOrdered'
  BY <1>5, <1>6 DEF CodesInv, IssuesOrdered
<1>8. ASSUME NEW i \in Issues PROVE Bounded(i)'
  <2>1. Readers(i)' \subseteq Readers(i)
    BY <1>5 DEF Readers
  <2>2. h \notin Readers(i)'
    BY <1>1 DEF Readers, Holds, CodesInv, CodesTyped
  <2>3. \A e \in Emails : IsPending(e, i)' =>
          IsPending(e, i) /\ codes'[e].attempts >= codes[e].attempts
    BY <1>6 DEF IsPending, CodesInv, CodesTyped, CodeRow
  <2> QED BY <1>4, <2>1, <2>2, <2>3, BoundKept DEF CodesInv
<1> QED BY <1>4, <1>7, <1>8 DEF CodesInv

(* A local state of a request that holds no code.                           *)
LEMMA Unholding ==
  /\ Idle \in ThreadRow /\ Idle.pc = "idle"
  /\ \A e \in Emails : \A place \in Busy :
       LET next == [Idle EXCEPT !.pc = place, !.email = e]
       IN  next \in ThreadRow /\ next.pc = place /\ next.email = e
  BY DEF Idle, ThreadRow

(* A new code replaces the one pending for the address.                     *)
LEMMA SetCodeKeeps ==
  ASSUME CodesInv, NEW h \in Threads, NEW c \in Codes, set_code(h, c)
  PROVE  CodesInv'
<1>0. PICK e \in Emails : e = thread[h].email /\ thread[h].pc = "make"
  BY DEF set_code, At, CodesInv, CodesTyped, Busy
<1> DEFINE row == [code |-> c, issue |-> issued', left |-> CodeLife, attempts |-> 0]
           next == [Idle EXCEPT !.pc = "send", !.email = e]
<1>1. /\ issued' = issued + 1 /\ issued' \in Issues /\ issued' \in 0..MaxIssues
      /\ UNCHANGED compared
  BY <1>0, LifeAssumption DEF set_code, At, CodesInv, CodesTyped, Busy, Issues
<1>2. row \in CodeRow /\ row # None
  BY <1>1, LifeAssumption, IdsAssumption DEF CodeRow, Issues
<1>3. codes' = [codes EXCEPT ![e] = row] /\ thread' = [thread EXCEPT ![h] = next]
  BY <1>0 DEF set_code, Proceed, Do
<1>4. next \in ThreadRow /\ next.pc = "send" /\ next.email = e
  BY <1>1, Unholding DEF Busy
<1>5. row.issue = issued' /\ row.attempts = 0
  OBVIOUS
<1> HIDE DEF row, next
<1>6. CodesTyped'
  BY <1>1, <1>2, <1>3, <1>4 DEF CodesInv, CodesTyped
<1>7. \A g \in Threads : \A i \in Issues :
        Holds(g, i)' => Holds(g, i) /\ thread'[g] = thread[g]
  BY <1>3, <1>4 DEF Holds, CodesInv, CodesTyped
<1>8. \A f \in Emails : \A i \in Issues :
        IsPending(f, i)' => \/ f # e /\ codes'[f] = codes[f] /\ IsPending(f, i)
                            \/ f = e /\ i = issued'
  BY <1>3, <1>5 DEF IsPending, CodesInv, CodesTyped
<1>9. IssuesOrdered'
  <2>1. \A i \in Issues : i \in Nat
    BY DEF Issues
  <2>2. issued \in Nat
    BY DEF CodesInv, CodesTyped
  <2> QED BY <1>1, <1>7, <1>8, <2>1, <2>2 DEF CodesInv, IssuesOrdered
<1>10. ASSUME NEW i \in Issues PROVE Bounded(i)'
  <2>1. Readers(i)' \subseteq Readers(i)
    BY <1>7 DEF Readers
  <2>2. h \notin Readers(i)'
    BY <1>3, <1>4 DEF Readers, Holds, CodesInv, CodesTyped
  <2>3. CASE i # issued'
    <3>1. \A f \in Emails : IsPending(f, i)' =>
            IsPending(f, i) /\ codes'[f].attempts >= codes[f].attempts
      BY <1>8, <2>3 DEF IsPending, CodesInv, CodesTyped, CodeRow
    <3> QED BY <1>1, <1>6, <2>1, <2>2, <3>1, BoundKept DEF CodesInv
  <2>4. CASE i = issued'
    <3>1. i > issued
      BY <1>1, <2>4 DEF CodesInv, CodesTyped
    <3>2. compared'[i] = 0
      BY <1>1, <3>1 DEF CodesInv, IssuesOrdered
    <3>3. codes'[e] = row
      BY <1>1, <1>3 DEF CodesInv, CodesTyped
    <3>4. IsPending(e, i)' /\ ~Dead(i)'
      BY <1>1, <1>2, <1>5, <2>4, <3>3 DEF IsPending, Dead
    <3>5. ASSUME NEW f \in Emails, IsPending(f, i)' PROVE f = e
      <4>1. CASE IsPending(f, i)
        BY <1>1, <3>1, <4>1 DEF CodesInv, IssuesOrdered, CodesTyped, Issues
      <4> QED BY <3>5, <1>8, <4>1
    <3> QED BY <1>5, <3>2, <3>3, <3>4, <3>5, LifeAssumption DEF Bounded
  <2> QED BY <2>3, <2>4
<1> QED BY <1>6, <1>9, <1>10 DEF CodesInv

(* A request reads the code that is pending.                                *)
LEMMA ReadCodeKeeps ==
  ASSUME CodesInv, NEW h \in Threads, NEW e \in Emails, NEW c \in Codes,
         get_code(h, e, c), Usable(codes[e])
  PROVE  CodesInv'
<1> DEFINE next == [pc |-> "bump", email |-> e, code |-> c, pending |-> Read(codes[e])]
<1>1. codes[e] \in CodeRow /\ codes[e] # None
  BY DEF Usable, CodesInv, CodesTyped
<1>2. Read(codes[e]) \in ReadCode /\ Read(codes[e]).issue = codes[e].issue
  BY <1>1 DEF Read, ReadCode, CodeRow
<1>3. next \in ThreadRow
  BY <1>2 DEF ThreadRow, Busy
<1>4. thread' = [thread EXCEPT ![h] = next] /\ UNCHANGED <<codes, issued, compared>>
  BY DEF get_code, Do
<1>5. thread'[h] = next
  BY <1>4 DEF CodesInv, CodesTyped
<1>6. \A g \in Threads : g # h => thread'[g] = thread[g]
  BY <1>4 DEF CodesInv, CodesTyped
<1>7. CodesTyped'
  <2>1. thread' \in [Threads -> ThreadRow]
    BY <1>3, <1>4 DEF CodesInv, CodesTyped
  <2>2. \A g \in Threads : /\ thread'[g].pc \in Busy => thread'[g].email \in Emails
                           /\ thread'[g].pc = "bump" => thread'[g].pending \in ReadCode
    BY <1>2, <1>5, <1>6 DEF CodesInv, CodesTyped
  <2> QED BY <1>4, <2>1, <2>2 DEF CodesInv, CodesTyped
<1>8. \A g \in Threads : \A i \in Issues :
        Holds(g, i)' => \/ Holds(g, i) /\ thread'[g] = thread[g]
                        \/ IsPending(e, i) /\ thread'[g].email = e
  BY <1>1, <1>2, <1>5, <1>6 DEF Holds, IsPending
<1>9. \A f \in Emails : \A i \in Issues : IsPending(f, i)' <=> IsPending(f, i)
  BY <1>4 DEF IsPending
<1>10. IssuesOrdered'
  BY <1>4, <1>8, <1>9 DEF CodesInv, IssuesOrdered
<1>11. ASSUME NEW i \in Issues PROVE Bounded(i)'
  <2>1. Dead(i) => Readers(i)' \subseteq Readers(i)
    BY <1>8 DEF Readers, Dead
  <2>2. Dead(i)' => Dead(i)
    BY <1>9 DEF Dead
  <2>3. \A f \in Emails : IsPending(f, i)' =>
          IsPending(f, i) /\ codes'[f].attempts >= codes[f].attempts
    BY <1>4, <1>9 DEF IsPending, CodesInv, CodesTyped, CodeRow
  <2> QED BY <1>4, <1>7, <2>1, <2>2, <2>3, BoundKept DEF CodesInv
<1> QED BY <1>7, <1>10, <1>11 DEF CodesInv

(* A request counts on the code pending now and compares with the one read. *)
LEMMA BumpKeeps ==
  ASSUME CodesInv, NEW h \in Threads, bump_attempts(h)
  PROVE  CodesInv'
<1>0. PICK e \in Emails, j \in Issues :
        e = thread[h].email /\ j = thread[h].pending.issue
  BY DEF bump_attempts, At, CodesInv, CodesTyped, Busy, ReadCode
<1>1. thread[h].pc = "bump" /\ Holds(h, j)
  BY <1>0 DEF bump_attempts, At, Holds
<1>2. codes' = IF codes[e] = None THEN codes ELSE [codes EXCEPT ![e].attempts = @ + 1]
  BY <1>0 DEF bump_attempts, Bumped
<1>3. PICK next \in ThreadRow :
        /\ thread' = [thread EXCEPT ![h] = next]
        /\ next.pc # "bump" /\ (next.pc \in Busy => next.email \in Emails)
  BY <1>0, Unholding DEF bump_attempts, Proceed, Do, Busy
<1>4. \/ WithinAttempts(h) /\ compared' = [compared EXCEPT ![j] = @ + 1]
      \/ UNCHANGED compared
  BY <1>0 DEF bump_attempts
<1>5. UNCHANGED issued
  BY DEF bump_attempts
<1>6. \A f \in Emails :
        \/ codes'[f] = codes[f] /\ (f # e \/ codes[f] = None)
        \/ /\ f = e /\ codes[f] \in CodeRow
           /\ codes'[f] = [codes[f] EXCEPT !.attempts = @ + 1]
  BY <1>2 DEF CodesInv, CodesTyped
<1>7. \A row \in CodeRow :
        LET bumped == [row EXCEPT !.attempts = @ + 1]
        IN  /\ bumped \in CodeRow /\ bumped # None
            /\ bumped.issue = row.issue /\ bumped.attempts = row.attempts + 1
  BY IdsAssumption DEF CodeRow, Issues
<1>8. codes' \in [Emails -> CodeRow \union {None}]
  <2>1. \A f \in Emails : codes'[f] \in CodeRow \union {None}
    BY <1>6, <1>7 DEF CodesInv, CodesTyped
  <2>2. codes' = [f \in Emails |-> codes'[f]]
    BY <1>2 DEF CodesInv, CodesTyped
  <2> QED BY <2>1, <2>2
<1>9. compared' \in [Issues -> Nat]
  BY <1>1, <1>4 DEF CodesInv, CodesTyped
<1>10. CodesTyped'
  BY <1>3, <1>5, <1>8, <1>9 DEF CodesInv, CodesTyped
<1>11. \A g \in Threads : \A i \in Issues :
         Holds(g, i)' => g # h /\ Holds(g, i) /\ thread'[g] = thread[g]
  BY <1>3 DEF Holds, CodesInv, CodesTyped
<1>12. \A f \in Emails : \A i \in Issues :
         /\ IsPending(f, i)' <=> IsPending(f, i)
         /\ IsPending(f, i) =>
              codes'[f].attempts = codes[f].attempts + (IF f = e THEN 1 ELSE 0)
  <2> SUFFICES ASSUME NEW f \in Emails, NEW i \in Issues
               PROVE  /\ IsPending(f, i)' <=> IsPending(f, i)
                      /\ IsPending(f, i) =>
                           codes'[f].attempts = codes[f].attempts + (IF f = e THEN 1 ELSE 0)
    OBVIOUS
  <2>1. CASE codes'[f] = codes[f] /\ (f # e \/ codes[f] = None)
    BY <2>1 DEF IsPending, CodesInv, CodesTyped, CodeRow
  <2>2. CASE /\ f = e /\ codes[f] \in CodeRow
             /\ codes'[f] = [codes[f] EXCEPT !.attempts = @ + 1]
    <3>1. codes[f] # None
      BY <2>2, IdsAssumption DEF CodeRow, Issues
    <3> QED BY <1>7, <2>2, <3>1 DEF IsPending
  <2> QED BY <1>6, <2>1, <2>2
<1>13. \A i \in Issues : i # j => compared'[i] = compared[i]
  BY <1>4 DEF CodesInv, CodesTyped
<1>14. IssuesOrdered'
  <2>1. j <= issued
    BY <1>1 DEF CodesInv, IssuesOrdered
  <2>2. \A i \in Issues : i > issued => i # j
    BY <2>1, <1>1 DEF CodesInv, CodesTyped, Issues
  <2> QED BY <1>5, <1>11, <1>12, <1>13, <2>2 DEF CodesInv, IssuesOrdered
<1>15. ASSUME NEW i \in Issues, compared'[i] = compared[i] PROVE Bounded(i)'
  <2>1. Readers(i)' \subseteq Readers(i)
    BY <1>11 DEF Readers
  <2>2. Dead(i)' => Dead(i)
    BY <1>12 DEF Dead
  <2>3. \A f \in Emails : IsPending(f, i)' =>
          IsPending(f, i) /\ codes'[f].attempts >= codes[f].attempts
    BY <1>12 DEF IsPending, CodesInv, CodesTyped, CodeRow
  <2> QED BY <1>10, <1>15, <2>1, <2>2, <2>3, BoundKept DEF CodesInv
<1>16. CASE WithinAttempts(h) /\ compared' = [compared EXCEPT ![j] = @ + 1]
  <2>1. compared[j] \in Nat /\ compared'[j] = compared[j] + 1 /\ MaxAttempts \in Nat
    BY <1>1, <1>16, LifeAssumption DEF CodesInv, CodesTyped
  <2>2. ASSUME NEW f \in Emails, IsPending(f, j)'
        PROVE  compared'[j] <= codes'[f].attempts /\ compared'[j] <= MaxAttempts
    <3>1. IsPending(f, j) /\ f = e
      BY <1>0, <1>1, <1>12, <2>2 DEF CodesInv, IssuesOrdered
    <3>2. codes[e].attempts + 1 <= MaxAttempts /\ codes'[f].attempts = codes[e].attempts + 1
      BY <1>0, <1>12, <1>16, <3>1 DEF WithinAttempts, Counted, IsPending
    <3>3. codes[e].attempts \in Nat
      BY <1>1, <3>1 DEF IsPending, CodesInv, CodesTyped, CodeRow
    <3>4. compared[j] <= codes[e].attempts
      BY <1>1, <3>1 DEF CodesInv, Bounded
    <3> QED BY <2>1, <3>2, <3>3, <3>4
  <2>3. ASSUME Dead(j)'
        PROVE  compared'[j] + Cardinality(Readers(j)')
                 <= MaxAttempts + Cardinality(Threads) - 1
    <3>1. Dead(j)
      BY <1>1, <1>12, <2>3 DEF Dead
    <3>2. compared[j] + Cardinality(Readers(j)) <= MaxAttempts + Cardinality(Threads) - 1
      BY <1>1, <3>1 DEF CodesInv, Bounded
    <3>3. h \in Readers(j) /\ Readers(j)' \subseteq Readers(j) \ {h}
      BY <1>1, <1>11 DEF Readers
    <3>4. IsFiniteSet(Readers(j)) /\ Cardinality(Readers(j)) \in Nat
      BY ReaderCounts
    <3>5. /\ IsFiniteSet(Readers(j) \ {h})
          /\ Cardinality(Readers(j) \ {h}) = Cardinality(Readers(j)) - 1
      BY <3>3, <3>4, FS_RemoveElement
    <3>6. /\ Cardinality(Readers(j)') \in Nat
          /\ Cardinality(Readers(j)') <= Cardinality(Readers(j)) - 1
      BY <3>3, <3>5, FS_Subset, FS_CardinalityType
    <3>7. Cardinality(Threads) \in Nat
      BY ReaderCounts
    <3> QED BY <2>1, <3>2, <3>4, <3>6, <3>7
  <2>4. Bounded(j)'
    BY <2>2, <2>3 DEF Bounded
  <2>5. ASSUME NEW k \in Issues PROVE Bounded(k)'
    BY <1>13, <1>15, <2>4
  <2> QED BY <1>10, <1>14, <2>5 DEF CodesInv
<1>17. CASE UNCHANGED compared
  BY <1>10, <1>14, <1>15, <1>17 DEF CodesInv
<1> QED BY <1>4, <1>16, <1>17

(* Time shortens lifetimes and nothing else.                                *)
LEMMA TickKeeps == CodesInv /\ Tick => CodesInv'
<1> SUFFICES ASSUME CodesInv, Tick PROVE CodesInv'
  OBVIOUS
<1>1. \A row \in CodeRow :
        LET aged == [row EXCEPT !.left = Less(@)]
        IN  /\ aged \in CodeRow /\ aged # None
            /\ aged.issue = row.issue /\ aged.attempts = row.attempts
  BY IdsAssumption DEF CodeRow, Issues, Less
<1>2. codes' = [e \in Emails |-> Aged(codes[e])] /\ UNCHANGED <<thread, issued, compared>>
  BY DEF Tick
<1>3. \A e \in Emails :
        \/ codes'[e] = codes[e]
        \/ /\ codes[e] # None /\ codes'[e] # None /\ codes'[e] \in CodeRow
           /\ codes'[e].issue = codes[e].issue /\ codes'[e].attempts = codes[e].attempts
  <2> SUFFICES ASSUME NEW e \in Emails, codes[e] # None
               PROVE  /\ codes'[e] # None /\ codes'[e] \in CodeRow
                      /\ codes'[e].issue = codes[e].issue
                      /\ codes'[e].attempts = codes[e].attempts
    BY <1>2 DEF Aged
  <2>1. codes[e] \in CodeRow
    BY DEF CodesInv, CodesTyped
  <2>2. codes'[e] = [codes[e] EXCEPT !.left = Less(@)]
    BY <1>2 DEF Aged
  <2> QED BY <1>1, <2>1, <2>2
<1>4. CodesTyped'
  <2>1. \A e \in Emails : codes'[e] \in CodeRow \union {None}
    BY <1>3 DEF CodesInv, CodesTyped
  <2>2. codes' = [e \in Emails |-> codes'[e]]
    BY <1>2
  <2>3. codes' \in [Emails -> CodeRow \union {None}]
    BY <2>1, <2>2
  <2> QED BY <1>2, <2>3 DEF CodesInv, CodesTyped
<1>5. \A e \in Emails : \A i \in Issues :
        /\ IsPending(e, i)' <=> IsPending(e, i)
        /\ IsPending(e, i) => codes'[e].attempts = codes[e].attempts
  BY <1>3 DEF IsPending
<1>6. \A h \in Threads : \A i \in Issues : Holds(h, i)' <=> Holds(h, i)
  BY <1>2 DEF Holds
<1>7. IssuesOrdered'
  BY <1>2, <1>5, <1>6 DEF CodesInv, IssuesOrdered
<1>8. ASSUME NEW i \in Issues PROVE Bounded(i)'
  <2>1. Readers(i)' \subseteq Readers(i)
    BY <1>6 DEF Readers
  <2>2. Dead(i)' => Dead(i)
    BY <1>5 DEF Dead
  <2>3. \A e \in Emails : IsPending(e, i)' =>
          IsPending(e, i) /\ codes'[e].attempts >= codes[e].attempts
    BY <1>5 DEF IsPending, CodesInv, CodesTyped, CodeRow
  <2> QED BY <1>2, <1>4, <2>1, <2>2, <2>3, BoundKept DEF CodesInv
<1> QED BY <1>4, <1>7, <1>8 DEF CodesInv

(* A stop drops every code with the requests that held one.                 *)
LEMMA ForgetfulKeeps == CodesInv /\ Forgetful => CodesInv'
<1> SUFFICES ASSUME CodesInv, Forgetful PROVE CodesInv'
  OBVIOUS
<1>1. /\ codes' = [e \in Emails |-> None] /\ thread' = [h \in Threads |-> Idle]
      /\ UNCHANGED <<issued, compared>>
  BY DEF Forgetful
<1>2. CodesTyped'
  BY <1>1, Unholding DEF CodesInv, CodesTyped, Busy
<1>3. /\ \A e \in Emails : \A i \in Issues : ~IsPending(e, i)'
      /\ \A h \in Threads : \A i \in Issues : ~Holds(h, i)'
  BY <1>1, Unholding DEF IsPending, Holds
<1>4. IssuesOrdered'
  BY <1>1, <1>3 DEF CodesInv, IssuesOrdered
<1>5. ASSUME NEW i \in Issues PROVE Bounded(i)'
  <2>1. Readers(i)' = {}
    BY <1>3 DEF Readers
  <2>2. \E h \in Threads : h \notin Readers(i)'
    BY <2>1, IdsAssumption
  <2> QED BY <1>1, <1>2, <1>3, <2>1, <2>2, BoundKept DEF CodesInv
<1> QED BY <1>2, <1>4, <1>5 DEF CodesInv

(* A step that touches neither codes nor the requests for them.             *)
LEMMA OthersKeep ==
  CodesInv /\ UNCHANGED <<codes, thread, issued, compared>> => CodesInv'
<1> SUFFICES ASSUME CodesInv, UNCHANGED <<codes, thread, issued, compared>>
             PROVE  CodesInv'
  OBVIOUS
<1>1. CodesTyped' /\ IssuesOrdered'
  BY DEF CodesInv, CodesTyped, IssuesOrdered, IsPending, Holds
<1>2. ASSUME NEW i \in Issues PROVE Bounded(i)'
  <2>1. Readers(i)' = Readers(i)
    BY DEF Readers, Holds
  <2>2. Dead(i)' <=> Dead(i)
    BY DEF Dead, IsPending
  <2>3. Bounded(i)
    BY DEF CodesInv
  <2> QED BY <2>1, <2>2, <2>3 DEF Bounded, IsPending
<1> QED BY <1>1, <1>2 DEF CodesInv

(* A request goes on with its address alone.                                *)
LEMMA GoKeeps ==
  ASSUME CodesInv, NEW h \in Threads, NEW e \in Emails,
         NEW place \in Busy \ {"bump"}, thread[h].pc # "bump",
         Do(h, [Idle EXCEPT !.pc = place, !.email = e]),
         UNCHANGED <<issued, compared>>, UNCHANGED codes \/ Drop(e)
  PROVE  CodesInv'
<1> DEFINE next == [Idle EXCEPT !.pc = place, !.email = e]
<1>1. next \in ThreadRow /\ next.pc # "bump" /\ next.email \in Emails
  BY Unholding
<1>2. Do(h, next)
  OBVIOUS
<1> HIDE DEF next
<1> QED BY <1>1, <1>2, MoveKeeps

(* The invariant of the codes is inductive: one case per store call.        *)
LEMMA CodesThreadStep ==
  ASSUME CodesInv, NEW h \in Threads,
         \/ \E e \in Emails : allow_code_request(h, e)
         \/ \E c \in Codes : set_code(h, c)
         \/ Sent(h) \/ SendFails(h)
         \/ \E e \in Emails, c \in Codes : get_code(h, e, c)
         \/ bump_attempts(h) \/ Forget(h) \/ UseCode(h) \/ ensure_user(h)
         \/ \E t \in Tokens : put_session(h, t)
  PROVE  CodesInv'
<1> USE DEF At
<1>1. thread[h].pc \in Busy => thread[h].email \in Emails
  BY DEF CodesInv, CodesTyped
<1>2. ASSUME NEW e \in Emails, allow_code_request(h, e) PROVE CodesInv'
  <2>1. Do(h, [Idle EXCEPT !.pc = "make", !.email = e]) /\ thread[h].pc = "idle"
        /\ UNCHANGED <<codes, issued, compared>>
    BY <1>2 DEF allow_code_request
  <2> QED BY <2>1, GoKeeps DEF Busy
<1>3. ASSUME NEW c \in Codes, set_code(h, c) PROVE CodesInv'
  BY <1>3, SetCodeKeeps
<1>4. CASE Sent(h)
  <2>1. Do(h, Idle) /\ thread[h].pc = "send" /\ UNCHANGED <<codes, issued, compared>>
    BY <1>4 DEF Sent
  <2> QED BY <2>1, Unholding, MoveKeeps DEF Busy
<1>5. CASE SendFails(h) \/ Forget(h)
  <2>1. /\ Do(h, Idle) /\ thread[h].pc \in {"send", "drop"} /\ Drop(thread[h].email)
        /\ UNCHANGED <<issued, compared>>
    BY <1>5 DEF SendFails, Forget
  <2>2. thread[h].email \in Emails
    BY <1>1, <2>1 DEF Busy
  <2> QED BY <2>1, <2>2, Unholding, MoveKeeps DEF Busy
<1>6. ASSUME NEW e \in Emails, NEW c \in Codes, get_code(h, e, c) PROVE CodesInv'
  <2>1. CASE Usable(codes[e])
    BY <1>6, <2>1, ReadCodeKeeps
  <2>2. CASE ~Usable(codes[e])
    <3>1. Do(h, [Idle EXCEPT !.pc = "drop", !.email = e]) /\ thread[h].pc = "idle"
          /\ UNCHANGED <<codes, issued, compared>>
      BY <1>6, <2>2 DEF get_code
    <3> QED BY <3>1, GoKeeps DEF Busy
  <2> QED BY <2>1, <2>2
<1>7. CASE bump_attempts(h)
  BY <1>7, BumpKeeps
<1>8. CASE UseCode(h)
  <2>1. /\ Do(h, [Idle EXCEPT !.pc = "user", !.email = thread[h].email])
        /\ thread[h].pc = "use" /\ Drop(thread[h].email) /\ UNCHANGED <<issued, compared>>
    BY <1>8 DEF UseCode, Proceed
  <2>2. thread[h].email \in Emails
    BY <1>1, <2>1 DEF Busy
  <2> QED BY <2>1, <2>2, GoKeeps DEF Busy
<1>9. CASE ensure_user(h)
  <2>1. /\ Do(h, [Idle EXCEPT !.pc = "session", !.email = thread[h].email])
        /\ thread[h].pc = "user" /\ UNCHANGED <<codes, issued, compared>>
    BY <1>9 DEF ensure_user, Proceed
  <2>2. thread[h].email \in Emails
    BY <1>1, <2>1 DEF Busy
  <2> QED BY <2>1, <2>2, GoKeeps DEF Busy
<1>10. ASSUME NEW t \in Tokens, put_session(h, t) PROVE CodesInv'
  <2>1. Do(h, Idle) /\ thread[h].pc = "session" /\ UNCHANGED <<codes, issued, compared>>
    BY <1>10 DEF put_session
  <2> QED BY <2>1, Unholding, MoveKeeps DEF Busy
<1> QED BY <1>2, <1>3, <1>4, <1>5, <1>6, <1>7, <1>8, <1>9, <1>10

LEMMA CodesStep == CodesInv /\ [Next]_vars => CodesInv'
<1> SUFFICES ASSUME CodesInv, [Next]_vars PROVE CodesInv'
  OBVIOUS
<1>1. CASE UNCHANGED authVars
  BY <1>1, OthersKeep DEF authVars
<1>2. CASE AuthStep
  <2>1. ASSUME NEW t \in Tokens, expire_session(t) \/ logout(t) PROVE CodesInv'
    BY <2>1, OthersKeep DEF expire_session, logout
  <2>2. CASE Tick
    BY <2>2, TickKeeps
  <2> QED BY <1>2, <2>1, <2>2, CodesThreadStep DEF AuthStep
<1>3. CASE Restart
  BY <1>3, ForgetfulKeeps DEF Restart
<1> QED BY <1>1, <1>2, <1>3 DEF Next, vars

(* A sign-in code is compared at most MaxAttempts times, and once more by   *)
(* each other request in progress (verify_code of auth.py).                 *)
THEOREM GuessesAreFew == Spec => []ComparisonsAreBounded
<1>1. CodesInv => ComparisonsAreBounded
  <2> SUFFICES ASSUME CodesInv, NEW i \in Issues
               PROVE  compared[i] <= MaxAttempts + Cardinality(Threads) - 1
    BY DEF ComparisonsAreBounded
  <2>1. compared[i] \in Nat /\ MaxAttempts \in Nat
    BY LifeAssumption DEF CodesInv, CodesTyped
  <2>2. /\ Cardinality(Threads) \in Nat /\ Cardinality(Threads) >= 1
        /\ Cardinality(Readers(i)) \in Nat
    BY ReaderCounts
  <2>3. CASE Dead(i)
    <3>1. compared[i] + Cardinality(Readers(i)) <= MaxAttempts + Cardinality(Threads) - 1
      BY <2>3 DEF CodesInv, Bounded
    <3> QED BY <2>1, <2>2, <3>1
  <2>4. CASE ~Dead(i)
    <3>1. compared[i] <= MaxAttempts
      BY <2>4 DEF Dead, CodesInv, Bounded
    <3> QED BY <2>1, <2>2, <3>1
  <2> QED BY <2>3, <2>4
<1> QED BY <1>1, CodesStart, CodesStep, PTL DEF Spec, Init
-----------------------------------------------------------------------------
(* Sign-in: what its tables hold.                                           *)

(* The requests that are about to drop the code of an address.              *)
Dropping(e) == {h \in Threads : thread[h].pc = "drop" /\ thread[h].email = e}

(* Each attempt above the limit was counted by a request that is about to   *)
(* drop the code.                                                           *)
AttemptsFit(e) ==
  codes[e] # None => /\ codes[e].left <= CodeLife
                     /\ codes[e].attempts <= MaxAttempts + Cardinality(Dropping(e))

TimesFit ==
  /\ recent \in [Emails -> Seq(1..RateWindow)]
  /\ \A e \in Emails : Len(recent[e]) <= RateLimit

SessionsFit ==
  /\ users \subseteq Emails
  /\ sessions \in [Tokens -> Session \union {None}]

SignInTyped == (\A e \in Emails : AttemptsFit(e)) /\ TimesFit /\ SessionsFit

(* The requests that are about to drop a code are finitely many.            *)
LEMMA DroppingCounts ==
  ASSUME NEW e
  PROVE  /\ IsFiniteSet(Dropping(e)) /\ Cardinality(Dropping(e)) \in Nat
         /\ Cardinality(Threads) \in Nat /\ Cardinality(Dropping(e)) <= Cardinality(Threads)
<1>1. Dropping(e) \subseteq Threads
  BY DEF Dropping
<1> QED BY <1>1, IdsAssumption, FS_Subset, FS_CardinalityType

(* A code that is still pending, with no more attempts, no more time and as *)
(* many requests about to drop it, still fits.                              *)
LEMMA FitKept ==
  ASSUME CodesTyped, CodesTyped', NEW e \in Emails, AttemptsFit(e),
         codes'[e] # None =>
           /\ codes[e] # None /\ codes'[e].left <= codes[e].left
           /\ codes'[e].attempts <= codes[e].attempts
           /\ \A h \in Threads : thread[h].pc = "drop" /\ thread[h].email = e
                => thread'[h].pc = "drop" /\ thread'[h].email = e
  PROVE  AttemptsFit(e)'
<1> SUFFICES ASSUME codes'[e] # None
             PROVE  /\ codes'[e].left <= CodeLife
                    /\ codes'[e].attempts <= MaxAttempts + Cardinality(Dropping(e)')
  BY DEF AttemptsFit
<1>1. /\ codes[e] \in CodeRow /\ codes'[e] \in CodeRow
      /\ codes[e].left <= CodeLife
      /\ codes[e].attempts <= MaxAttempts + Cardinality(Dropping(e))
  BY DEF AttemptsFit, CodesTyped
<1>2. /\ codes[e].left \in Nat /\ codes'[e].left \in Nat
      /\ codes[e].attempts \in Nat /\ codes'[e].attempts \in Nat
      /\ CodeLife \in Nat /\ MaxAttempts \in Nat
  BY <1>1, LifeAssumption DEF CodeRow
<1>3. Dropping(e) \subseteq Dropping(e)'
  BY DEF Dropping
<1>4. IsFiniteSet(Dropping(e)') /\ Cardinality(Dropping(e)') \in Nat
  <2>1. Dropping(e)' \subseteq Threads
    BY DEF Dropping
  <2> QED BY <2>1, IdsAssumption, FS_Subset, FS_CardinalityType
<1>5. Cardinality(Dropping(e)) <= Cardinality(Dropping(e)')
  BY <1>3, <1>4, FS_Subset
<1>6. Cardinality(Dropping(e)) \in Nat
  BY DroppingCounts
<1> QED BY <1>1, <1>2, <1>4, <1>5, <1>6

(* A function on 1..n is a sequence of length n.                            *)
LEMMA SequenceOf ==
  ASSUME NEW n \in Nat, NEW S, NEW f \in [1..n -> S]
  PROVE  f \in Seq(S) /\ Len(f) = n
<1>1. f \in Seq(S)
  OBVIOUS
<1>2. Len(f) = n
  OBVIOUS
<1> QED BY <1>1, <1>2

(* A set of k or more naturals up to n has a k-th one.                      *)
LEMMA NthIsKept ==
  ASSUME NEW n \in Nat, NEW kept, kept \subseteq 1..n,
         NEW k \in 1..Cardinality(kept)
  PROVE  Nth(kept, k) \in kept
<1> DEFINE upTo(i) == {j \in kept : j <= i}
           enough == {i \in Nat : Cardinality(upTo(i)) >= k}
<1>1. /\ \A j \in kept : j \in Nat /\ j >= 1 /\ j <= n
      /\ IsFiniteSet(kept) /\ Cardinality(kept) \in Nat
      /\ k \in Nat /\ k >= 1 /\ k <= Cardinality(kept)
  <2>1. \A j \in kept : j \in 1..n
    OBVIOUS
  <2>2. IsFiniteSet(1..n)
    BY FS_Interval
  <2>3. IsFiniteSet(kept) /\ Cardinality(kept) \in Nat
    BY <2>2, FS_Subset, FS_CardinalityType
  <2> QED BY <2>1, <2>3
<1>2. ASSUME NEW i \in Nat
      PROVE  IsFiniteSet(upTo(i)) /\ Cardinality(upTo(i)) \in Nat
  <2>1. upTo(i) \subseteq kept
    OBVIOUS
  <2> QED BY <1>1, <2>1, FS_Subset, FS_CardinalityType
<1>3. n \in enough
  <2>1. upTo(n) = kept
    BY <1>1
  <2> QED BY <1>1, <2>1
<1>4. PICK i \in enough : \A m \in enough : ~(<<m, i>> \in OpToRel(<, Nat))
  <2>1. enough # {} /\ enough \subseteq Nat
    BY <1>3
  <2> HIDE DEF enough
  <2> QED BY <2>1, WFMin, NatLessThanWellFounded
<1>5. i \in Nat /\ Cardinality(upTo(i)) >= k
  BY <1>4
<1>6. i # 0
  <2>0. \A j \in kept : ~(j <= 0)
    BY <1>1
  <2>1. upTo(0) = {}
    BY <2>0
  <2>2. Cardinality(upTo(0)) = 0
    BY <2>1, FS_EmptySet
  <2> QED BY <1>1, <1>5, <2>2
<1>7. i - 1 \in Nat /\ i - 1 < i
  BY <1>5, <1>6
<1>8. Cardinality(upTo(i - 1)) < k
  <2>1. i - 1 \notin enough
    <3> HIDE DEF enough
    <3> QED BY <1>4, <1>5, <1>7 DEF OpToRel
  <2>2. ~(Cardinality(upTo(i - 1)) >= k)
    BY <1>7, <2>1
  <2>3. Cardinality(upTo(i - 1)) \in Nat
    BY <1>2, <1>7
  <2> QED BY <1>1, <2>2, <2>3
<1>9. \A j \in kept : j <= i <=> j <= i - 1 \/ j = i
  BY <1>1, <1>5
<1>10. i \in kept
  <2> SUFFICES ASSUME i \notin kept PROVE FALSE
    OBVIOUS
  <2>1. upTo(i) = upTo(i - 1)
    BY <1>9
  <2>2. Cardinality(upTo(i - 1)) >= k
    BY <1>5, <2>1
  <2>3. Cardinality(upTo(i - 1)) \in Nat
    BY <1>2, <1>7
  <2> HIDE DEF upTo
  <2> QED BY <1>1, <1>8, <2>2, <2>3
<1>11. Cardinality(upTo(i)) = Cardinality(upTo(i - 1)) + 1
  <2>1. upTo(i) = upTo(i - 1) \union {i}
    BY <1>9, <1>10, <1>5
  <2>2. i \notin upTo(i - 1)
    BY <1>5, <1>7
  <2>3. IsFiniteSet(upTo(i - 1))
    BY <1>2, <1>7
  <2> HIDE DEF upTo
  <2> QED BY <2>1, <2>2, <2>3, FS_AddElement
<1>12. Cardinality(upTo(i)) = k
  <2>1. Cardinality(upTo(i - 1)) \in Nat
    BY <1>2, <1>7
  <2> HIDE DEF upTo
  <2> QED BY <1>1, <1>5, <1>8, <1>11, <2>1
<1> QED BY <1>10, <1>12 DEF Nth

(* What is left of some request times is in the window, and no more of them *)
(* (allow_code_request of store.py).                                        *)
LEMMA WithinIsTyped ==
  ASSUME NEW times \in Seq(1..RateWindow)
  PROVE  Within(times) \in Seq(1..RateWindow) /\ Len(Within(times)) <= Len(times)
<1> DEFINE kept == {i \in DOMAIN times : times[i] > 1}
           n == Cardinality(kept)
<1>1. /\ Len(times) \in Nat /\ DOMAIN times = 1..Len(times)
      /\ \A i \in 1..Len(times) : times[i] \in 1..RateWindow
      /\ RateWindow \in Nat
  BY LifeAssumption
<1>2. kept \subseteq 1..Len(times)
  BY <1>1
<1>3. IsFiniteSet(1..Len(times)) /\ Cardinality(1..Len(times)) = Len(times)
  <2>1. \A m \in Nat : IsFiniteSet(1..m) /\ Cardinality(1..m) = m
    BY FS_Interval
  <2> QED BY <1>1, <2>1
<1>4. n \in Nat /\ n <= Len(times)
  <2> HIDE DEF kept
  <2> QED BY <1>2, <1>3, FS_Subset, FS_CardinalityType
<1>5. \A k \in 1..n : Nth(kept, k) \in kept
  <2> HIDE DEF kept
  <2> QED BY <1>1, <1>2, NthIsKept
<1>6. \A i \in kept : times[i] - 1 \in 1..RateWindow
  <2> SUFFICES ASSUME NEW i \in kept PROVE times[i] - 1 \in 1..RateWindow
    OBVIOUS
  <2>1. times[i] \in 1..RateWindow /\ times[i] > 1
    BY <1>1
  <2> HIDE DEF kept
  <2> QED BY <1>1, <2>1
<1>7. Within(times) = [k \in 1..n |-> times[Nth(kept, k)] - 1]
  BY DEF Within, Later
<1>8. Within(times) \in [1..n -> 1..RateWindow]
  <2> HIDE DEF kept, n
  <2> QED BY <1>5, <1>6, <1>7
<1>9. Within(times) \in Seq(1..RateWindow) /\ Len(Within(times)) = n
  <2> HIDE DEF kept, n
  <2> QED BY <1>4, <1>8, SequenceOf
<1> HIDE DEF kept, n
<1> QED BY <1>4, <1>9

(* Nothing is stored in the initial state.                                  *)
LEMMA SignInStart == AuthInit => SignInTyped
<1> SUFFICES ASSUME AuthInit PROVE SignInTyped
  OBVIOUS
<1>1. \A e \in Emails : AttemptsFit(e)
  BY DEF AuthInit, AttemptsFit
<1>2. TimesFit
  <2>1. << >> \in Seq(1..RateWindow) /\ Len(<< >>) = 0
    OBVIOUS
  <2>2. 0 <= RateLimit
    BY LifeAssumption
  <2> QED BY <2>1, <2>2 DEF AuthInit, TimesFit
<1>3. SessionsFit
  BY DEF AuthInit, SessionsFit
<1> QED BY <1>1, <1>2, <1>3 DEF SignInTyped

(* The call that counts an attempt either keeps within the limit or makes   *)
(* its request drop the code.                                               *)
LEMMA BumpFits ==
  ASSUME CodesInv, CodesInv', NEW h \in Threads, bump_attempts(h),
         NEW e \in Emails, AttemptsFit(e)
  PROVE  AttemptsFit(e)'
<1>1. PICK a \in Emails : a = thread[h].email /\ thread[h].pc = "bump"
  BY DEF bump_attempts, At, CodesInv, CodesTyped, Busy
<1>2. codes' = IF codes[a] = None THEN codes ELSE [codes EXCEPT ![a].attempts = @ + 1]
  BY <1>1 DEF bump_attempts, Bumped
<1>3. \A g \in Threads : g # h => thread'[g] = thread[g]
  BY DEF bump_attempts, Proceed, Do, CodesInv, CodesTyped
<1>4. \A g \in Threads : thread[g].pc = "drop" /\ thread[g].email = e
        => thread'[g].pc = "drop" /\ thread'[g].email = e
  BY <1>1, <1>3
<1>5. CodesTyped /\ CodesTyped'
  BY DEF CodesInv
<1>6. CASE e # a \/ codes[a] = None
  <2>1. codes'[e] = codes[e]
    BY <1>2, <1>6 DEF CodesInv, CodesTyped
  <2>2. codes[e] # None => codes[e] \in CodeRow
    BY DEF CodesInv, CodesTyped
  <2>3. codes[e] # None => codes[e].left \in Nat /\ codes[e].attempts \in Nat
    BY <2>2 DEF CodeRow
  <2> QED BY <1>4, <1>5, <2>1, <2>3, FitKept
<1>7. CASE e = a /\ codes[e] # None
  <2>1. codes[e] \in CodeRow
    BY <1>7 DEF CodesInv, CodesTyped
  <2>2. codes'[e] = [codes[e] EXCEPT !.attempts = @ + 1]
    BY <1>2, <1>7 DEF CodesInv, CodesTyped
  <2>3. /\ codes'[e].left = codes[e].left
        /\ codes'[e].attempts = codes[e].attempts + 1
        /\ codes[e].attempts \in Nat /\ MaxAttempts \in Nat
    BY <2>1, <2>2, LifeAssumption DEF CodeRow
  <2>4. /\ codes[e].left <= CodeLife
        /\ codes[e].attempts <= MaxAttempts + Cardinality(Dropping(e))
    BY <1>7 DEF AttemptsFit
  <2>5. IsFiniteSet(Dropping(e)') /\ Cardinality(Dropping(e)') \in Nat
    <3>1. Dropping(e)' \subseteq Threads
      BY DEF Dropping
    <3> QED BY <3>1, IdsAssumption, FS_Subset, FS_CardinalityType
  <2>6. Cardinality(Dropping(e)) \in Nat
    BY DroppingCounts
  <2>7. CASE WithinAttempts(h)
    <3>1. codes[e].attempts + 1 <= MaxAttempts
      BY <1>1, <1>7, <2>7 DEF WithinAttempts, Counted
    <3> QED BY <2>3, <2>4, <2>5, <3>1 DEF AttemptsFit
  <2>8. CASE ~WithinAttempts(h)
    <3>1. thread' = [thread EXCEPT ![h] = [Idle EXCEPT !.pc = "drop", !.email = a]]
      BY <1>1, <2>8 DEF bump_attempts, Proceed, Do
    <3>2. thread'[h].pc = "drop" /\ thread'[h].email = e
      BY <1>7, <3>1, Unholding DEF CodesInv, CodesTyped, Busy
    <3>3. Dropping(e) \union {h} \subseteq Dropping(e)' /\ h \notin Dropping(e)
      BY <1>1, <1>4, <3>2 DEF Dropping
    <3>4. Cardinality(Dropping(e) \union {h}) = Cardinality(Dropping(e)) + 1
      BY <3>3, DroppingCounts, FS_AddElement
    <3>5. Cardinality(Dropping(e) \union {h}) <= Cardinality(Dropping(e)')
      BY <2>5, <3>3, FS_Subset
    <3> QED BY <2>3, <2>4, <2>5, <2>6, <3>4, <3>5 DEF AttemptsFit
  <2> QED BY <2>7, <2>8
<1> QED BY <1>6, <1>7

(* The fit of the codes, call by call.                                      *)
LEMMA CodesFitStep ==
  ASSUME CodesInv, CodesInv', NEW h \in Threads, NEW e \in Emails, AttemptsFit(e),
         \/ \E f \in Emails : allow_code_request(h, f)
         \/ \E c \in Codes : set_code(h, c)
         \/ Sent(h) \/ SendFails(h)
         \/ \E f \in Emails, c \in Codes : get_code(h, f, c)
         \/ bump_attempts(h) \/ Forget(h) \/ UseCode(h) \/ ensure_user(h)
         \/ \E t \in Tokens : put_session(h, t)
  PROVE  AttemptsFit(e)'
<1>1. CodesTyped /\ CodesTyped'
  BY DEF CodesInv
<1>2. ASSUME codes[e] # None
      PROVE  codes[e].left \in Nat /\ codes[e].attempts \in Nat
  <2>1. codes[e] \in CodeRow
    BY <1>1, <1>2 DEF CodesTyped
  <2> QED BY <2>1 DEF CodeRow
<1>3. CASE bump_attempts(h)
  BY <1>3, BumpFits
<1>4. ASSUME codes'[e] = codes[e] \/ codes'[e] = None,
             \E next : Do(h, next),
             thread[h].pc = "drop" /\ thread[h].email = e => codes'[e] = None
      PROVE  AttemptsFit(e)'
  <2>1. \A g \in Threads : g # h => thread'[g] = thread[g]
    BY <1>1, <1>4 DEF Do, CodesTyped
  <2>2. codes'[e] # None => \A g \in Threads :
          thread[g].pc = "drop" /\ thread[g].email = e => thread'[g] = thread[g]
    BY <1>4, <2>1
  <2> QED BY <1>1, <1>2, <1>4, <2>2, FitKept
<1>5. ASSUME NEW c \in Codes, set_code(h, c) PROVE AttemptsFit(e)'
  <2>1. thread[h].pc = "make" /\ thread[h].email \in Emails
    BY <1>1, <1>5 DEF set_code, At, CodesTyped, Busy
  <2> DEFINE p == [code |-> c, issue |-> issued', left |-> CodeLife, attempts |-> 0]
  <2>2. codes' = [codes EXCEPT ![thread[h].email] = p] /\ \E next : Do(h, next)
    BY <1>5 DEF set_code, Proceed
  <2>3. CASE e = thread[h].email
    <3>1. codes'[e] = p
      BY <1>1, <2>2, <2>3 DEF CodesTyped
    <3>2. codes'[e].left = CodeLife /\ codes'[e].attempts = 0
      BY <3>1
    <3>3. IsFiniteSet(Dropping(e)') /\ Cardinality(Dropping(e)') \in Nat
      <4>1. Dropping(e)' \subseteq Threads
        BY DEF Dropping
      <4> QED BY <4>1, IdsAssumption, FS_Subset, FS_CardinalityType
    <3> QED BY <3>2, <3>3, LifeAssumption DEF AttemptsFit
  <2>4. CASE e # thread[h].email
    <3>1. codes'[e] = codes[e]
      BY <1>1, <2>2, <2>4 DEF CodesTyped
    <3> QED BY <1>4, <2>1, <2>2, <3>1
  <2> QED BY <2>3, <2>4
<1>6. CASE Forget(h) \/ SendFails(h)
  <2>1. /\ codes' = [codes EXCEPT ![thread[h].email] = None]
        /\ \E next : Do(h, next)
    BY <1>6 DEF Forget, SendFails, Drop
  <2>2. codes'[e] = codes[e] \/ codes'[e] = None
    BY <1>1, <2>1 DEF CodesTyped
  <2>3. thread[h].email = e => codes'[e] = None
    BY <1>1, <2>1 DEF CodesTyped
  <2> QED BY <1>4, <2>1, <2>2, <2>3
<1>7. CASE UseCode(h)
  <2>1. /\ codes' = [codes EXCEPT ![thread[h].email] = None]
        /\ thread[h].pc = "use" /\ \E next : Do(h, next)
    BY <1>7 DEF UseCode, Drop, At, Proceed
  <2>2. codes'[e] = codes[e] \/ codes'[e] = None
    BY <1>1, <2>1 DEF CodesTyped
  <2> QED BY <1>4, <2>1, <2>2
<1>8. ASSUME \/ \E f \in Emails : allow_code_request(h, f)
             \/ Sent(h)
             \/ \E f \in Emails, c \in Codes : get_code(h, f, c)
             \/ ensure_user(h)
             \/ \E t \in Tokens : put_session(h, t)
      PROVE  AttemptsFit(e)'
  <2>1. /\ thread[h].pc # "drop" /\ UNCHANGED codes
        /\ \E next : Do(h, next)
    BY <1>8 DEF allow_code_request, Sent, get_code, ensure_user, put_session, At, Proceed
  <2> QED BY <1>4, <2>1
<1> QED BY <1>3, <1>5, <1>6, <1>7, <1>8

(* A request is let through only below the limit of its address.            *)
LEMMA AllowFits ==
  ASSUME TimesFit, NEW h \in Threads, NEW e \in Emails, allow_code_request(h, e)
  PROVE  TimesFit'
<1>1. /\ Len(recent[e]) < RateLimit
      /\ recent' = [recent EXCEPT ![e] = Append(recent[e], RateWindow)]
  BY DEF allow_code_request
<1>2. recent[e] \in Seq(1..RateWindow) /\ RateWindow \in 1..RateWindow /\ RateLimit \in Nat
  BY LifeAssumption DEF TimesFit
<1>3. /\ Append(recent[e], RateWindow) \in Seq(1..RateWindow)
      /\ Len(Append(recent[e], RateWindow)) = Len(recent[e]) + 1
      /\ Len(recent[e]) \in Nat
  BY <1>2
<1>4. \A f \in Emails : recent'[f] = IF f = e THEN Append(recent[e], RateWindow)
                                              ELSE recent[f]
  BY <1>1 DEF TimesFit
<1>5. \A f \in Emails : recent'[f] \in Seq(1..RateWindow) /\ Len(recent'[f]) <= RateLimit
  <2>1. Len(recent[e]) + 1 <= RateLimit
    BY <1>1, <1>2, <1>3
  <2>2. \A f \in Emails : recent[f] \in Seq(1..RateWindow) /\ Len(recent[f]) <= RateLimit
    BY DEF TimesFit
  <2> QED BY <1>3, <1>4, <2>1, <2>2
<1>6. recent' = [f \in Emails |-> recent'[f]]
  BY <1>1 DEF TimesFit
<1>7. recent' \in [Emails -> Seq(1..RateWindow)]
  BY <1>5, <1>6
<1> QED BY <1>5, <1>7 DEF TimesFit

(* A session is stored for the address of the request.                      *)
LEMMA SessionsKept ==
  ASSUME SessionsFit, CodesTyped, NEW h \in Threads,
         ensure_user(h) \/ \E t \in Tokens : put_session(h, t)
  PROVE  SessionsFit'
<1>1. thread[h].email \in Emails
  BY DEF ensure_user, put_session, At, CodesTyped, Busy
<1>2. CASE ensure_user(h)
  BY <1>1, <1>2 DEF ensure_user, WithUser, SessionsFit
<1>3. ASSUME NEW t \in Tokens, put_session(h, t) PROVE SessionsFit'
  <2>1. [email |-> thread[h].email, left |-> SessionLife] \in Session
    BY <1>1, LifeAssumption DEF Session
  <2> QED BY <1>3, <2>1 DEF put_session, SessionsFit
<1> QED BY <1>2, <1>3

(* Time only shortens what is stored.                                       *)
LEMMA TickFits ==
  ASSUME CodesInv, CodesInv', SignInTyped, Tick
  PROVE  SignInTyped'
<1>1. CodesTyped /\ CodesTyped' /\ UNCHANGED <<users, thread>>
  BY DEF CodesInv, Tick
<1>2. ASSUME NEW e \in Emails PROVE AttemptsFit(e)'
  <2>1. codes'[e] = Aged(codes[e])
    BY DEF Tick
  <2>2. CASE codes[e] = None
    BY <2>1, <2>2 DEF Aged, AttemptsFit
  <2>3. CASE codes[e] # None
    <3>1. codes[e] \in CodeRow
      BY <1>1, <2>3 DEF CodesTyped
    <3>2. codes'[e] = [codes[e] EXCEPT !.left = Less(@)]
      BY <2>1, <2>3 DEF Aged
    <3>3. codes[e].left \in Nat /\ codes[e].attempts \in Nat
      BY <3>1 DEF CodeRow
    <3>4. codes'[e].left = Less(codes[e].left) /\ codes'[e].attempts = codes[e].attempts
      BY <3>1, <3>2 DEF CodeRow
    <3>5. codes'[e].left <= codes[e].left
      BY <3>3, <3>4 DEF Less
    <3> QED BY <1>1, <2>3, <3>3, <3>4, <3>5, FitKept DEF SignInTyped
  <2> QED BY <2>2, <2>3
<1>3. TimesFit'
  <2>1. \A e \in Emails : recent'[e] = Within(recent[e])
    BY DEF Tick
  <2>2. ASSUME NEW e \in Emails
        PROVE  recent'[e] \in Seq(1..RateWindow) /\ Len(recent'[e]) <= RateLimit
    <3>1. recent[e] \in Seq(1..RateWindow) /\ Len(recent[e]) <= RateLimit
      BY DEF SignInTyped, TimesFit
    <3>2. recent'[e] \in Seq(1..RateWindow) /\ Len(recent'[e]) <= Len(recent[e])
      BY <2>1, <3>1, WithinIsTyped
    <3>3. Len(recent[e]) \in Nat /\ Len(recent'[e]) \in Nat /\ RateLimit \in Nat
      BY <3>1, <3>2, LifeAssumption
    <3> QED BY <3>1, <3>2, <3>3
  <2>3. recent' = [e \in Emails |-> recent'[e]]
    BY DEF Tick
  <2>4. recent' \in [Emails -> Seq(1..RateWindow)]
    BY <2>2, <2>3
  <2> QED BY <2>2, <2>4 DEF TimesFit
<1>4. SessionsFit'
  <2>1. \A s \in Session : [s EXCEPT !.left = Less(@)] \in Session
    BY LifeAssumption DEF Session, Less
  <2>2. sessions' = [t \in Tokens |-> Aged(sessions[t])]
    BY DEF Tick
  <2>3. \A t \in Tokens : sessions'[t] \in Session \union {None}
    BY <2>1, <2>2 DEF Aged, SignInTyped, SessionsFit
  <2> QED BY <1>1, <2>2, <2>3 DEF SignInTyped, SessionsFit
<1> QED BY <1>2, <1>3, <1>4 DEF SignInTyped

(* What sign-in stores stays as it should, whatever calls interleave.       *)
LEMMA SignInStep == CodesInv /\ CodesInv' /\ SignInTyped /\ [Next]_vars => SignInTyped'
<1> SUFFICES ASSUME CodesInv, CodesInv', SignInTyped, [Next]_vars PROVE SignInTyped'
  OBVIOUS
<1>1. CASE UNCHANGED authVars
  <2>1. \A e \in Emails : Dropping(e)' = Dropping(e)
    BY <1>1 DEF authVars, Dropping
  <2>2. \A e \in Emails : AttemptsFit(e)'
    BY <1>1, <2>1 DEF authVars, SignInTyped, AttemptsFit
  <2> QED BY <1>1, <2>2 DEF authVars, SignInTyped, TimesFit, SessionsFit
<1>2. CASE AuthStep
  <2>1. ASSUME NEW h \in Threads,
               \/ \E f \in Emails : allow_code_request(h, f)
               \/ \E c \in Codes : set_code(h, c)
               \/ Sent(h) \/ SendFails(h)
               \/ \E f \in Emails, c \in Codes : get_code(h, f, c)
               \/ bump_attempts(h) \/ Forget(h) \/ UseCode(h) \/ ensure_user(h)
               \/ \E t \in Tokens : put_session(h, t)
        PROVE  SignInTyped'
    <3>1. \A e \in Emails : AttemptsFit(e)'
      BY <2>1, CodesFitStep DEF SignInTyped
    <3>2. TimesFit'
      <4>1. CASE \E f \in Emails : allow_code_request(h, f)
        BY <4>1, AllowFits DEF SignInTyped
      <4>2. CASE UNCHANGED recent
        BY <4>2 DEF SignInTyped, TimesFit
      <4> QED BY <2>1, <4>1, <4>2 DEF set_code, Sent, SendFails, get_code,
                 bump_attempts, Forget, UseCode, ensure_user, put_session
    <3>3. SessionsFit'
      <4>1. CASE ensure_user(h) \/ \E t \in Tokens : put_session(h, t)
        BY <4>1, SessionsKept DEF SignInTyped, CodesInv
      <4>2. CASE UNCHANGED <<users, sessions>>
        BY <4>2 DEF SignInTyped, SessionsFit
      <4> QED BY <2>1, <4>1, <4>2 DEF allow_code_request, set_code, Sent, SendFails,
                 get_code, bump_attempts, Forget, UseCode
    <3> QED BY <3>1, <3>2, <3>3 DEF SignInTyped
  <2>2. ASSUME NEW t \in Tokens, expire_session(t) \/ logout(t) PROVE SignInTyped'
    <3>1. /\ sessions' = [sessions EXCEPT ![t] = None]
          /\ UNCHANGED <<codes, recent, users, thread>>
      BY <2>2 DEF expire_session, logout
    <3>2. SessionsFit'
      BY <3>1 DEF SignInTyped, SessionsFit
    <3>3. \A e \in Emails : Dropping(e)' = Dropping(e)
      BY <3>1 DEF Dropping
    <3>4. \A e \in Emails : AttemptsFit(e)'
      BY <3>1, <3>3 DEF SignInTyped, AttemptsFit
    <3> QED BY <3>1, <3>2, <3>4 DEF SignInTyped, TimesFit
  <2>3. CASE Tick
    BY <2>3, TickFits
  <2> QED BY <1>2, <2>1, <2>2, <2>3 DEF AuthStep
<1>3. CASE Restart
  <2>1. /\ codes' = [e \in Emails |-> None] /\ recent' = [e \in Emails |-> <<>>]
        /\ UNCHANGED <<users, sessions>>
    BY <1>3 DEF Restart, Forgetful
  <2>2. \A e \in Emails : AttemptsFit(e)'
    BY <2>1 DEF AttemptsFit
  <2>3. TimesFit'
    <3>1. << >> \in Seq(1..RateWindow) /\ Len(<< >>) = 0 /\ 0 <= RateLimit
      BY LifeAssumption
    <3> QED BY <2>1, <3>1 DEF TimesFit
  <2> QED BY <2>1, <2>2, <2>3 DEF SignInTyped, SessionsFit
<1> QED BY <1>1, <1>2, <1>3 DEF Next, vars

(* Sign-in and the tables of the tenants hold what they should: the codes,  *)
(* with their attempts, the request times within the rate limit, sessions,  *)
(* robots, setups and preparations (auth.py, store.py).                     *)
THEOREM AccountsTyping == Spec => []TypeOK
<1> DEFINE Inv == CodesInv /\ SignInTyped
<1>1. Init => Inv
  BY CodesStart, SignInStart DEF Init
<1>2. Inv /\ [Next]_vars => Inv'
  BY CodesStep, SignInStep
<1>3. Spec => []InventoryTypeOK
  BY TablesTyping
<1>4. CodesInv /\ SignInTyped => AuthTypeOK
  <2> SUFFICES ASSUME CodesInv, SignInTyped PROVE AuthTypeOK
    OBVIOUS
  <2>1. ASSUME NEW e \in Emails, codes[e] # None PROVE codes[e] \in Pending
    <3>1. codes[e] \in CodeRow /\ AttemptsFit(e)
      BY <2>1 DEF CodesInv, CodesTyped, SignInTyped
    <3>2. /\ codes[e].left \in Nat /\ codes[e].attempts \in Nat
          /\ CodeLife \in Nat /\ MaxAttempts \in Nat
      BY <3>1, LifeAssumption DEF CodeRow
    <3>3. codes[e].left \in 0..CodeLife
      BY <2>1, <3>1, <3>2 DEF AttemptsFit
    <3>4. codes[e].attempts \in 0..(MaxAttempts + Cardinality(Threads))
      BY <2>1, <3>1, <3>2, DroppingCounts DEF AttemptsFit
    <3> QED BY <3>1, <3>3, <3>4 DEF CodeRow, Pending
  <2>2. codes \in [Emails -> Pending \union {None}]
    BY <2>1 DEF CodesInv, CodesTyped
  <2>3. \A h \in Threads : thread[h] \in ThreadRow
    BY DEF CodesInv, CodesTyped
  <2> QED BY <2>2, <2>3 DEF CodesInv, CodesTyped, ThreadRow, ReadCode, Busy, SignInTyped,
             TimesFit, SessionsFit, AuthTypeOK
<1>5. Inv /\ InventoryTypeOK => TypeOK
  BY <1>4 DEF TypeOK
<1> QED BY <1>1, <1>2, <1>3, <1>5, PTL DEF Spec
-----------------------------------------------------------------------------
(* What a tenant keeps: rows, quotas and copies.                            *)

(* The active rows of a tenant are within its quota, and no two of them say *)
(* the same.                                                                *)
TableFits(table, quota) ==
  /\ \A t \in Tenants : /\ IsFiniteSet(ActiveOf(table, t))
                        /\ Cardinality(ActiveOf(table, t)) <= quota
  /\ \A j, k \in Active(table) : table[j] = table[k] => j = k

QuotasHold == TableFits(robots, RobotQuota) /\ TableFits(setups, SetupQuota)

(* A row that may be inserted keeps a table within its quotas.              *)
LEMMA InsertFits ==
  ASSUME NEW Ids, NEW Row, NEW table \in [Ids -> Row \union {Nothing}],
         NEW k \in Ids, NEW row \in Row, Nothing \notin Row,
         row.deleted = FALSE, NEW quota \in Nat,
         TableFits(table, quota), Insert(table, k, row, quota), row.tenant \in Tenants
  PROVE  TableFits([table EXCEPT ![k] = row], quota)
<1> DEFINE after == [table EXCEPT ![k] = row]
<1>1. /\ table[k] = Nothing /\ row # Nothing /\ DOMAIN after = Ids /\ DOMAIN table = Ids
      /\ after[k] = row /\ \A j \in Ids : j # k => after[j] = table[j]
  BY DEF Insert
<1> HIDE DEF after
<1>2. Active(after) = Active(table) \union {k} /\ k \notin Active(table)
  BY <1>1 DEF Active
<1>3. ASSUME NEW t \in Tenants
      PROVE  /\ IsFiniteSet(ActiveOf(after, t))
             /\ Cardinality(ActiveOf(after, t)) <= quota
  <2>1. IsFiniteSet(ActiveOf(table, t)) /\ Cardinality(ActiveOf(table, t)) <= quota
    BY DEF TableFits
  <2>2. Cardinality(ActiveOf(table, t)) \in Nat
    BY <2>1, FS_CardinalityType
  <2>3. CASE t = row.tenant
    <3>1. ActiveOf(after, t) = ActiveOf(table, t) \union {k} /\ k \notin ActiveOf(table, t)
      BY <1>1, <1>2, <2>3 DEF ActiveOf, Active
    <3>2. Cardinality(ActiveOf(table, t)) < quota
      BY <2>3 DEF Insert, MayInsert
    <3>3. /\ IsFiniteSet(ActiveOf(after, t))
          /\ Cardinality(ActiveOf(after, t)) = Cardinality(ActiveOf(table, t)) + 1
      BY <2>1, <3>1, FS_AddElement
    <3> QED BY <2>2, <3>2, <3>3
  <2>4. CASE t # row.tenant
    <3>1. ActiveOf(after, t) = ActiveOf(table, t)
      BY <1>1, <1>2, <2>4 DEF ActiveOf, Active
    <3> QED BY <2>1, <3>1
  <2> QED BY <2>3, <2>4
<1>4. ASSUME NEW i \in Active(after), NEW j \in Active(after), after[i] = after[j]
      PROVE  i = j
  <2>1. row \notin {table[n] : n \in Active(table)}
    BY DEF Insert, MayInsert
  <2>2. \A n \in Active(table) : after[n] = table[n] /\ table[n] # row
    BY <1>1, <1>2, <2>1 DEF Active
  <2> QED BY <1>1, <1>2, <1>4, <2>2 DEF TableFits
<1>5. TableFits(after, quota)
  BY <1>3, <1>4 DEF TableFits
<1> QED BY <1>5 DEF after

(* A row that is marked deleted is no longer active, and no other changes.  *)
LEMMA MarkFits ==
  ASSUME NEW table, NEW k \in DOMAIN table, NEW quota \in Nat, TableFits(table, quota),
         NEW after, after = [table EXCEPT ![k].deleted = TRUE],
         after[k].deleted
  PROVE  TableFits(after, quota)
<1>1. DOMAIN after = DOMAIN table /\ \A j \in DOMAIN table : j # k => after[j] = table[j]
  OBVIOUS
<1>2. Active(after) \subseteq Active(table) \ {k}
  BY <1>1 DEF Active
<1>3. ASSUME NEW t \in Tenants
      PROVE  /\ IsFiniteSet(ActiveOf(after, t))
             /\ Cardinality(ActiveOf(after, t)) <= quota
  <2>1. IsFiniteSet(ActiveOf(table, t)) /\ Cardinality(ActiveOf(table, t)) <= quota
    BY DEF TableFits
  <2>2. ActiveOf(after, t) \subseteq ActiveOf(table, t)
    BY <1>1, <1>2 DEF ActiveOf, Active
  <2>3. /\ IsFiniteSet(ActiveOf(after, t))
        /\ Cardinality(ActiveOf(after, t)) <= Cardinality(ActiveOf(table, t))
    BY <2>1, <2>2, FS_Subset
  <2> QED BY <2>1, <2>3, FS_CardinalityType
<1>4. ASSUME NEW i \in Active(after), NEW j \in Active(after), after[i] = after[j]
      PROVE  i = j
  <2>1. \A n \in Active(after) : n \in Active(table) /\ after[n] = table[n]
    BY <1>1, <1>2 DEF Active
  <2> QED BY <1>4, <2>1 DEF TableFits
<1> QED BY <1>3, <1>4 DEF TableFits

(* The rows of a step, one store call at a time: kept, and within quotas.   *)
LEMMA RowsStep ==
  TablesInv /\ QuotasHold /\ [Next]_vars => RowsKept /\ QuotasHold'
<1> SUFFICES ASSUME TablesInv, QuotasHold, [Next]_vars PROVE RowsKept /\ QuotasHold'
  OBVIOUS
<1>1. /\ robots \in [RobotIds -> Robot \union {Nothing}] /\ Nothing \notin Robot
      /\ setups \in [SetupIds -> Setup \union {Nothing}] /\ Nothing \notin Setup
      /\ RobotQuota \in Nat /\ SetupQuota \in Nat
  BY NothingAssumption, InventoryAssumption DEF TablesInv, TablesTyped
<1>2. CASE UNCHANGED <<robots, setups>>
  BY <1>2 DEF RowsKept, QuotasHold
<1>3. ASSUME NEW t \in Tenants, NEW r \in RobotIds, NEW u \in Uploads,
             upload_robot(t, r, u)
      PROVE  RowsKept /\ QuotasHold'
  <2> DEFINE row == [tenant |-> t, type |-> u.type, document |-> u.document,
                     deleted |-> FALSE]
  <2>1. row \in Robot /\ row.deleted = FALSE /\ row.tenant \in Tenants
    BY <1>3 DEF upload_robot, Robot
  <2>2. /\ robots' = [robots EXCEPT ![r] = row] /\ UNCHANGED setups
        /\ Insert(robots, r, row, RobotQuota) /\ robots[r] = Nothing
    BY <1>3 DEF upload_robot, Insert
  <2> HIDE DEF row
  <2>3. TableFits(robots', RobotQuota)
    BY <1>1, <2>1, <2>2, InsertFits DEF QuotasHold
  <2>4. RowsKept
    BY <1>1, <2>2 DEF RowsKept
  <2> QED BY <2>2, <2>3, <2>4 DEF QuotasHold
<1>4. ASSUME NEW t \in Tenants, NEW r \in RobotIds, delete_robot(t, r)
      PROVE  RowsKept /\ QuotasHold'
  <2>1. /\ robots' = [robots EXCEPT ![r].deleted = TRUE] /\ UNCHANGED setups
        /\ robots[r] \in Robot
    BY <1>1, <1>4 DEF delete_robot, Visible, ActiveOf, Active
  <2>2. /\ robots'[r] = [robots[r] EXCEPT !.deleted = TRUE]
        /\ \A j \in RobotIds : j # r => robots'[j] = robots[j]
    BY <1>1, <2>1
  <2>3. /\ robots'[r].deleted /\ robots'[r] \in Robot
        /\ robots'[r].tenant = robots[r].tenant /\ robots'[r].type = robots[r].type
        /\ robots'[r].document = robots[r].document
    <3>1. \A q \in Robot :
            LET marked == [q EXCEPT !.deleted = TRUE]
            IN  /\ marked \in Robot /\ marked.deleted /\ marked.tenant = q.tenant
                /\ marked.type = q.type /\ marked.document = q.document
      BY DEF Robot
    <3> QED BY <2>1, <2>2, <3>1
  <2>4. TableFits(robots', RobotQuota)
    BY <1>1, <2>1, <2>3, MarkFits DEF QuotasHold
  <2>5. RowsKept
    BY <1>1, <2>1, <2>2, <2>3 DEF RowsKept
  <2> QED BY <2>1, <2>4, <2>5 DEF QuotasHold
<1>5. ASSUME NEW t \in Tenants, NEW s \in SetupIds, delete_robot_setup(t, s)
      PROVE  RowsKept /\ QuotasHold'
  <2>1. /\ setups' = [setups EXCEPT ![s].deleted = TRUE] /\ UNCHANGED robots
        /\ setups[s] \in Setup
    BY <1>1, <1>5 DEF delete_robot_setup, Visible, ActiveOf, Active
  <2>2. /\ setups'[s] = [setups[s] EXCEPT !.deleted = TRUE]
        /\ \A j \in SetupIds : j # s => setups'[j] = setups[j]
    BY <1>1, <2>1
  <2>3. /\ setups'[s].deleted /\ setups'[s] \in Setup
        /\ setups'[s].tenant = setups[s].tenant /\ setups'[s].robot = setups[s].robot
        /\ setups'[s].environment = setups[s].environment
    <3>1. \A q \in Setup :
            LET marked == [q EXCEPT !.deleted = TRUE]
            IN  /\ marked \in Setup /\ marked.deleted /\ marked.tenant = q.tenant
                /\ marked.robot = q.robot /\ marked.environment = q.environment
      BY DEF Setup
    <3> QED BY <2>1, <2>2, <3>1
  <2>4. TableFits(setups', SetupQuota)
    BY <1>1, <2>1, <2>3, MarkFits DEF QuotasHold
  <2>5. RowsKept
    BY <1>1, <2>1, <2>2, <2>3 DEF RowsKept
  <2> QED BY <2>1, <2>4, <2>5 DEF QuotasHold
<1>6. ASSUME NEW c \in Clients, NEW s \in SetupIds, create_setup(c, s)
      PROVE  RowsKept /\ QuotasHold'
  <2>1. NewSetup(c) \in Setup /\ NewSetup(c).deleted = FALSE /\ NewSetup(c).tenant \in Tenants
    <3>1. /\ client[c].tenant \in Tenants /\ client[c].robot \in RobotIds
          /\ client[c].environment \in Environments
      BY <1>6 DEF create_setup, TablesInv, RequestFits, RobotFits, InUse
    <3> QED BY <3>1 DEF NewSetup, Setup
  <2>2. CASE UNCHANGED <<robots, setups>>
    BY <1>2, <2>2
  <2>3. CASE Insert(setups, s, NewSetup(c), SetupQuota)
             /\ setups' = [setups EXCEPT ![s] = NewSetup(c)]
    <3>1. TableFits(setups', SetupQuota)
      BY <1>1, <2>1, <2>3, InsertFits DEF QuotasHold
    <3>2. UNCHANGED robots /\ setups[s] = Nothing
      BY <1>6, <2>3 DEF create_setup, Insert
    <3>3. RowsKept
      BY <1>1, <2>3, <3>2 DEF RowsKept
    <3> QED BY <3>1, <3>2, <3>3 DEF QuotasHold
  <2> QED BY <1>6, <2>2, <2>3 DEF create_setup
<1>7. CASE Restart
  BY <1>2, <1>7 DEF Restart, Abandoned
<1>8. ASSUME NEW t \in Tenants, InventoryStep(t) PROVE RowsKept /\ QuotasHold'
  BY <1>2, <1>3, <1>4, <1>5, <1>8 DEF InventoryStep, ReadRobot, ReadSetup
<1>9. CASE InventoryContinues
  BY <1>2, <1>6, <1>9 DEF InventoryContinues, get_robot_content, Reserve
<1> QED BY <1>2, <1>7, <1>8, <1>9 DEF Next, vars, inventoryVars

(* Empty tables are within their quotas.                                    *)
LEMMA QuotasStart == InventoryInit => QuotasHold
<1> SUFFICES ASSUME InventoryInit PROVE QuotasHold
  OBVIOUS
<1>1. Active(robots) = {} /\ Active(setups) = {}
  BY DEF InventoryInit, Active
<1>2. \A t \in Tenants : ActiveOf(robots, t) = {} /\ ActiveOf(setups, t) = {}
  BY <1>1 DEF ActiveOf
<1>3. Cardinality({}) = 0 /\ IsFiniteSet({}) /\ 0 <= RobotQuota /\ 0 <= SetupQuota
  BY FS_EmptySet, InventoryAssumption
<1> QED BY <1>1, <1>2, <1>3 DEF QuotasHold, TableFits

(* However the requests of a tenant interleave, restarts included, it never *)
(* has more active robots or setups than its quotas, nor two active rows    *)
(* that say the same: both are checked in the transaction that inserts      *)
(* (create_robot and create_setup of store.py).                             *)
THEOREM QuotasAlwaysHold == Spec => []QuotasHold
<1>1. Init => TablesInv /\ QuotasHold
  BY TablesStart, QuotasStart DEF Init
<1>2. TablesInv /\ QuotasHold /\ [Next]_vars => (TablesInv /\ QuotasHold)'
  BY TablesStep, RowsStep
<1> QED BY <1>1, <1>2, PTL DEF Spec

(* A step keeps every row and all it says but its deletion mark: what a     *)
(* request read of a row is still true when it writes (the handlers of      *)
(* main.py make several store calls and hold no lock between them).         *)
THEOREM RowsStay == Spec => [][RowsKept]_vars
<1>1. Init => TablesInv /\ QuotasHold
  BY TablesStart, QuotasStart DEF Init
<1>2. TablesInv /\ QuotasHold /\ [Next]_vars => (TablesInv /\ QuotasHold)' /\ RowsKept
  BY TablesStep, RowsStep
<1> QED BY <1>1, <1>2, PTL DEF Spec
=============================================================================
