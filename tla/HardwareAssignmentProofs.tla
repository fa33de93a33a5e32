----------------------- MODULE HardwareAssignmentProofs -----------------------
(***************************************************************************)
(* Theorems about HardwareAssignment, for any users, requests, texts and   *)
(* bounds.                                                                 *)
(***************************************************************************)
EXTENDS HardwareAssignment, TLAPS

\* A create under way has looked its user up.
CreatesHaveUsers == \A r \in Requests : req[r].op = "create" => req[r].user \in Users

Typed == HwTypeOK /\ CreatesHaveUsers

RequestsTyped == req \in [Requests -> Request] /\ CreatesHaveUsers

RowsTyped ==
    /\ hw \in HardwareRow
    /\ owner \in Seq(Users)
    /\ open \subseteq 1..Len(owner)

LogTyped ==
    /\ archivedUsers \subseteq Archivable
    /\ audit \subseteq [act : {"Assign", "Unassign"}, row : Nat]
    /\ faults \in 0..MaxFaults

\* Well typed: the requests, the tables and the rest.
LEMMA TypedSplit == Typed <=> RequestsTyped /\ RowsTyped /\ LogTyped
  BY DEF Typed, HwTypeOK, RequestsTyped, RowsTyped, LogTyped

\* A request that tracks no hardware is well typed.
LEMMA IdleTyped == NoEntity \in Entity /\ Idle \in Request /\ Idle.op = "none"
  BY DEF NoEntity, Entity, HardwareRow, Statuses, Idle, Request

\* The entity of a request: the row it read and the row it wants.
LEMMA TrackedTyped ==
  ASSUME RowsTyped, NEW s \in Statuses, NEW b \in BOOLEAN
  PROVE  Tracked(s, b) \in Entity
  BY DEF RowsTyped, Tracked, Entity, HardwareRow

-----------------------------------------------------------------------------
(* The ways a step changes a request.                                      *)

\* Writing one well typed request keeps all of them well typed.
LEMMA PutTyped ==
  ASSUME RequestsTyped, NEW r \in Requests, NEW x \in Request,
         x.op = "create" => x.user \in Users,
         req' = [req EXCEPT ![r] = x]
  PROVE  RequestsTyped'
  BY DEF RequestsTyped, CreatesHaveUsers

\* A request that answers is idle again.
LEMMA ReturnTyped ==
  ASSUME RequestsTyped, NEW r \in Requests, Return(r)
  PROVE  RequestsTyped'
  BY IdleTyped, PutTyped DEF Return

\* A request under way moves to another label, with another entity and row.
LEMMA MoveTyped ==
  ASSUME RequestsTyped, NEW r \in Requests,
         NEW pc \in {"check", "find", "load", "save", "audit"},
         NEW i \in Nat, NEW e \in Entity,
         req' = [req EXCEPT ![r] = [req[r] EXCEPT !.pc = pc, !.row = i, !.hw = e]]
  PROVE  RequestsTyped'
<1> DEFINE x == [req[r] EXCEPT !.pc = pc, !.row = i, !.hw = e]
<1>1. req[r] \in Request /\ (req[r].op = "create" => req[r].user \in Users)
  BY DEF RequestsTyped, CreatesHaveUsers
<1>2. x \in Request /\ (x.op = "create" => x.user \in Users)
  BY <1>1 DEF Request
<1> HIDE DEF x
<1>3. QED
  BY <1>2, PutTyped DEF x

\* A step to another label alone.
LEMMA GotoTyped ==
  ASSUME RequestsTyped, NEW r \in Requests, Goto(r, "save")
  PROVE  RequestsTyped'
<1> DEFINE x == [req[r] EXCEPT !.pc = "save"]
<1>1. req[r] \in Request /\ (req[r].op = "create" => req[r].user \in Users)
  BY DEF RequestsTyped, CreatesHaveUsers
<1>2. x \in Request /\ (x.op = "create" => x.user \in Users)
  BY <1>1 DEF Request
<1>3. req' = [req EXCEPT ![r] = x]
  BY DEF Goto
<1>4. QED
  BY <1>2, <1>3, PutTyped

\* Every request that begins is well typed.
LEMMA ArrivalTyped ==
  ASSUME RequestsTyped, RowsTyped, NEW r \in Requests, Arrival(r)
  PROVE  RequestsTyped'
<1>1. ASSUME NEW u \in Users, CreateRead(r, u) PROVE RequestsTyped'
  <2> DEFINE e == Tracked("Assigned", FALSE)
             x == [Idle EXCEPT !.op = "create", !.pc = "check", !.user = u, !.hw = e]
  <2>1. e \in Entity
    BY TrackedTyped DEF Statuses
  <2>2. x \in Request /\ (x.op = "create" => x.user \in Users)
    BY <2>1 DEF Idle, Request
  <2>3. Start(r, x)
    BY <1>1 DEF CreateRead
  <2> HIDE DEF x
  <2>4. QED
    BY <2>2, <2>3, PutTyped DEF Start
<1>2. ASSUME NEW i \in open, CloseRead(r, i) PROVE RequestsTyped'
  <2> DEFINE x == [Idle EXCEPT !.op = "close", !.pc = "load", !.user = owner[i], !.row = i]
  <2>1. i \in Nat /\ owner[i] \in Users /\ NoEntity \in Entity
    BY IdleTyped DEF RowsTyped
  <2>2. x \in Request /\ (x.op = "create" => x.user \in Users)
    BY <2>1 DEF Idle, Request
  <2>3. Start(r, x)
    BY <1>2 DEF CloseRead
  <2> HIDE DEF x
  <2>4. QED
    BY <2>2, <2>3, PutTyped DEF Start
<1>3. ASSUME NEW s \in Edited, EditRead(r, s) PROVE RequestsTyped'
  <2> DEFINE e == Tracked(s, FALSE)
             x == [Idle EXCEPT !.op = "edit", !.pc = "save", !.hw = e]
  <2>1. e \in Entity
    BY HardwareAssumption, TrackedTyped DEF Statuses
  <2>2. x \in Request /\ (x.op = "create" => x.user \in Users)
    BY <2>1 DEF Idle, Request
  <2>3. Start(r, x)
    BY <1>3 DEF EditRead
  <2> HIDE DEF x
  <2>4. QED
    BY <2>2, <2>3, PutTyped DEF Start
<1>4. ASSUME ArchiveRead(r) PROVE RequestsTyped'
  <2> DEFINE e == Tracked("Archived", TRUE)
             x == [Idle EXCEPT !.op = "archive", !.pc = "find", !.hw = e]
  <2>1. e \in Entity
    BY TrackedTyped DEF Statuses
  <2>2. x \in Request /\ (x.op = "create" => x.user \in Users)
    BY <2>1 DEF Idle, Request
  <2>3. Start(r, x)
    BY <1>4 DEF ArchiveRead
  <2> HIDE DEF x
  <2>4. QED
    BY <2>2, <2>3, PutTyped DEF Start
<1>5. ASSUME UnarchiveRead(r) PROVE RequestsTyped'
  <2> DEFINE e == Tracked("Available", FALSE)
             x == [Idle EXCEPT !.op = "unarchive", !.pc = "save", !.hw = e]
  <2>1. e \in Entity
    BY TrackedTyped DEF Statuses
  <2>2. x \in Request /\ (x.op = "create" => x.user \in Users)
    BY <2>1 DEF Idle, Request
  <2>3. Start(r, x)
    BY <1>5 DEF UnarchiveRead
  <2> HIDE DEF x
  <2>4. QED
    BY <2>2, <2>3, PutTyped DEF Start
<1>6. QED
  BY <1>1, <1>2, <1>3, <1>4, <1>5 DEF Arrival

-----------------------------------------------------------------------------
(* The ways a step changes the tables.                                     *)

\* Writing an entity back keeps the hardware row well typed.
LEMMA EntityTyped ==
  ASSUME hw \in HardwareRow, NEW e \in Entity, SaveEntity(e)
  PROVE  hw' \in HardwareRow
<1>1. StatusAfter(e) \in Statuses /\ ArchivedAfter(e) \in BOOLEAN
  BY DEF StatusAfter, ArchivedAfter, Entity, HardwareRow
<1>2. QED
  BY <1>1 DEF SaveEntity, HardwareRow

\* A create appends one row, the highest, and opens it.
LEMMA CreateRows ==
  ASSUME RequestsTyped, RowsTyped, NEW r \in Requests, CreateCommit(r)
  PROVE  /\ RowsTyped'
         /\ Len(owner') = Len(owner) + 1 /\ Len(owner) \in Nat
         /\ open' = open \cup {Len(owner) + 1}
         /\ owner'[Len(owner) + 1] = req[r].user /\ req[r].user \in Users
         /\ \A i \in 1..Len(owner) : owner'[i] = owner[i]
<1>1. req[r].user \in Users /\ req[r].hw \in Entity
  BY DEF RequestsTyped, CreatesHaveUsers, CreateCommit, At, Request
<1>2. hw' \in HardwareRow
  BY <1>1, EntityTyped DEF RowsTyped, CreateCommit
<1>3. owner \in Seq(Users) /\ owner' = Append(owner, req[r].user)
      /\ open' = open \cup {Len(owner) + 1} /\ open \subseteq 1..Len(owner)
  BY DEF RowsTyped, CreateCommit
<1>4. /\ owner' \in Seq(Users) /\ Len(owner') = Len(owner) + 1 /\ Len(owner) \in Nat
      /\ owner'[Len(owner) + 1] = req[r].user
      /\ \A i \in 1..Len(owner) : owner'[i] = owner[i]
  BY <1>1, <1>3
<1>5. open' \subseteq 1..Len(owner')
  <2>1. 1..Len(owner') = 1..Len(owner) \cup {Len(owner) + 1}
    BY <1>4
  <2>2. QED
    BY <1>3, <2>1
<1>6. QED
  BY <1>1, <1>2, <1>3, <1>4, <1>5 DEF RowsTyped

\* The other saves close at most one row.
LEMMA UpdateRows ==
  ASSUME RequestsTyped, RowsTyped, NEW r \in Requests, UpdateCommit(r)
  PROVE  RowsTyped' /\ owner' = owner /\ open' = open \ {req[r].row}
<1>1. req[r].hw \in Entity
  BY DEF RequestsTyped, Request
<1>2. hw' \in HardwareRow
  BY <1>1, EntityTyped DEF RowsTyped, UpdateCommit
<1>3. QED
  BY <1>2 DEF RowsTyped, UpdateCommit

\* Initially everything is well typed.
LEMMA TypedInit == HwInit => Typed
<1> SUFFICES ASSUME HwInit PROVE Typed
  OBVIOUS
<1>1. RequestsTyped
  BY IdleTyped DEF HwInit, RequestsTyped, CreatesHaveUsers
<1>2. RowsTyped
  <2>1. hw \in HardwareRow
    BY DEF HwInit, HardwareRow, Statuses
  <2>2. owner \in Seq(Users) /\ open = {}
    BY DEF HwInit
  <2>3. QED
    BY <2>1, <2>2 DEF RowsTyped
<1>3. LogTyped
  <2>1. 0 \in 0..MaxFaults
    BY NumbersAssumption
  <2>2. archivedUsers = {} /\ audit = {} /\ faults = 0
    BY DEF HwInit
  <2>3. QED
    BY <2>1, <2>2 DEF LogTyped
<1>4. QED
  BY <1>1, <1>2, <1>3, TypedSplit

\* The steps of a request keep the requests well typed.
LEMMA StepTyped ==
  ASSUME RequestsTyped, RowsTyped, NEW r \in Requests, Step(r)
  PROVE  RequestsTyped'
<1>0. /\ req[r] \in Request /\ req[r].row \in Nat /\ req[r].hw \in Entity
      /\ req \in [Requests -> Request]
  BY DEF RequestsTyped, Request
<1>1. ASSUME CreateCheck(r) PROVE RequestsTyped'
  BY <1>1, GotoTyped, ReturnTyped DEF CreateCheck
<1>2. ASSUME CreateSave(r) PROVE RequestsTyped'
  <2>1. Len(owner') \in Nat
    BY <1>2, CreateRows DEF CreateSave
  <2>2. req' = [req EXCEPT ![r] = [req[r] EXCEPT !.pc = "audit", !.row = Len(owner'),
                                                 !.hw = NoEntity]]
    BY <1>0, <1>2 DEF CreateSave
  <2>3. QED
    BY <2>1, <2>2, IdleTyped, MoveTyped
<1>3. ASSUME CreateRejected(r) PROVE RequestsTyped'
  BY <1>3, ReturnTyped DEF CreateRejected
<1>4. ASSUME CloseLoad(r) PROVE RequestsTyped'
  <2> DEFINE e == IF hw.archived THEN NoEntity ELSE Tracked("Available", FALSE)
  <2>1. e \in Entity
    BY IdleTyped, TrackedTyped DEF Statuses
  <2>2. req' = [req EXCEPT ![r] = [req[r] EXCEPT !.pc = "save", !.row = req[r].row,
                                                 !.hw = e]]
    BY <1>0, <1>4 DEF CloseLoad, Request
  <2> HIDE DEF e
  <2>3. QED
    BY <1>0, <2>1, <2>2, MoveTyped
<1>5. ASSUME CloseSave(r) PROVE RequestsTyped'
  <2>1. req' = [req EXCEPT ![r] = [req[r] EXCEPT !.pc = "audit", !.row = req[r].row,
                                                 !.hw = NoEntity]]
    BY <1>0, <1>5 DEF CloseSave, Request
  <2>2. QED
    BY <1>0, <2>1, IdleTyped, MoveTyped
<1>6. ASSUME ArchiveFind(r) PROVE RequestsTyped'
  <2>1. ASSUME NEW i \in open, req' = [req EXCEPT ![r].pc = "save", ![r].row = i]
        PROVE  RequestsTyped'
    <3>1. i \in Nat
      BY DEF RowsTyped
    <3>2. req' = [req EXCEPT ![r] = [req[r] EXCEPT !.pc = "save", !.row = i,
                                                   !.hw = req[r].hw]]
      BY <1>0, <2>1 DEF Request
    <3>3. QED
      BY <1>0, <3>1, <3>2, MoveTyped
  <2>2. QED
    BY <1>6, <2>1, GotoTyped, ReturnTyped DEF ArchiveFind
<1>7. ASSUME RecordSave(r) PROVE RequestsTyped'
  BY <1>7, ReturnTyped DEF RecordSave
<1>8. ASSUME WriteAudit(r) PROVE RequestsTyped'
  BY <1>8, ReturnTyped DEF WriteAudit
<1>9. QED
  BY <1>1, <1>2, <1>3, <1>4, <1>5, <1>6, <1>7, <1>8 DEF Step
\* What each kind of step leaves of the tables and of the log.
LEMMA StepFrames ==
  ASSUME NEW r \in Requests
  PROVE  /\ Step(r) => \/ CreateCommit(r) \/ UpdateCommit(r)
                       \/ UNCHANGED <<hw, owner, open>>
         /\ Arrival(r) => UNCHANGED <<hw, owner, open, archivedUsers, audit, faults>>
         /\ Step(r) => UNCHANGED <<archivedUsers, faults>>
         /\ Step(r) => WriteAudit(r) \/ UNCHANGED audit
<1>1. Arrival(r) => UNCHANGED <<hw, owner, open, archivedUsers, audit, faults>>
  BY DEF Arrival, CreateRead, CloseRead, EditRead, ArchiveRead, UnarchiveRead
<1>2. QED
  BY <1>1 DEF Step, CreateCheck, CreateSave, CreateRejected, CloseLoad, CloseSave,
              ArchiveFind, RecordSave, WriteAudit

\* Every step keeps everything well typed.
LEMMA TypedStep == Typed /\ [HwNext]_hwVars => Typed'
<1> SUFFICES ASSUME Typed, [HwNext]_hwVars PROVE Typed'
  OBVIOUS
<1>0. RequestsTyped /\ RowsTyped /\ LogTyped
  BY TypedSplit
<1>1. ASSUME UNCHANGED hwVars PROVE Typed'
  BY <1>1 DEF hwVars, Typed, HwTypeOK, CreatesHaveUsers
<1>2. ASSUME NEW r \in Requests, Arrival(r) PROVE Typed'
  <2>1. RequestsTyped'
    BY <1>0, <1>2, ArrivalTyped
  <2>2. RowsTyped' /\ LogTyped'
    BY <1>0, <1>2, StepFrames DEF RowsTyped, LogTyped
  <2>3. QED
    BY <2>1, <2>2 DEF Typed, HwTypeOK, RequestsTyped, RowsTyped, LogTyped
<1>3. ASSUME NEW r \in Requests, Step(r) PROVE Typed'
  <2>1. RequestsTyped'
    BY <1>0, <1>3, StepTyped
  <2>2. RowsTyped'
    <3>1. CASE CreateCommit(r)
      BY <1>0, <3>1, CreateRows
    <3>2. CASE UpdateCommit(r)
      BY <1>0, <3>2, UpdateRows
    <3>3. CASE UNCHANGED <<hw, owner, open>>
      BY <1>0, <3>3 DEF RowsTyped
    <3>4. QED
      BY <1>3, <3>1, <3>2, <3>3, StepFrames
  <2>3. LogTyped'
    <3>1. CASE WriteAudit(r)
      <4>1. req[r].row \in Nat /\ AuditAct(r) \in {"Assign", "Unassign"}
        BY <1>0 DEF RequestsTyped, Request, AuditAct
      <4>2. [act |-> AuditAct(r), row |-> req[r].row]
              \in [act : {"Assign", "Unassign"}, row : Nat]
        BY <4>1
      <4>3. QED
        BY <1>0, <3>1, <4>2 DEF WriteAudit, LogTyped
    <3>2. CASE UNCHANGED audit
      BY <1>0, <1>3, <3>2, StepFrames DEF LogTyped
    <3>3. QED
      BY <1>3, <3>1, <3>2, StepFrames
  <2>4. QED
    BY <2>1, <2>2, <2>3 DEF Typed, HwTypeOK, RequestsTyped, RowsTyped, LogTyped
<1>4. ASSUME NEW r \in Requests, SaveLostAck(r) PROVE Typed'
  <2>1. RequestsTyped'
    BY <1>0, <1>4 DEF SaveLostAck, RequestsTyped, CreatesHaveUsers
  <2>2. RowsTyped'
    BY <1>0, <1>4, CreateRows, UpdateRows DEF SaveLostAck
  <2>3. LogTyped'
    BY <1>0, <1>4, NumbersAssumption DEF SaveLostAck, LogTyped
  <2>4. QED
    BY <2>1, <2>2, <2>3 DEF Typed, HwTypeOK, RequestsTyped, RowsTyped, LogTyped
<1>5. ASSUME NEW r \in Requests, Cancel(r) PROVE Typed'
  <2>1. RequestsTyped'
    BY <1>0, <1>5, ReturnTyped DEF Cancel
  <2>2. RowsTyped' /\ LogTyped'
    BY <1>0, <1>5, NumbersAssumption DEF Cancel, RowsTyped, LogTyped
  <2>3. QED
    BY <2>1, <2>2 DEF Typed, HwTypeOK, RequestsTyped, RowsTyped, LogTyped
<1>6. ASSUME NEW u \in Users, ArchiveUser(u) PROVE Typed'
  <2>1. RequestsTyped' /\ RowsTyped' /\ LogTyped'
    BY <1>0, <1>6, NumbersAssumption
       DEF ArchiveUser, RequestsTyped, CreatesHaveUsers, RowsTyped, LogTyped
  <2>2. QED
    BY <2>1 DEF Typed, HwTypeOK, RequestsTyped, RowsTyped, LogTyped
<1>7. QED
  BY <1>1, <1>2, <1>3, <1>4, <1>5, <1>6 DEF HwNext

\* Every variable keeps its type: the row is a row whatever columns are written.
THEOREM HwTypeCorrect == HwSpec => []HwTypeOK
<1>1. Typed => HwTypeOK
  BY DEF Typed
<1>2. QED
  BY <1>1, TypedInit, TypedStep, PTL DEF HwSpec
-----------------------------------------------------------------------------
(* At most one open assignment.                                            *)

\* Every step appends and opens a row, closes one, or leaves the rows alone.
LEMMA RowsStep ==
  ASSUME Typed, [HwNext]_hwVars
  PROVE  \/ \E r \in Requests : CreateCommit(r)
         \/ \E r \in Requests : UpdateCommit(r)
         \/ UNCHANGED <<owner, open>>
<1>1. ASSUME NEW r \in Requests, Arrival(r) \/ Step(r)
      PROVE  CreateCommit(r) \/ UpdateCommit(r) \/ UNCHANGED <<owner, open>>
  BY <1>1, StepFrames
<1>2. ASSUME NEW r \in Requests, SaveLostAck(r)
      PROVE  CreateCommit(r) \/ UpdateCommit(r)
  BY <1>2 DEF SaveLostAck
<1>3. ASSUME NEW r \in Requests, Cancel(r) PROVE UNCHANGED <<owner, open>>
  BY <1>3 DEF Cancel
<1>4. ASSUME NEW u \in Users, ArchiveUser(u) PROVE UNCHANGED <<owner, open>>
  BY <1>4 DEF ArchiveUser
<1>5. ASSUME UNCHANGED hwVars PROVE UNCHANGED <<owner, open>>
  BY <1>5 DEF hwVars
<1>6. QED
  BY <1>1, <1>2, <1>3, <1>4, <1>5 DEF HwNext

\* The rows are typed and at most one is open: what the lease needs.
LeaseInv == Typed /\ OneOpenPerAsset

\* Initially no row is open.
LEMMA LeaseInvInit == HwInit => LeaseInv
  BY TypedInit DEF LeaseInv, OneOpenPerAsset, HwInit

\* The index lets a create in only when no row is open.
LEMMA LeaseInvStep == LeaseInv /\ [HwNext]_hwVars => LeaseInv'
<1> SUFFICES ASSUME LeaseInv, [HwNext]_hwVars PROVE LeaseInv'
  OBVIOUS
<1>1. Typed /\ OneOpenPerAsset /\ RequestsTyped /\ RowsTyped
  BY TypedSplit DEF LeaseInv
<1>2. Typed'
  BY <1>1, TypedStep
<1>3. ASSUME NEW r \in Requests, CreateCommit(r) PROVE OneOpenPerAsset'
  <2>1. open = {}
    BY <1>3 DEF CreateCommit, IndexAdmits
  <2>2. open' = {Len(owner) + 1}
    BY <1>1, <1>3, <2>1, CreateRows
  <2>3. QED
    BY <2>2 DEF OneOpenPerAsset
<1>4. ASSUME NEW r \in Requests, UpdateCommit(r) PROVE OneOpenPerAsset'
  <2>1. open' = open \ {req[r].row}
    BY <1>1, <1>4, UpdateRows
  <2>2. QED
    BY <1>1, <2>1 DEF OneOpenPerAsset
<1>5. ASSUME UNCHANGED <<owner, open>> PROVE OneOpenPerAsset'
  BY <1>1, <1>5 DEF OneOpenPerAsset
<1>6. OneOpenPerAsset'
  BY <1>1, <1>3, <1>4, <1>5, RowsStep
<1>7. QED
  BY <1>2, <1>6 DEF LeaseInv

\* An asset never has two open assignments, whatever requests race.
THEOREM OneOpenAssignment == HwSpec => []OneOpenPerAsset
<1>1. LeaseInv => OneOpenPerAsset
  BY DEF LeaseInv
<1>2. QED
  BY <1>1, LeaseInvInit, LeaseInvStep, PTL DEF HwSpec

-----------------------------------------------------------------------------
(* The refinement of the lease.                                            *)

\* The holder of an asset with one open row is the owner of that row.
LEMMA HolderIs ==
  ASSUME OneOpenPerAsset, NEW i \in open
  PROVE  Holder = owner[i]
<1>1. (CHOOSE j \in open : TRUE) \in open
  OBVIOUS
<1>2. (CHOOSE j \in open : TRUE) = i
  BY <1>1 DEF OneOpenPerAsset
<1>3. QED
  BY <1>2 DEF Holder

\* A create that commits hands the asset out.
LEMMA CreateHandsOut ==
  ASSUME LeaseInv, NEW r \in Requests, CreateCommit(r)
  PROVE  \E u \in Users : Lease!HandOut(u)
<1>1. RequestsTyped /\ RowsTyped
  BY TypedSplit DEF LeaseInv
<1>2. open = {} /\ Holder = NoUser
  BY DEF CreateCommit, IndexAdmits, Holder
<1>3. /\ open' = {Len(owner) + 1} /\ owner'[Len(owner) + 1] = req[r].user
      /\ req[r].user \in Users
  BY <1>1, <1>2, CreateRows
<1>4. (CHOOSE j \in open' : TRUE) = Len(owner) + 1
  BY <1>3
<1>5. Holder' = req[r].user
  BY <1>3, <1>4 DEF Holder
<1>6. QED
  BY <1>2, <1>3, <1>5 DEF Lease!HandOut

\* Any other save takes the asset back or leaves it where it is.
LEMMA UpdateTakesBack ==
  ASSUME LeaseInv, NEW r \in Requests, UpdateCommit(r)
  PROVE  Lease!TakeBack \/ UNCHANGED Holder
<1> DEFINE row == req[r].row
<1>1. RequestsTyped /\ RowsTyped /\ OneOpenPerAsset
  BY TypedSplit DEF LeaseInv
<1>2. open' = open \ {row} /\ owner' = owner
  BY <1>1, UpdateRows
<1>3. CASE row \notin open
  <2>1. UNCHANGED <<owner, open>>
    BY <1>2, <1>3
  <2>2. UNCHANGED Holder
    BY <2>1 DEF Holder
  <2>3. QED
    BY <2>2
<1>4. CASE row \in open
  <2>1. open' = {}
    BY <1>1, <1>2, <1>4 DEF OneOpenPerAsset
  <2>2. Holder' = NoUser
    BY <2>1 DEF Holder
  <2>3. Holder \in Users
    <3>1. Holder = owner[row]
      BY <1>1, <1>4, HolderIs
    <3>2. owner[row] \in Users
      <4>1. owner \in Seq(Users) /\ row \in 1..Len(owner)
        BY <1>1, <1>4 DEF RowsTyped
      <4>2. \A i \in 1..Len(owner) : owner[i] \in Users
        BY <4>1
      <4>3. QED
        BY <4>1, <4>2
    <3>3. QED
      BY <3>1, <3>2
  <2>4. QED
    BY <2>2, <2>3, HardwareAssumption DEF Lease!TakeBack
<1>5. QED
  BY <1>3, <1>4

\* The endpoints, with all their interleavings, implement the lease: hardware
\* goes from one user to another only through the shelf.
THEOREM EndpointsImplementLease == HwSpec => ImplementsLease
<1>1. HwInit => Lease!LeaseInit
  BY DEF HwInit, Holder, Lease!LeaseInit
<1>2. LeaseInv /\ [HwNext]_hwVars => [Lease!LeaseNext]_Holder
  <2> SUFFICES ASSUME LeaseInv, [HwNext]_hwVars PROVE [Lease!LeaseNext]_Holder
    OBVIOUS
  <2>1. ASSUME NEW r \in Requests, CreateCommit(r) PROVE Lease!LeaseNext
    BY <2>1, CreateHandsOut DEF Lease!LeaseNext
  <2>2. ASSUME NEW r \in Requests, UpdateCommit(r) PROVE [Lease!LeaseNext]_Holder
    BY <2>2, UpdateTakesBack DEF Lease!LeaseNext
  <2>3. CASE UNCHANGED <<owner, open>>
    BY <2>3 DEF Holder
  <2>4. QED
    BY <2>1, <2>2, <2>3, RowsStep DEF LeaseInv
<1>3. QED
  BY <1>1, <1>2, LeaseInvInit, LeaseInvStep, PTL
     DEF HwSpec, ImplementsLease, Lease!LeaseSpec
-----------------------------------------------------------------------------
(* The audit log tells the truth.                                          *)

\* A request that is about to write its audit record works on a row that
\* exists, and closed it unless it opened it.
RequestTruthful(r) ==
    /\ req[r].op = "close" => req[r].row \in 1..Len(owner)
    /\ req[r].pc = "audit" =>
          /\ req[r].row \in 1..Len(owner)
          /\ req[r].op # "create" => req[r].row \notin open

RequestsTruthful == \A r \in Requests : RequestTruthful(r)

AuditInv == Typed /\ AuditIsTruthful /\ RequestsTruthful

\* Initially there are neither records nor requests.
LEMMA AuditInvInit == HwInit => AuditInv
  BY TypedInit DEF AuditInv, AuditIsTruthful, RequestsTruthful, RequestTruthful, HwInit, Idle

\* Rows are never reopened: what was open afterwards was open before, or is new.
LEMMA NeverReopened ==
  ASSUME Typed, [HwNext]_hwVars
  PROVE  /\ 1..Len(owner) \subseteq 1..Len(owner')
         /\ \A i \in 1..Len(owner) : i \in open' => i \in open
<1>1. RequestsTyped /\ RowsTyped
  BY TypedSplit
<1>2. ASSUME NEW r \in Requests, CreateCommit(r)
      PROVE  /\ 1..Len(owner) \subseteq 1..Len(owner')
             /\ \A i \in 1..Len(owner) : i \in open' => i \in open
  <2>1. Len(owner') = Len(owner) + 1 /\ Len(owner) \in Nat /\ open' = open \cup {Len(owner) + 1}
    BY <1>1, <1>2, CreateRows
  <2>2. QED
    BY <2>1
<1>3. ASSUME NEW r \in Requests, UpdateCommit(r)
      PROVE  /\ 1..Len(owner) \subseteq 1..Len(owner')
             /\ \A i \in 1..Len(owner) : i \in open' => i \in open
  BY <1>1, <1>3, UpdateRows
<1>4. QED
  BY <1>2, <1>3, RowsStep

\* A record of a truthful request keeps the log truthful, and so does every step
\* that writes no record.
LEMMA LogStaysTruthful ==
  ASSUME AuditInv, [HwNext]_hwVars
  PROVE  AuditIsTruthful'
<1>1. Typed /\ AuditIsTruthful /\ RequestsTruthful
  BY DEF AuditInv
<1>2. ASSUME UNCHANGED audit PROVE AuditIsTruthful'
  BY <1>1, <1>2, NeverReopened DEF AuditIsTruthful
<1>3. ASSUME NEW r \in Requests, WriteAudit(r) PROVE AuditIsTruthful'
  <2> DEFINE record == [act |-> AuditAct(r), row |-> req[r].row]
  <2>1. audit' \subseteq audit \cup {record} /\ UNCHANGED <<owner, open>>
    BY <1>3 DEF WriteAudit
  <2>2. record.row \in 1..Len(owner) /\ (record.act = "Unassign" => record.row \notin open)
    BY <1>1, <1>3 DEF RequestsTruthful, RequestTruthful, WriteAudit, AuditAct
  <2> HIDE DEF record
  <2>3. QED
    BY <1>1, <2>1, <2>2 DEF AuditIsTruthful
<1>4. ASSUME NEW r \in Requests, Step(r) PROVE AuditIsTruthful'
  BY <1>2, <1>3, <1>4, StepFrames
<1>5. ASSUME NEW r \in Requests, Arrival(r) PROVE AuditIsTruthful'
  BY <1>2, <1>5, StepFrames
<1>6. ASSUME NEW r \in Requests, SaveLostAck(r) \/ Cancel(r) PROVE AuditIsTruthful'
  BY <1>2, <1>6 DEF SaveLostAck, Cancel
<1>7. ASSUME NEW u \in Users, ArchiveUser(u) PROVE AuditIsTruthful'
  BY <1>2, <1>7 DEF ArchiveUser
<1>8. ASSUME UNCHANGED hwVars PROVE AuditIsTruthful'
  BY <1>2, <1>8 DEF hwVars
<1>9. QED
  BY <1>4, <1>5, <1>6, <1>7, <1>8 DEF HwNext

\* A request that did not move stays truthful, because rows are never reopened.
LEMMA UnmovedTruthful ==
  ASSUME AuditInv, [HwNext]_hwVars, NEW r \in Requests, req'[r] = req[r]
  PROVE  RequestTruthful(r)'
  BY NeverReopened DEF AuditInv, RequestsTruthful, RequestTruthful

\* A request that begins: only a close notes a row, and it is one that is open.
LEMMA ArrivalTruthful ==
  ASSUME AuditInv, NEW r \in Requests, Arrival(r)
  PROVE  RequestTruthful(r)'
<1>1. Typed /\ RowsTyped /\ req \in [Requests -> Request]
  BY TypedSplit DEF AuditInv, RequestsTyped
<1>2. UNCHANGED <<owner, open>>
  BY StepFrames
<1>3. ASSUME NEW i \in open, CloseRead(r, i) PROVE RequestTruthful(r)'
  <2>1. i \in 1..Len(owner)
    BY <1>1 DEF RowsTyped
  <2>2. req'[r].row = i /\ req'[r].pc = "load"
    BY <1>1, <1>3 DEF CloseRead, Start, Idle
  <2>3. QED
    BY <1>2, <2>1, <2>2 DEF RequestTruthful
<1>4. ASSUME \/ \E u \in Users : CreateRead(r, u)
             \/ \E s \in Edited : EditRead(r, s)
             \/ ArchiveRead(r) \/ UnarchiveRead(r)
      PROVE  RequestTruthful(r)'
  <2>1. req'[r].op # "close" /\ req'[r].pc # "audit"
    BY <1>1, <1>4 DEF CreateRead, EditRead, ArchiveRead, UnarchiveRead, Start, Idle
  <2>2. QED
    BY <2>1 DEF RequestTruthful
<1>5. QED
  BY <1>3, <1>4 DEF Arrival

\* A request under way: the saves of create and close note what they did.
LEMMA StepTruthful ==
  ASSUME AuditInv, NEW r \in Requests, Step(r)
  PROVE  RequestTruthful(r)'
<1>1. /\ Typed /\ RequestsTyped /\ RowsTyped /\ req \in [Requests -> Request]
      /\ RequestTruthful(r)
  BY TypedSplit DEF AuditInv, RequestsTyped, RequestsTruthful
<1>2. ASSUME Return(r) PROVE RequestTruthful(r)'
  BY <1>1, <1>2 DEF Return, Idle, RequestTruthful
<1>3. ASSUME CreateCheck(r) \/ ArchiveFind(r) PROVE RequestTruthful(r)'
  <2>1. req'[r].op # "close" /\ req'[r].pc # "audit"
    BY <1>1, <1>3 DEF CreateCheck, ArchiveFind, At, Goto, Return, Idle, Request
  <2>2. QED
    BY <2>1 DEF RequestTruthful
<1>4. ASSUME CloseLoad(r) PROVE RequestTruthful(r)'
  <2>1. req'[r].row = req[r].row /\ req[r].op = "close" /\ req'[r].pc = "save"
    BY <1>1, <1>4 DEF CloseLoad, At, Request
  <2>2. UNCHANGED owner
    BY <1>4 DEF CloseLoad
  <2>3. QED
    BY <1>1, <2>1, <2>2 DEF RequestTruthful
<1>5. ASSUME CreateSave(r) PROVE RequestTruthful(r)'
  <2>1. req'[r].row = Len(owner') /\ req'[r].op = "create"
    BY <1>1, <1>5 DEF CreateSave, CreateCommit, At, Request
  <2>2. Len(owner') \in 1..Len(owner')
    <3>1. Len(owner') = Len(owner) + 1 /\ Len(owner) \in Nat
      BY <1>1, <1>5, CreateRows DEF CreateSave
    <3>2. QED
      BY <3>1
  <2>3. QED
    BY <2>1, <2>2 DEF RequestTruthful
<1>6. ASSUME CloseSave(r) PROVE RequestTruthful(r)'
  <2>1. owner' = owner /\ open' = open \ {req[r].row}
    BY <1>1, <1>6, UpdateRows DEF CloseSave
  <2>2. req'[r].row = req[r].row /\ req[r].op = "close"
    BY <1>1, <1>6 DEF CloseSave, Request
  <2>3. QED
    BY <1>1, <2>1, <2>2 DEF RequestTruthful
<1>7. QED
  BY <1>2, <1>3, <1>4, <1>5, <1>6
     DEF Step, CreateRejected, RecordSave, WriteAudit

\* Every step keeps the log and the requests truthful.
LEMMA AuditInvStep == AuditInv /\ [HwNext]_hwVars => AuditInv'
<1> SUFFICES ASSUME AuditInv, [HwNext]_hwVars PROVE AuditInv'
  OBVIOUS
<1>1. Typed' /\ AuditIsTruthful' /\ req \in [Requests -> Request]
  BY TypedStep, TypedSplit, LogStaysTruthful DEF AuditInv, RequestsTyped
<1>2. ASSUME NEW r \in Requests, Arrival(r) \/ Step(r) \/ Cancel(r) \/ SaveLostAck(r),
             NEW q \in Requests
      PROVE  RequestTruthful(q)'
  <2>1. ASSUME q # r PROVE req'[q] = req[q]
    BY <1>1, <1>2, <2>1
       DEF Arrival, CreateRead, CloseRead, EditRead, ArchiveRead, UnarchiveRead, Start,
           Step, CreateCheck, CreateSave, CreateRejected, CloseLoad, CloseSave,
           ArchiveFind, RecordSave, WriteAudit, Cancel, SaveLostAck, Goto, Return
  <2>2. CASE q # r
    BY <2>1, <2>2, UnmovedTruthful
  <2>3. CASE q = r
    <3>1. CASE Arrival(r) \/ Step(r)
      BY <2>3, <3>1, ArrivalTruthful, StepTruthful
    <3>2. CASE Cancel(r)
      BY <1>1, <2>3, <3>2 DEF Cancel, Return, Idle, RequestTruthful
    <3>3. CASE SaveLostAck(r)
      BY <2>3, <3>3, UnmovedTruthful DEF SaveLostAck
    <3>4. QED
      BY <1>2, <3>1, <3>2, <3>3
  <2>4. QED
    BY <2>2, <2>3
<1>3. ASSUME UNCHANGED req, NEW q \in Requests PROVE RequestTruthful(q)'
  BY <1>3, UnmovedTruthful
<1>4. RequestsTruthful'
  BY <1>2, <1>3 DEF HwNext, ArchiveUser, hwVars, RequestsTruthful
<1>5. QED
  BY <1>1, <1>4 DEF AuditInv

\* Every assignment the audit log tells of happened, and every unassignment too.
THEOREM AuditNeverLies == HwSpec => []AuditIsTruthful
<1>1. AuditInv => AuditIsTruthful
  BY DEF AuditInv
<1>2. QED
  BY <1>1, AuditInvInit, AuditInvStep, PTL DEF HwSpec
=============================================================================
