------------------------- MODULE HardwareAssignment -------------------------
(***************************************************************************)
(* One hardware asset and everything that writes its row or its            *)
(* assignments: create and close of AssignmentController, edit, archive    *)
(* and unarchive of HardwareController.  The Hardware row has no           *)
(* concurrency token: a save writes the columns in which the entity        *)
(* differs from what the request read, whatever the row holds by then.     *)
(***************************************************************************)
EXTENDS Integers, FiniteSets, Sequences

CONSTANTS
    Users,       \* users of the directory
    Archivable,  \* the users that may be archived in this instance
    NoUser,      \* the holder of hardware that is not assigned
    Requests,    \* web requests in flight at once
    Edited,      \* the Status texts an edit may set
    MaxRows,     \* bound: create requests stop once so many rows exist
    MaxFaults    \* bound: lost acknowledgements, cancelled requests, archived users

ASSUME HardwareAssumption ==
    /\ NoUser \notin Users
    /\ Archivable \subseteq Users
    /\ Edited \subseteq {"Available", "Assigned", "Archived", "In Repair"}

ASSUME NumbersAssumption == MaxRows \in Nat /\ MaxFaults \in Nat

VARIABLES
    hw,             \* the Hardware row: Status and IsArchived
    owner,          \* owner[i]: UserID of assignment row i, in AssignmentID order
    open,           \* assignment rows whose UnassignedAtUtc is null
    archivedUsers,  \* users hidden by the query filter
    audit,          \* the assignment changes the audit log tells of
    faults,         \* lost acknowledgements, cancelled requests and archived users so far
    req             \* the requests

hwVars == <<hw, owner, open, archivedUsers, audit, faults, req>>

Statuses == {"Available", "Assigned", "Archived", "In Repair"}
HardwareRow == [status : Statuses, archived : BOOLEAN]

\* The entity a request tracks: what it read, what it will save, and whether it
\* tracks one at all (a close does not see archived hardware).
NoEntity == [seen |-> FALSE, read |-> [status |-> "Available", archived |-> FALSE],
             now |-> [status |-> "Available", archived |-> FALSE]]
Entity   == [seen : BOOLEAN, read : HardwareRow, now : HardwareRow]
Tracked(status, archived) ==
    [seen |-> TRUE, read |-> hw, now |-> [status |-> status, archived |-> archived]]

Idle == [pc |-> "idle", op |-> "none", user |-> NoUser, row |-> 0, hw |-> NoEntity]

Request == [pc : {"idle", "check", "find", "load", "save", "audit"},
            op : {"none", "create", "close", "edit", "archive", "unarchive"},
            user : Users \cup {NoUser}, row : Nat, hw : Entity]

At(r, op, pc) == req[r].op = op /\ req[r].pc = pc
Goto(r, pc)   == req' = [req EXCEPT ![r].pc = pc]
Return(r)     == req' = [req EXCEPT ![r] = Idle]
Start(r, rec) == req[r] = Idle /\ req' = [req EXCEPT ![r] = rec]

-----------------------------------------------------------------------------
(***************************************************************************)
(* Deliberately wrong variants of the definitions below them.              *)
(***************************************************************************)
IndexMissing       == TRUE
AuditsOperation(r) == req[r].op
AuditsUnassign(r)  == "Unassign"

CreateTriesForever(r) == At(r, "create", "save") /\ open # {} /\ UNCHANGED hwVars
-----------------------------------------------------------------------------

HwInit ==
    /\ hw = [status |-> "Available", archived |-> FALSE]
    /\ owner = <<>>
    /\ open = {}
    /\ archivedUsers = {}
    /\ audit = {}
    /\ faults = 0
    /\ req = [r \in Requests |-> Idle]

\* Create: a visible user, then the visible hardware, tracked.
CreateRead(r, u) ==
    /\ u \notin archivedUsers
    /\ ~hw.archived
    /\ Len(owner) < MaxRows
    /\ Start(r, [Idle EXCEPT !.op = "create", !.pc = "check", !.user = u,
                             !.hw = Tracked("Assigned", FALSE)])
    /\ UNCHANGED <<hw, owner, open, archivedUsers, audit, faults>>

\* "prevent double-open assignment": an open row is a 409.
CreateCheck(r) ==
    /\ At(r, "create", "check")
    /\ \/ open = {} /\ Goto(r, "save")
       \/ open # {} /\ Return(r)
    /\ UNCHANGED <<hw, owner, open, archivedUsers, audit, faults>>

\* Close: the assignment by its id; one that is closed is answered at once.
CloseRead(r, i) ==
    /\ i \in open
    /\ Start(r, [Idle EXCEPT !.op = "close", !.pc = "load", !.user = owner[i], !.row = i])
    /\ UNCHANGED <<hw, owner, open, archivedUsers, audit, faults>>

CloseLoad(r) ==
    /\ At(r, "close", "load")
    /\ req' = [req EXCEPT ![r].pc = "save",
                          ![r].hw = IF hw.archived THEN NoEntity
                                                   ELSE Tracked("Available", FALSE)]
    /\ UNCHANGED <<hw, owner, open, archivedUsers, audit, faults>>

\* EditHardware: any Status text, with no look at the assignments.
EditRead(r, s) ==
    /\ ~hw.archived
    /\ Start(r, [Idle EXCEPT !.op = "edit", !.pc = "save", !.hw = Tracked(s, FALSE)])
    /\ UNCHANGED <<hw, owner, open, archivedUsers, audit, faults>>

\* ArchiveHardware: the row without the filter, then its open assignment.
ArchiveRead(r) ==
    /\ Start(r, [Idle EXCEPT !.op = "archive", !.pc = "find", !.hw = Tracked("Archived", TRUE)])
    /\ UNCHANGED <<hw, owner, open, archivedUsers, audit, faults>>

ArchiveFind(r) ==
    /\ At(r, "archive", "find")
    /\ \/ open = {} /\ Goto(r, "save")
       \/ \E i \in open : open = {i} /\ req' = [req EXCEPT ![r].pc = "save", ![r].row = i]
       \/ Cardinality(open) > 1 /\ Return(r)
    /\ UNCHANGED <<hw, owner, open, archivedUsers, audit, faults>>

\* UnarchiveHardware: whatever the row and its assignments are.
UnarchiveRead(r) ==
    /\ Start(r, [Idle EXCEPT !.op = "unarchive", !.pc = "save",
                             !.hw = Tracked("Available", FALSE)])
    /\ UNCHANGED <<hw, owner, open, archivedUsers, audit, faults>>

\* The UPDATE of the Hardware row: only the changed columns.
StatusAfter(e)   == IF e.seen /\ e.now.status # e.read.status THEN e.now.status ELSE hw.status
ArchivedAfter(e) == IF e.seen /\ e.now.archived # e.read.archived THEN e.now.archived
                                                                  ELSE hw.archived
SaveEntity(e) == hw' = [status |-> StatusAfter(e), archived |-> ArchivedAfter(e)]

\* The filtered unique index on HardwareID of open assignments.
IndexAdmits == open = {}

CreateCommit(r) ==
    /\ At(r, "create", "save")
    /\ IndexAdmits
    /\ owner' = Append(owner, req[r].user)
    /\ open' = open \cup {Len(owner) + 1}
    /\ SaveEntity(req[r].hw)

\* Close, archive, unarchive and edit: the assignment found (if any) is closed
\* in the transaction that updates the row.
UpdateCommit(r) ==
    /\ req[r].op # "create"
    /\ req[r].pc = "save"
    /\ open' = open \ {req[r].row}
    /\ SaveEntity(req[r].hw)
    /\ UNCHANGED owner

CreateSave(r) ==
    /\ CreateCommit(r)
    /\ req' = [req EXCEPT ![r].pc = "audit", ![r].row = Len(owner'), ![r].hw = NoEntity]
    /\ UNCHANGED <<archivedUsers, audit, faults>>

CreateRejected(r) ==
    /\ At(r, "create", "save")
    /\ ~IndexAdmits
    /\ Return(r)
    /\ UNCHANGED <<hw, owner, open, archivedUsers, audit, faults>>

CloseSave(r) ==
    /\ req[r].op = "close"
    /\ UpdateCommit(r)
    /\ req' = [req EXCEPT ![r].pc = "audit", ![r].hw = NoEntity]
    /\ UNCHANGED <<archivedUsers, audit, faults>>

\* The record endpoints write no audit row.
RecordSave(r) ==
    /\ req[r].op \in {"edit", "archive", "unarchive"}
    /\ UpdateCommit(r)
    /\ Return(r)
    /\ UNCHANGED <<archivedUsers, audit, faults>>

\* The commit is acknowledged to nobody and SaveChanges runs again.
SaveLostAck(r) ==
    /\ faults < MaxFaults
    /\ CreateCommit(r) \/ UpdateCommit(r)
    /\ faults' = faults + 1
    /\ UNCHANGED <<archivedUsers, audit, req>>

AuditAct(r) == IF req[r].op = "create" THEN "Assign" ELSE "Unassign"

\* Best effort: hardware that is archived by now is not a valid target, and the
\* exception is swallowed.
WriteAudit(r) ==
    /\ req[r].pc = "audit"
    /\ audit' = IF hw.archived THEN audit
                ELSE audit \cup {[act |-> AuditAct(r), row |-> req[r].row]}
    /\ Return(r)
    /\ UNCHANGED <<hw, owner, open, archivedUsers, faults>>

Cancel(r) ==
    /\ req[r].pc # "idle"
    /\ faults < MaxFaults
    /\ Return(r)
    /\ faults' = faults + 1
    /\ UNCHANGED <<hw, owner, open, archivedUsers, audit>>

\* Archiving a user leaves the user's assignments open.
ArchiveUser(u) ==
    /\ u \in Archivable \ archivedUsers
    /\ faults < MaxFaults
    /\ archivedUsers' = archivedUsers \cup {u}
    /\ faults' = faults + 1
    /\ UNCHANGED <<hw, owner, open, audit, req>>

Step(r) ==
    \/ CreateCheck(r) \/ CreateSave(r) \/ CreateRejected(r)
    \/ CloseLoad(r) \/ CloseSave(r)
    \/ ArchiveFind(r) \/ RecordSave(r)
    \/ WriteAudit(r)

Arrival(r) ==
    \/ \E u \in Users : CreateRead(r, u)
    \/ \E i \in open : CloseRead(r, i)
    \/ \E s \in Edited : EditRead(r, s)
    \/ ArchiveRead(r)
    \/ UnarchiveRead(r)

HwNext ==
    \/ \E r \in Requests : Arrival(r) \/ Step(r) \/ SaveLostAck(r) \/ Cancel(r)
    \/ \E u \in Users : ArchiveUser(u)

HwSpec == HwInit /\ [][HwNext]_hwVars

HwFairSpec == HwSpec /\ \A r \in Requests : WF_hwVars(Step(r))
-----------------------------------------------------------------------------
HwTypeOK ==
    /\ hw \in HardwareRow
    /\ owner \in Seq(Users)
    /\ open \subseteq 1..Len(owner)
    /\ archivedUsers \subseteq Archivable
    /\ audit \subseteq [act : {"Assign", "Unassign"}, row : Nat]
    /\ faults \in 0..MaxFaults
    /\ req \in [Requests -> Request]

\* "At most ONE active assignment per hardware asset", although the check and
\* the insert of the create endpoint are separate statements.
OneOpenPerAsset == \A i, j \in open : i = j

\* Every change of hands goes through the shelf: the endpoints implement the
\* lease of HardwareLease.
Holder == IF open = {} THEN NoUser ELSE owner[CHOOSE i \in open : TRUE]
Lease == INSTANCE HardwareLease WITH holder <- Holder, Nobody <- NoUser
ImplementsLease == Lease!LeaseSpec

\* Every assignment the audit log tells of happened: the row exists, and a row
\* with an Unassign record is closed.
AuditIsTruthful ==
    \A a \in audit : a.row \in 1..Len(owner) /\ (a.act = "Unassign" => a.row \notin open)

\* Every request answers.
RequestsTerminate == \A r \in Requests : req[r].pc # "idle" ~> req[r].pc = "idle"
=============================================================================
