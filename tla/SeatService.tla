---------------------------- MODULE SeatService -----------------------------
(***************************************************************************)
(* SoftwareSeatService (src/AIMS/Services/Implementations) and the assign  *)
(* and release endpoints of SoftwareController, for one software license.  *)
(* Every web request is a process with its own DbContext; a step is one    *)
(* query or one SaveChanges, so requests interleave at every await.  Every *)
(* query of the service is filtered by SoftwareID: licenses do not share   *)
(* rows, and one license is enough.                                        *)
(***************************************************************************)
EXTENDS Integers, FiniteSets, Sequences

CONSTANTS
    Users,        \* users of the directory
    Actor,        \* the signed-in administrator behind every request
    Archivable,   \* the users that may be archived in this instance
    Requests,     \* web requests in flight at once
    NoUser,       \* the user of an idle request
    Total,        \* LicenseTotalSeats of the license
    MaxRetries,   \* maxRetries of the service (3 in the code)
    MaxRows,      \* bound: assign requests stop once so many rows exist
    MaxFaults     \* bound: lost acknowledgements and cancelled requests

ASSUME UsersAssumption == Actor \in Users /\ Archivable \subseteq Users /\ NoUser \notin Users
ASSUME NumbersAssumption ==
    /\ Total \in Nat /\ MaxRows \in Nat /\ MaxFaults \in Nat
    /\ MaxRetries \in Nat \ {0}

VARIABLES
    sw,             \* the Software row; ver stands for its RowVersion
    owner,          \* owner[i]: UserID of assignment row i, in AssignmentID order
    open,           \* assignment rows whose UnassignedAtUtc is null
    archivedUsers,  \* users with IsArchived, hidden by the query filter
    audit,          \* the seat changes the audit log tells of
    stamp,          \* CacheStamp.AssetsVersion
    faults,         \* injected faults so far
    req             \* the requests

seatVars == <<sw, owner, open, archivedUsers, audit, stamp, faults, req>>

Idle == [pc |-> "idle", op |-> "none", user |-> NoUser, used |-> 0, total |-> 0,
         ver |-> 0, row |-> 0, attempt |-> 0]

SoftwareRow == [total : Nat, used : Nat, ver : Nat, archived : BOOLEAN]

\* pc names the next step; used, total and ver are the row as the request read
\* it, row the assignment it closes or has opened.
Request == [pc : {"idle", "read", "count", "already", "find", "save", "bump", "audit"},
            op : {"none", "assign", "release"},
            user : Users \cup {NoUser},
            used : Nat, total : Nat, ver : Nat, row : Nat,
            attempt : 0..MaxRetries]

AuditRecord == [act : {"Assign", "Unassign"}, row : Nat]

At(r, op, pc) == req[r].op = op /\ req[r].pc = pc
Goto(r, pc)   == req' = [req EXCEPT ![r].pc = pc]
Return(r)     == req' = [req EXCEPT ![r] = Idle]

-----------------------------------------------------------------------------
(***************************************************************************)
(* Deliberately wrong variants of the definitions below them; each shows   *)
(* that a property is able to fail.                                        *)
(***************************************************************************)
RowVersionIgnored(r)    == TRUE
IndexMissing(u)         == TRUE
RetryAtTheLimit(r)      == req[r].attempt <= MaxRetries
RetryWithoutReload(r)   == UNCHANGED req
AuditAlwaysAssign(r)    == [act |-> "Assign", row |-> req[r].row]
-----------------------------------------------------------------------------

SeatInit ==
    /\ sw = [total |-> Total, used |-> 0, ver |-> 0, archived |-> FALSE]
    /\ owner = <<>>
    /\ open = {}
    /\ archivedUsers = {}
    /\ audit = {}
    /\ stamp = 0
    /\ faults = 0
    /\ req = [r \in Requests |-> Idle]

\* The endpoint resolves the actor and the service the assignee, both through
\* the filter that hides archived users; an archived license is a 404 here.
Begin(r, op, u) ==
    /\ req[r] = Idle
    /\ ~sw.archived
    /\ {Actor, u} \cap archivedUsers = {}
    /\ req' = [req EXCEPT ![r] = [Idle EXCEPT !.op = op, !.pc = "read", !.user = u,
                                              !.attempt = 1]]
    /\ UNCHANGED <<sw, owner, open, archivedUsers, audit, stamp, faults>>

BeginAssign(r, u)  == Len(owner) < MaxRows /\ Begin(r, "assign", u)
BeginRelease(r, u) == Begin(r, "release", u)

\* The tracked Software entity of this attempt.
TrackSoftware(r, pc) ==
    req' = [req EXCEPT ![r].pc = pc, ![r].used = sw.used,
                       ![r].total = sw.total, ![r].ver = sw.ver]

AssignRead(r) ==
    /\ At(r, "assign", "read")
    /\ \/ ~sw.archived /\ sw.used < sw.total /\ TrackSoftware(r, "count")
       \/ (sw.archived \/ sw.used >= sw.total) /\ Return(r)
    /\ UNCHANGED <<sw, owner, open, archivedUsers, audit, stamp, faults>>

AssignCount(r) ==
    /\ At(r, "assign", "count")
    /\ \/ Cardinality(open) < req[r].total /\ Goto(r, "already")
       \/ Cardinality(open) >= req[r].total /\ Return(r)
    /\ UNCHANGED <<sw, owner, open, archivedUsers, audit, stamp, faults>>

HasSeat(u) == \E i \in open : owner[i] = u

AssignAlreadyOpen(r) ==
    /\ At(r, "assign", "already")
    /\ \/ ~HasSeat(req[r].user) /\ Goto(r, "save")
       \/ HasSeat(req[r].user) /\ Return(r)
    /\ UNCHANGED <<sw, owner, open, archivedUsers, audit, stamp, faults>>

ReleaseRead(r) ==
    /\ At(r, "release", "read")
    /\ TrackSoftware(r, "find")
    /\ UNCHANGED <<sw, owner, open, archivedUsers, audit, stamp, faults>>

\* Nothing open is a successful return; SingleOrDefault throws on two rows.
ReleaseFind(r) ==
    /\ At(r, "release", "find")
    /\ LET mine == {i \in open : owner[i] = req[r].user}
       IN  \/ \E i \in mine : /\ mine = {i}
                              /\ req' = [req EXCEPT ![r].pc = "save", ![r].row = i]
           \/ (\A i \in mine : mine # {i}) /\ Return(r)
    /\ UNCHANGED <<sw, owner, open, archivedUsers, audit, stamp, faults>>

\* UPDATE ... WHERE SoftwareID = @id AND RowVersion = @version finds its row.
RowVersionMatches(r) == req[r].ver = sw.ver

\* The filtered unique index on (SoftwareID, UserID) of open assignments.
IndexAdmits(u) == \A i \in open : owner[i] # u

SeatsAfterAssign(r)  == IF req[r].used + 1 <= req[r].total THEN req[r].used + 1
                                                           ELSE req[r].total
SeatsAfterRelease(r) == IF req[r].used > 0 THEN req[r].used - 1 ELSE 0

WriteSeats(n) == sw' = [sw EXCEPT !.used = n, !.ver = sw.ver + 1]

\* The transaction of SaveChanges: one INSERT, one UPDATE of the license.
AssignCommit(r) ==
    /\ At(r, "assign", "save")
    /\ RowVersionMatches(r)
    /\ IndexAdmits(req[r].user)
    /\ owner' = Append(owner, req[r].user)
    /\ open' = open \cup {Len(owner) + 1}
    /\ WriteSeats(SeatsAfterAssign(r))

\* EF updates only what changed: a count that stays at zero leaves the license
\* row, and with it the RowVersion check, out of the transaction.
ReleaseCommit(r) ==
    /\ At(r, "release", "save")
    /\ IF SeatsAfterRelease(r) # req[r].used
       THEN RowVersionMatches(r) /\ WriteSeats(SeatsAfterRelease(r))
       ELSE UNCHANGED sw
    /\ open' = open \ {req[r].row}
    /\ UNCHANGED owner

BumpAssets == stamp' = stamp + 1

\* SaveChanges commits; the request is still awaiting its answer.
AssignSave(r) ==
    /\ AssignCommit(r)
    /\ req' = [req EXCEPT ![r].pc = "bump", ![r].row = Len(owner')]
    /\ UNCHANGED <<archivedUsers, audit, stamp, faults>>

ReleaseSave(r) ==
    /\ ReleaseCommit(r)
    /\ Goto(r, "bump")
    /\ UNCHANGED <<archivedUsers, audit, stamp, faults>>

\* SaveChanges has returned: BumpAssets runs, the audit record is next.
Bump(r) ==
    /\ req[r].pc = "bump"
    /\ BumpAssets
    /\ Goto(r, "audit")
    /\ UNCHANGED <<sw, owner, open, archivedUsers, audit, faults>>

\* The transaction commits but its acknowledgement is lost: the execution
\* strategy (EnableRetryOnFailure) runs the same SaveChanges again.
SaveLostAck(r) ==
    /\ faults < MaxFaults
    /\ AssignCommit(r) \/ ReleaseCommit(r)
    /\ faults' = faults + 1
    /\ UNCHANGED <<archivedUsers, audit, stamp, req>>

RetryAllowed(r) == req[r].attempt < MaxRetries

\* ChangeTracker.Clear, next attempt.
Reload(r) == req' = [req EXCEPT ![r].pc = "read", ![r].row = 0, ![r].attempt = @ + 1]

\* DbUpdateConcurrencyException: the license row has moved on.
SaveConflict(r) ==
    /\ req[r].pc = "save"
    /\ ~RowVersionMatches(r)
    /\ req[r].op = "release" => SeatsAfterRelease(r) # req[r].used
    /\ IF RetryAllowed(r) THEN Reload(r) ELSE Return(r)
    /\ UNCHANGED <<sw, owner, open, archivedUsers, audit, stamp, faults>>

\* DbUpdateException of the unique index: the endpoint answers 409.
AssignDuplicate(r) ==
    /\ At(r, "assign", "save")
    /\ ~IndexAdmits(req[r].user)
    /\ Return(r)
    /\ UNCHANGED <<sw, owner, open, archivedUsers, audit, stamp, faults>>

SeatAuditRecord(r) ==
    [act |-> IF req[r].op = "assign" THEN "Assign" ELSE "Unassign", row |-> req[r].row]

\* CreateAuditRecordAsync insists on a visible actor and a visible license; its
\* exception ends the request after the seat change is committed.
WriteAudit(r) ==
    /\ req[r].pc = "audit"
    /\ audit' = IF sw.archived \/ Actor \in archivedUsers
                THEN audit
                ELSE audit \cup {SeatAuditRecord(r)}
    /\ Return(r)
    /\ UNCHANGED <<sw, owner, open, archivedUsers, stamp, faults>>

\* The request is cancelled: every await takes the token, that of SaveChanges
\* also when the transaction has committed already (pc "bump").
Cancel(r) ==
    /\ req[r].pc # "idle"
    /\ faults < MaxFaults
    /\ Return(r)
    /\ faults' = faults + 1
    /\ UNCHANGED <<sw, owner, open, archivedUsers, audit, stamp>>

\* Archiving a user leaves the user's seats open.
ArchiveUser(u) ==
    /\ u \in Archivable \ archivedUsers
    /\ archivedUsers' = archivedUsers \cup {u}
    /\ UNCHANGED <<sw, owner, open, audit, stamp, faults, req>>

UnarchiveUser(u) ==
    /\ u \in archivedUsers
    /\ archivedUsers' = archivedUsers \ {u}
    /\ UNCHANGED <<sw, owner, open, audit, stamp, faults, req>>

\* The steps a request in progress takes by itself.
Step(r) ==
    \/ AssignRead(r) \/ AssignCount(r) \/ AssignAlreadyOpen(r)
    \/ ReleaseRead(r) \/ ReleaseFind(r)
    \/ AssignSave(r) \/ ReleaseSave(r) \/ Bump(r)
    \/ SaveConflict(r) \/ AssignDuplicate(r)
    \/ WriteAudit(r)

SeatNext ==
    \/ \E r \in Requests :
         \/ \E u \in Users : BeginAssign(r, u) \/ BeginRelease(r, u)
         \/ Step(r)
         \/ SaveLostAck(r)
         \/ Cancel(r)
    \/ \E u \in Users : ArchiveUser(u) \/ UnarchiveUser(u)

SeatSpec == SeatInit /\ [][SeatNext]_seatVars

\* Kestrel and the thread pool keep running a request until it answers.
SeatFairSpec == SeatSpec /\ \A r \in Requests : WF_seatVars(Step(r))
-----------------------------------------------------------------------------
SeatTypeOK ==
    /\ sw \in SoftwareRow
    /\ owner \in Seq(Users)
    /\ open \subseteq 1..Len(owner)
    /\ archivedUsers \subseteq Archivable
    /\ audit \subseteq AuditRecord
    /\ stamp \in Nat
    /\ faults \in 0..MaxFaults
    /\ req \in [Requests -> Request]

\* A request in progress has an assignee or a releasing user.
RequestsHaveUsers == \A r \in Requests : req[r].pc # "idle" => req[r].user \in Users

\* What a request still knows when it acts on the license row it read: if the
\* row version has not moved, neither have the seats; an assign has seen a free
\* seat; a release either still closes an open row, or a release that found the
\* counter at zero has closed it without moving the version, and then the
\* counter is ahead of the open rows.
SnapshotSound(r) ==
    LET current == req[r].ver = sw.ver
    IN  /\ req[r].pc \in {"count", "already", "find", "save"} =>
             /\ req[r].ver <= sw.ver
             /\ current => req[r].used = sw.used /\ req[r].total = sw.total
        /\ req[r].op = "assign" /\ req[r].pc \in {"count", "already", "save"} =>
             req[r].used < req[r].total
        /\ At(r, "release", "save") /\ current /\ req[r].used > 0 =>
             req[r].row \in open \/ Cardinality(open) < sw.used

\* Never oversold: the open seats are covered by the seats the license charges,
\* and those by the seats it has, through every race, retry, lost
\* acknowledgement and cancellation (AssignSeatAsync, ReleaseSeatAsync).
SeatsNeverOversold == Cardinality(open) <= sw.used /\ sw.used <= sw.total

\* SeatsNeverOversold made inductive.
SeatInv ==
    /\ SeatTypeOK
    /\ RequestsHaveUsers
    /\ SeatsNeverOversold
    /\ \A r \in Requests : SnapshotSound(r)

\* A user never holds two open seats of the license, although the check and the
\* insert of AssignSeatAsync are separate statements.
OneSeatPerUser == \A i, j \in open : owner[i] = owner[j] => i = j

\* The license row charges exactly its open assignments.
UsedMatchesOpen == sw.used = Cardinality(open)

Pending(r, op, i) == (At(r, op, "bump") \/ At(r, op, "audit")) /\ req[r].row = i

\* Without faults every row ever opened has its Assign record and every closed
\* row its Unassign record, or the request that owes the record is about to
\* write it; the records may still appear in another order than the changes.
AuditComplete ==
    faults = 0 /\ Actor \notin Archivable =>
      \A i \in 1..Len(owner) :
        /\ \/ [act |-> "Assign", row |-> i] \in audit
           \/ \E r \in Requests : Pending(r, "assign", i)
        /\ \/ i \in open
           \/ [act |-> "Unassign", row |-> i] \in audit
           \/ \E r \in Requests : Pending(r, "release", i)

\* Every request answers: at most MaxRetries attempts, and no attempt waits for
\* another request.
RequestsTerminate == \A r \in Requests : req[r].pc # "idle" ~> req[r].pc = "idle"

\* The service implements the atomic seat ledger.
Ledger == INSTANCE SeatLedger WITH
            holders <- {owner[i] : i \in open}, charged <- sw.used
ImplementsLedger == Ledger!LedgerSpec
=============================================================================
