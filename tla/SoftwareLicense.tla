-------------------------- MODULE SoftwareLicense ---------------------------
(***************************************************************************)
(* The license record around the seat service: the edit, archive and       *)
(* unarchive endpoints of SoftwareController and the generic assignment    *)
(* endpoints of AssignmentController write the same rows, some of them     *)
(* without the capacity check, the seat counter or the row version.        *)
(***************************************************************************)
EXTENDS SeatService

CONSTANTS
    AdminRequests,  \* requests to the record endpoints in flight at once
    MaxTotal,       \* bound: largest LicenseTotalSeats an edit asks for
    MaxEdits        \* bound: record requests that may be made

ASSUME LicenseAssumption == MaxTotal \in Nat /\ Total <= MaxTotal /\ MaxEdits \in Nat

VARIABLES
    adm,            \* the record requests
    edits           \* record requests made so far

licenseVars == <<seatVars, adm, edits>>

\* total and used are what an edit asks for, the rest what was read.
NoAdmin == [pc |-> "idle", op |-> "none", total |-> 0, used |-> 0,
            read |-> [total |-> 0, used |-> 0, ver |-> 0, archived |-> FALSE],
            row |-> 0, user |-> NoUser]

AdminRequest == [pc : {"idle", "find", "save", "bump", "audit"},
                 op : {"none", "edit", "archive", "unarchive", "create"},
                 total : Nat, used : Nat, read : SoftwareRow,
                 row : Nat, user : Users \cup {NoUser}]

AtAdmin(q, op, pc) == adm[q].op = op /\ adm[q].pc = pc
AdminGoto(q, pc)   == adm' = [adm EXCEPT ![q].pc = pc]
AdminReturn(q)     == adm' = [adm EXCEPT ![q] = NoAdmin]
AdminBegin(q, rec) ==
    /\ adm[q] = NoAdmin
    /\ edits < MaxEdits
    /\ edits' = edits + 1
    /\ adm' = [adm EXCEPT ![q] = rec]
    /\ UNCHANGED seatVars

-----------------------------------------------------------------------------
(***************************************************************************)
(* Deliberately wrong variants of the definitions below them.              *)
(***************************************************************************)
AdminVersionIgnored(q) == TRUE
-----------------------------------------------------------------------------

LicenseInit ==
    /\ SeatInit
    /\ adm = [q \in AdminRequests |-> NoAdmin]
    /\ edits = 0

\* EditSoftware: the visible row, then ValidateEditAsync of the two seat numbers
\* (a missing one is the one just read) against that row.
EditRead(q) ==
    /\ ~sw.archived
    /\ \E total \in 0..MaxTotal : \E used \in 0..total :
         AdminBegin(q, [NoAdmin EXCEPT !.pc = "save", !.op = "edit", !.read = sw,
                                       !.total = total, !.used = used])

\* UPDATE ... WHERE RowVersion = @version.
AdminVersionMatches(q) == adm[q].read.ver = sw.ver

\* ApplyEdit assigns the fields of the request; only the columns that differ
\* from what was read are written, and with none there is no UPDATE at all; an
\* edit of the name or the cost alone is an UPDATE that keeps both numbers.
EditSave(q) ==
    /\ AtAdmin(q, "edit", "save")
    /\ LET old == adm[q].read
           t   == IF adm[q].total # old.total THEN adm[q].total ELSE sw.total
           u   == IF adm[q].used # old.used THEN adm[q].used ELSE sw.used
       IN  \/ /\ adm[q].total = old.total /\ adm[q].used = old.used
              /\ UNCHANGED sw
           \/ /\ AdminVersionMatches(q)
              /\ sw' = [sw EXCEPT !.total = t, !.used = u, !.ver = @ + 1]
    /\ AdminGoto(q, "bump")
    /\ UNCHANGED <<owner, open, archivedUsers, audit, stamp, faults, req, edits>>

\* ArchiveSoftware: the visible row, its open assignment, one SaveChanges.
ArchiveRead(q) ==
    /\ ~sw.archived
    /\ AdminBegin(q, [NoAdmin EXCEPT !.pc = "find", !.op = "archive", !.read = sw])

\* SingleOrDefault over the open assignments throws when there are several.
ArchiveFind(q) ==
    /\ AtAdmin(q, "archive", "find")
    /\ \/ open = {} /\ AdminGoto(q, "save")
       \/ \E i \in open : open = {i} /\ adm' = [adm EXCEPT ![q].pc = "save", ![q].row = i]
       \/ Cardinality(open) > 1 /\ AdminReturn(q)
    /\ UNCHANGED <<seatVars, edits>>

\* The seat is closed and stays charged.
ArchiveSave(q) ==
    /\ AtAdmin(q, "archive", "save")
    /\ AdminVersionMatches(q)
    /\ sw' = [sw EXCEPT !.archived = TRUE, !.ver = @ + 1]
    /\ open' = open \ {adm[q].row}
    /\ AdminGoto(q, "bump")
    /\ UNCHANGED <<owner, archivedUsers, audit, stamp, faults, req, edits>>

UnarchiveRead(q) ==
    AdminBegin(q, [NoAdmin EXCEPT !.pc = "save", !.op = "unarchive", !.read = sw])

UnarchiveSave(q) ==
    /\ AtAdmin(q, "unarchive", "save")
    /\ IF adm[q].read.archived
       THEN AdminVersionMatches(q) /\ sw' = [sw EXCEPT !.archived = FALSE, !.ver = @ + 1]
       ELSE UNCHANGED sw
    /\ AdminGoto(q, "bump")
    /\ UNCHANGED <<owner, open, archivedUsers, audit, stamp, faults, req, edits>>

\* An UPDATE that finds another RowVersion ends the request with an error.
AdminConflict(q) ==
    /\ adm[q].pc = "save"
    /\ adm[q].op \in {"edit", "archive", "unarchive"}
    /\ ~AdminVersionMatches(q)
    /\ AdminReturn(q)
    /\ UNCHANGED <<seatVars, edits>>

\* api/assign/create for a license: visible user and license, and the check
\* for an open assignment looks at hardware only.
CreateRead(q, u) ==
    /\ u \notin archivedUsers
    /\ ~sw.archived
    /\ Len(owner) < MaxRows
    /\ AdminBegin(q, [NoAdmin EXCEPT !.pc = "save", !.op = "create", !.user = u])

CreateSave(q) ==
    /\ AtAdmin(q, "create", "save")
    /\ \/ /\ IndexAdmits(adm[q].user)
          /\ owner' = Append(owner, adm[q].user)
          /\ open' = open \cup {Len(owner) + 1}
          /\ adm' = [adm EXCEPT ![q].pc = "bump", ![q].row = Len(owner')]
       \/ /\ ~IndexAdmits(adm[q].user)
          /\ AdminReturn(q)
          /\ UNCHANGED <<owner, open>>
    /\ UNCHANGED <<sw, archivedUsers, audit, stamp, faults, req, edits>>

\* Each of these handlers bumps the stamp once its awaited SaveChanges returns.
AdminBump(q) ==
    /\ adm[q].pc = "bump"
    /\ BumpAssets
    /\ IF adm[q].op = "create" THEN AdminGoto(q, "audit") ELSE AdminReturn(q)
    /\ UNCHANGED <<sw, owner, open, archivedUsers, audit, faults, req, edits>>

\* Best effort: an actor or license that is no longer visible, or any failure,
\* leaves no record and does not show.
CreateAudit(q) ==
    /\ AtAdmin(q, "create", "audit")
    /\ audit' = IF sw.archived \/ Actor \in archivedUsers
                THEN audit
                ELSE audit \cup {[act |-> "Assign", row |-> adm[q].row]}
    /\ AdminReturn(q)
    /\ UNCHANGED <<sw, owner, open, archivedUsers, stamp, faults, req, edits>>

\* api/assign/close of a license assignment hands over to ReleaseSeatAsync,
\* which takes archived licenses too.
CloseAssignment(r, i) ==
    /\ i \in open
    /\ req[r] = Idle
    /\ {Actor, owner[i]} \cap archivedUsers = {}
    /\ edits < MaxEdits
    /\ edits' = edits + 1
    /\ req' = [req EXCEPT ![r] = [Idle EXCEPT !.op = "release", !.pc = "read",
                                              !.user = owner[i], !.attempt = 1]]
    /\ UNCHANGED <<sw, owner, open, archivedUsers, audit, stamp, faults, adm>>

AdminStep(q) ==
    \/ EditRead(q) \/ EditSave(q)
    \/ ArchiveRead(q) \/ ArchiveFind(q) \/ ArchiveSave(q)
    \/ UnarchiveRead(q) \/ UnarchiveSave(q)
    \/ AdminConflict(q)
    \/ \E u \in Users : CreateRead(q, u)
    \/ CreateSave(q) \/ AdminBump(q) \/ CreateAudit(q)

LicenseNext ==
    \/ SeatNext /\ UNCHANGED <<adm, edits>>
    \/ \E q \in AdminRequests : AdminStep(q)
    \/ \E r \in Requests : \E i \in open : CloseAssignment(r, i)

LicenseSpec == LicenseInit /\ [][LicenseNext]_licenseVars
-----------------------------------------------------------------------------
LicenseTypeOK ==
    /\ SeatTypeOK
    /\ adm \in [AdminRequests -> AdminRequest]
    /\ edits \in 0..MaxEdits

\* The row never charges more seats than it has, although edits, grants and
\* releases all write numbers computed from what they read earlier.
ChargedWithinTotal == sw.used <= sw.total

\* The seat service grants no seat on a license that is archived by the time
\* the grant commits.
NoGrantOnArchivedLicense ==
    [][\A r \in Requests : At(r, "assign", "save") /\ At(r, "assign", "bump")'
                             => ~sw.archived]_licenseVars
=============================================================================
