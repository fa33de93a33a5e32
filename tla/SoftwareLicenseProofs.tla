------------------------ MODULE SoftwareLicenseProofs ------------------------
(***************************************************************************)
(* Theorems about SoftwareLicense, the seat service next to the record     *)
(* endpoints, and about AssetList, the cached lists around them, for any   *)
(* set of requests of each kind.                                           *)
(***************************************************************************)
EXTENDS AssetList, SeatServiceProofs

\* What a seat request knows of a license that other endpoints write too: if
\* the row version has not moved, neither have the numbers it read, nor has
\* the license been archived since an assign looked.
SeatSnapshot(r) ==
    LET current == req[r].ver = sw.ver
    IN  /\ req[r].pc \in {"count", "already", "find", "save"} =>
             /\ req[r].ver <= sw.ver
             /\ current => req[r].used = sw.used /\ req[r].total = sw.total
        /\ req[r].op = "assign" /\ req[r].pc \in {"count", "already", "save"} =>
             /\ req[r].used < req[r].total
             /\ current => ~sw.archived

\* What a record request knows: the whole row, as long as the version stands.
AdminSnapshot(q) ==
    /\ adm[q].pc \in {"find", "save"} /\ adm[q].op # "create" =>
         /\ adm[q].read.ver <= sw.ver
         /\ adm[q].read.ver = sw.ver => adm[q].read = sw
    /\ AtAdmin(q, "edit", "save") => adm[q].used <= adm[q].total
    /\ adm[q].op = "create" => adm[q].user \in Users

\* ChargedWithinTotal made inductive.
LicenseInv ==
    /\ LicenseTypeOK
    /\ RequestsHaveUsers
    /\ ChargedWithinTotal
    /\ OneSeatPerUser
    /\ \A r \in Requests : SeatSnapshot(r)
    /\ \A q \in AdminRequests : AdminSnapshot(q)

-----------------------------------------------------------------------------
(* Types.                                                                  *)

AdminTyped == adm \in [AdminRequests -> AdminRequest] /\ edits \in 0..MaxEdits

\* The types in the parts that the steps disturb.
LEMMA LicenseTypeSplit ==
    LicenseTypeOK /\ RequestsHaveUsers <=> RestTyped /\ RequestsTyped /\ AdminTyped
  BY TypedSplit DEF LicenseTypeOK, Typed, AdminTyped

\* An idle record request is well typed.
LEMMA NoAdminTyped == NoAdmin \in AdminRequest /\ NoAdmin.pc = "idle" /\ NoAdmin.op = "none"
  BY DEF NoAdmin, AdminRequest, SoftwareRow

\* Writing one well typed record request keeps all of them well typed.
LEMMA AdminPutTyped ==
  ASSUME AdminTyped, NEW q \in AdminRequests, NEW x \in AdminRequest,
         adm' = [adm EXCEPT ![q] = x], edits' = edits \/ (edits < MaxEdits /\ edits' = edits + 1)
  PROVE  AdminTyped'
  BY LicenseAssumption DEF AdminTyped

\* A record request that begins is well typed and counted.
LEMMA AdminBeginTyped ==
  ASSUME AdminTyped, NEW q \in AdminRequests, NEW x \in AdminRequest, AdminBegin(q, x)
  PROVE  AdminTyped'
  BY AdminPutTyped DEF AdminBegin

\* A record request that ends is idle again.
LEMMA AdminReturnTyped ==
  ASSUME AdminTyped, NEW q \in AdminRequests, AdminReturn(q), edits' = edits
  PROVE  AdminTyped'
  BY NoAdminTyped, AdminPutTyped DEF AdminReturn

\* The requests that read the license row first.
LEMMA AdminReadTyped ==
  ASSUME AdminTyped, sw \in SoftwareRow, NEW q \in AdminRequests,
         \/ EditRead(q) \/ ArchiveRead(q) \/ UnarchiveRead(q)
         \/ \E u \in Users : CreateRead(q, u)
  PROVE  AdminTyped'
<1>1. CASE EditRead(q)
  <2>1. ASSUME NEW total \in 0..MaxTotal, NEW used \in 0..total,
               AdminBegin(q, [NoAdmin EXCEPT !.pc = "save", !.op = "edit", !.read = sw,
                                             !.total = total, !.used = used])
        PROVE  AdminTyped'
    <3>1. total \in Nat /\ used \in Nat
      BY LicenseAssumption
    <3>2. [NoAdmin EXCEPT !.pc = "save", !.op = "edit", !.read = sw,
                          !.total = total, !.used = used] \in AdminRequest
      BY <3>1, NoAdminTyped DEF AdminRequest
    <3>3. QED
      BY <2>1, <3>2, AdminBeginTyped
  <2>2. QED
    BY <1>1, <2>1 DEF EditRead
<1>2. CASE ArchiveRead(q)
  <2>1. [NoAdmin EXCEPT !.pc = "find", !.op = "archive", !.read = sw] \in AdminRequest
    BY NoAdminTyped DEF AdminRequest
  <2>2. QED
    BY <1>2, <2>1, AdminBeginTyped DEF ArchiveRead
<1>3. CASE UnarchiveRead(q)
  <2>1. [NoAdmin EXCEPT !.pc = "save", !.op = "unarchive", !.read = sw] \in AdminRequest
    BY NoAdminTyped DEF AdminRequest
  <2>2. QED
    BY <1>3, <2>1, AdminBeginTyped DEF UnarchiveRead
<1>4. ASSUME NEW u \in Users, CreateRead(q, u) PROVE AdminTyped'
  <2>1. [NoAdmin EXCEPT !.pc = "save", !.op = "create", !.user = u] \in AdminRequest
    BY NoAdminTyped DEF AdminRequest
  <2>2. QED
    BY <1>4, <2>1, AdminBeginTyped DEF CreateRead
<1>5. QED
  BY <1>1, <1>2, <1>3, <1>4

\* The steps that move a record request on.
LEMMA AdminMoveTyped ==
  ASSUME AdminTyped, NEW q \in AdminRequests, NEW i \in Nat, edits' = edits,
         NEW pc \in {"save", "bump", "audit"},
         \/ adm' = [adm EXCEPT ![q].pc = pc]
         \/ adm' = [adm EXCEPT ![q].pc = pc, ![q].row = i]
  PROVE  AdminTyped'
<1>1. adm[q] \in AdminRequest
  BY DEF AdminTyped
<1>2. /\ [adm[q] EXCEPT !.pc = pc] \in AdminRequest
      /\ [adm[q] EXCEPT !.pc = pc, !.row = i] \in AdminRequest
  BY <1>1 DEF AdminRequest
<1>3. \/ adm' = [adm EXCEPT ![q] = [adm[q] EXCEPT !.pc = pc]]
      \/ adm' = [adm EXCEPT ![q] = [adm[q] EXCEPT !.pc = pc, !.row = i]]
  OBVIOUS
<1>4. QED
  BY <1>2, <1>3, AdminPutTyped

\* Archiving closes at most one open row and ends, or waits for its save.
LEMMA ArchiveFindTyped ==
  ASSUME AdminTyped, open \subseteq Nat, NEW q \in AdminRequests, ArchiveFind(q)
  PROVE  AdminTyped'
<1>1. edits' = edits
  BY DEF ArchiveFind
<1>2. CASE AdminGoto(q, "save")
  BY <1>1, <1>2, AdminMoveTyped DEF AdminGoto
<1>3. ASSUME NEW i \in open, adm' = [adm EXCEPT ![q].pc = "save", ![q].row = i]
      PROVE  AdminTyped'
  BY <1>1, <1>3, AdminMoveTyped
<1>4. QED
  BY <1>1, <1>2, <1>3, AdminReturnTyped DEF ArchiveFind

-----------------------------------------------------------------------------
(* The license row and the assignment rows.                                *)

\* A row added behind the check of the index keeps the open rows apart.
LEMMA RowsApart ==
  ASSUME owner \in Seq(Users), open \subseteq 1..Len(owner), OneSeatPerUser,
         NEW u \in Users, IndexAdmits(u),
         owner' = Append(owner, u), open' = open \cup {Len(owner) + 1}
  PROVE  /\ OneSeatPerUser'
         /\ owner' \in Seq(Users) /\ open' \subseteq 1..Len(owner')
<1>1. /\ Len(owner) \in Nat /\ Len(owner') = Len(owner) + 1 /\ owner' \in Seq(Users)
      /\ owner'[Len(owner) + 1] = u
      /\ \A i \in 1..Len(owner) : owner'[i] = owner[i]
  OBVIOUS
<1>2. OneSeatPerUser'
  <2> DEFINE n == Len(owner) + 1
  <2>1. /\ \A i \in open : owner'[i] = owner[i] /\ owner'[i] # u
        /\ owner'[n] = u /\ open' = open \cup {n}
    BY <1>1 DEF IndexAdmits
  <2> HIDE DEF n
  <2>2. QED
    BY <2>1 DEF OneSeatPerUser
<1>3. \A n \in Nat : 1..n \cup {n + 1} \subseteq 1..(n + 1)
  OBVIOUS
<1>4. QED
  BY <1>1, <1>2, <1>3

\* The transactions of the seat service: the license stays within its seats
\* because they act on the numbers of the version they write.
LEMMA SeatCommitKeeps ==
  ASSUME LicenseInv, NEW r \in Requests, AssignCommit(r) \/ ReleaseCommit(r)
  PROVE  /\ ChargedWithinTotal' /\ OneSeatPerUser'
         /\ sw' = sw \/ (sw'.ver = sw.ver + 1 /\ sw'.archived = sw.archived)
<1>1. RestTyped /\ RequestsTyped /\ SeatSnapshot(r) /\ OneSeatPerUser /\ ChargedWithinTotal
  BY LicenseTypeSplit DEF LicenseInv
<1>2. req[r] \in Request /\ sw \in SoftwareRow
  BY <1>1 DEF RequestsTyped, RestTyped
<1>3. CASE AssignCommit(r)
  <2>1. req[r].used = sw.used /\ req[r].total = sw.total /\ sw.used < sw.total
    BY <1>1, <1>2, <1>3 DEF SeatSnapshot, AssignCommit, RowVersionMatches, At, Request,
       SoftwareRow
  <2>2. SeatsAfterAssign(r) \in Nat /\ SeatsAfterAssign(r) <= sw.total
    BY <1>2, <2>1 DEF SeatsAfterAssign, SoftwareRow
  <2>3. /\ sw'.used = SeatsAfterAssign(r) /\ sw'.total = sw.total /\ sw'.ver = sw.ver + 1
        /\ sw'.archived = sw.archived
    BY <1>2, <1>3, <2>2, WriteSeatsTyped DEF AssignCommit
  <2>4. req[r].user \in Users
    BY <1>1, <1>3 DEF RequestsTyped, RequestsHaveUsers, AssignCommit, At
  <2>5. OneSeatPerUser'
    BY <1>1, <1>3, <2>4, RowsApart DEF RestTyped, AssignCommit
  <2>6. QED
    BY <2>2, <2>3, <2>5 DEF ChargedWithinTotal
<1>4. CASE ReleaseCommit(r)
  <2>1. OneSeatPerUser'
    BY <1>1, <1>4 DEF ReleaseCommit, OneSeatPerUser
  <2>2. CASE SeatsAfterRelease(r) = req[r].used
    BY <1>1, <1>4, <2>1, <2>2 DEF ReleaseCommit, ChargedWithinTotal
  <2>3. CASE SeatsAfterRelease(r) # req[r].used
    <3>1. req[r].used = sw.used /\ req[r].used > 0
      BY <1>1, <1>2, <1>4, <2>3 DEF SeatSnapshot, ReleaseCommit, RowVersionMatches, At,
         SeatsAfterRelease, Request, SoftwareRow
    <3>2. SeatsAfterRelease(r) \in Nat /\ SeatsAfterRelease(r) <= sw.total
      BY <1>1, <1>2, <3>1 DEF SeatsAfterRelease, SoftwareRow, ChargedWithinTotal
    <3>3. /\ sw'.used = SeatsAfterRelease(r) /\ sw'.total = sw.total
          /\ sw'.ver = sw.ver + 1 /\ sw'.archived = sw.archived
      BY <1>2, <1>4, <2>3, <3>2, WriteSeatsTyped DEF ReleaseCommit
    <3>4. QED
      BY <2>1, <3>2, <3>3 DEF ChargedWithinTotal
  <2>4. QED
    BY <2>2, <2>3
<1>5. QED
  BY <1>3, <1>4

\* A seat request that does not move knows as much as before: of the row as it
\* is, or of an older version.
LEMMA SeatUnmoved ==
  ASSUME LicenseInv, NEW r \in Requests, req'[r] = req[r],
         sw' = sw \/ sw'.ver = sw.ver + 1
  PROVE  SeatSnapshot(r)'
<1>1. SeatSnapshot(r) /\ req[r] \in Request /\ sw.ver \in Nat
  BY DEF LicenseInv, LicenseTypeOK, SeatTypeOK, SoftwareRow
<1>2. CASE sw' = sw
  BY <1>1, <1>2 DEF SeatSnapshot
<1>3. CASE sw'.ver = sw.ver + 1
  BY <1>1, <1>3 DEF SeatSnapshot, Request
<1>4. QED
  BY <1>2, <1>3

\* Nor does a record request that does not move know less.
LEMMA AdminUnmoved ==
  ASSUME LicenseInv, NEW q \in AdminRequests, adm'[q] = adm[q],
         sw' = sw \/ sw'.ver = sw.ver + 1
  PROVE  AdminSnapshot(q)'
<1>1. /\ AdminSnapshot(q) /\ adm[q] \in AdminRequest /\ adm[q].read \in SoftwareRow
      /\ adm[q].read.ver \in Nat /\ sw.ver \in Nat
  BY DEF LicenseInv, LicenseTypeOK, SeatTypeOK, SoftwareRow, AdminRequest
<1>2. CASE sw' = sw
  BY <1>1, <1>2 DEF AdminSnapshot, AtAdmin
<1>3. CASE sw'.ver = sw.ver + 1
  BY <1>1, <1>3 DEF AdminSnapshot, AtAdmin
<1>4. QED
  BY <1>2, <1>3

\* A seat request outside of its attempt knows nothing it could be wrong about.
LEMMA SeatAtRest ==
  ASSUME NEW r, req[r].pc \in {"idle", "read", "bump", "audit"}
  PROVE  SeatSnapshot(r)
  BY DEF SeatSnapshot

-----------------------------------------------------------------------------
(* The steps of the seat requests.                                         *)

\* A step of the service writes one request; what it wrote must be sound.
LEMMA SeatLocal ==
  ASSUME LicenseInv, UNCHANGED sw, NEW r \in Requests,
         \A q \in Requests \ {r} : req'[q] = req[q], SeatSnapshot(r)'
  PROVE  \A q \in Requests : SeatSnapshot(q)'
  BY SeatUnmoved

\* The reads and checks of an assign.
LEMMA AssignKeeps ==
  ASSUME LicenseInv, NEW r \in Requests,
         AssignRead(r) \/ AssignCount(r) \/ AssignAlreadyOpen(r) \/ AssignDuplicate(r)
  PROVE  \A q \in Requests : SeatSnapshot(q)'
<1>1. /\ req \in [Requests -> Request] /\ req[r] \in Request /\ SeatSnapshot(r)
      /\ sw \in SoftwareRow
  BY DEF LicenseInv, LicenseTypeOK, SeatTypeOK
<1>2. sw' = sw /\ \A q \in Requests \ {r} : req'[q] = req[q]
  BY <1>1 DEF AssignRead, AssignCount, AssignAlreadyOpen, AssignDuplicate, TrackSoftware,
     Goto, Return
<1>3. CASE Return(r)
  BY <1>1, <1>2, <1>3, SeatLocal, IdleTyped, SeatAtRest DEF Return, SeatSnapshot
<1>4. CASE AssignRead(r) /\ ~Return(r)
  <2>1. /\ req'[r].used = sw.used /\ req'[r].total = sw.total /\ req'[r].ver = sw.ver
        /\ req'[r].pc = "count" /\ ~sw.archived /\ sw.used < sw.total
    BY <1>1, <1>4 DEF AssignRead, TrackSoftware, Request
  <2>2. SeatSnapshot(r)'
    BY <1>1, <1>2, <2>1 DEF SeatSnapshot, SoftwareRow
  <2>3. QED
    BY <1>2, <2>2, SeatLocal
<1>5. ASSUME NEW pc \in {"already", "save"}, Goto(r, pc), req[r].op = "assign",
             req[r].pc \in {"count", "already"}
      PROVE  \A q \in Requests : SeatSnapshot(q)'
  <2>1. /\ req'[r].used = req[r].used /\ req'[r].total = req[r].total
        /\ req'[r].ver = req[r].ver /\ req'[r].op = "assign" /\ req'[r].pc = pc
    BY <1>1, <1>5 DEF Goto, Request
  <2>2. SeatSnapshot(r)'
    BY <1>1, <1>2, <1>5, <2>1 DEF SeatSnapshot
  <2>3. QED
    BY <1>2, <2>2, SeatLocal
<1>6. QED
  BY <1>3, <1>4, <1>5 DEF AssignRead, AssignCount, AssignAlreadyOpen, AssignDuplicate, At

\* The read and the search of a release.
LEMMA ReleaseKeeps ==
  ASSUME LicenseInv, NEW r \in Requests, ReleaseRead(r) \/ ReleaseFind(r)
  PROVE  \A q \in Requests : SeatSnapshot(q)'
<1>1. /\ req \in [Requests -> Request] /\ req[r] \in Request /\ SeatSnapshot(r)
      /\ sw \in SoftwareRow
  BY DEF LicenseInv, LicenseTypeOK, SeatTypeOK
<1>2. sw' = sw /\ \A q \in Requests \ {r} : req'[q] = req[q]
  BY <1>1 DEF ReleaseRead, ReleaseFind, TrackSoftware, Return
<1>3. CASE ReleaseRead(r)
  <2>1. /\ req'[r].used = sw.used /\ req'[r].total = sw.total /\ req'[r].ver = sw.ver
        /\ req'[r].op = "release"
    BY <1>1, <1>3 DEF ReleaseRead, TrackSoftware, At, Request
  <2>2. SeatSnapshot(r)'
    BY <1>1, <1>2, <2>1 DEF SeatSnapshot, SoftwareRow
  <2>3. QED
    BY <1>2, <2>2, SeatLocal
<1>4. CASE ReleaseFind(r)
  <2>1. CASE Return(r)
    BY <1>1, <1>2, <2>1, SeatLocal, IdleTyped, SeatAtRest DEF Return, SeatSnapshot
  <2>2. ASSUME NEW i, req' = [req EXCEPT ![r].pc = "save", ![r].row = i]
        PROVE  \A q \in Requests : SeatSnapshot(q)'
    <3>1. /\ req'[r].used = req[r].used /\ req'[r].total = req[r].total
          /\ req'[r].ver = req[r].ver /\ req'[r].op = req[r].op
      BY <1>1, <2>2 DEF Request
    <3>2. At(r, "release", "find")
      BY <1>4 DEF ReleaseFind
    <3>3. SeatSnapshot(r)'
      BY <1>1, <1>2, <3>1, <3>2 DEF SeatSnapshot, At
    <3>4. QED
      BY <1>2, <3>3, SeatLocal
  <2>3. QED
    BY <1>4, <2>1, <2>2 DEF ReleaseFind
<1>5. QED
  BY <1>3, <1>4

\* A request that begins, tries again or ends knows nothing of the license yet,
\* or no longer.
LEMMA RestKeeps ==
  ASSUME LicenseInv, NEW r \in Requests,
         \/ \E u \in Users : BeginAssign(r, u) \/ BeginRelease(r, u)
         \/ SaveConflict(r) \/ WriteAudit(r) \/ Cancel(r)
  PROVE  \A q \in Requests : SeatSnapshot(q)'
<1>1. req \in [Requests -> Request] /\ req[r] \in Request
  BY SMTT(60) DEF LicenseInv, LicenseTypeOK, SeatTypeOK
<1>2. sw' = sw /\ \A q \in Requests \ {r} : req'[q] = req[q]
  BY <1>1 DEF BeginAssign, BeginRelease, Begin, SaveConflict, WriteAudit, Cancel, Reload, Return
<1>3. req'[r].pc \in {"idle", "read"}
  <2>1. ASSUME NEW op, NEW u, Begin(r, op, u) PROVE req'[r].pc = "read"
    BY <1>1, <2>1 DEF Begin, Idle
  <2>2. Reload(r) => req'[r].pc = "read"
    BY <1>1 DEF Reload, Request
  <2>3. Return(r) => req'[r].pc = "idle"
    BY <1>1, IdleTyped DEF Return
  <2>4. QED
    BY <2>1, <2>2, <2>3 DEF BeginAssign, BeginRelease, SaveConflict, WriteAudit, Cancel
<1>4. SeatSnapshot(r)'
  BY <1>3 DEF SeatSnapshot
<1>5. QED
  BY <1>2, <1>4, SeatLocal

\* Every step of the service keeps its part of the license's invariant.
LEMMA SeatStepKeeps ==
  ASSUME LicenseInv, [SeatNext]_seatVars
  PROVE  /\ ChargedWithinTotal' /\ OneSeatPerUser'
         /\ \A r \in Requests : SeatSnapshot(r)'
         /\ sw' = sw \/ sw'.ver = sw.ver + 1
<1>1. req \in [Requests -> Request] /\ \A r \in Requests : req[r] \in Request
  BY DEF LicenseInv, LicenseTypeOK, SeatTypeOK
<1>2. /\ ChargedWithinTotal' /\ OneSeatPerUser'
      /\ sw' = sw \/ sw'.ver = sw.ver + 1
  <2>1. CASE UNCHANGED <<sw, owner, open>>
    BY <2>1 DEF LicenseInv, ChargedWithinTotal, OneSeatPerUser
  <2>2. QED
    BY <2>1, RowsStep, SeatCommitKeeps
<1>3. ASSUME NEW r \in Requests, AssignSave(r) \/ ReleaseSave(r) \/ Bump(r) \/ SaveLostAck(r)
      PROVE  \A q \in Requests : SeatSnapshot(q)'
  <2>1. \A q \in Requests : req'[q] = req[q] \/ req'[q].pc \in {"bump", "audit"}
    BY <1>1, <1>3 DEF AssignSave, ReleaseSave, Bump, SaveLostAck, Goto, Request
  <2>2. \A q \in Requests : req'[q].pc \in {"bump", "audit"} => SeatSnapshot(q)'
    BY DEF SeatSnapshot
  <2>3. QED
    BY <1>2, <2>1, <2>2, SeatUnmoved
<1>4. UNCHANGED <<sw, req>> => \A q \in Requests : SeatSnapshot(q)'
  BY SeatUnmoved
<1>5. \A r \in Requests : SeatSnapshot(r)'
  BY <1>3, <1>4, AssignKeeps, ReleaseKeeps, RestKeeps
     DEF SeatNext, Step, seatVars, ArchiveUser, UnarchiveUser
<1>6. QED
  BY <1>2, <1>5

-----------------------------------------------------------------------------
(* The steps of the record requests.                                       *)

\* A step of a record request that opens no seat and moves the license, if at
\* all, to a new version within its seats.
LEMMA AdminLocal ==
  ASSUME LicenseInv, NEW q \in AdminRequests, AdminTyped',
         UNCHANGED <<owner, archivedUsers, faults, req>>,
         open' \subseteq open, audit' \subseteq AuditRecord, sw' \in SoftwareRow, stamp' \in Nat, ChargedWithinTotal',
         sw' = sw \/ sw'.ver = sw.ver + 1,
         \A p \in AdminRequests \ {q} : adm'[p] = adm[p],
         AdminSnapshot(q)'
  PROVE  LicenseInv'
<1>1. RestTyped /\ RequestsTyped /\ OneSeatPerUser
  BY LicenseTypeSplit DEF LicenseInv
<1>2. RestTyped' /\ RequestsTyped' /\ OneSeatPerUser'
  BY <1>1 DEF RestTyped, RequestsTyped, RequestsHaveUsers, OneSeatPerUser
<1>3. LicenseTypeOK' /\ RequestsHaveUsers'
  BY <1>2 DEF LicenseTypeOK, SeatTypeOK, RestTyped, RequestsTyped, AdminTyped
<1>4. \A r \in Requests : SeatSnapshot(r)'
  BY SeatUnmoved
<1>5. \A p \in AdminRequests : AdminSnapshot(p)'
  BY AdminUnmoved
<1>6. QED
  BY <1>2, <1>3, <1>4, <1>5 DEF LicenseInv

\* A record request that has ended knows nothing.
LEMMA AdminAtRest ==
  ASSUME NEW q, adm[q] = NoAdmin
  PROVE  AdminSnapshot(q)
  BY NoAdminTyped DEF AdminSnapshot, AtAdmin

\* The four requests as they begin.
LEMMA AdminReadKeeps ==
  ASSUME LicenseInv, NEW q \in AdminRequests,
         \/ EditRead(q) \/ ArchiveRead(q) \/ UnarchiveRead(q)
         \/ \E u \in Users : CreateRead(q, u)
  PROVE  LicenseInv'
<1>1. /\ adm \in [AdminRequests -> AdminRequest] /\ sw \in SoftwareRow /\ stamp \in Nat
      /\ ChargedWithinTotal /\ AdminTyped
  BY DEF LicenseInv, LicenseTypeOK, SeatTypeOK, AdminTyped
<1>2. UNCHANGED seatVars
  BY DEF EditRead, ArchiveRead, UnarchiveRead, CreateRead, AdminBegin
<1>3. \A p \in AdminRequests \ {q} : adm'[p] = adm[p]
  BY <1>1 DEF EditRead, ArchiveRead, UnarchiveRead, CreateRead, AdminBegin
<1>4. AdminSnapshot(q)'
  <2>1. CASE EditRead(q)
    <3>1. PICK total \in 0..MaxTotal : \E used \in 0..total :
            AdminBegin(q, [NoAdmin EXCEPT !.pc = "save", !.op = "edit", !.read = sw,
                                          !.total = total, !.used = used])
      BY <2>1 DEF EditRead
    <3>2. PICK used \in 0..total :
            AdminBegin(q, [NoAdmin EXCEPT !.pc = "save", !.op = "edit", !.read = sw,
                                          !.total = total, !.used = used])
      BY <3>1
    <3>3. adm'[q] = [NoAdmin EXCEPT !.pc = "save", !.op = "edit", !.read = sw,
                                    !.total = total, !.used = used]
      BY <1>1, <3>2 DEF AdminBegin
    <3>4. /\ adm'[q].read = sw /\ adm'[q].op = "edit"
          /\ adm'[q].used = used /\ adm'[q].total = total /\ used <= total
      BY <3>3, LicenseAssumption DEF NoAdmin
    <3>5. QED
      BY <1>1, <1>2, <3>4 DEF AdminSnapshot, AtAdmin, SoftwareRow, seatVars
  <2>2. CASE ArchiveRead(q) \/ UnarchiveRead(q)
    <3>1. adm'[q].read = sw /\ adm'[q].op \in {"archive", "unarchive"}
      BY <1>1, <2>2 DEF ArchiveRead, UnarchiveRead, AdminBegin, NoAdmin
    <3>2. QED
      BY <1>1, <1>2, <3>1 DEF AdminSnapshot, AtAdmin, SoftwareRow, seatVars
  <2>3. ASSUME NEW u \in Users, CreateRead(q, u) PROVE AdminSnapshot(q)'
    <3>1. adm'[q].op = "create" /\ adm'[q].user = u
      BY <1>1, <2>3 DEF CreateRead, AdminBegin, NoAdmin
    <3>2. QED
      BY <3>1 DEF AdminSnapshot, AtAdmin
  <2>4. QED
    BY <2>1, <2>2, <2>3
<1>5. AdminTyped'
  BY <1>1, AdminReadTyped
<1>6. ChargedWithinTotal'
  BY <1>1, <1>2 DEF seatVars, ChargedWithinTotal
<1>7. QED
  BY <1>1, <1>2, <1>3, <1>4, <1>5, <1>6, AdminLocal
     DEF seatVars, LicenseInv, LicenseTypeOK, SeatTypeOK

\* A record request that ends is well typed and knows nothing any more.
LEMMA AdminEnds ==
  ASSUME LicenseInv, NEW q \in AdminRequests, AdminReturn(q), edits' = edits
  PROVE  /\ AdminTyped' /\ AdminSnapshot(q)'
         /\ \A p \in AdminRequests \ {q} : adm'[p] = adm[p]
<1>1. AdminTyped
  BY DEF LicenseInv, LicenseTypeOK, AdminTyped
<1>2. adm'[q] = NoAdmin /\ \A p \in AdminRequests \ {q} : adm'[p] = adm[p]
  BY <1>1 DEF AdminReturn, AdminTyped
<1>3. AdminSnapshot(q)'
  BY <1>2, NoAdminTyped DEF AdminSnapshot, AtAdmin
<1>4. QED
  BY <1>1, <1>2, <1>3, AdminReturnTyped

\* A record request whose transaction has committed knows its user at most.
LEMMA AdminCommitted ==
  ASSUME LicenseInv, NEW q \in AdminRequests, AdminGoto(q, "bump"), edits' = edits
  PROVE  /\ AdminTyped' /\ AdminSnapshot(q)'
         /\ \A p \in AdminRequests \ {q} : adm'[p] = adm[p]
<1>1. AdminTyped /\ AdminSnapshot(q) /\ adm[q] \in AdminRequest
  BY DEF LicenseInv, LicenseTypeOK, AdminTyped
<1>2. /\ adm' = [adm EXCEPT ![q].pc = "bump"] /\ adm'[q].pc = "bump"
      /\ adm'[q].op = adm[q].op /\ adm'[q].user = adm[q].user
      /\ \A p \in AdminRequests \ {q} : adm'[p] = adm[p]
  BY <1>1 DEF AdminGoto, AdminTyped, AdminRequest
<1>3. AdminSnapshot(q)'
  BY <1>1, <1>2 DEF AdminSnapshot, AtAdmin
<1>4. QED
  BY <1>1, <1>2, <1>3, AdminMoveTyped

\* An edit that commits writes over the numbers it has compared: all of them are
\* those of the version it read, so the two it leaves behind fit.
LEMMA EditSaveKeeps ==
  ASSUME LicenseInv, NEW q \in AdminRequests, EditSave(q)
  PROVE  LicenseInv'
<1>1. /\ adm \in [AdminRequests -> AdminRequest] /\ sw \in SoftwareRow /\ stamp \in Nat
      /\ adm[q] \in AdminRequest /\ AdminSnapshot(q) /\ ChargedWithinTotal /\ AdminTyped
  BY DEF LicenseInv, LicenseTypeOK, SeatTypeOK, AdminTyped
<1>2. AtAdmin(q, "edit", "save") /\ AdminGoto(q, "bump") /\ edits' = edits
  BY DEF EditSave
<1>3. AdminTyped' /\ AdminSnapshot(q)' /\ \A p \in AdminRequests \ {q} : adm'[p] = adm[p]
  BY <1>2, AdminCommitted
<1>4. /\ sw' \in SoftwareRow /\ ChargedWithinTotal'
      /\ sw' = sw \/ sw'.ver = sw.ver + 1
  <2>1. CASE UNCHANGED sw
    BY <1>1, <2>1 DEF ChargedWithinTotal
  <2>2. CASE ~UNCHANGED sw
    <3>1. AdminVersionMatches(q)
      BY <2>2 DEF EditSave
    <3>2. adm[q].read = sw /\ adm[q].used <= adm[q].total
      BY <1>1, <1>2, <3>1 DEF AdminSnapshot, AtAdmin, AdminVersionMatches
    <3>3. PICK t \in Nat, u \in Nat :
            /\ t = adm[q].total /\ u = adm[q].used
            /\ sw' = [sw EXCEPT !.total = t, !.used = u, !.ver = sw.ver + 1]
      BY ZenonT(60), <1>1, <2>2, <3>2 DEF EditSave, AdminRequest, SoftwareRow
    <3>4. sw.ver + 1 \in Nat
      BY <1>1 DEF SoftwareRow
    <3>5. sw' \in SoftwareRow /\ sw'.used = u /\ sw'.total = t /\ sw'.ver = sw.ver + 1
      BY <1>1, <3>3, <3>4 DEF SoftwareRow
    <3>6. QED
      BY <3>2, <3>3, <3>5 DEF ChargedWithinTotal
  <2>3. QED
    BY <2>1, <2>2
<1>5. /\ UNCHANGED <<owner, open, archivedUsers, audit, stamp, faults, req>> /\ stamp' \in Nat
      /\ audit \subseteq AuditRecord
  BY <1>1, <1>2 DEF EditSave, LicenseInv, LicenseTypeOK, SeatTypeOK
<1>6. QED
  BY <1>3, <1>4, <1>5, AdminLocal

\* Archiving and unarchiving leave both numbers of the license alone.
LEMMA ArchiveKeeps ==
  ASSUME LicenseInv, NEW q \in AdminRequests,
         ArchiveSave(q) \/ UnarchiveSave(q) \/ AdminConflict(q)
  PROVE  LicenseInv'
<1>1. /\ sw \in SoftwareRow /\ sw.ver \in Nat /\ stamp \in Nat /\ ChargedWithinTotal
      /\ audit \subseteq AuditRecord
  BY DEF LicenseInv, LicenseTypeOK, SeatTypeOK, SoftwareRow
<1>2. /\ UNCHANGED <<owner, archivedUsers, audit, faults, req, edits>>
      /\ open' \subseteq open /\ (AdminReturn(q) \/ AdminGoto(q, "bump"))
      /\ stamp' = stamp
  BY DEF ArchiveSave, UnarchiveSave, AdminConflict, seatVars
<1>3. \/ sw' = sw
      \/ \E b \in BOOLEAN : sw' = [sw EXCEPT !.archived = b, !.ver = sw.ver + 1]
  BY DEF ArchiveSave, UnarchiveSave, AdminConflict, seatVars
<1>4. /\ sw' \in SoftwareRow /\ sw'.used = sw.used /\ sw'.total = sw.total
      /\ sw' = sw \/ sw'.ver = sw.ver + 1
  <2>1. ASSUME NEW b \in BOOLEAN, NEW v \in Nat, sw' = [sw EXCEPT !.archived = b, !.ver = v]
        PROVE  /\ sw' \in SoftwareRow /\ sw'.ver = v
               /\ sw'.used = sw.used /\ sw'.total = sw.total
    BY <1>1, <2>1 DEF SoftwareRow
  <2>2. sw.ver + 1 \in Nat
    BY <1>1
  <2>3. QED
    BY <1>1, <1>3, <2>1, <2>2
<1>5. ChargedWithinTotal' /\ stamp' \in Nat
  BY <1>1, <1>2, <1>4 DEF ChargedWithinTotal
<1>6. QED
  BY <1>1, <1>2, <1>4, <1>5, AdminEnds, AdminCommitted, AdminLocal

\* Looking for the seat to close changes what the request knows in nothing.
LEMMA ArchiveFindKeeps ==
  ASSUME LicenseInv, NEW q \in AdminRequests, ArchiveFind(q)
  PROVE  LicenseInv'
<1>1. /\ sw \in SoftwareRow /\ stamp \in Nat /\ ChargedWithinTotal
      /\ audit \subseteq AuditRecord /\ AdminTyped /\ owner \in Seq(Users)
      /\ open \subseteq 1..Len(owner) /\ AdminSnapshot(q)
  BY DEF LicenseInv, LicenseTypeOK, SeatTypeOK, AdminTyped
<1>2. UNCHANGED <<seatVars, edits>> /\ AtAdmin(q, "archive", "find")
  BY DEF ArchiveFind
<1>3. AdminTyped'
  BY <1>1, ArchiveFindTyped
<1>4. /\ \A p \in AdminRequests \ {q} : adm'[p] = adm[p]
      /\ AdminSnapshot(q)'
  <2>1. CASE AdminReturn(q)
    BY <1>2, <2>1, AdminEnds
  <2>2. CASE \/ adm' = [adm EXCEPT ![q].pc = "save"]
             \/ \E i \in open : adm' = [adm EXCEPT ![q].pc = "save", ![q].row = i]
    <3>1. /\ \A p \in AdminRequests \ {q} : adm'[p] = adm[p]
          /\ adm'[q].read = adm[q].read /\ adm'[q].op = adm[q].op
      BY <1>1, <2>2 DEF AdminTyped, AdminRequest
    <3>2. AdminSnapshot(q)'
      BY <1>1, <1>2, <3>1 DEF AdminSnapshot, AtAdmin, seatVars
    <3>3. QED
      BY <3>1, <3>2
  <2>3. QED
    BY <2>1, <2>2 DEF ArchiveFind, AdminGoto
<1>5. QED
  BY <1>1, <1>2, <1>3, <1>4, AdminLocal DEF seatVars, ChargedWithinTotal

\* The generic create writes neither number; its row goes through the index.
LEMMA CreateSaveKeeps ==
  ASSUME LicenseInv, NEW q \in AdminRequests, CreateSave(q)
  PROVE  LicenseInv'
<1>1. /\ RestTyped /\ RequestsTyped /\ AdminTyped /\ OneSeatPerUser /\ AdminSnapshot(q)
      /\ owner \in Seq(Users) /\ open \subseteq 1..Len(owner) /\ ChargedWithinTotal
  BY LicenseTypeSplit DEF LicenseInv, RestTyped
<1>2. /\ UNCHANGED <<sw, archivedUsers, audit, stamp, faults, req, edits>>
      /\ AtAdmin(q, "create", "save") /\ adm[q].user \in Users
  BY <1>1 DEF CreateSave, AdminSnapshot, AtAdmin
<1>3. CASE AdminReturn(q) /\ UNCHANGED <<owner, open>>
  BY <1>1, <1>2, <1>3, AdminEnds, AdminLocal DEF RestTyped, ChargedWithinTotal
<1>4. CASE ~(AdminReturn(q) /\ UNCHANGED <<owner, open>>)
  <2>1. /\ IndexAdmits(adm[q].user)
        /\ owner' = Append(owner, adm[q].user) /\ open' = open \cup {Len(owner) + 1}
        /\ adm' = [adm EXCEPT ![q].pc = "bump", ![q].row = Len(owner')]
    BY <1>4 DEF CreateSave
  <2>2. OneSeatPerUser' /\ owner' \in Seq(Users) /\ open' \subseteq 1..Len(owner')
    BY <1>1, <1>2, <2>1, RowsApart
  <2>3. Len(owner') \in Nat
    BY <2>2
  <2>4. AdminTyped'
    BY <1>1, <1>2, <2>1, <2>3, AdminMoveTyped
  <2>5. RestTyped' /\ RequestsTyped'
    BY <1>1, <1>2, <2>1, <2>2 DEF RestTyped, RequestsTyped, RequestsHaveUsers
  <2>6. /\ \A p \in AdminRequests \ {q} : adm'[p] = adm[p]
        /\ adm'[q].op = "create" /\ adm'[q].user = adm[q].user
    BY <1>1, <1>2, <2>1 DEF AdminTyped, AdminRequest, AtAdmin
  <2>7. \A p \in AdminRequests : AdminSnapshot(p)'
    <3>1. AdminSnapshot(q)'
      BY <1>2, <2>6 DEF AdminSnapshot, AtAdmin
    <3>2. QED
      BY <1>2, <2>6, <3>1, AdminUnmoved
  <2>8. \A r \in Requests : SeatSnapshot(r)'
    BY <1>2, SeatUnmoved
  <2>9. ChargedWithinTotal'
    BY <1>1, <1>2 DEF ChargedWithinTotal
  <2>10. QED
    <3>1. LicenseTypeOK' /\ RequestsHaveUsers'
      BY <2>4, <2>5 DEF LicenseTypeOK, SeatTypeOK, RestTyped, RequestsTyped, AdminTyped
    <3>2. QED
      BY <2>2, <2>7, <2>8, <2>9, <3>1 DEF LicenseInv
<1>5. QED
  BY <1>3, <1>4

\* Bumping the stamp touches neither the license nor its rows.
LEMMA AdminBumpKeeps ==
  ASSUME LicenseInv, NEW q \in AdminRequests, AdminBump(q)
  PROVE  LicenseInv'
<1>1. /\ sw \in SoftwareRow /\ stamp \in Nat /\ ChargedWithinTotal
      /\ audit \subseteq AuditRecord /\ AdminTyped /\ AdminSnapshot(q)
      /\ adm[q] \in AdminRequest
  BY DEF LicenseInv, LicenseTypeOK, SeatTypeOK, AdminTyped
<1>2. /\ UNCHANGED <<sw, owner, open, archivedUsers, audit, faults, req, edits>>
      /\ stamp' \in Nat /\ ChargedWithinTotal'
  BY <1>1 DEF AdminBump, BumpAssets, ChargedWithinTotal
<1>3. CASE AdminReturn(q)
  BY <1>1, <1>2, <1>3, AdminEnds, AdminLocal
<1>4. CASE AdminGoto(q, "audit") /\ adm[q].op = "create"
  <2>1. /\ adm' = [adm EXCEPT ![q].pc = "audit"] /\ adm'[q].pc = "audit"
        /\ adm'[q].op = adm[q].op /\ adm'[q].user = adm[q].user
        /\ \A p \in AdminRequests \ {q} : adm'[p] = adm[p]
    BY <1>1, <1>4 DEF AdminGoto, AdminTyped, AdminRequest
  <2>2. AdminTyped'
    BY <1>1, <1>2, <2>1, AdminMoveTyped
  <2>3. AdminSnapshot(q)'
    BY <1>1, <1>4, <2>1 DEF AdminSnapshot, AtAdmin
  <2>4. QED
    BY <1>1, <1>2, <2>1, <2>2, <2>3, AdminLocal
<1>5. QED
  BY <1>3, <1>4 DEF AdminBump

\* Its audit record touches neither the license nor its rows.
LEMMA CreateAuditKeeps ==
  ASSUME LicenseInv, NEW q \in AdminRequests, CreateAudit(q)
  PROVE  LicenseInv'
<1>1. /\ sw \in SoftwareRow /\ stamp \in Nat /\ ChargedWithinTotal
      /\ audit \subseteq AuditRecord /\ adm[q].row \in Nat
  BY DEF LicenseInv, LicenseTypeOK, SeatTypeOK, AdminRequest
<1>2. /\ UNCHANGED <<sw, owner, open, archivedUsers, stamp, faults, req, edits>>
      /\ AdminReturn(q) /\ audit' \subseteq AuditRecord
  BY <1>1 DEF CreateAudit, AuditRecord
<1>3. QED
  BY <1>1, <1>2, AdminEnds, AdminLocal DEF ChargedWithinTotal

\* Closing an assignment is the beginning of a release for the row's owner.
LEMMA CloseKeeps ==
  ASSUME LicenseInv, NEW r \in Requests, NEW i \in open, CloseAssignment(r, i)
  PROVE  LicenseInv'
<1>1. /\ RestTyped /\ RequestsTyped /\ AdminTyped /\ ChargedWithinTotal /\ OneSeatPerUser
      /\ owner[i] \in Users /\ req \in [Requests -> Request]
  <2>1. /\ RestTyped /\ RequestsTyped /\ AdminTyped /\ ChargedWithinTotal /\ OneSeatPerUser
        /\ owner \in Seq(Users) /\ open \subseteq 1..Len(owner)
    BY LicenseTypeSplit DEF LicenseInv, RestTyped
  <2>2. \A n \in 1..Len(owner) : owner[n] \in Users
    BY <2>1
  <2>3. QED
    BY <2>1, <2>2 DEF RequestsTyped
<1> DEFINE x == [Idle EXCEPT !.op = "release", !.pc = "read", !.user = owner[i],
                             !.attempt = 1]
<1>2. /\ req' = [req EXCEPT ![r] = x]
      /\ UNCHANGED <<sw, owner, open, archivedUsers, audit, stamp, faults, adm>>
      /\ edits < MaxEdits /\ edits' = edits + 1
  BY DEF CloseAssignment
<1>3. x \in Request /\ x.user \in Users /\ x.pc = "read"
  <2>1. 0 \in Nat /\ 1 \in 0..MaxRetries
    BY NumbersAssumption
  <2>2. QED
    BY <1>1, <2>1 DEF Idle, Request
<1> HIDE DEF x
<1>4. RequestsTyped'
  BY <1>1, <1>2, <1>3, PutTyped
<1>5. RestTyped' /\ AdminTyped' /\ ChargedWithinTotal' /\ OneSeatPerUser'
  BY <1>1, <1>2, LicenseAssumption
     DEF RestTyped, AdminTyped, ChargedWithinTotal, OneSeatPerUser
<1>6. \A q \in Requests : SeatSnapshot(q)'
  <2>1. req'[r].pc = "read" /\ \A q \in Requests \ {r} : req'[q] = req[q]
    BY <1>1, <1>2, <1>3
  <2>2. SeatSnapshot(r)'
    BY <2>1 DEF SeatSnapshot
  <2>3. QED
    BY <1>2, <2>1, <2>2, SeatLocal
<1>7. \A q \in AdminRequests : AdminSnapshot(q)'
  BY <1>2, AdminUnmoved
<1>8. LicenseTypeOK' /\ RequestsHaveUsers'
  BY <1>4, <1>5 DEF LicenseTypeOK, SeatTypeOK, RestTyped, RequestsTyped, AdminTyped
<1>9. QED
  BY <1>5, <1>6, <1>7, <1>8 DEF LicenseInv

-----------------------------------------------------------------------------
(* The theorems.                                                           *)

\* A record request takes the license from one sound state to another.
LEMMA AdminStepKeeps ==
  ASSUME LicenseInv, NEW q \in AdminRequests, AdminStep(q)
  PROVE  LicenseInv'
  BY AdminReadKeeps, EditSaveKeeps, ArchiveKeeps, ArchiveFindKeeps, CreateSaveKeeps,
     AdminBumpKeeps, CreateAuditKeeps DEF AdminStep

\* So does the seat service next to it.
LEMMA ServiceStepKeeps ==
  ASSUME LicenseInv, [SeatNext]_seatVars, UNCHANGED <<adm, edits>>
  PROVE  LicenseInv'
<1>1. Typed /\ AdminTyped
  BY DEF LicenseInv, LicenseTypeOK, Typed, AdminTyped
<1>2. Typed'
  BY <1>1, TypedStep
<1>3. AdminTyped'
  BY <1>1 DEF AdminTyped
<1>4. LicenseTypeOK' /\ RequestsHaveUsers'
  BY <1>2, <1>3 DEF Typed, LicenseTypeOK, AdminTyped
<1>5. \A q \in AdminRequests : AdminSnapshot(q)'
  BY SeatStepKeeps, AdminUnmoved
<1>6. QED
  BY <1>4, <1>5, SeatStepKeeps DEF LicenseInv

\* Every step keeps the invariant of the license.
LEMMA LicenseInvStep == LicenseInv /\ [LicenseNext]_licenseVars => LicenseInv'
<1> SUFFICES ASSUME LicenseInv, [LicenseNext]_licenseVars PROVE LicenseInv'
  OBVIOUS
<1>1. CASE UNCHANGED licenseVars
  BY <1>1, ServiceStepKeeps DEF licenseVars
<1>2. QED
  BY <1>1, ServiceStepKeeps, AdminStepKeeps, CloseKeeps DEF LicenseNext

\* A new license charges nothing, and nobody has read it.
LEMMA LicenseInvInit == LicenseInit => LicenseInv
<1> SUFFICES ASSUME LicenseInit PROVE LicenseInv
  OBVIOUS
<1>1. SeatTypeOK /\ RequestsHaveUsers
  BY TypedInit DEF LicenseInit, Typed
<1>2. LicenseTypeOK
  BY <1>1, NoAdminTyped, LicenseAssumption DEF LicenseInit, LicenseTypeOK
<1>3. ChargedWithinTotal /\ OneSeatPerUser
  BY NumbersAssumption DEF LicenseInit, SeatInit, ChargedWithinTotal, OneSeatPerUser
<1>4. \A r \in Requests : SeatSnapshot(r)
  BY IdleTyped, SeatAtRest DEF LicenseInit, SeatInit
<1>5. \A q \in AdminRequests : AdminSnapshot(q)
  BY AdminAtRest DEF LicenseInit
<1>6. QED
  BY <1>1, <1>2, <1>3, <1>4, <1>5 DEF LicenseInv

\* LicenseInv holds in every behaviour of the license and its endpoints.
LEMMA LicenseInvariant == LicenseSpec => []LicenseInv
  BY LicenseInvInit, LicenseInvStep, PTL DEF LicenseSpec

\* The rows and the requests of both kinds keep their types.
THEOREM LicenseTypeCorrect == LicenseSpec => []LicenseTypeOK
<1>1. LicenseInv => LicenseTypeOK
  BY DEF LicenseInv
<1>2. QED
  BY <1>1, LicenseInvariant, PTL

\* Whatever edits, grants, releases and archivings interleave, and although the
\* generic create grants without looking at the capacity, the license row never
\* charges more seats than it has.
THEOREM NeverChargedBeyondTotal == LicenseSpec => []ChargedWithinTotal
<1>1. LicenseInv => ChargedWithinTotal
  BY DEF LicenseInv
<1>2. QED
  BY <1>1, LicenseInvariant, PTL

\* The index keeps a user to one open seat, for the seat service and the generic
\* create alike.
THEOREM OneSeatOnEveryPath == LicenseSpec => []OneSeatPerUser
<1>1. LicenseInv => OneSeatPerUser
  BY DEF LicenseInv
<1>2. QED
  BY <1>1, LicenseInvariant, PTL

\* Only the save of the assign itself takes a request past it.
LEMMA GrantIsAssignSave ==
  ASSUME LicenseInv, [LicenseNext]_licenseVars, NEW r \in Requests,
         At(r, "assign", "save"), At(r, "assign", "bump")'
  PROVE  AssignSave(r)
<1>1. /\ req \in [Requests -> Request] /\ req[r] \in Request
      /\ req[r].op = "assign" /\ req[r].pc = "save"
      /\ req'[r].op = "assign" /\ req'[r].pc = "bump"
  BY DEF LicenseInv, LicenseTypeOK, SeatTypeOK, At
<1>2. req' # req
  BY <1>1
<1>3. ASSUME NEW q \in Requests, NEW op, NEW u, Begin(q, op, u) PROVE FALSE
  BY <1>1, <1>3 DEF Begin, Idle
<1>4. ASSUME NEW q \in Requests, NEW i \in open, CloseAssignment(q, i) PROVE FALSE
  BY <1>1, <1>4 DEF CloseAssignment, Idle
<1>5. ASSUME NEW q \in Requests, NEW pc \in {"count", "find", "already", "save", "audit"},
             Goto(q, pc) \/ TrackSoftware(q, pc)
               \/ \E i : req' = [req EXCEPT ![q].pc = pc, ![q].row = i]
      PROVE  FALSE
  <2>1. q # r => req'[r] = req[r]
    BY <1>1, <1>5 DEF Goto, TrackSoftware
  <2>2. q = r => req'[r].pc = pc
    BY <1>1, <1>5 DEF Goto, TrackSoftware, Request
  <2>3. QED
    BY <1>1, <2>1, <2>2
<1>6. ASSUME NEW q \in Requests, Return(q) \/ Reload(q) PROVE FALSE
  <2>1. q # r => req'[r] = req[r]
    BY <1>1, <1>6 DEF Return, Reload
  <2>2. q = r => req'[r].pc \in {"idle", "read"}
    BY <1>1, <1>6, IdleTyped DEF Return, Reload, Request
  <2>3. QED
    BY <1>1, <2>1, <2>2
<1>7. ASSUME NEW q \in Requests, ReleaseSave(q) PROVE FALSE
  BY <1>1, <1>7 DEF ReleaseSave, ReleaseCommit, Goto, At
<1>8. ASSUME NEW q \in Requests, AssignSave(q) PROVE q = r
  BY <1>1, <1>8 DEF AssignSave
<1>9. ASSUME NEW q \in Requests, Step(q) PROVE AssignSave(r)
  BY <1>5, <1>6, <1>7, <1>8, <1>9 DEF Step, AssignRead, AssignCount, AssignAlreadyOpen,
     ReleaseRead, ReleaseFind, SaveConflict, AssignDuplicate, WriteAudit, Bump
<1>10. ASSUME NEW q \in AdminRequests, AdminStep(q) PROVE UNCHANGED req
  BY <1>10 DEF AdminStep, EditRead, EditSave, ArchiveRead, ArchiveFind, ArchiveSave,
     UnarchiveRead, UnarchiveSave, AdminConflict, CreateRead, CreateSave, CreateAudit,
     AdminBump, AdminBegin, seatVars
<1>11. ASSUME SeatNext PROVE AssignSave(r)
  BY <1>2, <1>3, <1>6, <1>9, <1>11 DEF SeatNext, BeginAssign, BeginRelease, SaveLostAck,
     Cancel, ArchiveUser, UnarchiveUser
<1>12. QED
  BY <1>2, <1>4, <1>10, <1>11 DEF LicenseNext, licenseVars, seatVars

\* A grant that commits finds the license as its read found it, and that was not
\* archived: archiving in between moves the row version.
THEOREM ArchivedLicenseGrantsNothing == LicenseSpec => NoGrantOnArchivedLicense
<1>1. ASSUME LicenseInv, [LicenseNext]_licenseVars
      PROVE  [\A r \in Requests : At(r, "assign", "save") /\ At(r, "assign", "bump")'
                                    => ~sw.archived]_licenseVars
  <2>1. ASSUME NEW r \in Requests, At(r, "assign", "save"), At(r, "assign", "bump")'
        PROVE  ~sw.archived
    <3>1. AssignSave(r)
      BY <1>1, <2>1, GrantIsAssignSave
    <3>2. SeatSnapshot(r) /\ RowVersionMatches(r)
      BY <1>1, <3>1 DEF LicenseInv, AssignSave, AssignCommit
    <3>3. QED
      BY <2>1, <3>2 DEF SeatSnapshot, RowVersionMatches, At
  <2>2. QED
    BY <2>1
<1>2. QED
  BY <1>1, LicenseInvariant, PTL DEF LicenseSpec, NoGrantOnArchivedLicense

-----------------------------------------------------------------------------
(* The cached lists (AssetList).                                           *)

\* What is kept under a key, and what requests that share the key have read
\* and not yet written, shows the changes up to floor.
NewEnough(ls, rd, k, floor) ==
    /\ \A o \in 1..Len(ls) : ls[o].key = k =>
         /\ ls[o].row >= floor
         /\ ls[o].chips = 0 \/ ls[o].chips >= floor
    /\ \A m \in Readers : rd[m].key = k /\ rd[m].pc \in {"store", "fill"} =>
         rd[m].at >= floor

\* ListsShowSettledSeats made inductive: whatever a request has in hand, or
\* will find under the key it shares with others, is new enough for it, and
\* whatever is kept under the present stamp is new enough for those to come.
ListInv ==
    /\ ListTypeOK
    /\ NewEnough(lists, reader, stamp, settled)
    /\ \A o \in 1..Len(lists) : lists[o].key <= stamp
    /\ \A m \in Readers :
         /\ reader[m].key <= stamp
         /\ reader[m].floor <= settled
         /\ NewEnough(lists, reader, reader[m].key, reader[m].floor)
         /\ reader[m].pc \in {"hydrate", "fill", "answered"} =>
              lists[reader[m].list].key = reader[m].key

\* Every list request and every list read is well typed, one by one.
LEMMA ListTypes ==
  ASSUME ListTypeOK
  PROVE  /\ Len(lists) \in Nat /\ commits \in Nat /\ settled \in Nat /\ settled <= commits
         /\ \A o \in 1..Len(lists) : lists[o] \in AssetRows
         /\ \A l \in Readers : reader[l] \in ListRequest
<1>1. lists \in Seq(AssetRows)
  BY DEF ListTypeOK
<1>2. \A o \in 1..Len(lists) : lists[o] \in AssetRows
  BY <1>1
<1>3. QED
  BY <1>1, <1>2 DEF ListTypeOK

\* The stamp moves by one or not at all, and by one when a request bumps it.
LEMMA StampStep ==
  ASSUME LicenseInv, [LicenseNext]_licenseVars
  PROVE  /\ stamp \in Nat /\ (stamp' = stamp \/ stamp' = stamp + 1)
         /\ Invalidates => stamp' = stamp + 1
<1>1. stamp \in Nat
  BY DEF LicenseInv, LicenseTypeOK, SeatTypeOK
<1>2. Invalidates => stamp' = stamp + 1
  BY DEF Invalidates, Bump, AdminBump, BumpAssets
<1>3. CASE stamp' = stamp
  BY <1>1, <1>2, <1>3
<1>4. CASE stamp' # stamp
  <2>1. ASSUME NEW r \in Requests, Step(r) PROVE Bump(r)
    BY ZenonT(60), <1>4, <2>1 DEF Step, AssignRead, AssignCount, AssignAlreadyOpen, ReleaseRead,
       ReleaseFind, AssignSave, ReleaseSave, SaveConflict, AssignDuplicate, WriteAudit
  <2>2. ASSUME SeatNext PROVE \E r \in Requests : Bump(r)
    BY ZenonT(60), <1>4, <2>1, <2>2 DEF SeatNext, BeginAssign, BeginRelease, Begin, SaveLostAck,
       Cancel, ArchiveUser, UnarchiveUser
  <2>3. ASSUME NEW q \in AdminRequests, AdminStep(q) PROVE AdminBump(q)
    BY ZenonT(60), <1>4, <2>3 DEF AdminStep, EditRead, EditSave, ArchiveRead, ArchiveFind,
       ArchiveSave, UnarchiveRead, UnarchiveSave, AdminConflict, CreateRead, CreateSave,
       CreateAudit, AdminBegin, seatVars
  <2>4. ~(\E r \in Requests : \E i \in open : CloseAssignment(r, i)) /\ LicenseNext
    BY <1>4 DEF CloseAssignment, licenseVars, seatVars
  <2>5. Invalidates
    BY <2>2, <2>3, <2>4 DEF LicenseNext, Invalidates
  <2>6. QED
    BY <1>1, <1>2, <2>5
<1>5. QED
  BY <1>3, <1>4

\* A step of the license may move the stamp; then nothing is kept under it yet.
LEMMA LicenseStepLists ==
  ASSUME ListInv, LicenseInv, LicenseStep
  PROVE  ListInv'
<1>1. /\ stamp \in Nat /\ (stamp' = stamp \/ stamp' = stamp + 1)
      /\ Invalidates => stamp' = stamp + 1
  BY StampStep DEF LicenseStep
<1>2. ListTypeOK
  BY DEF ListInv
<1>3. /\ lists' = lists /\ reader' = reader /\ reads' = reads
      /\ commits' \in Nat /\ commits <= commits'
      /\ settled' = settled \/ (Invalidates /\ settled' = commits)
  BY <1>2, ListTypes DEF LicenseStep
<1>4. ListTypeOK'
  BY <1>2, <1>3, ListTypes DEF ListTypeOK
<1>5. /\ \A o \in 1..Len(lists) : lists[o] \in AssetRows /\ lists[o].key <= stamp
      /\ \A l \in Readers : reader[l] \in ListRequest /\ reader[l].key <= stamp
  BY <1>2, ListTypes DEF ListInv
<1>6. NewEnough(lists, reader, stamp', settled')
  <2>1. CASE stamp' = stamp
    BY <1>1, <1>3, <2>1 DEF ListInv
  <2>2. CASE stamp' = stamp + 1
    BY <1>1, <1>3, <1>5, <2>2 DEF NewEnough, AssetRows, ListRequest
  <2>3. QED
    BY <1>1, <2>1, <2>2
<1>7. settled <= settled' /\ settled' \in Nat
  BY <1>2, <1>3, ListTypes
<1>8. \A o \in 1..Len(lists) : lists[o].key <= stamp'
  BY <1>1, <1>5 DEF AssetRows
<1>9. \A m \in Readers : reader[m].key <= stamp' /\ reader[m].floor <= settled'
  BY <1>1, <1>2, <1>5, <1>7, ListTypes DEF ListInv, ListRequest
<1>10. QED
  BY <1>3, <1>4, <1>6, <1>8, <1>9 DEF ListInv

\* A list is as it was, but for chips that a request with its key has in hand.
SameRows(o) ==
    /\ o \in 1..Len(lists)
    /\ lists'[o].key = lists[o].key
    /\ lists'[o].row = lists[o].row
    /\ \/ lists'[o].chips = lists[o].chips
       \/ \E m \in Readers : /\ reader[m].pc = "fill"
                             /\ reader[m].key = lists[o].key
                             /\ lists'[o].chips = reader[m].at

\* A list is what a request with its key has read.
NewRows(o) ==
    \E m \in Readers : /\ reader[m].pc = "store"
                       /\ lists'[o].key = reader[m].key
                       /\ lists'[o].row = reader[m].at
                       /\ lists'[o].chips = 0

\* A step of the list requests keeps the invariant if what it writes was read
\* under the same key, and what it reads is read now.
LEMMA ListsKept ==
  ASSUME ListInv, LicenseInv, UNCHANGED <<stamp, settled, commits>>, ListTypeOK',
         \A o \in 1..Len(lists') : SameRows(o) \/ NewRows(o),
         \A m \in Readers :
           /\ reader'[m].pc \in {"store", "fill"} =>
                \/ reader'[m].at = commits
                \/ /\ reader[m].pc \in {"store", "fill"}
                   /\ reader'[m].at = reader[m].at
                   /\ reader'[m].key = reader[m].key
           /\ \/ reader'[m].key = reader[m].key /\ reader'[m].floor = reader[m].floor
              \/ reader'[m].key = stamp /\ reader'[m].floor = settled
           /\ reader'[m].pc \in {"hydrate", "fill", "answered"} =>
                lists'[reader'[m].list].key = reader'[m].key
  PROVE  ListInv'
<1>1. /\ ListTypeOK /\ stamp \in Nat
      /\ settled \in Nat /\ commits \in Nat /\ settled <= commits
  BY ListTypes DEF ListInv, LicenseInv, LicenseTypeOK, SeatTypeOK
<1>2. ASSUME NEW k, NEW floor \in Nat, floor <= commits, NewEnough(lists, reader, k, floor)
      PROVE  NewEnough(lists', reader', k, floor)
  <2>1. ASSUME NEW o \in 1..Len(lists'), lists'[o].key = k
        PROVE  lists'[o].row >= floor /\ (lists'[o].chips = 0 \/ lists'[o].chips >= floor)
    <3>1. CASE SameRows(o)
      BY <1>2, <2>1, <3>1 DEF SameRows, NewEnough
    <3>2. CASE NewRows(o)
      BY <1>2, <2>1, <3>2 DEF NewRows, NewEnough
    <3>3. QED
      BY <3>1, <3>2
  <2>2. ASSUME NEW m \in Readers, reader'[m].key = k, reader'[m].pc \in {"store", "fill"}
        PROVE  reader'[m].at >= floor
    BY <1>1, <1>2, <2>2 DEF NewEnough
  <2>3. QED
    BY <2>1, <2>2 DEF NewEnough
<1>3. NewEnough(lists', reader', stamp, settled)
  BY <1>1, <1>2 DEF ListInv
<1>4. \A o \in 1..Len(lists') : lists'[o].key <= stamp
  BY DEF SameRows, NewRows, ListInv
<1>5. ASSUME NEW m \in Readers
      PROVE  /\ reader'[m].key <= stamp /\ reader'[m].floor <= settled
             /\ NewEnough(lists', reader', reader'[m].key, reader'[m].floor)
  <2>1. CASE reader'[m].key = reader[m].key /\ reader'[m].floor = reader[m].floor
    <3>1. /\ reader[m].floor \in Nat /\ reader[m].floor <= settled /\ reader[m].key <= stamp
          /\ NewEnough(lists, reader, reader[m].key, reader[m].floor)
      BY <1>1, ListTypes DEF ListInv, ListRequest
    <3>2. NewEnough(lists', reader', reader[m].key, reader[m].floor)
      BY <1>1, <1>2, <3>1
    <3>3. QED
      BY <2>1, <3>1, <3>2
  <2>2. CASE reader'[m].key = stamp /\ reader'[m].floor = settled
    BY <1>1, <1>3, <2>2
  <2>3. QED
    BY <2>1, <2>2
<1>6. QED
  BY <1>3, <1>4, <1>5 DEF ListInv

\* A request that begins takes the present stamp.
LEMMA ListBegins ==
  ASSUME ListInv, LicenseInv, NEW l \in Readers, ListBegin(l)
  PROVE  ListInv'
<1>1. /\ ListTypeOK /\ reader \in [Readers -> ListRequest] /\ stamp \in Nat /\ settled \in Nat
  BY ListTypes DEF ListInv, ListTypeOK, LicenseInv, LicenseTypeOK, SeatTypeOK
<1>2. UNCHANGED <<stamp, settled, commits, lists>>
  BY DEF ListBegin, licenseVars, seatVars
<1>3. reads' \in 0..MaxReads
  <2>1. reads \in 0..MaxReads /\ reads < MaxReads /\ reads' = reads + 1
    BY <1>1 DEF ListBegin, ListTypeOK
  <2>2. QED
    BY <2>1, ReadsAssumption
<1> DEFINE x == [NoReader EXCEPT !.pc = "count", !.key = stamp, !.floor = settled]
<1>4. x \in ListRequest /\ x.pc = "count" /\ x.key = stamp /\ x.floor = settled
  BY <1>1 DEF NoReader, ListRequest
<1>5. reader' = [reader EXCEPT ![l] = x]
  BY DEF ListBegin
<1> HIDE DEF x
<1>6. /\ reader'[l] = x /\ \A m \in Readers \ {l} : reader'[m] = reader[m]
      /\ reader' \in [Readers -> ListRequest]
  BY <1>1, <1>4, <1>5
<1>7. ListTypeOK'
  BY <1>1, <1>2, <1>3, <1>4, <1>6 DEF ListTypeOK
<1>8. \A o \in 1..Len(lists') : SameRows(o)
  BY <1>2 DEF SameRows
<1>9. ASSUME NEW m \in Readers
      PROVE  /\ reader'[m].pc \in {"store", "fill"} => reader'[m] = reader[m]
             /\ \/ reader'[m].key = reader[m].key /\ reader'[m].floor = reader[m].floor
                \/ reader'[m].key = stamp /\ reader'[m].floor = settled
             /\ reader'[m].pc \in {"hydrate", "fill", "answered"} =>
                  lists'[reader'[m].list].key = reader'[m].key
  <2>1. CASE m = l
    BY <1>4, <1>6, <2>1
  <2>2. CASE m # l
    BY <1>2, <1>6, <2>2 DEF ListInv
  <2>3. QED
    BY <2>1, <2>2
<1>10. QED
  BY <1>2, <1>7, <1>8, <1>9, ListsKept

\* A request that looks its page up has what is kept under its own key, or goes
\* on to the database.
LEMMA ListLooksUp ==
  ASSUME ListInv, LicenseInv, NEW l \in Readers, ListLookUp(l)
  PROVE  ListInv'
<1>1. ListTypeOK /\ reader \in [Readers -> ListRequest] /\ reader[l] \in ListRequest
  BY ListTypes DEF ListInv, ListTypeOK
<1>2. UNCHANGED <<stamp, settled, commits, lists, reads>>
  BY DEF ListLookUp, licenseVars, seatVars
<1>3. \E x \in ListRequest :
        /\ reader' = [reader EXCEPT ![l] = x]
        /\ x.key = reader[l].key /\ x.floor = reader[l].floor
        /\ \/ x.pc = "query"
           \/ x.pc \in {"hydrate", "answered"} /\ x.list \in CachedUnder(reader[l].key)
  <2>1. CASE CachedUnder(reader[l].key) = {}
    <3> DEFINE y == [reader[l] EXCEPT !.pc = "query"]
    <3>1. y \in ListRequest /\ y.pc = "query"
          /\ y.key = reader[l].key /\ y.floor = reader[l].floor
      BY <1>1 DEF ListRequest
    <3>2. reader' = [reader EXCEPT ![l] = y]
      BY <2>1 DEF ListLookUp
    <3> HIDE DEF y
    <3>3. QED
      BY <3>1, <3>2
  <2>2. CASE \E o \in CachedUnder(reader[l].key) :
               reader' = [reader EXCEPT ![l].pc = AfterPage(lists[o].shown), ![l].list = o]
    <3>1. PICK o \in CachedUnder(reader[l].key) :
            reader' = [reader EXCEPT ![l].pc = AfterPage(lists[o].shown), ![l].list = o]
      BY <2>2
    <3>2. o \in Nat /\ AfterPage(lists[o].shown) \in {"hydrate", "answered"}
      BY <1>1, ListTypes DEF CachedUnder, AfterPage
    <3> DEFINE y == [reader[l] EXCEPT !.pc = AfterPage(lists[o].shown), !.list = o]
    <3>3. y \in ListRequest /\ y.key = reader[l].key /\ y.floor = reader[l].floor
          /\ y.list = o /\ y.pc = AfterPage(lists[o].shown)
      BY <1>1, <3>2 DEF ListRequest
    <3>4. reader' = [reader EXCEPT ![l] = y]
      BY <3>1
    <3> HIDE DEF y
    <3>5. QED
      BY <3>1, <3>2, <3>3, <3>4
  <2>3. QED
    BY <2>1, <2>2 DEF ListLookUp
<1>4. PICK x \in ListRequest :
        /\ reader' = [reader EXCEPT ![l] = x]
        /\ x.key = reader[l].key /\ x.floor = reader[l].floor
        /\ \/ x.pc = "query"
           \/ x.pc \in {"hydrate", "answered"} /\ x.list \in CachedUnder(reader[l].key)
  BY <1>3
<1>5. x.list \in CachedUnder(reader[l].key) =>
        x.list \in 1..Len(lists) /\ lists[x.list].key = reader[l].key
  BY DEF CachedUnder
<1>6. /\ reader'[l] = x /\ \A m \in Readers \ {l} : reader'[m] = reader[m]
      /\ reader' \in [Readers -> ListRequest]
  BY <1>1, <1>4
<1>7. ListTypeOK'
  BY <1>1, <1>2, <1>4, <1>5, <1>6 DEF ListTypeOK
<1>8. \A o \in 1..Len(lists') : SameRows(o)
  BY <1>2 DEF SameRows
<1>9. ASSUME NEW m \in Readers
      PROVE  /\ reader'[m].pc \in {"store", "fill"} => reader'[m] = reader[m]
             /\ reader'[m].key = reader[m].key /\ reader'[m].floor = reader[m].floor
             /\ reader'[m].pc \in {"hydrate", "fill", "answered"} =>
                  lists'[reader'[m].list].key = reader'[m].key
  <2>1. CASE m = l
    BY <1>2, <1>4, <1>5, <1>6, <2>1
  <2>2. CASE m # l
    BY <1>2, <1>6, <2>2 DEF ListInv
  <2>3. QED
    BY <2>1, <2>2
<1>10. QED
  BY <1>2, <1>7, <1>8, <1>9, ListsKept

\* A list request that asks the database has the answer of this moment.
LEMMA ListReads ==
  ASSUME ListInv, LicenseInv, NEW l \in Readers, ListQuery(l) \/ ListHydrate(l)
  PROVE  ListInv'
<1>1. ListTypeOK /\ reader \in [Readers -> ListRequest] /\ commits \in Nat
  BY ListTypes DEF ListInv, ListTypeOK
<1>2. UNCHANGED <<stamp, settled, commits, lists, reads>>
  BY DEF ListQuery, ListHydrate, licenseVars, seatVars
<1>3. \E pc \in {"store", "fill"}, some \in BOOLEAN :
        /\ reader' = [reader EXCEPT ![l].pc = pc, ![l].at = commits, ![l].some = some]
        /\ pc = "fill" => reader[l].pc = "hydrate"
  <2>1. CASE ListQuery(l)
    <3>1. (~sw.archived) \in BOOLEAN
      OBVIOUS
    <3>2. QED
      BY ZenonT(30), <2>1, <3>1 DEF ListQuery
  <2>2. CASE ListHydrate(l)
    <3>1. (open # {}) \in BOOLEAN
      OBVIOUS
    <3>2. QED
      BY ZenonT(30), <2>2, <3>1 DEF ListHydrate
  <2>3. QED
    BY <2>1, <2>2
<1>4. PICK pc \in {"store", "fill"}, some \in BOOLEAN :
        /\ reader' = [reader EXCEPT ![l].pc = pc, ![l].at = commits, ![l].some = some]
        /\ pc = "fill" => reader[l].pc = "hydrate"
  BY <1>3
<1>5. /\ reader[l] \in ListRequest
      /\ reader'[l] = [reader[l] EXCEPT !.pc = pc, !.at = commits, !.some = some]
      /\ \A m \in Readers \ {l} : reader'[m] = reader[m]
  BY <1>1, <1>4
<1>6. /\ reader'[l] \in ListRequest /\ reader'[l].pc = pc /\ reader'[l].at = commits
      /\ reader'[l].key = reader[l].key /\ reader'[l].floor = reader[l].floor
      /\ reader'[l].list = reader[l].list
  BY <1>1, <1>4, <1>5 DEF ListRequest
<1>7. reader' \in [Readers -> ListRequest]
  <2>1. DOMAIN reader' = Readers /\ reader' = [m \in Readers |-> reader'[m]]
    BY <1>1, <1>4
  <2>2. \A m \in Readers : reader'[m] \in ListRequest
    BY <1>1, <1>5, <1>6
  <2>3. QED
    BY <2>1, <2>2
<1>8. ListTypeOK'
  BY <1>1, <1>2, <1>4, <1>5, <1>6, <1>7 DEF ListTypeOK
<1>9. \A o \in 1..Len(lists') : SameRows(o)
  BY <1>2 DEF SameRows
<1>10. ASSUME NEW m \in Readers
       PROVE  /\ reader'[m].pc \in {"store", "fill"} =>
                   reader'[m].at = commits \/ reader'[m] = reader[m]
              /\ reader'[m].key = reader[m].key /\ reader'[m].floor = reader[m].floor
              /\ reader'[m].pc \in {"hydrate", "fill", "answered"} =>
                   lists'[reader'[m].list].key = reader'[m].key
  <2>1. CASE m = l
    BY <1>2, <1>4, <1>6, <2>1 DEF ListInv
  <2>2. CASE m # l
    BY <1>2, <1>5, <2>2 DEF ListInv
  <2>3. QED
    BY <2>1, <2>2
<1>11. QED
  BY <1>2, <1>8, <1>9, <1>10, ListsKept

\* The rows a request has read become a list under the key it began with.
LEMMA ListStores ==
  ASSUME ListInv, LicenseInv, NEW l \in Readers, ListStore(l)
  PROVE  ListInv'
<1> DEFINE n    == Len(lists)
           item == [key |-> reader[l].key, row |-> reader[l].at, shown |-> reader[l].some,
                    chips |-> 0, cached |-> TRUE]
           kept == [o \in 1..n |->
                      IF lists[o].key = reader[l].key THEN [lists[o] EXCEPT !.cached = FALSE]
                                                      ELSE lists[o]]
<1>1. /\ ListTypeOK /\ reader \in [Readers -> ListRequest] /\ n \in Nat
      /\ \A o \in 1..n : lists[o] \in AssetRows
      /\ reader[l] \in ListRequest
  BY ListTypes DEF ListInv, ListTypeOK
<1>2. /\ UNCHANGED <<stamp, settled, commits, reads>> /\ reader[l].pc = "store"
      /\ reader' = [reader EXCEPT ![l].pc = AfterPage(reader[l].some), ![l].list = n + 1]
  BY DEF ListStore, licenseVars, seatVars
<1>3. lists' = Append(kept, item)
  BY DEF ListStore, StoreKey
<1>4. item \in AssetRows
  BY <1>1 DEF AssetRows, ListRequest
<1>5. \A o \in 1..n : /\ kept[o] \in AssetRows /\ kept[o].key = lists[o].key
                      /\ kept[o].row = lists[o].row /\ kept[o].chips = lists[o].chips
  BY <1>1 DEF AssetRows
<1>6. kept \in Seq(AssetRows) /\ Len(kept) = n
  <2>1. kept \in [1..n -> AssetRows]
    BY <1>5
  <2> HIDE DEF kept, n
  <2>2. QED
    BY <1>1, <2>1
<1> HIDE DEF kept, item
<1>7. /\ lists' \in Seq(AssetRows) /\ Len(lists') = n + 1
      /\ \A o \in 1..n : lists'[o] = kept[o]
      /\ lists'[n + 1] = item
  BY <1>1, <1>3, <1>4, <1>6
<1>8. /\ reader'[l] = [reader[l] EXCEPT !.pc = AfterPage(reader[l].some), !.list = n + 1]
      /\ \A m \in Readers \ {l} : reader'[m] = reader[m]
  BY <1>1, <1>2
<1>9. /\ reader'[l] \in ListRequest /\ reader'[l].list = n + 1
      /\ reader'[l].key = reader[l].key /\ reader'[l].floor = reader[l].floor
      /\ reader'[l].pc \in {"hydrate", "answered"}
  <2> DEFINE pc == AfterPage(reader[l].some)
  <2>1. pc \in {"hydrate", "answered"} /\ n + 1 \in Nat
    BY <1>1 DEF AfterPage
  <2> HIDE DEF pc, n
  <2>2. reader'[l] = [reader[l] EXCEPT !.pc = pc, !.list = n + 1]
    BY <1>8 DEF pc
  <2>3. QED
    BY <1>1, <2>1, <2>2 DEF ListRequest
<1>10. reader' \in [Readers -> ListRequest]
  <2>1. reader' = [m \in Readers |-> reader'[m]]
    BY <1>1, <1>2
  <2>2. \A m \in Readers : reader'[m] \in ListRequest
    BY <1>1, <1>8, <1>9
  <2>3. QED
    BY <2>1, <2>2
<1>11. ListTypeOK'
  <2>1. \A m \in Readers : reader'[m].pc \in {"hydrate", "fill", "answered"} =>
          reader'[m].list \in 1..Len(lists')
    <3>1. n + 1 \in 1..Len(lists') /\ \A i \in 1..n : i \in 1..Len(lists')
      BY <1>1, <1>7
    <3>2. \A m \in Readers \ {l} : reader'[m].pc \in {"hydrate", "fill", "answered"} =>
            reader'[m].list \in 1..n
      BY <1>1, <1>8 DEF ListTypeOK
    <3>3. QED
      BY <1>9, <3>1, <3>2
  <2>2. QED
    BY <1>1, <1>2, <1>7, <1>10, <2>1 DEF ListTypeOK
<1>12. \A o \in 1..Len(lists') : SameRows(o) \/ NewRows(o)
  <2>1. \A o \in 1..n : SameRows(o)
    BY <1>5, <1>7 DEF SameRows
  <2>2. item.key = reader[l].key /\ item.row = reader[l].at /\ item.chips = 0
    BY DEF item
  <2>3. NewRows(n + 1)
    BY <1>2, <1>7, <2>2 DEF NewRows
  <2>4. QED
    BY <1>1, <1>7, <2>1, <2>3
<1>13. ASSUME NEW m \in Readers
       PROVE  /\ reader'[m].pc \in {"store", "fill"} => reader'[m] = reader[m]
              /\ reader'[m].key = reader[m].key /\ reader'[m].floor = reader[m].floor
              /\ reader'[m].pc \in {"hydrate", "fill", "answered"} =>
                   lists'[reader'[m].list].key = reader'[m].key
  <2>1. CASE m = l
    <3>1. item.key = reader[l].key
      BY DEF item
    <3>2. QED
      BY <1>7, <1>9, <2>1, <3>1
  <2>2. CASE m # l
    BY <1>1, <1>5, <1>7, <1>8, <2>2 DEF ListInv, ListTypeOK
  <2>3. QED
    BY <2>1, <2>2
<1>14. QED
  BY <1>2, <1>11, <1>12, <1>13, ListsKept

\* The chips a request has read go into the rows it has in hand.
LEMMA ListFills ==
  ASSUME ListInv, LicenseInv, NEW l \in Readers, ListFill(l)
  PROVE  ListInv'
<1> DEFINE i == reader[l].list
<1>1. /\ ListTypeOK /\ reader \in [Readers -> ListRequest] /\ lists \in Seq(AssetRows)
      /\ \A o \in 1..Len(lists) : lists[o] \in AssetRows
      /\ reader[l] \in ListRequest /\ Len(lists) \in Nat
  BY ListTypes DEF ListInv, ListTypeOK
<1>2. /\ UNCHANGED <<stamp, settled, commits, reads>> /\ reader[l].pc = "fill"
      /\ reader' = [reader EXCEPT ![l].pc = "answered"]
  BY DEF ListFill, licenseVars, seatVars
<1>3. i \in 1..Len(lists) /\ lists[i].key = reader[l].key
  BY <1>1, <1>2 DEF ListInv, ListTypeOK
<1>4. lists' = lists \/ lists' = [lists EXCEPT ![i] = [lists[i] EXCEPT !.chips = reader[l].at]]
  BY DEF ListFill
<1>5. /\ lists' \in Seq(AssetRows) /\ Len(lists') = Len(lists)
      /\ \A o \in 1..Len(lists) :
           /\ lists'[o].key = lists[o].key /\ lists'[o].row = lists[o].row
           /\ \/ lists'[o].chips = lists[o].chips
              \/ o = i /\ lists'[o].chips = reader[l].at
  <2>1. CASE lists' = lists
    BY <1>1, <2>1
  <2>2. CASE lists' = [lists EXCEPT ![i] = [lists[i] EXCEPT !.chips = reader[l].at]]
    <3> DEFINE row == [lists[i] EXCEPT !.chips = reader[l].at]
    <3>1. /\ row \in AssetRows /\ row.key = lists[i].key /\ row.row = lists[i].row
          /\ row.chips = reader[l].at
      BY <1>1, <1>3 DEF AssetRows, ListRequest
    <3>2. lists' = [lists EXCEPT ![i] = row]
      BY <2>2
    <3> HIDE DEF row
    <3>3. lists' \in Seq(AssetRows) /\ Len(lists') = Len(lists)
      BY <1>1, <1>3, <3>1, <3>2
    <3>4. \A o \in 1..Len(lists) : lists'[o] = IF o = i THEN row ELSE lists[o]
      BY <1>1, <1>3, <3>2
    <3>5. QED
      BY <3>1, <3>3, <3>4
  <2>3. QED
    BY <1>4, <2>1, <2>2
<1>6. /\ reader'[l] = [reader[l] EXCEPT !.pc = "answered"]
      /\ \A m \in Readers \ {l} : reader'[m] = reader[m]
  BY <1>1, <1>2
<1>7. /\ reader'[l] \in ListRequest /\ reader'[l].list = i /\ reader'[l].pc = "answered"
      /\ reader'[l].key = reader[l].key /\ reader'[l].floor = reader[l].floor
  BY <1>1, <1>6 DEF ListRequest
<1>8. reader' \in [Readers -> ListRequest]
  <2>1. reader' = [m \in Readers |-> reader'[m]]
    BY <1>1, <1>2
  <2>2. \A m \in Readers : reader'[m] \in ListRequest
    BY <1>1, <1>6, <1>7
  <2>3. QED
    BY <2>1, <2>2
<1>9. ListTypeOK'
  BY <1>1, <1>2, <1>3, <1>5, <1>6, <1>7, <1>8 DEF ListTypeOK
<1>10. \A o \in 1..Len(lists') : SameRows(o)
  BY <1>2, <1>3, <1>5 DEF SameRows
<1>11. ASSUME NEW m \in Readers
       PROVE  /\ reader'[m].pc \in {"store", "fill"} => reader'[m] = reader[m]
              /\ reader'[m].key = reader[m].key /\ reader'[m].floor = reader[m].floor
              /\ reader'[m].pc \in {"hydrate", "fill", "answered"} =>
                   lists'[reader'[m].list].key = reader'[m].key
  <2>1. CASE m = l
    BY <1>3, <1>5, <1>7, <2>1
  <2>2. CASE m # l
    BY <1>1, <1>5, <1>6, <2>2 DEF ListInv, ListTypeOK
  <2>3. QED
    BY <2>1, <2>2
<1>12. QED
  BY <1>2, <1>9, <1>10, <1>11, ListsKept

\* An entry that expires changes no rows.
LEMMA ListExpires ==
  ASSUME ListInv, LicenseInv, NEW i \in 1..Len(lists), Expire(i)
  PROVE  ListInv'
<1>1. /\ ListTypeOK /\ lists \in Seq(AssetRows) /\ Len(lists) \in Nat
      /\ \A o \in 1..Len(lists) : lists[o] \in AssetRows
  BY ListTypes DEF ListInv, ListTypeOK
<1>2. UNCHANGED <<stamp, settled, commits, reads>> /\ reader' = reader
  BY DEF Expire, licenseVars, seatVars
<1> DEFINE row == [lists[i] EXCEPT !.cached = FALSE]
<1>3. /\ row \in AssetRows /\ row.key = lists[i].key /\ row.row = lists[i].row
      /\ row.chips = lists[i].chips
  BY <1>1 DEF AssetRows
<1>4. lists' = [lists EXCEPT ![i] = row]
  BY DEF Expire
<1> HIDE DEF row
<1>5. /\ lists' \in Seq(AssetRows) /\ Len(lists') = Len(lists)
      /\ \A o \in 1..Len(lists) : lists'[o] = IF o = i THEN row ELSE lists[o]
  BY <1>1, <1>3, <1>4
<1>6. ListTypeOK'
  BY <1>1, <1>2, <1>5 DEF ListTypeOK
<1>7. \A o \in 1..Len(lists') : SameRows(o)
  BY <1>3, <1>5 DEF SameRows
<1>8. \A m \in Readers : reader[m].pc \in {"hydrate", "fill", "answered"} =>
        lists'[reader[m].list].key = reader[m].key
  BY <1>1, <1>3, <1>5 DEF ListInv, ListTypeOK
<1>9. QED
  BY <1>2, <1>6, <1>7, <1>8, ListsKept

LEMMA ListInvInit == ListInit => ListInv
<1>1. SUFFICES ASSUME ListInit PROVE ListInv
  OBVIOUS
<1>2. ListTypeOK
  <2>1. NoReader \in ListRequest /\ NoReader.pc = "idle"
    BY DEF NoReader, ListRequest
  <2>2. /\ lists = <<>> /\ reader = [m \in Readers |-> NoReader]
        /\ reads = 0 /\ commits = 0 /\ settled = 0
    BY <1>1 DEF ListInit
  <2>3. 0 \in 0..MaxReads
    BY ReadsAssumption
  <2>4. reader \in [Readers -> ListRequest] /\ \A m \in Readers : reader[m].pc = "idle"
    BY <2>1, <2>2
  <2>5. lists \in Seq(AssetRows)
    BY <2>2
  <2>6. QED
    BY <2>2, <2>3, <2>4, <2>5 DEF ListTypeOK
<1>3. stamp = 0 /\ lists = <<>> /\ settled = 0 /\ \A m \in Readers : reader[m] = NoReader
  <2>1. stamp = 0
    BY <1>1 DEF ListInit, LicenseInit, SeatInit
  <2>2. QED
    BY <1>1, <2>1 DEF ListInit
<1>4. QED
  BY <1>2, <1>3 DEF ListInv, NewEnough, NoReader

LEMMA ListInvStep == ListInv /\ LicenseInv /\ [ListNext]_listVars => ListInv'
<1>1. SUFFICES ASSUME ListInv, LicenseInv, [ListNext]_listVars PROVE ListInv'
  OBVIOUS
<1>2. CASE LicenseStep
  BY <1>1, <1>2, LicenseStepLists
<1>3. ASSUME NEW l \in Readers,
             \/ ListBegin(l) \/ ListLookUp(l) \/ ListQuery(l) \/ ListStore(l)
             \/ ListHydrate(l) \/ ListFill(l)
      PROVE  ListInv'
  BY <1>1, <1>3, ListBegins, ListLooksUp, ListReads, ListStores, ListFills
<1>4. ASSUME NEW o \in 1..Len(lists), Expire(o) PROVE ListInv'
  BY <1>1, <1>4, ListExpires
<1>5. CASE UNCHANGED listVars
  BY <1>1, <1>5 DEF ListInv, ListTypeOK, NewEnough, listVars, licenseVars, seatVars
<1>6. QED
  BY <1>1, <1>2, <1>3, <1>4, <1>5 DEF ListNext

\* The endpoints of the license do not notice the lists.
LEMMA ListsRefineLicense ==
  /\ ListInit => LicenseInit
  /\ [ListNext]_listVars => [LicenseNext]_licenseVars
<1>1. ASSUME LicenseStep PROVE LicenseNext
  BY <1>1 DEF LicenseStep
<1>2. ASSUME NEW l \in Readers,
             \/ ListBegin(l) \/ ListLookUp(l) \/ ListQuery(l) \/ ListStore(l)
             \/ ListHydrate(l) \/ ListFill(l)
      PROVE  UNCHANGED licenseVars
  BY <1>2 DEF ListBegin, ListLookUp, ListQuery, ListStore, ListHydrate, ListFill
<1>3. ASSUME NEW o \in 1..Len(lists), Expire(o) PROVE UNCHANGED licenseVars
  BY <1>3 DEF Expire
<1>4. QED
  BY <1>1, <1>2, <1>3 DEF ListInit, ListNext, listVars

LEMMA ListInvariant == ListSpec => [](ListInv /\ LicenseInv)
<1>1. ListInit => ListInv /\ LicenseInv
  BY ListInvInit, LicenseInvInit, ListsRefineLicense
<1>2. ListInv /\ LicenseInv /\ [ListNext]_listVars => (ListInv /\ LicenseInv)'
  BY ListInvStep, LicenseInvStep, ListsRefineLicense
<1>3. QED
  BY <1>1, <1>2, PTL DEF ListSpec

\* ListTypeOK holds of every reachable state: every request that has rows in
\* hand has them from a list that was read.
THEOREM ListTypeCorrect == ListSpec => []ListTypeOK
<1>1. ListInv => ListTypeOK
  BY DEF ListInv
<1>2. QED
  BY <1>1, ListInvariant, PTL

\* However many requests read, share, fill in and outlive the cached lists, a
\* list request answers with every change whose own request has gone on to
\* BumpAssets before the list was asked for.
THEOREM ListsKeepUp == ListSpec => []ListsShowSettledSeats
<1>1. ListInv => ListsShowSettledSeats
  <2>1. SUFFICES ASSUME ListInv, NEW l \in Readers, reader[l].pc = "answered"
                 PROVE  LET shown == lists[reader[l].list]
                        IN  /\ shown.row >= reader[l].floor
                            /\ shown.chips = 0 \/ shown.chips >= reader[l].floor
    BY DEF ListsShowSettledSeats
  <2>2. reader[l].list \in 1..Len(lists) /\ lists[reader[l].list].key = reader[l].key
    BY <2>1 DEF ListInv, ListTypeOK
  <2>3. QED
    BY <2>1, <2>2 DEF ListInv, NewEnough
<1>2. QED
  BY <1>1, ListInvariant, PTL
=============================================================================
