-------------------------- MODULE SeatServiceProofs --------------------------
(***************************************************************************)
(* Theorems about SeatService, for any set of users and requests and any   *)
(* numbers of seats, attempts, rows and faults.                            *)
(***************************************************************************)
EXTENDS SeatService, FiniteSetTheorems, TLAPS

\* The part of the type invariant that the steps of a request disturb.
RequestsTyped == req \in [Requests -> Request] /\ RequestsHaveUsers

Typed == SeatTypeOK /\ RequestsHaveUsers

-----------------------------------------------------------------------------
(* The ways a step changes a request, one lemma each.                      *)

\* An idle request is well typed, and idle.
LEMMA IdleTyped == Idle \in Request /\ Idle.pc = "idle"
  BY NumbersAssumption DEF Idle, Request

\* Writing one well typed request keeps all of them well typed.
LEMMA PutTyped ==
  ASSUME RequestsTyped, NEW r \in Requests, NEW x \in Request,
         x.pc # "idle" => x.user \in Users,
         req' = [req EXCEPT ![r] = x]
  PROVE  RequestsTyped'
  BY DEF RequestsTyped, RequestsHaveUsers

\* A request that begins has a user and its first attempt.
LEMMA BeginTyped ==
  ASSUME RequestsTyped, NEW r \in Requests, NEW op \in {"assign", "release"},
         NEW u \in Users, Begin(r, op, u)
  PROVE  RequestsTyped'
<1> DEFINE x == [Idle EXCEPT !.op = op, !.pc = "read", !.user = u, !.attempt = 1]
<1>0. 0 \in Nat /\ 1 \in 0..MaxRetries
  BY NumbersAssumption
<1>1. x \in Request /\ x.user \in Users
  BY <1>0 DEF Idle, Request
<1>2. req' = [req EXCEPT ![r] = x]
  BY DEF Begin
<1> HIDE DEF x
<1>3. QED
  BY <1>1, <1>2, PutTyped

\* A step to another label keeps the rest of the request.
LEMMA GotoTyped ==
  ASSUME RequestsTyped, NEW r \in Requests, req[r].pc # "idle",
         NEW pc \in {"already", "save", "bump", "audit"}, Goto(r, pc)
  PROVE  RequestsTyped'
<1> DEFINE x == [req[r] EXCEPT !.pc = pc]
<1>1. req[r] \in Request /\ req[r].user \in Users
  BY DEF RequestsTyped, RequestsHaveUsers
<1>2. x \in Request /\ x.user \in Users
  BY <1>1 DEF Request
<1>3. req' = [req EXCEPT ![r] = x]
  BY DEF Goto
<1>4. QED
  BY <1>2, <1>3, PutTyped

\* A request that answers is idle again.
LEMMA ReturnTyped ==
  ASSUME RequestsTyped, NEW r \in Requests, Return(r)
  PROVE  RequestsTyped'
  BY IdleTyped, PutTyped DEF Return

\* Reading the license row notes its numbers and its version.
LEMMA TrackTyped ==
  ASSUME RequestsTyped, sw \in SoftwareRow, NEW r \in Requests, req[r].pc # "idle",
         NEW pc \in {"count", "find"}, TrackSoftware(r, pc)
  PROVE  RequestsTyped'
<1> DEFINE x == [req[r] EXCEPT !.pc = pc, !.used = sw.used, !.total = sw.total,
                               !.ver = sw.ver]
<1>1. req[r] \in Request /\ req[r].user \in Users
  BY DEF RequestsTyped, RequestsHaveUsers
<1>2. x \in Request /\ x.user \in Users
  BY <1>1 DEF Request, SoftwareRow
<1>3. req' = [req EXCEPT ![r] = x]
  BY DEF TrackSoftware
<1>4. QED
  BY <1>2, <1>3, PutTyped

\* A step to another label that also notes an assignment row.
LEMMA NoteRowTyped ==
  ASSUME RequestsTyped, NEW r \in Requests, req[r].pc # "idle",
         NEW pc \in {"save", "bump"}, NEW i \in Nat,
         req' = [req EXCEPT ![r].pc = pc, ![r].row = i]
  PROVE  RequestsTyped'
<1> DEFINE x == [req[r] EXCEPT !.pc = pc, !.row = i]
<1>1. req[r] \in Request /\ req[r].user \in Users
  BY DEF RequestsTyped, RequestsHaveUsers
<1>2. x \in Request /\ x.user \in Users
  BY <1>1 DEF Request
<1>3. req' = [req EXCEPT ![r] = x]
  OBVIOUS
<1>4. QED
  BY <1>2, <1>3, PutTyped

\* A retry stays within MaxRetries attempts.
LEMMA ReloadTyped ==
  ASSUME RequestsTyped, NEW r \in Requests, req[r].pc # "idle", RetryAllowed(r), Reload(r)
  PROVE  RequestsTyped'
<1> DEFINE x == [req[r] EXCEPT !.pc = "read", !.row = 0, !.attempt = req[r].attempt + 1]
<1>1. req[r] \in Request /\ req[r].user \in Users
  BY DEF RequestsTyped, RequestsHaveUsers
<1>0. req[r].attempt + 1 \in 0..MaxRetries
  BY <1>1, NumbersAssumption DEF Request, RetryAllowed
<1>2. x \in Request /\ x.user \in Users
  BY <1>0, <1>1 DEF Request
<1>3. req' = [req EXCEPT ![r] = x]
  BY DEF Reload
<1> HIDE DEF x
<1>4. QED
  BY <1>2, <1>3, PutTyped

-----------------------------------------------------------------------------
(* The other variables.                                                    *)

RestTyped ==
    /\ sw \in SoftwareRow
    /\ owner \in Seq(Users)
    /\ open \subseteq 1..Len(owner)
    /\ archivedUsers \subseteq Archivable
    /\ audit \subseteq AuditRecord
    /\ stamp \in Nat
    /\ faults \in 0..MaxFaults

\* Well typed: the requests are, and so is everything else.
LEMMA TypedSplit == Typed <=> RestTyped /\ RequestsTyped
  BY DEF Typed, RestTyped, RequestsTyped, SeatTypeOK

\* Writing a number of seats keeps the license row well typed.
LEMMA WriteSeatsTyped ==
  ASSUME sw \in SoftwareRow, NEW n \in Nat, WriteSeats(n)
  PROVE  /\ sw' \in SoftwareRow
         /\ sw'.used = n /\ sw'.ver = sw.ver + 1
         /\ sw'.total = sw.total /\ sw'.archived = sw.archived
<1> DEFINE v == sw.ver + 1
<1>1. v \in Nat
  BY DEF SoftwareRow
<1>2. sw' = [sw EXCEPT !.used = n, !.ver = v]
  BY DEF WriteSeats
<1>3. sw'.ver = sw.ver + 1
  BY <1>2 DEF SoftwareRow
<1> HIDE DEF v
<1>4. QED
  BY <1>1, <1>2, <1>3 DEF SoftwareRow

\* The transactions of an assign and of a release.
LEMMA AssignCommitTyped ==
  ASSUME RestTyped, RequestsTyped, NEW r \in Requests, AssignCommit(r)
  PROVE  sw' \in SoftwareRow /\ owner' \in Seq(Users) /\ open' \subseteq 1..Len(owner')
<1>1. req[r] \in Request /\ req[r].user \in Users
  BY DEF RequestsTyped, RequestsHaveUsers, AssignCommit, At
<1>2. SeatsAfterAssign(r) \in Nat
  BY <1>1 DEF SeatsAfterAssign, Request
<1>3. sw' \in SoftwareRow
  BY <1>2, WriteSeatsTyped DEF RestTyped, AssignCommit
<1>4. owner' \in Seq(Users) /\ Len(owner') = Len(owner) + 1
  BY <1>1 DEF RestTyped, AssignCommit
<1>5. open' \subseteq 1..Len(owner')
  <2>1. Len(owner) \in Nat /\ open \subseteq 1..Len(owner)
    BY DEF RestTyped
  <2>2. open' = open \cup {Len(owner) + 1}
    BY DEF AssignCommit
  <2>3. \A n \in Nat : 1..n \cup {n + 1} \subseteq 1..(n + 1)
    OBVIOUS
  <2>4. 1..Len(owner') = 1..(Len(owner) + 1)
    BY <1>4
  <2>5. QED
    BY <2>1, <2>2, <2>3, <2>4, Zenon
<1>6. QED
  BY <1>3, <1>4, <1>5

\* The release's transaction closes a row and may write the license.
LEMMA ReleaseCommitTyped ==
  ASSUME RestTyped, RequestsTyped, NEW r \in Requests, ReleaseCommit(r)
  PROVE  sw' \in SoftwareRow /\ owner' \in Seq(Users) /\ open' \subseteq 1..Len(owner')
<1>1. req[r] \in Request
  BY DEF RequestsTyped
<1>2. SeatsAfterRelease(r) \in Nat
  BY <1>1 DEF SeatsAfterRelease, Request
<1>3. sw' \in SoftwareRow
  BY <1>2, WriteSeatsTyped DEF RestTyped, ReleaseCommit
<1>4. QED
  BY <1>3 DEF RestTyped, ReleaseCommit

\* Every step keeps the state well typed.
LEMMA TypedStep == Typed /\ [SeatNext]_seatVars => Typed'
<1> SUFFICES ASSUME RestTyped, RequestsTyped, [SeatNext]_seatVars
             PROVE  RestTyped' /\ RequestsTyped'
  BY TypedSplit, PTL
<1>1. ASSUME NEW r \in Requests, NEW u \in Users, BeginAssign(r, u) \/ BeginRelease(r, u)
      PROVE  RestTyped' /\ RequestsTyped'
  <2>1. RequestsTyped'
    BY <1>1, BeginTyped DEF BeginAssign, BeginRelease
  <2>2. RestTyped'
    BY <1>1 DEF BeginAssign, BeginRelease, Begin, RestTyped
  <2>3. QED
    BY <2>1, <2>2
<1>2. ASSUME NEW r \in Requests,
             AssignRead(r) \/ AssignCount(r) \/ AssignAlreadyOpen(r) \/ ReleaseRead(r)
               \/ ReleaseFind(r)
      PROVE  RestTyped' /\ RequestsTyped'
  <2>1. RestTyped'
    BY <1>2 DEF AssignRead, AssignCount, AssignAlreadyOpen, ReleaseRead, ReleaseFind, RestTyped
  <2>2. CASE AssignRead(r)
    BY <2>1, <2>2, TrackTyped, ReturnTyped DEF AssignRead, At, RestTyped
  <2>3. CASE AssignCount(r)
    BY <2>1, <2>3, GotoTyped, ReturnTyped DEF AssignCount, At
  <2>4. CASE AssignAlreadyOpen(r)
    BY <2>1, <2>4, GotoTyped, ReturnTyped DEF AssignAlreadyOpen, At
  <2>5. CASE ReleaseRead(r)
    BY <2>1, <2>5, TrackTyped DEF ReleaseRead, At, RestTyped
  <2>6. CASE ReleaseFind(r)
    <3>1. open \subseteq Nat
      BY DEF RestTyped
    <3>2. QED
      BY <2>1, <2>6, <3>1, NoteRowTyped, ReturnTyped DEF ReleaseFind, At
  <2>7. QED
    BY <1>2, <2>2, <2>3, <2>4, <2>5, <2>6
<1>3. ASSUME NEW r \in Requests, AssignSave(r)
      PROVE  RestTyped' /\ RequestsTyped'
  <2>1. Len(owner') \in Nat
    BY <1>3, AssignCommitTyped DEF AssignSave
  <2>2. RequestsTyped'
    BY <1>3, <2>1, NoteRowTyped DEF AssignSave, AssignCommit, At
  <2>3. RestTyped'
    BY <1>3, AssignCommitTyped DEF AssignSave, RestTyped
  <2>4. QED
    BY <2>2, <2>3
<1>4. ASSUME NEW r \in Requests, ReleaseSave(r)
      PROVE  RestTyped' /\ RequestsTyped'
  <2>1. RequestsTyped'
    BY <1>4, GotoTyped DEF ReleaseSave, ReleaseCommit, At
  <2>2. RestTyped'
    BY <1>4, ReleaseCommitTyped DEF ReleaseSave, RestTyped
  <2>3. QED
    BY <2>1, <2>2
<1>5. ASSUME NEW r \in Requests, SaveLostAck(r)
      PROVE  RestTyped' /\ RequestsTyped'
  <2>1. sw' \in SoftwareRow /\ owner' \in Seq(Users) /\ open' \subseteq 1..Len(owner')
    BY <1>5, AssignCommitTyped, ReleaseCommitTyped DEF SaveLostAck
  <2>2. RestTyped'
    BY <1>5, <2>1, NumbersAssumption DEF SaveLostAck, RestTyped
  <2>3. RequestsTyped'
    BY <1>5 DEF SaveLostAck, RequestsTyped, RequestsHaveUsers
  <2>4. QED
    BY <2>2, <2>3
<1>6. ASSUME NEW r \in Requests, SaveConflict(r) \/ AssignDuplicate(r)
      PROVE  RestTyped' /\ RequestsTyped'
  <2>1. RestTyped'
    BY <1>6 DEF SaveConflict, AssignDuplicate, RestTyped
  <2>2. RequestsTyped'
    BY <1>6, ReloadTyped, ReturnTyped DEF SaveConflict, AssignDuplicate
  <2>3. QED
    BY <2>1, <2>2
<1>7. ASSUME NEW r \in Requests, WriteAudit(r) \/ Cancel(r)
      PROVE  RestTyped' /\ RequestsTyped'
  <2>1. RequestsTyped'
    BY <1>7, ReturnTyped DEF WriteAudit, Cancel
  <2>2. CASE WriteAudit(r)
    <3>1. req[r].row \in Nat
      BY DEF RequestsTyped, Request
    <3>2. SeatAuditRecord(r) \in AuditRecord
      BY <3>1 DEF SeatAuditRecord, AuditRecord
    <3>3. QED
      BY <2>1, <2>2, <3>2 DEF WriteAudit, RestTyped
  <2>3. CASE Cancel(r)
    BY <2>1, <2>3, NumbersAssumption DEF Cancel, RestTyped
  <2>4. QED
    BY <1>7, <2>2, <2>3
<1>8. ASSUME NEW u \in Users, ArchiveUser(u) \/ UnarchiveUser(u)
      PROVE  RestTyped' /\ RequestsTyped'
  BY <1>8 DEF ArchiveUser, UnarchiveUser, RestTyped, RequestsTyped, RequestsHaveUsers
<1>9. ASSUME UNCHANGED seatVars
      PROVE  RestTyped' /\ RequestsTyped'
  BY <1>9 DEF seatVars, RestTyped, RequestsTyped, RequestsHaveUsers
<1>10. ASSUME NEW r \in Requests, Bump(r)
       PROVE  RestTyped' /\ RequestsTyped'
  BY <1>10, GotoTyped DEF Bump, BumpAssets, RestTyped
<1>11. QED
  BY <1>1, <1>2, <1>3, <1>4, <1>5, <1>6, <1>7, <1>8, <1>9, <1>10 DEF SeatNext, Step

\* The initial state is well typed.
LEMMA TypedInit == SeatInit => Typed
<1>1. ASSUME SeatInit PROVE RestTyped /\ RequestsTyped
  BY <1>1, IdleTyped, NumbersAssumption, UsersAssumption
     DEF SeatInit, RestTyped, RequestsTyped, RequestsHaveUsers, SoftwareRow
<1>2. QED
  BY <1>1, TypedSplit

\* The variables keep their types in every behaviour of the service.
THEOREM SeatTypeCorrect == SeatSpec => []SeatTypeOK
<1>1. Typed => SeatTypeOK
  BY DEF Typed
<1>2. QED
  BY <1>1, TypedInit, TypedStep, PTL DEF SeatSpec

-----------------------------------------------------------------------------
(* SeatsNeverOversold.                                                     *)

\* The inductive invariant, part by part.
LEMMA SeatInvSplit ==
    SeatInv <=> /\ RestTyped /\ RequestsTyped
                /\ SeatsNeverOversold
                /\ \A r \in Requests : SnapshotSound(r)
  BY TypedSplit DEF SeatInv, Typed

\* The open assignments are finitely many.
LEMMA OpenFinite == RestTyped => IsFiniteSet(open) /\ Cardinality(open) \in Nat
<1>1. ASSUME RestTyped PROVE IsFiniteSet(1..Len(owner)) /\ open \in SUBSET (1..Len(owner))
  <2>1. Len(owner) \in Int
    BY <1>1 DEF RestTyped
  <2>2. QED
    BY <1>1, <2>1, FS_Interval DEF RestTyped
<1>2. QED
  BY <1>1, FS_Subset, FS_CardinalityType

\* An assign that commits acts on the row as it is: one seat more is charged
\* and one is open.
LEMMA AssignCommitCounts ==
  ASSUME SeatInv, NEW r \in Requests, AssignCommit(r)
  PROVE  /\ SeatsNeverOversold'
         /\ sw'.ver = sw.ver + 1
<1>1. RestTyped /\ RequestsTyped /\ SeatsNeverOversold /\ SnapshotSound(r)
  BY SeatInvSplit
<1>2. req[r] \in Request /\ sw \in SoftwareRow
  BY <1>1 DEF RequestsTyped, RestTyped
<1>3. req[r].used = sw.used /\ req[r].total = sw.total /\ sw.used < sw.total
  BY <1>1, <1>2 DEF SnapshotSound, AssignCommit, RowVersionMatches, At, Request, SoftwareRow
<1>4. SeatsAfterAssign(r) = sw.used + 1 /\ sw.used + 1 \in Nat
  BY <1>2, <1>3 DEF SeatsAfterAssign, SoftwareRow
<1>5. sw'.used = sw.used + 1 /\ sw'.total = sw.total /\ sw'.ver = sw.ver + 1
  BY <1>2, <1>4, WriteSeatsTyped DEF AssignCommit
<1>6. Cardinality(open) \in Nat /\ Cardinality(open') \in Nat
      /\ (Cardinality(open') = Cardinality(open) \/ Cardinality(open') = Cardinality(open) + 1)
  <2>1. open' = open \cup {Len(owner) + 1} /\ IsFiniteSet(open) /\ Cardinality(open) \in Nat
    BY <1>1, OpenFinite DEF AssignCommit
  <2>2. Cardinality(open') = IF Len(owner) + 1 \in open THEN Cardinality(open)
                                                        ELSE Cardinality(open) + 1
    BY <2>1, FS_AddElement
  <2>3. QED
    BY <2>1, <2>2
<1>7. Cardinality(open') <= Cardinality(open) + 1
  BY <1>6
<1>8. QED
  BY <1>1, <1>2, <1>3, <1>5, <1>6, <1>7 DEF SeatsNeverOversold, SoftwareRow

\* A release that commits either leaves the license row and may close a row, or
\* gives one seat back and closes a row or has a seat to give back anyway.
LEMMA ReleaseCommitCounts ==
  ASSUME SeatInv, NEW r \in Requests, ReleaseCommit(r)
  PROVE  /\ SeatsNeverOversold'
         /\ sw'.ver = sw.ver + 1 \/ (sw' = sw /\ open' \subseteq open)
<1>1. RestTyped /\ RequestsTyped /\ SeatsNeverOversold /\ SnapshotSound(r)
  BY SeatInvSplit
<1>2. req[r] \in Request /\ sw \in SoftwareRow
  BY <1>1 DEF RequestsTyped, RestTyped
<1>3. open' = open \ {req[r].row}
  BY DEF ReleaseCommit
<1>4. Cardinality(open) \in Nat /\ Cardinality(open') \in Nat
      /\ Cardinality(open') = IF req[r].row \in open THEN Cardinality(open) - 1
                                                     ELSE Cardinality(open)
  BY <1>1, <1>3, OpenFinite, FS_RemoveElement, FS_CardinalityType
<1>5. CASE SeatsAfterRelease(r) = req[r].used
  <2>1. sw' = sw
    BY <1>5 DEF ReleaseCommit
  <2>2. QED
    BY <1>1, <1>2, <1>3, <1>4, <2>1 DEF SeatsNeverOversold, SoftwareRow
<1>6. CASE SeatsAfterRelease(r) # req[r].used
  <2>1. req[r].used > 0 /\ RowVersionMatches(r) /\ WriteSeats(SeatsAfterRelease(r))
    BY <1>2, <1>6 DEF ReleaseCommit, SeatsAfterRelease, Request
  <2>2. req[r].used = sw.used /\ (req[r].row \in open \/ Cardinality(open) < sw.used)
    BY <1>1, <1>2, <2>1 DEF SnapshotSound, ReleaseCommit, RowVersionMatches, At, Request,
       SoftwareRow
  <2>3. SeatsAfterRelease(r) = sw.used - 1 /\ sw.used - 1 \in Nat
    BY <1>2, <2>1, <2>2 DEF SeatsAfterRelease, SoftwareRow
  <2>4. sw'.used = sw.used - 1 /\ sw'.total = sw.total /\ sw'.ver = sw.ver + 1
    BY <1>2, <2>1, <2>3, WriteSeatsTyped
  <2>5. QED
    BY <1>1, <1>2, <1>4, <2>2, <2>4 DEF SeatsNeverOversold, SoftwareRow
<1>7. QED
  BY <1>5, <1>6

\* A request that does not move keeps a sound snapshot: what it knows is of an
\* older version now, or seats were only closed under it.
LEMMA UnmovedSound ==
  ASSUME SeatInv, NEW q \in Requests, req'[q] = req[q],
         sw'.ver = sw.ver + 1 \/ (sw' = sw /\ open' \subseteq open)
  PROVE  SnapshotSound(q)'
<1>1. RestTyped /\ RequestsTyped /\ SeatsNeverOversold /\ SnapshotSound(q)
  BY SeatInvSplit
<1>2. req[q] \in Request /\ sw \in SoftwareRow
  BY <1>1 DEF RequestsTyped, RestTyped
<1>3. CASE sw'.ver = sw.ver + 1
  BY <1>1, <1>2, <1>3 DEF SnapshotSound, At, Request, SoftwareRow
<1>4. CASE sw' = sw /\ open' \subseteq open
  <2>1. Cardinality(open') <= Cardinality(open) /\ Cardinality(open) \in Nat
        /\ Cardinality(open') \in Nat
    BY <1>1, <1>4, OpenFinite, FS_Subset, FS_CardinalityType
  <2>2. open' # open => Cardinality(open') < Cardinality(open)
    BY <1>1, <1>4, <2>1, OpenFinite, FS_Subset
  <2>3. CASE open' = open
    BY <1>1, <1>4, <2>3 DEF SnapshotSound, At
  <2>4. CASE open' # open
    <3>1. Cardinality(open') < sw.used
      BY <1>1, <1>2, <2>1, <2>2, <2>4 DEF SeatsNeverOversold, SoftwareRow
    <3>2. QED
      BY <1>1, <1>4, <3>1 DEF SnapshotSound, At
  <2>5. QED
    BY <2>3, <2>4
<1>5. QED
  BY <1>3, <1>4

\* A step that writes one request and leaves the seats alone only has to argue
\* for that request.
LEMMA LocalStep ==
  ASSUME SeatInv, Typed', UNCHANGED <<sw, open>>, NEW r \in Requests,
         \A q \in Requests \ {r} : req'[q] = req[q], SnapshotSound(r)'
  PROVE  SeatInv'
<1>1. \A q \in Requests : SnapshotSound(q)'
  BY UnmovedSound
<1>2. SeatsNeverOversold'
  BY DEF SeatInv, SeatsNeverOversold
<1>3. QED
  BY <1>1, <1>2 DEF SeatInv, Typed

\* Every step keeps the inductive invariant: the transactions by their counts,
\* the reads by what they note, every other step because it leaves the seats alone.
LEMMA SeatInvStep == SeatInv /\ [SeatNext]_seatVars => SeatInv'
<1> SUFFICES ASSUME SeatInv, [SeatNext]_seatVars PROVE SeatInv'
  OBVIOUS
<1>1. Typed /\ Typed' /\ RestTyped /\ RequestsTyped /\ SeatsNeverOversold
      /\ RequestsTyped'
  BY TypedStep, TypedSplit, SeatInvSplit DEF SeatInv, Typed, RequestsTyped, SeatTypeOK
<1>2. sw \in SoftwareRow /\ \A q \in Requests : req[q] \in Request /\ SnapshotSound(q)
  BY <1>1 DEF RestTyped, RequestsTyped, SeatInv
<1>3. DOMAIN req = Requests
  BY <1>1 DEF RequestsTyped
<1>4. ASSUME NEW r \in Requests, Return(r), UNCHANGED <<sw, open>>
      PROVE  SeatInv'
  <2>1. SnapshotSound(r)'
    BY <1>3, <1>4 DEF Return, Idle, SnapshotSound, At
  <2>2. QED
    BY <1>1, <1>4, <2>1, LocalStep DEF Return
<1>5. ASSUME NEW r \in Requests, NEW pc \in {"already", "save"}, Goto(r, pc),
             req[r].op = "assign", req[r].pc \in {"count", "already"}, UNCHANGED <<sw, open>>
      PROVE  SeatInv'
  <2>1. req'[r] = [req[r] EXCEPT !.pc = pc]
    BY <1>3, <1>5 DEF Goto
  <2>2. /\ req'[r].ver = req[r].ver /\ req'[r].used = req[r].used
        /\ req'[r].total = req[r].total /\ req'[r].op = "assign"
    BY <1>2, <1>5, <2>1 DEF Request
  <2>3. SnapshotSound(r)'
    BY <1>2, <1>5, <2>2 DEF SnapshotSound, At
  <2>4. QED
    BY <1>1, <1>5, <2>3, LocalStep DEF Goto
<1>6. ASSUME NEW r \in Requests, NEW pc \in {"count", "find"}, TrackSoftware(r, pc),
             pc = "count" => sw.used < sw.total, UNCHANGED <<sw, open>>
      PROVE  SeatInv'
  <2>1. /\ req'[r].pc = pc /\ req'[r].ver = sw.ver /\ req'[r].used = sw.used
        /\ req'[r].total = sw.total
    BY <1>2, <1>3, <1>6 DEF TrackSoftware, Request
  <2>2. SnapshotSound(r)'
    BY <1>2, <1>6, <2>1 DEF SnapshotSound, At, SoftwareRow
  <2>3. \A q \in Requests \ {r} : req'[q] = req[q]
    BY <1>3, <1>6 DEF TrackSoftware
  <2>4. QED
    BY <1>1, <1>6, <2>2, <2>3, LocalStep
<1>7. ASSUME NEW r \in Requests, NEW u \in Users, NEW op \in {"assign", "release"},
             Begin(r, op, u)
      PROVE  SeatInv'
  <2>1. req'[r].pc = "read"
    BY <1>3, <1>7 DEF Begin, Idle
  <2>2. SnapshotSound(r)'
    BY <2>1 DEF SnapshotSound, At
  <2>3. QED
    BY <1>1, <1>7, <2>2, LocalStep DEF Begin
<1>8. ASSUME NEW r \in Requests, ReleaseFind(r) PROVE SeatInv'
  <2>1. CASE Return(r)
    BY <1>4, <1>8, <2>1 DEF ReleaseFind
  <2>2. ASSUME NEW i \in open, req' = [req EXCEPT ![r].pc = "save", ![r].row = i]
        PROVE  SeatInv'
    <3>1. req'[r] = [req[r] EXCEPT !.pc = "save", !.row = i]
      BY <1>3, <2>2
    <3>2. /\ req'[r].ver = req[r].ver /\ req'[r].used = req[r].used
          /\ req'[r].total = req[r].total /\ req'[r].op = "release" /\ req'[r].row = i
      BY <1>2, <1>8, <3>1 DEF Request, ReleaseFind, At
    <3>3. UNCHANGED <<sw, open>>
      BY <1>8 DEF ReleaseFind
    <3>4. SnapshotSound(r)'
      BY <1>2, <1>8, <2>2, <3>2, <3>3 DEF SnapshotSound, ReleaseFind, At
    <3>5. \A q \in Requests \ {r} : req'[q] = req[q]
      BY <1>3, <2>2
    <3>6. QED
      BY <1>1, <3>3, <3>4, <3>5, LocalStep
  <2>3. QED
    BY <1>8, <2>1, <2>2 DEF ReleaseFind
<1>9. ASSUME NEW r \in Requests, AssignCommit(r) \/ ReleaseCommit(r),
             \A q \in Requests \ {r} : req'[q] = req[q],
             req'[r] = req[r] \/ req'[r].pc = "bump"
      PROVE  SeatInv'
  <2>1. /\ SeatsNeverOversold'
        /\ sw'.ver = sw.ver + 1 \/ (sw' = sw /\ open' \subseteq open)
    BY <1>9, AssignCommitCounts, ReleaseCommitCounts
  <2>2. req'[r].pc = "bump" => SnapshotSound(r)'
    BY DEF SnapshotSound, At
  <2>3. \A q \in Requests : SnapshotSound(q)'
    BY <1>9, <2>1, <2>2, UnmovedSound
  <2>4. QED
    BY <1>1, <2>1, <2>3 DEF SeatInv, Typed
<1>10. ASSUME NEW r \in Requests, AssignSave(r) PROVE SeatInv'
  <2>1. \A q \in Requests \ {r} : req'[q] = req[q]
    BY <1>3, <1>10 DEF AssignSave
  <2>2. req'[r].pc = "bump"
    BY <1>2, <1>3, <1>10 DEF AssignSave, Request
  <2>3. QED
    BY <1>9, <1>10, <2>1, <2>2 DEF AssignSave
<1>11. ASSUME NEW r \in Requests, ReleaseSave(r) PROVE SeatInv'
  <2>1. \A q \in Requests \ {r} : req'[q] = req[q]
    BY <1>11 DEF ReleaseSave, Goto
  <2>2. req'[r].pc = "bump"
    BY <1>2, <1>3, <1>11 DEF ReleaseSave, Goto, Request
  <2>3. QED
    BY <1>9, <1>11, <2>1, <2>2 DEF ReleaseSave
<1>12. ASSUME NEW r \in Requests, SaveLostAck(r) PROVE SeatInv'
  BY <1>9, <1>12 DEF SaveLostAck
<1>13. ASSUME NEW r \in Requests, Reload(r), UNCHANGED <<sw, open>> PROVE SeatInv'
  <2>1. req'[r].pc = "read"
    BY <1>2, <1>3, <1>13 DEF Reload, Request
  <2>2. SnapshotSound(r)'
    BY <2>1 DEF SnapshotSound, At
  <2>3. \A q \in Requests \ {r} : req'[q] = req[q]
    BY <1>3, <1>13 DEF Reload
  <2>4. QED
    BY <1>1, <1>13, <2>2, <2>3, LocalStep
<1>14. ASSUME NEW r \in Requests, Step(r) PROVE SeatInv'
  <2>1. CASE AssignRead(r)
    BY <1>4, <1>6, <2>1 DEF AssignRead
  <2>2. CASE AssignCount(r) \/ AssignAlreadyOpen(r)
    BY <1>4, <1>5, <2>2 DEF AssignCount, AssignAlreadyOpen, At
  <2>3. CASE ReleaseRead(r)
    BY <1>6, <2>3 DEF ReleaseRead
  <2>4. CASE SaveConflict(r) \/ AssignDuplicate(r) \/ WriteAudit(r)
    BY <1>4, <1>13, <2>4 DEF SaveConflict, AssignDuplicate, WriteAudit
  <2>5. CASE Bump(r)
    <3>1. req'[r].pc = "audit" /\ UNCHANGED <<sw, open>>
          /\ \A q \in Requests \ {r} : req'[q] = req[q]
      BY <1>2, <1>3, <2>5 DEF Bump, Goto, Request
    <3>2. SnapshotSound(r)'
      BY <3>1 DEF SnapshotSound, At
    <3>3. QED
      BY <1>1, <3>1, <3>2, LocalStep
  <2>6. QED
    BY <1>8, <1>10, <1>11, <1>14, <2>1, <2>2, <2>3, <2>4, <2>5 DEF Step
<1>15. CASE UNCHANGED <<sw, open, req>>
  <2>1. \A q \in Requests : SnapshotSound(q)'
    BY <1>2, <1>15 DEF SnapshotSound, At
  <2>2. SeatsNeverOversold'
    BY <1>1, <1>15 DEF SeatsNeverOversold
  <2>3. QED
    BY <1>1, <2>1, <2>2 DEF SeatInv, Typed
<1>16. QED
  BY <1>4, <1>7, <1>12, <1>14, <1>15 DEF SeatNext, BeginAssign, BeginRelease, Cancel,
     ArchiveUser, UnarchiveUser, seatVars

\* The license starts with no seat charged and none open.
LEMMA SeatInvInit == SeatInit => SeatInv
<1>1. SeatInit => SeatsNeverOversold
  BY NumbersAssumption, FS_EmptySet DEF SeatInit, SeatsNeverOversold
<1>2. SeatInit => \A r \in Requests : SnapshotSound(r)
  BY DEF SeatInit, SnapshotSound, Idle, At
<1>3. QED
  BY <1>1, <1>2, TypedInit DEF SeatInv, Typed

\* What a request in progress knows of the license it read stays true of every
\* license whose row version has not moved (SeatInv), in every behaviour.
THEOREM SeatInvariant == SeatSpec => []SeatInv
  BY SeatInvInit, SeatInvStep, PTL DEF SeatSpec

\* No race, retry, lost acknowledgement or cancellation of the seat service
\* oversells the license, whatever the number of seats, users and requests.
THEOREM NeverOversold == SeatSpec => []SeatsNeverOversold
<1>1. SeatInv => SeatsNeverOversold
  BY SMTT(60) DEF SeatInv
<1>2. QED
  BY <1>1, SeatInvariant, PTL

-----------------------------------------------------------------------------
(* OneSeatPerUser.                                                         *)

\* The rows change only in the transaction of some request.
LEMMA RowsStep ==
  ASSUME [SeatNext]_seatVars
  PROVE  \/ UNCHANGED <<sw, owner, open>>
         \/ \E r \in Requests : AssignCommit(r) \/ ReleaseCommit(r)
  BY ZenonT(60) DEF SeatNext, Step, seatVars, BeginAssign, BeginRelease, Begin, AssignRead, AssignCount,
     AssignAlreadyOpen, ReleaseRead, ReleaseFind, AssignSave, ReleaseSave, Bump, SaveConflict,
     AssignDuplicate, WriteAudit, SaveLostAck, Cancel, ArchiveUser, UnarchiveUser

\* What the ledger needs of the rows beyond SeatInv.
RowsInv == SeatInv /\ OneSeatPerUser /\ sw.total = Total

\* An assign appends one row, for a user who has none open.
LEMMA AssignCommitRows ==
  ASSUME RowsInv, NEW r \in Requests, AssignCommit(r)
  PROVE  LET u == req[r].user
             n == Len(owner) + 1
         IN  /\ u \in Users /\ \A i \in open : owner[i] # u
             /\ open' = open \cup {n} /\ n \notin open
             /\ owner'[n] = u /\ \A i \in open : owner'[i] = owner[i]
<1>1. /\ owner \in Seq(Users) /\ open \subseteq 1..Len(owner)
      /\ req[r].user \in Users
  BY DEF RowsInv, SeatInv, SeatTypeOK, RequestsHaveUsers, AssignCommit, At
<1>2. owner' = Append(owner, req[r].user) /\ Len(owner) \in Nat
  BY <1>1 DEF AssignCommit
<1>3. owner'[Len(owner) + 1] = req[r].user
      /\ \A i \in 1..Len(owner) : owner'[i] = owner[i]
  BY <1>1, <1>2
<1>4. Len(owner) + 1 \notin open
  BY <1>1, <1>2
<1>5. QED
  BY <1>1, <1>3, <1>4 DEF AssignCommit, IndexAdmits

\* Every step keeps the rows apart: the index guards the only step that opens one.
LEMMA RowsInvStep == RowsInv /\ [SeatNext]_seatVars => RowsInv'
<1> SUFFICES ASSUME RowsInv, [SeatNext]_seatVars PROVE RowsInv'
  OBVIOUS
<1>1. SeatInv' /\ sw \in SoftwareRow /\ RestTyped /\ RequestsTyped
  BY SeatInvStep, SeatInvSplit DEF RowsInv, RestTyped
<1>2. CASE UNCHANGED <<sw, owner, open>>
  BY <1>1, <1>2 DEF RowsInv, OneSeatPerUser
<1>3. ASSUME NEW r \in Requests, AssignCommit(r) PROVE RowsInv'
  <2>1. OneSeatPerUser'
    BY <1>3, AssignCommitRows DEF OneSeatPerUser, RowsInv
  <2>2. sw'.total = sw.total
    BY <1>1, <1>3 DEF AssignCommit, WriteSeats, SoftwareRow
  <2>3. QED
    BY <1>1, <2>1, <2>2 DEF RowsInv
<1>4. ASSUME NEW r \in Requests, ReleaseCommit(r) PROVE RowsInv'
  <2>1. OneSeatPerUser'
    BY <1>4 DEF ReleaseCommit, OneSeatPerUser, RowsInv
  <2>2. sw'.total = sw.total
    BY <1>1, <1>4 DEF ReleaseCommit, WriteSeats, SoftwareRow
  <2>3. QED
    BY <1>1, <2>1, <2>2 DEF RowsInv
<1>5. QED
  BY <1>2, <1>3, <1>4, RowsStep

\* There are no rows to start with.
LEMMA RowsInvInit == SeatInit => RowsInv
  BY SeatInvInit DEF SeatInit, RowsInv, OneSeatPerUser

\* A user never has two open seats of the license: the index decides, whatever
\* the requests have looked up before.
THEOREM AtMostOneSeat == SeatSpec => []OneSeatPerUser
<1>1. RowsInv => OneSeatPerUser
  BY DEF RowsInv
<1>2. QED
  BY <1>1, RowsInvInit, RowsInvStep, PTL DEF SeatSpec

-----------------------------------------------------------------------------
(* AuditComplete.                                                          *)

\* The log tells of the opening, or the closing, of row i, or some request is
\* about to tell it.
AssignTold(i)  == \/ [act |-> "Assign", row |-> i] \in audit
                  \/ \E r \in Requests : Pending(r, "assign", i)
ReleaseTold(i) == \/ [act |-> "Unassign", row |-> i] \in audit
                  \/ \E r \in Requests : Pending(r, "release", i)

\* Every row is told of, as long as no fault has happened.
RowsTold == faults = 0 =>
              \A i \in 1..Len(owner) : AssignTold(i) /\ (i \in open \/ ReleaseTold(i))

\* AuditComplete made inductive: the service itself never archives the license.
AuditInv == SeatInv /\ ~sw.archived /\ (Actor \notin Archivable => RowsTold)

\* A request past its commit owes the record of the row it changed.
Owes(r)      == req[r].pc \in {"bump", "audit"}
OwesStill(r) == Owes(r)' /\ req'[r].op = req[r].op /\ req'[r].row = req[r].row

\* A step in which every request that owes a record keeps owing it or writes it
\* takes back nothing that was told.
LEMMA ToldStays ==
  ASSUME audit \subseteq audit',
         \A r \in Requests : Owes(r) => OwesStill(r) \/ SeatAuditRecord(r) \in audit'
  PROVE  \A i : (AssignTold(i) => AssignTold(i)') /\ (ReleaseTold(i) => ReleaseTold(i)')
<1>1. ASSUME NEW i, NEW r \in Requests, Pending(r, "assign", i)
      PROVE  AssignTold(i)'
  BY <1>1 DEF Pending, At, Owes, OwesStill, SeatAuditRecord, AssignTold
<1>2. ASSUME NEW i, NEW r \in Requests, Pending(r, "release", i)
      PROVE  ReleaseTold(i)'
  BY <1>2 DEF Pending, At, Owes, OwesStill, SeatAuditRecord, ReleaseTold
<1>3. QED
  BY <1>1, <1>2 DEF AssignTold, ReleaseTold

\* A step that opens and closes no row and takes nothing back.
LEMMA RowsToldStays ==
  ASSUME RowsTold, UNCHANGED <<owner, open>>, faults' = 0 => faults = 0,
         audit \subseteq audit',
         \A r \in Requests : Owes(r) => OwesStill(r) \/ SeatAuditRecord(r) \in audit'
  PROVE  RowsTold'
  BY ToldStays DEF RowsTold

\* The new row of an assign is owed its record by that very request.
LEMMA AssignSaveTold ==
  ASSUME SeatInv, RowsTold, NEW r \in Requests, AssignSave(r)
  PROVE  RowsTold'
<1>1. /\ owner \in Seq(Users) /\ req[r] \in Request /\ req[r].user \in Users
      /\ req \in [Requests -> Request]
  BY DEF SeatInv, SeatTypeOK, RequestsHaveUsers, AssignSave, AssignCommit, At
<1>2. /\ owner' = Append(owner, req[r].user) /\ open' = open \cup {Len(owner) + 1}
      /\ req' = [req EXCEPT ![r].pc = "bump", ![r].row = Len(owner')]
      /\ audit' = audit /\ faults' = faults /\ At(r, "assign", "save")
  BY DEF AssignSave, AssignCommit
<1>3. Len(owner') = Len(owner) + 1 /\ Len(owner) \in Nat
  BY <1>1, <1>2
<1>4. \A q \in Requests : Owes(q) => OwesStill(q)
  BY <1>1, <1>2 DEF At, Owes, OwesStill
<1>5. ASSUME NEW i \in Nat, i = Len(owner') PROVE Pending(r, "assign", i)'
  BY <1>1, <1>2, <1>5 DEF Pending, At, Request
<1>6. ASSUME NEW i \in 1..Len(owner'), faults = 0
      PROVE  AssignTold(i)' /\ (i \in open' \/ ReleaseTold(i)')
  <2>1. CASE i = Len(owner) + 1
    BY <1>2, <1>3, <1>5, <2>1 DEF AssignTold
  <2>2. CASE i \in 1..Len(owner)
    BY <1>2, <1>4, <1>6, <2>2, ToldStays DEF RowsTold
  <2>3. QED
    BY <1>3, <2>1, <2>2
<1>7. QED
  BY <1>2, <1>6 DEF RowsTold

\* The row a release closes is owed its record by that very request.
LEMMA ReleaseSaveTold ==
  ASSUME SeatInv, RowsTold, NEW r \in Requests, ReleaseSave(r)
  PROVE  RowsTold'
<1>1. req[r] \in Request /\ req \in [Requests -> Request]
  BY DEF SeatInv, SeatTypeOK
<1>2. /\ owner' = owner /\ open' = open \ {req[r].row}
      /\ req' = [req EXCEPT ![r].pc = "bump"]
      /\ audit' = audit /\ faults' = faults /\ At(r, "release", "save")
  BY DEF ReleaseSave, ReleaseCommit, Goto
<1>3. \A q \in Requests : Owes(q) => OwesStill(q)
  BY <1>1, <1>2 DEF At, Owes, OwesStill
<1>4. ASSUME NEW i, i = req[r].row PROVE Pending(r, "release", i)'
  BY <1>1, <1>2, <1>4 DEF Pending, At, Request
<1>5. ASSUME NEW i \in 1..Len(owner), faults = 0
      PROVE  AssignTold(i)' /\ (i \in open' \/ ReleaseTold(i)')
  <2>1. AssignTold(i)' /\ (i \in open \/ ReleaseTold(i)')
    BY <1>2, <1>3, <1>5, ToldStays DEF RowsTold
  <2>2. i = req[r].row => ReleaseTold(i)'
    BY <1>4 DEF ReleaseTold
  <2>3. QED
    BY <1>2, <2>1, <2>2
<1>6. QED
  BY <1>2, <1>5 DEF RowsTold

\* A request past its save writes the record it owes, unless a fault stops it.
LEMMA WriteAuditTold ==
  ASSUME SeatInv, ~sw.archived, Actor \notin Archivable, RowsTold,
         NEW r \in Requests, WriteAudit(r)
  PROVE  RowsTold'
<1>1. req \in [Requests -> Request] /\ Actor \notin archivedUsers
  BY DEF SeatInv, SeatTypeOK
<1>2. /\ audit' = audit \cup {SeatAuditRecord(r)} /\ req' = [req EXCEPT ![r] = Idle]
      /\ UNCHANGED <<owner, open, faults>>
  BY <1>1 DEF WriteAudit, Return
<1>3. \A q \in Requests : Owes(q) => OwesStill(q) \/ SeatAuditRecord(q) \in audit'
  BY <1>1, <1>2 DEF Owes, OwesStill
<1>4. QED
  BY <1>2, <1>3, RowsToldStays

\* A request that goes on from BumpAssets owes what it owed.
LEMMA BumpTold ==
  ASSUME SeatInv, RowsTold, NEW r \in Requests, Bump(r)
  PROVE  RowsTold'
<1>1. req \in [Requests -> Request]
  BY DEF SeatInv, SeatTypeOK
<1>2. req' = [req EXCEPT ![r].pc = "audit"] /\ UNCHANGED <<owner, open, audit, faults>>
  BY DEF Bump, Goto
<1>3. \A q \in Requests : Owes(q) => OwesStill(q)
  BY <1>1, <1>2 DEF Owes, OwesStill, Request
<1>4. QED
  BY <1>2, <1>3, RowsToldStays

\* The steps that leave alone what the log owes.
LEMMA OtherStepTold ==
  ASSUME SeatInv, RowsTold, NEW r \in Requests,
         \/ \E u \in Users : BeginAssign(r, u) \/ BeginRelease(r, u)
         \/ AssignRead(r) \/ AssignCount(r) \/ AssignAlreadyOpen(r)
         \/ ReleaseRead(r) \/ ReleaseFind(r) \/ SaveConflict(r) \/ AssignDuplicate(r)
  PROVE  RowsTold'
<1>1. UNCHANGED <<owner, open, audit, faults>>
  BY ZenonT(60) DEF BeginAssign, BeginRelease, Begin, AssignRead, AssignCount, AssignAlreadyOpen,
     ReleaseRead, ReleaseFind, SaveConflict, AssignDuplicate
<1>2. ~Owes(r)
  BY ZenonT(60), IdleTyped DEF BeginAssign, BeginRelease, Begin, AssignRead, AssignCount,
     AssignAlreadyOpen, ReleaseRead, ReleaseFind, SaveConflict, AssignDuplicate, At, Owes
<1>3. req \in [Requests -> Request]
  BY SMTT(60) DEF SeatInv, SeatTypeOK
<1>4. \A q \in Requests \ {r} : req'[q] = req[q]
  BY <1>3 DEF BeginAssign, BeginRelease, Begin, AssignRead, AssignCount, AssignAlreadyOpen,
     ReleaseRead, ReleaseFind, SaveConflict, AssignDuplicate, TrackSoftware, Goto, Return,
     Reload
<1>5. \A q \in Requests : Owes(q) => OwesStill(q)
  BY <1>2, <1>4 DEF Owes, OwesStill
<1>6. QED
  BY <1>1, <1>5, RowsToldStays

\* Every step keeps AuditInv: no request loses the record it owes.
LEMMA AuditInvStep == AuditInv /\ [SeatNext]_seatVars => AuditInv'
<1> SUFFICES ASSUME AuditInv, [SeatNext]_seatVars PROVE AuditInv'
  OBVIOUS
<1>1. SeatInv /\ SeatInv' /\ sw \in SoftwareRow /\ faults \in Nat
  BY SeatInvStep, NumbersAssumption DEF AuditInv, SeatInv, SeatTypeOK
<1>2. ~sw'.archived
  <2>1. ASSUME NEW r \in Requests, AssignCommit(r) \/ ReleaseCommit(r)
        PROVE  sw'.archived = sw.archived
    BY <1>1, <2>1 DEF AssignCommit, ReleaseCommit, WriteSeats, SoftwareRow
  <2>2. QED
    BY <2>1, RowsStep DEF AuditInv
<1>3. ASSUME Actor \notin Archivable, RowsTold PROVE RowsTold'
  <2>1. ASSUME NEW r \in Requests, SaveLostAck(r) \/ Cancel(r) PROVE RowsTold'
    BY <1>1, <2>1 DEF SaveLostAck, Cancel, RowsTold
  <2>2. ASSUME NEW u \in Users, ArchiveUser(u) \/ UnarchiveUser(u) PROVE RowsTold'
    BY <1>3, <2>2, RowsToldStays DEF ArchiveUser, UnarchiveUser, Owes, OwesStill
  <2>3. CASE UNCHANGED seatVars
    BY <1>3, <2>3, RowsToldStays DEF seatVars, Owes, OwesStill
  <2>4. QED
    BY <1>1, <1>3, <2>1, <2>2, <2>3, AssignSaveTold, ReleaseSaveTold, BumpTold, WriteAuditTold,
       OtherStepTold DEF SeatNext, Step, AuditInv
<1>4. QED
  BY <1>1, <1>2, <1>3 DEF AuditInv

\* The log is complete as soon as the last request has written its record,
\* however the requests interleave.
THEOREM AuditTellsAll == SeatSpec => []AuditComplete
<1>1. SeatInit => AuditInv
  BY SeatInvInit DEF SeatInit, AuditInv, RowsTold
<1>2. AuditInv => AuditComplete
  BY DEF AuditInv, RowsTold, AssignTold, ReleaseTold, AuditComplete
<1>3. QED
  BY <1>1, <1>2, AuditInvStep, PTL DEF SeatSpec

-----------------------------------------------------------------------------
(* The abstract ledger.                                                    *)

Holders == {owner[i] : i \in open}

\* No more holders than open rows.
LEMMA HoldersFinite ==
  ASSUME RestTyped
  PROVE  /\ IsFiniteSet(Holders) /\ Cardinality(Holders) \in Nat
         /\ Cardinality(Holders) <= Cardinality(open)
<1> DEFINE f == [i \in open |-> owner[i]]
<1>1. f \in Surjection(open, Holders)
  BY DEF Holders, Surjection
<1>2. QED
  BY <1>1, OpenFinite, FS_Surjection, FS_CardinalityType

\* A committed assign grants the seat in the ledger.
LEMMA AssignGrants ==
  ASSUME RowsInv, NEW r \in Requests, AssignCommit(r)
  PROVE  \E u \in Users : Ledger!Grant(u)
<1>0. PICK u \in Users : u = req[r].user
  BY DEF RowsInv, SeatInv, RequestsHaveUsers, AssignCommit, At
<1>1. RestTyped /\ RequestsTyped /\ SnapshotSound(r) /\ sw.total = Total
      /\ sw \in SoftwareRow /\ req[r] \in Request
  BY SeatInvSplit DEF RowsInv, RestTyped, RequestsTyped
<1>2. req[r].used = sw.used /\ req[r].total = sw.total /\ sw.used < sw.total
  BY <1>1 DEF SnapshotSound, AssignCommit, RowVersionMatches, At, Request, SoftwareRow
<1>3. SeatsAfterAssign(r) = sw.used + 1 /\ sw.used + 1 \in Nat
  BY <1>1, <1>2 DEF SeatsAfterAssign, SoftwareRow
<1>4. sw'.used = sw.used + 1
  BY <1>1, <1>3, WriteSeatsTyped DEF AssignCommit
<1>5. u \notin {owner[i] : i \in open}
  BY <1>0, AssignCommitRows
<1>6. {owner'[i] : i \in open'} = {owner[i] : i \in open} \cup {u}
  BY <1>0, AssignCommitRows
<1>7. QED
  BY <1>1, <1>2, <1>4, <1>5, <1>6 DEF Ledger!Grant

\* A committed release revokes or leaks the seat of the row's owner, reclaims a
\* seat charged for nobody, or changes nothing.
LEMMA ReleaseRevokes ==
  ASSUME RowsInv, NEW r \in Requests, ReleaseCommit(r)
  PROVE  \/ \E u \in Users : Ledger!Revoke(u) \/ Ledger!Leak(u)
         \/ Ledger!Reclaim
         \/ UNCHANGED <<{owner[i] : i \in open}, sw.used>>
<1> DEFINE row == req[r].row
<1>1. RestTyped /\ RequestsTyped /\ SnapshotSound(r) /\ OneSeatPerUser
      /\ sw \in SoftwareRow /\ req[r] \in Request
  BY SeatInvSplit DEF RowsInv, RestTyped, RequestsTyped
<1>2. open' = open \ {row} /\ owner' = owner
  BY DEF ReleaseCommit
<1>3. row \in open =>
        /\ owner[row] \in Users /\ owner[row] \in {owner[i] : i \in open}
        /\ {owner'[i] : i \in open'} = {owner[i] : i \in open} \ {owner[row]}
  <2>1. ASSUME row \in open PROVE owner[row] \in Users
    <3>1. owner \in Seq(Users) /\ open \subseteq 1..Len(owner)
      BY <1>1 DEF RestTyped
    <3>2. \A i \in 1..Len(owner) : owner[i] \in Users
      BY <3>1
    <3>3. QED
      BY <2>1, <3>1, <3>2
  <2>2. ASSUME row \in open
        PROVE  {owner'[i] : i \in open'} = {owner[i] : i \in open} \ {owner[row]}
    BY <1>1, <1>2, <2>2 DEF OneSeatPerUser
  <2>3. QED
    BY <2>1, <2>2
<1>4. row \notin open => {owner'[i] : i \in open'} = {owner[i] : i \in open}
  BY <1>2
<1>5. CASE SeatsAfterRelease(r) = req[r].used
  <2>1. sw' = sw
    BY <1>5 DEF ReleaseCommit
  <2>2. CASE row \in open
    BY <1>3, <2>1, <2>2 DEF Ledger!Leak
  <2>3. CASE row \notin open
    BY <1>4, <2>1, <2>3
  <2>4. QED
    BY <2>2, <2>3
<1>6. CASE SeatsAfterRelease(r) # req[r].used
  <2>1. req[r].used > 0 /\ RowVersionMatches(r) /\ WriteSeats(SeatsAfterRelease(r))
    BY <1>1, <1>6 DEF ReleaseCommit, SeatsAfterRelease, Request
  <2>2. req[r].used = sw.used /\ (row \in open \/ Cardinality(open) < sw.used)
    BY <1>1, <2>1 DEF SnapshotSound, ReleaseCommit, RowVersionMatches, At, Request, SoftwareRow
  <2>3. SeatsAfterRelease(r) = sw.used - 1 /\ sw.used - 1 \in Nat
    BY <1>1, <2>1, <2>2 DEF SeatsAfterRelease, SoftwareRow
  <2>4. sw'.used = sw.used - 1
    BY <1>1, <2>1, <2>3, WriteSeatsTyped
  <2>5. CASE row \in open
    BY <1>3, <2>4, <2>5 DEF Ledger!Revoke
  <2>6. CASE row \notin open
    <3>1. sw.used > Cardinality({owner[i] : i \in open})
      BY <1>1, <2>2, <2>6, HoldersFinite, OpenFinite DEF Holders, SoftwareRow
    <3>2. sw.used > Ledger!Cardinality({owner[i] : i \in open})
      BY <3>1 DEF Cardinality, Ledger!Cardinality
    <3>3. QED
      BY <1>4, <2>4, <2>6, <3>2 DEF Ledger!Reclaim
  <2>7. QED
    BY <2>5, <2>6
<1>7. QED
  BY <1>5, <1>6

\* The seat service, with all its interleavings, implements the atomic ledger.
THEOREM ServiceImplementsLedger == SeatSpec => ImplementsLedger
<1>1. SeatInit => Ledger!LedgerInit
  BY DEF SeatInit, Ledger!LedgerInit
<1>2. RowsInv /\ [SeatNext]_seatVars => [Ledger!LedgerNext]_(Ledger!ledgerVars)
  <2> SUFFICES ASSUME RowsInv, [SeatNext]_seatVars
               PROVE  [Ledger!LedgerNext]_(Ledger!ledgerVars)
    OBVIOUS
  <2>1. CASE UNCHANGED <<sw, owner, open>>
    BY <2>1 DEF Ledger!ledgerVars
  <2>2. ASSUME NEW r \in Requests, AssignCommit(r) PROVE Ledger!LedgerNext
    BY <2>2, AssignGrants DEF Ledger!LedgerNext
  <2>3. ASSUME NEW r \in Requests, ReleaseCommit(r)
        PROVE  [Ledger!LedgerNext]_(Ledger!ledgerVars)
    BY <2>3, ReleaseRevokes DEF Ledger!LedgerNext, Ledger!ledgerVars
  <2>4. QED
    BY <2>1, <2>2, <2>3, RowsStep
<1>3. QED
  BY <1>1, <1>2, RowsInvInit, RowsInvStep, PTL
     DEF SeatSpec, ImplementsLedger, Ledger!LedgerSpec
=============================================================================
