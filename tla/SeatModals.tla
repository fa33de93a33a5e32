----------------------------- MODULE SeatModals -----------------------------
(***************************************************************************)
(* Assigning and unassigning from the search page: the click on the icon   *)
(* of a row (pages/search.index.js), the dialogs it opens                  *)
(* (components/seatModeModal.js, assignAssetModal.js and                   *)
(* unassignAssetModal.js), the events they send back, and what the row     *)
(* shows afterwards.  The handlers are asynchronous and share the fields   *)
(* of one dialog; each request is one step of the endpoint it reaches.     *)
(***************************************************************************)
EXTENDS Integers, FiniteSets

CONSTANTS
    Hardware, Software,   \* the assets with a row on the page
    Users,
    None,                 \* no user, no asset, no assignment
    Unnamed,              \* the cell says "Assigned", without a name
    Seats,                \* LicenseTotalSeats of each license
    Tasks,                \* handlers that can be waiting at once
    MaxHaste,             \* bound: clicks made before an earlier one has finished
    MaxEvents             \* bound: lost requests and changes by other users

ASSUME ModalsAssumption ==
    /\ Hardware \cap Software = {} /\ None \notin Hardware \cup Software
    /\ None \notin Users /\ Unnamed \notin Users /\ Unnamed # None /\ IsFiniteSet(Users)
    /\ Seats \in Nat \ {0} /\ MaxHaste \in Nat /\ MaxEvents \in Nat

VARIABLES
    open,      \* the open assignments <<asset, user>> of the database
    row,       \* row[a]: the name, or the number of used seats, in the cell
    mode,      \* the license the seat mode dialog is shown for
    assign,    \* the assign dialog
    picker,    \* its list of users
    file,      \* the asset the dialog was open for when the agreement was chosen
    unassign,  \* the unassign dialog
    task,      \* task[t]: an asynchronous handler, or a request of one
    haste, events

modalVars == <<open, row, mode, assign, picker, file, unassign, task, haste, events>>

Assets == Hardware \cup Software
Pairs  == Assets \X Users
Idle   == [pc |-> "idle", asset |-> None, user |-> None, used |-> 0]
Open(t, pc, a) == [task EXCEPT ![t] = [Idle EXCEPT !.pc = pc, !.asset = a]]
End(t) == [task EXCEPT ![t] = Idle]
Quiet  == \A t \in Tasks : task[t] = Idle
HoldersOf(a) == {u \in Users : <<a, u>> \in open}
\* What the cell of an asset should say.
Cell(a) == IF a \in Software THEN Cardinality(HoldersOf(a))
           ELSE IF HoldersOf(a) = {} THEN None ELSE CHOOSE u \in Users : u \in HoldersOf(a)

\* A click made while an earlier one is still being worked on.
Hasty == /\ ~Quiet => haste < MaxHaste
         /\ haste' = IF Quiet THEN haste ELSE haste + 1

-----------------------------------------------------------------------------
(***************************************************************************)
(* Deliberately wrong variants of the definitions below them.              *)
(***************************************************************************)
SeatsAfterUnassignKept(used) == used
SeatsBelowZero(used) == used - 1
UnassignNamedKeeps(t) ==
    /\ task[t].pc = "un:summary"
    /\ LET a == task[t].asset
       IN /\ unassign' = [unassign EXCEPT !.says = a]
          /\ task' = Open(t, IF a \in Software THEN "un:list" ELSE "un:resolve", a)
    /\ UNCHANGED <<open, row, mode, assign, picker, file, haste, events>>
-----------------------------------------------------------------------------

ModalsInit ==
    /\ open = {}
    /\ row = [a \in Assets |-> IF a \in Software THEN 0 ELSE None]
    /\ mode = None
    /\ assign = [shown |-> FALSE, asset |-> None, user |-> None, sel |-> None]
    /\ picker = [loading |-> FALSE, list |-> {}]
    /\ file = None
    /\ unassign = [shown |-> FALSE, says |-> None, asset |-> None, hidden |-> None, list |-> {}]
    /\ task = [t \in Tasks |-> Idle]
    /\ haste = 0 /\ events = 0

-----------------------------------------------------------------------------
(* Opening a dialog.  Bootstrap's backdrop keeps the row out of reach while *)
(* a dialog is shown, and only then.                                        *)

\* assign:open up to its first await.
StartAssign(t, a) ==
    /\ assign' = [assign EXCEPT !.user = None, !.sel = None]
    /\ picker' = [picker EXCEPT !.list = {}]
    /\ task' = Open(t, "as:summary", a)
    /\ UNCHANGED unassign

\* unassign:open up to its first await.
StartUnassign(t, a) ==
    /\ unassign' = [unassign EXCEPT !.asset = a, !.list = {}]
    /\ task' = Open(t, "un:summary", a)
    /\ UNCHANGED <<assign, picker>>

\* The icon of a row: which dialog depends on what the row shows.
ClickRow(t, a) ==
    /\ ~assign.shown /\ ~unassign.shown /\ mode = None /\ task[t] = Idle
    /\ Hasty
    /\ LET avail == a \in Software /\ row[a] < Seats
           used  == a \in Software /\ row[a] > 0
       IN \/ /\ avail /\ used
             /\ mode' = a /\ UNCHANGED <<assign, picker, unassign, task>>
          \/ /\ (avail /\ ~used) \/ (a \in Hardware /\ row[a] = None)
             /\ StartAssign(t, a) /\ UNCHANGED mode
          \/ /\ (a \in Software /\ ~avail) \/ (a \in Hardware /\ row[a] # None)
             /\ StartUnassign(t, a) /\ UNCHANGED mode
    /\ UNCHANGED <<open, row, file, events>>

\* The two buttons of the seat mode dialog, or its close button.
ChooseMode(t) ==
    /\ mode # None /\ task[t] = Idle
    /\ Hasty
    /\ mode' = None
    /\ \/ StartAssign(t, mode) \/ StartUnassign(t, mode)
       \/ UNCHANGED <<assign, picker, unassign, task>>
    /\ UNCHANGED <<open, row, file, events>>

\* The list is cleared and loaded; a load that is running already, for another
\* asset or search text, is not replaced.
Load == [loading |-> TRUE, list |-> {}]

\* The rest of assign:open, once the asset's name is known or could not be
\* fetched.
AssignOpened(t) ==
    /\ task[t].pc = "as:summary"
    /\ assign' = [shown |-> TRUE, asset |-> task[t].asset, user |-> None, sel |-> None]
    /\ picker' = Load
    /\ task' = End(t)
    /\ UNCHANGED <<open, row, mode, file, unassign, haste, events>>

\* The rest of unassign:open up to its second await.
UnassignNamed(t) ==
    /\ task[t].pc = "un:summary"
    /\ LET a == task[t].asset
       IN /\ unassign' = [unassign EXCEPT !.says = a, !.hidden = None,
                                          !.list = IF a \in Software THEN {} ELSE @]
          /\ task' = Open(t, IF a \in Software THEN "un:list" ELSE "un:resolve", a)
    /\ UNCHANGED <<open, row, mode, assign, picker, file, haste, events>>

\* Hardware: the open assignment is looked up; without one, or when the request
\* fails, the dialog is shown all the same.
UnassignResolved(t, found) ==
    /\ task[t].pc = "un:resolve"
    /\ LET ps == {p \in open : found /\ p[1] = task[t].asset}
       IN unassign' = [unassign EXCEPT !.shown = TRUE,
                                       !.hidden = IF ps = {} THEN None ELSE CHOOSE p \in ps : TRUE]
    /\ task' = End(t)
    /\ UNCHANGED <<open, row, mode, assign, picker, file, haste, events>>

\* Software: the holders are added to the list.
UnassignListed(t, found) ==
    /\ task[t].pc = "un:list"
    /\ unassign' = [unassign EXCEPT !.shown = TRUE,
                        !.list = @ \cup {p \in open : found /\ p[1] = task[t].asset}]
    /\ task' = End(t)
    /\ UNCHANGED <<open, row, mode, assign, picker, file, haste, events>>

-----------------------------------------------------------------------------
(* The assign dialog.                                                      *)

\* Any users: they come in pages, narrowed by the search text, those with a
\* seat of the license left out by an answer that may be five seconds old, and
\* none when the request fails.
PickerAnswered(list) ==
    /\ picker.loading
    /\ picker' = [loading |-> FALSE, list |-> list]
    /\ UNCHANGED <<open, row, mode, assign, file, unassign, task, haste, events>>

\* The debounced search box.
SearchUsers ==
    /\ assign.shown
    /\ Hasty
    /\ assign' = [assign EXCEPT !.user = None, !.sel = None]
    /\ picker' = Load
    /\ UNCHANGED <<open, row, mode, file, unassign, task, events>>

PickUser(u) ==
    /\ assign.shown /\ u \in picker.list
    /\ Hasty
    /\ assign' = [assign EXCEPT !.user = u, !.sel = u]
    /\ UNCHANGED <<open, row, mode, picker, file, unassign, task, events>>

ChooseFile ==
    /\ assign.shown
    /\ Hasty
    /\ file' = assign.asset
    /\ UNCHANGED <<open, row, mode, assign, picker, unassign, task, events>>

\* A user and an agreement are required.
SubmitAssign(t) ==
    /\ assign.shown /\ assign.user # None /\ file # None /\ task[t] = Idle
    /\ Hasty
    /\ task' = [task EXCEPT ![t] = [Idle EXCEPT !.pc = "as:post", !.asset = assign.asset,
                                                !.user = assign.user]]
    /\ UNCHANGED <<open, row, mode, assign, picker, file, unassign, events>>

Assignable(a, u) == IF a \in Hardware THEN HoldersOf(a) = {}
                    ELSE <<a, u>> \notin open /\ Cardinality(HoldersOf(a)) < Seats

\* Who has a seat of a license that is not full is told so, as of a success, but
\* without the id of an assignment.
Seated(a, u) == a \in Software /\ <<a, u>> \in open /\ Cardinality(HoldersOf(a)) < Seats

\* A refusal ends the handler with a message.
ServerAssigns(t) ==
    /\ task[t].pc = "as:post"
    /\ LET a == task[t].asset  u == task[t].user
       IN \/ /\ Assignable(a, u)
             /\ open' = open \cup {<<a, u>>}
             /\ task' = [task EXCEPT ![t].pc = "as:answer",
                                     ![t].used = Cardinality(HoldersOf(a)) + 1]
          \/ /\ Seated(a, u)
             /\ open' = open
             /\ task' = [task EXCEPT ![t].pc = "as:seated", ![t].used = Cardinality(HoldersOf(a))]
          \/ ~Assignable(a, u) /\ ~Seated(a, u) /\ open' = open /\ task' = End(t)
    /\ UNCHANGED <<row, mode, assign, picker, file, unassign, haste, events>>

\* seat:updated for a license, then the upload of the agreement.
AssignAnswered(t) ==
    /\ task[t].pc = "as:answer"
    /\ row' = IF task[t].asset \in Software THEN [row EXCEPT ![task[t].asset] = task[t].used] ELSE row
    /\ task' = [task EXCEPT ![t].pc = "as:upload"]
    /\ UNCHANGED <<open, mode, assign, picker, file, unassign, haste, events>>

\* The name assign:saved brings: that of the option selected by now.
NameSent(sel) == IF sel = None THEN Unnamed ELSE sel

\* The upload is over, well or not: the file is cleared, assign:saved is sent
\* and the dialog is hidden.
AgreementSent(t) ==
    /\ task[t].pc = "as:upload"
    /\ file' = None
    /\ row' = IF task[t].asset \in Hardware
              THEN [row EXCEPT ![task[t].asset] = NameSent(assign.sel)] ELSE row
    /\ assign' = [assign EXCEPT !.shown = FALSE]
    /\ task' = End(t)
    /\ UNCHANGED <<open, mode, picker, unassign, haste, events>>

\* Without an id there is no upload and the file stays chosen: seat:updated,
\* assign:saved, and the dialog is hidden.
SeatKept(t) ==
    /\ task[t].pc = "as:seated"
    /\ row' = [row EXCEPT ![task[t].asset] = task[t].used]
    /\ assign' = [assign EXCEPT !.shown = FALSE]
    /\ task' = End(t)
    /\ UNCHANGED <<open, mode, picker, file, unassign, haste, events>>

CloseAssign ==
    /\ assign.shown
    /\ assign' = [assign EXCEPT !.shown = FALSE]
    /\ UNCHANGED <<open, row, mode, picker, file, unassign, task, haste, events>>

-----------------------------------------------------------------------------
(* The unassign dialog.                                                    *)

PickSeat(p) ==
    /\ unassign.shown /\ unassign.says \in Software /\ p \in unassign.list
    /\ Hasty
    /\ unassign' = [unassign EXCEPT !.hidden = p]
    /\ UNCHANGED <<open, row, mode, assign, picker, file, task, events>>

SubmitUnassign(t) ==
    /\ unassign.shown /\ unassign.hidden # None /\ task[t] = Idle
    /\ Hasty
    /\ task' = [task EXCEPT ![t] = [Idle EXCEPT !.pc = "un:post", !.asset = unassign.hidden[1],
                                                !.user = unassign.hidden[2]]]
    /\ UNCHANGED <<open, row, mode, assign, picker, file, unassign, events>>

ServerCloses(t) ==
    /\ task[t].pc = "un:post"
    /\ LET p == <<task[t].asset, task[t].user>>
       IN /\ open' = open \ {p}
          /\ task' = IF p \in open THEN [task EXCEPT ![t].pc = "un:answer"] ELSE End(t)
    /\ UNCHANGED <<row, mode, assign, picker, file, unassign, haste, events>>

\* The chip of the row is read and lowered by one.
SeatsAfterUnassign(used) == IF used = 0 THEN 0 ELSE used - 1

\* seat:updated, or unassign:saved, for the asset of the latest unassign:open.
UnassignAnswered(t) ==
    /\ task[t].pc = "un:answer"
    /\ row' = [row EXCEPT ![unassign.asset] =
                 IF unassign.asset \in Software THEN SeatsAfterUnassign(@) ELSE None]
    /\ unassign' = [unassign EXCEPT !.shown = FALSE]
    /\ task' = End(t)
    /\ UNCHANGED <<open, mode, assign, picker, file, haste, events>>

CloseUnassign ==
    /\ unassign.shown
    /\ unassign' = [unassign EXCEPT !.shown = FALSE]
    /\ UNCHANGED <<open, row, mode, assign, picker, file, task, haste, events>>

-----------------------------------------------------------------------------
(* Failures, and other users of the system.                                *)

Lost(t) ==
    /\ events < MaxEvents /\ task[t].pc \in {"as:post", "as:answer", "as:seated",
                                                   "un:post", "un:answer"}
    /\ events' = events + 1
    /\ task' = End(t)
    /\ UNCHANGED <<open, row, mode, assign, picker, file, unassign, haste>>

OtherChanges(p) ==
    /\ events < MaxEvents
    /\ events' = events + 1
    /\ \/ Assignable(p[1], p[2]) /\ open' = open \cup {p}
       \/ p \in open /\ open' = open \ {p}
    /\ UNCHANGED <<row, mode, assign, picker, file, unassign, task, haste>>

Handler(t) ==
    \/ AssignOpened(t)
    \/ UnassignNamed(t)
    \/ \E found \in BOOLEAN : UnassignResolved(t, found) \/ UnassignListed(t, found)
    \/ ServerAssigns(t)
    \/ AssignAnswered(t)
    \/ AgreementSent(t)
    \/ SeatKept(t)
    \/ ServerCloses(t)
    \/ UnassignAnswered(t)

ModalsNext ==
    \/ \E t \in Tasks :
         \/ \E a \in Assets : ClickRow(t, a)
         \/ ChooseMode(t)
         \/ SubmitAssign(t)
         \/ SubmitUnassign(t)
         \/ Handler(t)
         \/ Lost(t)
    \/ \E list \in SUBSET Users : PickerAnswered(list)
    \/ SearchUsers
    \/ \E u \in Users : PickUser(u)
    \/ ChooseFile
    \/ CloseAssign
    \/ \E p \in Pairs : PickSeat(p) \/ OtherChanges(p)
    \/ CloseUnassign

ModalsSpec == ModalsInit /\ [][ModalsNext]_modalVars

-----------------------------------------------------------------------------
\* Every variable of the page and its dialogs keeps its type.
ModalsTypeOK ==
    /\ open \subseteq Pairs
    /\ \A a \in Software : row[a] \in 0..Seats
    /\ \A a \in Hardware : row[a] \in Users \cup {None, Unnamed}
    /\ mode \in Software \cup {None}
    /\ assign \in [shown : BOOLEAN, asset : Assets \cup {None}, user : Users \cup {None},
                   sel : Users \cup {None}]
    /\ picker \in [loading : BOOLEAN, list : SUBSET Users]
    /\ file \in Assets \cup {None}
    /\ unassign.hidden \in Pairs \cup {None} /\ unassign.list \subseteq Pairs
    /\ unassign.says \in Assets \cup {None} /\ unassign.asset \in Assets \cup {None}
    /\ \A t \in Tasks : task[t].used \in 0..Seats
    /\ haste \in 0..MaxHaste /\ events \in 0..MaxEvents

\* A user who waits for each click to finish, while nothing fails and nobody
\* else changes the assets, sees in every row what the database holds, although
\* the rows are patched from events and never read again.
RowsFollowServer ==
    haste = 0 /\ events = 0 /\ Quiet => \A a \in Assets : row[a] = Cell(a)

\* The dialog that user is shown offers open assignments only, of the asset it
\* names: neither the list nor the choice of an earlier opening is left in it.
OffersOpenAssignments ==
    haste = 0 /\ events = 0 /\ Quiet /\ unassign.shown =>
        ({unassign.hidden} \ {None}) \cup unassign.list
            \subseteq {p \in open : p[1] = unassign.says}

\* The agreement a user chose is for the asset the dialog is open for.
AgreementIsForAsset == assign.shown /\ file # None => file = assign.asset
=============================================================================
