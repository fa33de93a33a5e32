------------------------------ MODULE AdminPage -----------------------------
(***************************************************************************)
(* The user administration page (pages/admin.index.js): the server-side    *)
(* search behind the table, the dialog that adds a person picked from the  *)
(* directory, the dialog that edits a user, and the endpoints of           *)
(* AdminUsersApiController they call.  The handlers are asynchronous and   *)
(* share the table, the search box and the fields of each dialog.          *)
(***************************************************************************)
EXTENDS Integers, FiniteSets, Sequences

CONSTANTS
    People,       \* persons of the directory; a search text is the name of one
    Blank,        \* an empty search box, an empty field
    Offices,
    Tasks,        \* requests of the dialogs that can be waiting at once
    MaxHaste,     \* bound: careless clicks, see Hasty
    MaxEvents     \* bound: failed requests

ASSUME AdminAssumption ==
    /\ Blank \notin People \cup Offices /\ "typed" \notin People \cup {Blank}
    /\ MaxHaste \in Nat /\ MaxEvents \in Nat

VARIABLES
    db,       \* db[p]: the status and the office of the user, "none" without a row
    box,      \* the search box and the toggle
    table,    \* the rows, and the prompt in their place
    search,   \* the request of the last search, and answers held back for the spinner
    form,     \* the dialog that adds a user
    edit,     \* the dialog that edits one
    task,
    haste, events

adminVars == <<db, box, table, search, form, edit, task, haste, events>>

Statuses == {"Active", "Inactive"}
StatusOf(inactive) == IF inactive THEN "Inactive" ELSE "Active"
Row(p) == [id |-> p, st |-> db[p].st, office |-> db[p].office]
\* The prompts: enter a name, no users found, none.
Prompts == {"enter", "nobody", ""}

Idle  == [pc |-> "idle", who |-> Blank, st |-> "Active", office |-> Blank]
Quiet == search = [asked |-> Blank, held |-> <<>>] /\ \A t \in Tasks : task[t] = Idle
Send(t, pc, who, st, office) ==
    task' = [task EXCEPT ![t] = [pc |-> pc, who |-> who, st |-> st, office |-> office]]
End(t) == task' = [task EXCEPT ![t] = Idle]
\* The fields of the edit dialog are filled each time it is opened.
Closed == [shown |-> FALSE, id |-> Blank, was |-> FALSE, old |-> Blank]
Event  == events < MaxEvents /\ events' = events + 1

\* A click made while something is under way, or without what the form asks for.
Hasty(careless) ==
    LET hasty == careless \/ ~Quiet
    IN /\ hasty => haste < MaxHaste
       /\ haste' = IF hasty THEN haste + 1 ELSE haste

-----------------------------------------------------------------------------
(***************************************************************************)
(* Deliberately wrong variants of the definitions below them.              *)
(***************************************************************************)
KnownUnarchived(p) == db[p].st = "Active"
AddFailsQuietly(t, done) ==
    /\ task[t].pc = "add"
    /\ Event
    /\ End(t)
    /\ UNCHANGED <<db, box, table, search, form, edit, haste>>
NotReloaded == UNCHANGED <<table, search>>
SearchAnsweredAgain ==
    /\ search.asked # Blank
    /\ search' = [search EXCEPT !.held = Append(@, {})]
    /\ UNCHANGED <<db, box, table, form, edit, task, haste, events>>
-----------------------------------------------------------------------------

AdminInit ==
    /\ db \in [People -> [st : Statuses \cup {"none"}, office : Offices]]
    /\ box = [text |-> Blank, inactive |-> FALSE]
    /\ table = [rows |-> {}, prompt |-> "enter"]
    /\ search = [asked |-> Blank, held |-> <<>>]
    /\ form = [shown |-> FALSE, name |-> Blank, graph |-> Blank, offered |-> {},
               exists |-> FALSE, off |-> FALSE]
    /\ edit = Closed
    /\ task = [t \in Tasks |-> Idle]
    /\ haste = 0 /\ events = 0

-----------------------------------------------------------------------------
(* The table.                                                              *)

\* searchUsersFromServer up to its request.  A blank text leaves a search that is
\* under way alone; another one aborts it, unless its answer is already here.
searchUsersFromServer(text, inactive) ==
    IF text = Blank
    THEN /\ table' = [rows |-> {}, prompt |-> "enter"]
         /\ UNCHANGED search
    ELSE /\ table' = [rows |-> {}, prompt |-> ""]
         /\ search' = [search EXCEPT !.asked = [text |-> text, inactive |-> inactive]]

\* Without a text the table is emptied and the prompt stays as it is.
reloadCurrentSearch ==
    IF box.text = Blank
    THEN table' = [table EXCEPT !.rows = {}] /\ UNCHANGED search
    ELSE searchUsersFromServer(box.text, box.inactive)

NoDialog == ~form.shown /\ ~edit.shown

TypeSearch(text) ==
    /\ NoDialog
    /\ box' = [box EXCEPT !.text = text]
    /\ UNCHANGED <<db, table, search, form, edit, task, haste, events>>

PressEnter ==
    /\ NoDialog
    /\ Hasty(FALSE)
    /\ searchUsersFromServer(box.text, box.inactive)
    /\ UNCHANGED <<db, box, form, edit, task, events>>

\* Both change listeners: the search is repeated for the other status, then the
\* table and the box are emptied and the prompt is put back.
ToggleInactive ==
    /\ NoDialog
    /\ Hasty(FALSE)
    /\ search' = IF box.text = Blank THEN search
                 ELSE [search EXCEPT !.asked = [text |-> box.text, inactive |-> ~box.inactive]]
    /\ table' = [rows |-> {}, prompt |-> "enter"]
    /\ box' = [text |-> Blank, inactive |-> ~box.inactive]
    /\ UNCHANGED <<db, form, edit, task, events>>

\* AdminUsersApiController.Search.
Found(asked) ==
    {Row(p) : p \in {q \in People : q = asked.text /\ db[q].st = StatusOf(asked.inactive)}}

\* The answer is held back until the spinner has been shown long enough.
SearchAnswered ==
    /\ search.asked # Blank
    /\ search' = [asked |-> Blank, held |-> Append(search.held, Found(search.asked))]
    /\ UNCHANGED <<db, box, table, form, edit, task, haste, events>>

\* The start of the spinner is that of the latest search, so no answer overtakes
\* an older one.
SearchShown ==
    /\ search.held # <<>>
    /\ table' = IF Head(search.held) = {} THEN [rows |-> {}, prompt |-> "nobody"]
                ELSE [table EXCEPT !.rows = Head(search.held)]
    /\ search' = [search EXCEPT !.held = Tail(@)]
    /\ UNCHANGED <<db, box, form, edit, task, haste, events>>

SearchFails ==
    /\ search.asked # Blank
    /\ Event
    /\ search' = [search EXCEPT !.asked = Blank]
    /\ UNCHANGED <<db, box, table, form, edit, task, haste>>

-----------------------------------------------------------------------------
(* Adding a user.  The dialog keeps its fields between openings.           *)

OpenAdd ==
    /\ NoDialog
    /\ form' = [form EXCEPT !.shown = TRUE]
    /\ UNCHANGED <<db, box, table, search, edit, task, haste, events>>

\* A click outside the list of suggestions closes it.
CloseAdd ==
    /\ form.shown
    /\ Hasty(FALSE)
    /\ form' = [form EXCEPT !.shown = FALSE, !.offered = {}]
    /\ UNCHANGED <<db, box, table, search, edit, task, events>>

\* Typing a name, and searchAAD once the debounce is over; whoever was picked
\* before stays in the hidden field.
TypeName(t, text) ==
    /\ form.shown /\ task[t] = Idle
    /\ Hasty(FALSE)
    /\ form' = [form EXCEPT !.name = "typed", !.offered = {}]
    /\ Send(t, "aad", text, "Active", Blank)
    /\ UNCHANGED <<db, box, table, search, edit, events>>

\* A new search does not abort the old one: aimsFetch puts its own signal in.
SuggestionsAnswered(t) ==
    /\ task[t].pc = "aad"
    /\ form' = [form EXCEPT !.offered = {task[t].who}]
    /\ End(t)
    /\ UNCHANGED <<db, box, table, search, edit, haste, events>>

SuggestionsFail(t) ==
    /\ task[t].pc = "aad"
    /\ Event
    /\ form' = [form EXCEPT !.offered = {}]
    /\ End(t)
    /\ UNCHANGED <<db, box, table, search, edit, haste>>

PickSuggestion(t, p) ==
    /\ form.shown /\ p \in form.offered /\ task[t] = Idle
    /\ Hasty(FALSE)
    /\ form' = [form EXCEPT !.name = p, !.graph = p, !.offered = {}]
    /\ Send(t, "check", p, "Active", Blank)
    /\ UNCHANGED <<db, box, table, search, edit, events>>

\* AdminUsersApiController.Exists: archived users count.
Exists(p) == db[p].st # "none"

\* checkUserExists: the last answer decides, for whomever it was asked.
ExistsAnswered(t) ==
    /\ task[t].pc = "check"
    /\ form' = [form EXCEPT !.exists = Exists(task[t].who), !.off = Exists(task[t].who)]
    /\ End(t)
    /\ UNCHANGED <<db, box, table, search, edit, haste, events>>

ExistsFails(t) ==
    /\ task[t].pc = "check"
    /\ Event
    /\ form' = [form EXCEPT !.exists = FALSE, !.off = FALSE]
    /\ End(t)
    /\ UNCHANGED <<db, box, table, search, edit, haste>>

\* addUser up to its request: the hidden field is what counts, and what is sent.
SubmitUser(t, office, status) ==
    /\ form.shown /\ ~form.off /\ form.graph # Blank /\ task[t] = Idle
    /\ Hasty(form.name # form.graph)
    /\ form' = [form EXCEPT !.off = TRUE, !.offered = {}]
    /\ Send(t, "add", form.graph, status, office)
    /\ UNCHANGED <<db, box, table, search, edit, events>>

\* UpsertAdminUserAsync: a user who has a row is active again.
Upserted(p, office) == [db EXCEPT ![p] = [st |-> "Active", office |-> office]]

\* The new row shows the status of the form, which was not sent, and no office.
insertUserRow(p, status) ==
    table' = [table EXCEPT !.rows = @ \cup {[id |-> p, st |-> status, office |-> Blank]}]

\* form.reset() does not reach the hidden field.
UserAdded(t) ==
    /\ task[t].pc = "add"
    /\ db' = Upserted(task[t].who, task[t].office)
    /\ insertUserRow(task[t].who, task[t].st)
    /\ form' = [form EXCEPT !.shown = FALSE, !.name = Blank, !.offered = {}, !.off = FALSE]
    /\ End(t)
    /\ UNCHANGED <<box, search, edit, haste, events>>

\* An error answer or none, with or without the user saved.
AddFails(t, done) ==
    /\ task[t].pc = "add"
    /\ Event
    /\ db' = IF done THEN Upserted(task[t].who, task[t].office) ELSE db
    /\ form' = [form EXCEPT !.off = FALSE]
    /\ End(t)
    /\ UNCHANGED <<box, table, search, edit, haste>>

-----------------------------------------------------------------------------
(* Editing a user.                                                         *)

\* The fields come from the row, not from the server.
openEditUserModal(r) ==
    /\ NoDialog
    /\ r \in table.rows
    /\ edit' = [shown |-> TRUE, id |-> r.id, was |-> r.st = "Inactive", old |-> r.office]
    /\ UNCHANGED <<db, box, table, search, form, task, haste, events>>

CloseEdit ==
    /\ edit.shown
    /\ Hasty(FALSE)
    /\ edit' = Closed
    /\ UNCHANGED <<db, box, table, search, form, task, events>>

\* saveUserEdit up to its request: a change of the status, else one of the office.
saveUserEdit(t, status, office) ==
    /\ edit.shown /\ task[t] = Idle
    /\ Hasty(FALSE)
    /\ LET restatus == (status = "Inactive") # edit.was
       IN IF restatus \/ office # edit.old
          THEN /\ Send(t, IF restatus THEN "status" ELSE "office", edit.id, status, office)
               /\ UNCHANGED <<edit, table, search>>
          ELSE /\ edit' = Closed
               /\ reloadCurrentSearch
               /\ UNCHANGED task
    /\ UNCHANGED <<db, box, form, events>>

\* Archive and Unarchive; EditUserLocalID, which does not find archived users.
Refused(t) == task[t].pc = "office" /\ db[task[t].who].st = "Inactive"
Edited(t) ==
    IF task[t].pc = "status"
    THEN [db EXCEPT ![task[t].who].st = task[t].st]
    ELSE [db EXCEPT ![task[t].who].office = task[t].office]

\* The dialog is closed, whomever it is shown for by now.
EditSaved(t) ==
    /\ task[t].pc \in {"status", "office"} /\ ~Refused(t)
    /\ db' = Edited(t)
    /\ edit' = Closed
    /\ reloadCurrentSearch
    /\ End(t)
    /\ UNCHANGED <<box, form, haste, events>>

EditRefused(t) ==
    /\ Refused(t)
    /\ End(t)
    /\ UNCHANGED <<db, box, table, search, form, edit, haste, events>>

\* An error answer or none: archiving saves the user before the audit record.
EditFails(t, done) ==
    /\ task[t].pc \in {"status", "office"} /\ ~Refused(t)
    /\ Event
    /\ db' = IF done THEN Edited(t) ELSE db
    /\ End(t)
    /\ UNCHANGED <<box, table, search, form, edit, haste>>

-----------------------------------------------------------------------------
TableNext ==
    \/ \E text \in People \cup {Blank} : TypeSearch(text)
    \/ PressEnter \/ ToggleInactive
    \/ SearchAnswered \/ SearchShown \/ SearchFails

AddNext ==
    \/ OpenAdd \/ CloseAdd
    \/ \E t \in Tasks :
         \/ \E p \in People : TypeName(t, p) \/ PickSuggestion(t, p)
         \/ SuggestionsAnswered(t) \/ SuggestionsFail(t)
         \/ ExistsAnswered(t) \/ ExistsFails(t)
         \/ \E office \in Offices, status \in Statuses : SubmitUser(t, office, status)
         \/ UserAdded(t)
         \/ \E done \in BOOLEAN : AddFails(t, done)

EditNext ==
    \/ \E r \in table.rows : openEditUserModal(r)
    \/ CloseEdit
    \/ \E t \in Tasks :
         \/ \E office \in Offices, status \in Statuses : saveUserEdit(t, status, office)
         \/ EditSaved(t) \/ EditRefused(t)
         \/ \E done \in BOOLEAN : EditFails(t, done)

AdminNext == TableNext \/ AddNext \/ EditNext

AdminSpec == AdminInit /\ [][AdminNext]_adminVars

-----------------------------------------------------------------------------
Rows == [id : People, st : Statuses, office : Offices \cup {Blank}]

\* Types; each search in the queue was started by a click of its own.
AdminTypeOK ==
    /\ db \in [People -> [st : Statuses \cup {"none"}, office : Offices]]
    /\ box \in [text : People \cup {Blank}, inactive : BOOLEAN]
    /\ table \in [rows : SUBSET Rows, prompt : Prompts]
    /\ search.asked = Blank \/ search.asked \in [text : People, inactive : BOOLEAN]
    /\ search.held \in Seq(SUBSET Rows) /\ Len(search.held) <= MaxHaste + 1
    /\ form \in [shown : BOOLEAN, name : People \cup {Blank, "typed"}, graph : People \cup {Blank},
                 offered : SUBSET People, exists : BOOLEAN, off : BOOLEAN]
    /\ edit \in [shown : BOOLEAN, id : People \cup {Blank}, was : BOOLEAN,
                 old : Offices \cup {Blank}]
    /\ ~(form.shown /\ edit.shown)
    /\ haste \in 0..MaxHaste /\ events \in 0..MaxEvents

\* For a user who waits for each answer, and while nothing fails: a row that a
\* search brought shows its user as the database has it, and of the status the
\* toggle stands for, through additions, edits and the toggle's second listener.
RowsAreCurrent ==
    haste = 0 /\ events = 0 /\ Quiet =>
        \A r \in table.rows : r.office # Blank =>
            r = Row(r.id) /\ r.st = StatusOf(box.inactive)

\* That user never sends the request that adds a user for one who exists, which
\* would overwrite the office and take an archived user out of the archive.
NoExistingUserIsAdded ==
    haste = 0 /\ events = 0 =>
        \A t \in Tasks : task[t].pc = "add" => db[task[t].who].st = "none"

\* Whatever is clicked and fails: the button is out of reach only while a user is
\* being added or the form says that the user is in the system.
ButtonComesBack ==
    form.off => form.exists \/ \E t \in Tasks : task[t].pc = "add"
=============================================================================
