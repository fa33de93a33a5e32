----------------------------- MODULE AssetIntake ----------------------------
(***************************************************************************)
(* Adding assets in bulk: the two wizards of the asset pages               *)
(* (components/add-hardware.js and components/add-software.js), their      *)
(* progress in localStorage, and the add-bulk and check-duplicates         *)
(* endpoints they talk to while other administrators add and archive       *)
(* assets.  A behaviour is that of a page on which one of the two wizards  *)
(* is used.  An item is a serial number (hardware) or license key          *)
(* (software) and a tag, which software does not have.                     *)
(***************************************************************************)
EXTENDS Integers, Sequences, SequencesExt

CONSTANTS
    Devices,   \* how many devices (licenses) there are to enter
    Counts,    \* numbers of items asked for in phase 1
    MaxSaved,  \* bound: length of a list that is saved
    Clicks,    \* handlers of Next and Submit that can be waiting at once
    MaxEvents  \* bound: edits, saves, failed requests and changes by others

ASSUME IntakeAssumption ==
    /\ Devices \in Nat \ {0} /\ Counts \subseteq Nat \ {0}
    /\ MaxSaved \in Nat /\ MaxEvents \in Nat

VARIABLES
    kind,    \* the wizard in use, "hardware" or "software"
    rows,    \* the rows of the table: [serial, tag, archived]
    dialog,  \* "closed", "base" (phase 1) or "items" (phase 2)
    count,   \* itemCount, licenseCount
    items,   \* items, licenses
    review,  \* the submit button is shown and the inputs are hidden
    saved,   \* assetProgress, saveSoftwareProgress in localStorage
    click,   \* click[c]: where an asynchronous handler waits
    events   \* edits, saves, failures and changes by others so far

wizardVars == <<dialog, count, items, review, saved>>
intakeVars == <<kind, rows, wizardVars, click, events>>

\* Device n has serial number (or license key) n, and its label says tag n;
\* Blank is a serial number not entered yet, 0 the tag of software.
Serials == 1..Devices
Tags    == 1..Devices
Blank   == 0
Item  == [serial : Serials \cup {Blank}, tag : Tags \cup {0}]
Row   == [serial : Serials, tag : Tags \cup {0}, archived : BOOLEAN]
Nothing == [count |-> 0, items |-> <<>>]   \* localStorage has no such key
Idle  == [pc |-> "idle", batch |-> <<>>]

Shape(s, t) == [serial |-> s, tag |-> IF kind = "hardware" THEN t ELSE 0]
SerialsOf(batch) == {batch[i].serial : i \in DOMAIN batch}
TagsOf(batch)    == {batch[i].tag : i \in DOMAIN batch}
Visible == {r \in rows : ~r.archived}   \* the query filter of the context
Submitting == \E c \in Clicks : click[c].pc \in {"preflight", "post", "save", "answer"}

-----------------------------------------------------------------------------
(***************************************************************************)
(* Deliberately wrong variants of the definitions below them.              *)
(***************************************************************************)
UniqueSerialMissing(batch) == TRUE
ReviewAtLast == Len(items') + 1 >= count
FailsForGood(c) ==
    /\ events < MaxEvents /\ click[c].pc \in {"check", "preflight", "post", "answer"}
    /\ events' = events + 1
    /\ click' = [click EXCEPT ![c].pc = "failed"]
    /\ UNCHANGED <<kind, rows, wizardVars>>
-----------------------------------------------------------------------------

IntakeInit ==
    /\ kind \in {"hardware", "software"}
    /\ rows = {} /\ dialog = "closed" /\ count = 0 /\ items = <<>>
    /\ review = FALSE /\ saved = Nothing
    /\ click = [c \in Clicks |-> Idle]
    /\ events = 0

-----------------------------------------------------------------------------
(* The dialogs.                                                            *)

\* show.bs.modal of phase 1.  With saved progress the user is asked whether it
\* may be cleared; hide() inside the show event does nothing, as the dialog is
\* not shown yet, so it opens whatever the answer.
OpenWizard(confirmed) ==
    /\ dialog = "closed"
    /\ dialog' = "base"
    /\ IF saved # Nothing /\ ~confirmed
       THEN UNCHANGED <<count, items, saved>>
       ELSE count' = 0 /\ items' = <<>> /\ saved' = Nothing
    /\ UNCHANGED <<kind, rows, review, click, events>>

\* The button of phase 1, with fields that pass its checks.
StartPhase2(n) ==
    /\ dialog = "base"
    /\ dialog' = "items" /\ count' = n /\ items' = <<>> /\ review' = FALSE
    /\ UNCHANGED <<kind, rows, saved, click, events>>

\* hidden.bs.modal of either dialog: the forms are reset, the items are kept.
CloseDialog ==
    /\ dialog # "closed"
    /\ dialog' = "closed" /\ review' = FALSE
    /\ UNCHANGED <<kind, rows, count, items, saved, click, events>>

SaveProgress ==
    /\ dialog = "items" /\ Len(items) <= MaxSaved /\ events < MaxEvents
    /\ events' = events + 1
    /\ saved' = [count |-> count, items |-> items]
    /\ UNCHANGED <<kind, rows, dialog, count, items, review, click>>

LoadProgress ==
    /\ dialog = "closed" /\ saved # Nothing
    /\ dialog' = "items" /\ count' = saved.count
    /\ items' = IF kind = "software" /\ Len(saved.items) >= count'
                THEN SubSeq(saved.items, 1, count')
                ELSE saved.items
    /\ review' = (Len(items') >= count')
    /\ UNCHANGED <<kind, rows, saved, click, events>>

\* generateSequentialTags: count tags from the base tag on, with blank serials
\* that are entered with the pencil.
SequentialItems(base) == [i \in 1..count |-> [serial |-> Blank, tag |-> base + i - 1]]

AutoTags(base) ==
    /\ kind = "hardware" /\ dialog = "items" /\ ~review
    /\ base + count - 1 \in Tags
    /\ items' = SequentialItems(base)
    /\ UNCHANGED <<kind, rows, dialog, count, review, saved, click, events>>

ManualTags ==
    /\ kind = "hardware" /\ dialog = "items" /\ ~review
    /\ items' = <<>>
    /\ UNCHANGED <<kind, rows, dialog, count, review, saved, click, events>>

\* The pencil of a row and the dialog it opens.  Hardware refuses blanks and
\* duplicates within the batch, software takes whatever was typed.
EditAdmitted(i, it) ==
    \/ kind = "software"
    \/ /\ it.serial # Blank
       /\ \A k \in DOMAIN items \ {i} : items[k].serial # it.serial /\ items[k].tag # it.tag

EditItem(i, it) ==
    /\ dialog = "items" /\ events < MaxEvents
    /\ EditAdmitted(i, it)
    /\ items' = [items EXCEPT ![i] = it]
    /\ events' = events + 1
    /\ UNCHANGED <<kind, rows, dialog, count, review, saved, click>>

-----------------------------------------------------------------------------
(* Next.                                                                   *)

InBatch(it) == it.serial \in SerialsOf(items) \/ (kind = "hardware" /\ it.tag \in TagsOf(items))

\* After an item was added: review once the count is reached.
ReviewNow == Len(items') >= count

\* The inputs are hidden once every item is entered; nothing is added.
NextAtCount ==
    /\ kind = "hardware" /\ dialog = "items" /\ ~review /\ Len(items) >= count
    /\ review' = TRUE
    /\ UNCHANGED <<kind, rows, dialog, count, items, saved, click, events>>

NextHardware(c, it) ==
    /\ kind = "hardware" /\ dialog = "items" /\ ~review /\ Len(items) < count
    /\ click[c] = Idle /\ ~InBatch(it)
    /\ click' = [click EXCEPT ![c] = [pc |-> "check", batch |-> <<it>>]]
    /\ UNCHANGED <<kind, rows, wizardVars, events>>

NextSoftware(it) ==
    /\ kind = "software" /\ dialog = "items" /\ ~review /\ ~InBatch(it)
    /\ items' = Append(items, it)
    /\ review' = ReviewNow
    /\ UNCHANGED <<kind, rows, dialog, count, saved, click, events>>

\* CheckDuplicates looks at the rows that are not archived.
Existing(batch) == {i \in DOMAIN batch : \E r \in Visible : r.serial = batch[i].serial \/ r.tag = batch[i].tag}

\* The answer to the check of one item arrives, in whatever state the wizard
\* is by now; an error status counts as no duplicate.
CheckAnswered(c, ok) ==
    /\ click[c].pc = "check"
    /\ IF ok /\ Existing(click[c].batch) # {}
       THEN UNCHANGED <<items, review>>
       ELSE /\ items' = items \o click[c].batch
            /\ review' = ReviewNow
    /\ click' = [click EXCEPT ![c] = Idle]
    /\ UNCHANGED <<kind, rows, dialog, count, saved, events>>

-----------------------------------------------------------------------------
(* Submit.                                                                 *)

\* The items as they are now are what a submission sends.
Submitted(c, pc) ==
    /\ dialog = "items" /\ review /\ click[c] = Idle
    /\ click' = [click EXCEPT ![c] = [pc |-> pc, batch |-> items]]
    /\ UNCHANGED <<kind, rows, wizardVars, events>>

\* Hardware asks for duplicates once more before it posts.
SubmitHardware(c) == kind = "hardware" /\ Len(items) >= count /\ Submitted(c, "preflight")

\* Software drops a second click; hardware has no such guard.
SubmitSoftware(c) == kind = "software" /\ items # <<>> /\ ~Submitting /\ Submitted(c, "post")

\* The errors are looked up for the items as they are now, in an answer about
\* the items as they were; a failed check is ignored.
PreflightAnswered(c, ok) ==
    /\ click[c].pc = "preflight"
    /\ LET asked == SerialsOf([i \in Existing(click[c].batch) |-> click[c].batch[i]])
           tags  == TagsOf([i \in Existing(click[c].batch) |-> click[c].batch[i]])
           shown == \E i \in DOMAIN items : items[i].serial \in asked \/ items[i].tag \in tags
       IN click' = [click EXCEPT ![c] = IF ok /\ shown THEN Idle ELSE [@ EXCEPT !.pc = "post"]]
    /\ UNCHANGED <<kind, rows, wizardVars, events>>

\* ValidateRows, ValidateInternalDuplicates and ValidateDatabaseDuplicates;
\* for software the loop of AddBulkSoftware, which does not compare the keys
\* of a batch with each other.
Accepted(batch) ==
    /\ batch # <<>>
    /\ Blank \notin SerialsOf(batch)
    /\ kind = "hardware" => /\ IsInjective([i \in DOMAIN batch |-> batch[i].serial])
                            /\ IsInjective([i \in DOMAIN batch |-> batch[i].tag])
    /\ \A r \in Visible : /\ r.serial \notin SerialsOf(batch)
                          /\ kind = "hardware" => r.tag \notin TagsOf(batch)

ServerChecks(c) ==
    /\ click[c].pc = "post"
    /\ click' = [click EXCEPT ![c] = IF Accepted(@.batch) THEN [@ EXCEPT !.pc = "save"] ELSE Idle]
    /\ UNCHANGED <<kind, rows, wizardVars, events>>

\* The filtered unique index on SerialNumber or SoftwareLicenseKey, which sees
\* archived rows too.
UniqueSerial(batch) ==
    /\ IsInjective([i \in DOMAIN batch |-> batch[i].serial])
    /\ \A r \in rows : r.serial \notin SerialsOf(batch)

\* SaveChanges inserts all rows of the batch or none.
ServerSaves(c) ==
    /\ click[c].pc = "save"
    /\ IF UniqueSerial(click[c].batch)
       THEN /\ rows' = rows \cup {[serial |-> it.serial, tag |-> it.tag, archived |-> FALSE] :
                                      it \in ToSet(click[c].batch)}
            /\ click' = [click EXCEPT ![c].pc = "answer"]
       ELSE rows' = rows /\ click' = [click EXCEPT ![c] = Idle]
    /\ UNCHANGED <<kind, wizardVars, events>>

\* The answer clears the saved progress and hides phase 2, whoever they are of
\* by now.
Succeeds(c) ==
    /\ click[c].pc = "answer"
    /\ click' = [click EXCEPT ![c] = Idle]
    /\ saved' = Nothing
    /\ dialog' = IF dialog = "items" THEN "closed" ELSE dialog
    /\ review' = FALSE
    /\ UNCHANGED <<kind, rows, count, items, events>>

\* A request or its answer is lost: the handler shows an error, or ends without
\* a word (the check of one item is outside any try).
Fails(c) ==
    /\ events < MaxEvents /\ click[c].pc \in {"check", "preflight", "post", "answer"}
    /\ events' = events + 1
    /\ click' = [click EXCEPT ![c] = IF @.pc = "preflight" THEN [@ EXCEPT !.pc = "post"] ELSE Idle]
    /\ UNCHANGED <<kind, rows, wizardVars>>

\* Another administrator adds a row through the same endpoint, or archives one.
OtherAdds(it) ==
    /\ events < MaxEvents /\ Accepted(<<it>>) /\ UniqueSerial(<<it>>)
    /\ events' = events + 1
    /\ rows' = rows \cup {[serial |-> it.serial, tag |-> it.tag, archived |-> FALSE]}
    /\ UNCHANGED <<kind, wizardVars, click>>

OtherArchives(r) ==
    /\ events < MaxEvents /\ r \in Visible
    /\ events' = events + 1
    /\ rows' = (rows \ {r}) \cup {[r EXCEPT !.archived = TRUE]}
    /\ UNCHANGED <<kind, wizardVars, click>>

-----------------------------------------------------------------------------
Typed == {Shape(n, n) : n \in Serials}

Handler(c) ==
    \/ \E ok \in BOOLEAN : CheckAnswered(c, ok) \/ PreflightAnswered(c, ok)
    \/ ServerChecks(c)
    \/ ServerSaves(c)
    \/ Succeeds(c)

User ==
    \/ \E confirmed \in BOOLEAN : OpenWizard(confirmed)
    \/ \E n \in Counts : StartPhase2(n)
    \/ CloseDialog
    \/ SaveProgress
    \/ LoadProgress
    \/ \E base \in Tags : AutoTags(base)
    \/ ManualTags
    \/ \E i \in DOMAIN items, it \in Typed \cup {Shape(Blank, 1)} : EditItem(i, it)
    \/ NextAtCount
    \/ \E it \in Typed : NextSoftware(it) \/ \E c \in Clicks : NextHardware(c, it)
    \/ \E c \in Clicks : SubmitHardware(c) \/ SubmitSoftware(c)

IntakeNext ==
    \/ User
    \/ \E c \in Clicks : Handler(c) \/ Fails(c)
    \/ \E s \in Serials, t \in Tags : OtherAdds(Shape(s, t))
    \/ \E r \in rows : OtherArchives(r)

IntakeSpec == IntakeInit /\ [][IntakeNext]_intakeVars

-----------------------------------------------------------------------------
\* Every variable of the wizards keeps its type.
IntakeTypeOK ==
    /\ kind \in {"hardware", "software"}
    /\ rows \subseteq Row
    /\ dialog \in {"closed", "base", "items"}
    /\ count \in Counts \cup {0} /\ items \in Seq(Item)
    /\ review \in BOOLEAN
    /\ saved.count \in Counts \cup {0} /\ saved.items \in Seq(Item)
    /\ \A c \in Clicks : /\ click[c].pc \in {"idle", "check", "preflight", "post", "save", "answer"}
                         /\ click[c].batch \in Seq(Item)
    /\ events \in 0..MaxEvents

\* Whatever double clicks, stale checks and other administrators do, no serial
\* number or license key is stored twice, archived rows included.
StoredSerialsUnique == \A r, s \in rows : r.serial = s.serial => r = s

\* The submit button is shown only while every item that was asked for is
\* entered, whichever additions are still being checked.
ReviewMeansComplete == dialog = "items" /\ review => Len(items) >= count
=============================================================================
