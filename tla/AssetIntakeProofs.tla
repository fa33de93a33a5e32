-------------------------- MODULE AssetIntakeProofs --------------------------
(***************************************************************************)
(* Theorems about AssetIntake, for any number of devices, of handlers that *)
(* wait at once, and any bounds.                                           *)
(***************************************************************************)
EXTENDS AssetIntake, TLAPS

Clicked == [pc : {"idle", "check", "preflight", "post", "save", "answer"}, batch : Seq(Item)]
Progress == [count : Counts \cup {0}, items : Seq(Item)]

\* The types, as functions and records.
IntakeTypes ==
    /\ kind \in {"hardware", "software"}
    /\ rows \subseteq Row
    /\ dialog \in {"closed", "base", "items"}
    /\ count \in Counts \cup {0} /\ items \in Seq(Item)
    /\ review \in BOOLEAN
    /\ saved \in Progress
    /\ click \in [Clicks -> Clicked]
    /\ events \in 0..MaxEvents

\* What goes to SaveChanges has passed the checks of the endpoint.
NoBlankSaved == \A c \in Clicks : click[c].pc = "save" => Blank \notin SerialsOf(click[c].batch)

\* The invariant that the steps preserve.
IntakeInv == IntakeTypes /\ NoBlankSaved /\ StoredSerialsUnique /\ ReviewMeansComplete

-----------------------------------------------------------------------------
(* Values.                                                                 *)

LEMMA IdleType == Idle \in Clicked /\ Nothing \in Progress
BY DEF Idle, Clicked, Nothing, Progress

LEMMA TypedItems ==
    ASSUME IntakeTypes, NEW it \in Typed \cup {Shape(Blank, 1)}
    PROVE  it \in Item
<1>1. 1 \in Tags
  BY IntakeAssumption DEF Tags
<1>2. \A n \in Serials : n \in Tags
  BY DEF Serials, Tags
<1> QED  BY <1>1, <1>2 DEF Typed, Shape, Item

\* A row that carries a serial and a tag of an item, stored.
LEMMA StoredRow ==
    ASSUME NEW it \in Item, it.serial # Blank
    PROVE  [serial |-> it.serial, tag |-> it.tag, archived |-> FALSE] \in Row
BY DEF Item, Row

LEMMA SequentialType ==
    ASSUME count \in Nat, NEW base \in Tags, base + count - 1 \in Tags
    PROVE  SequentialItems(base) \in Seq(Item)
<1>1. ASSUME NEW i \in 1..count  PROVE [serial |-> Blank, tag |-> base + i - 1] \in Item
  <2>1. base + i - 1 \in Tags
    BY IntakeAssumption DEF Tags
  <2> QED  BY <2>1 DEF Item
<1> QED  BY <1>1 DEF SequentialItems

LEMMA AtLeastIsBoolean ==
    ASSUME NEW a \in Int, NEW b \in Int
    PROVE  (a >= b) \in BOOLEAN
OBVIOUS

LEMMA CountType == IntakeTypes => count \in Nat /\ saved.count \in Nat
<1>1. Counts \cup {0} \subseteq Nat
  BY IntakeAssumption
<1>2. IntakeTypes => count \in Counts \cup {0} /\ saved.count \in Counts \cup {0}
  BY DEF IntakeTypes, Progress
<1> QED  BY <1>1, <1>2

-----------------------------------------------------------------------------
(* Steps.                                                                  *)

LEMMA IntakeInvInit == IntakeInit => IntakeInv
<1> SUFFICES ASSUME IntakeInit PROVE IntakeInv
  OBVIOUS
<1>1. IntakeTypes
  <2>1. kind \in {"hardware", "software"} /\ dialog \in {"closed", "base", "items"} /\ review \in BOOLEAN
    BY DEF IntakeInit
  <2>2. rows \subseteq Row /\ count \in Counts \cup {0} /\ items \in Seq(Item)
    BY DEF IntakeInit
  <2>3. saved \in Progress /\ click \in [Clicks -> Clicked]
    BY IdleType DEF IntakeInit
  <2>4. events \in 0..MaxEvents
    BY IntakeAssumption DEF IntakeInit
  <2> QED  BY <2>1, <2>2, <2>3, <2>4 DEF IntakeTypes
<1>2. NoBlankSaved /\ StoredSerialsUnique /\ ReviewMeansComplete
  BY DEF IntakeInit, NoBlankSaved, StoredSerialsUnique, ReviewMeansComplete, Idle
<1> QED  BY <1>1, <1>2 DEF IntakeInv

\* The dialogs, and what is typed into them.
LEMMA OpenWizardInv ==
    ASSUME IntakeInv, NEW confirmed \in BOOLEAN, OpenWizard(confirmed)
    PROVE  IntakeInv'
BY IdleType DEF IntakeInv, IntakeTypes, NoBlankSaved, StoredSerialsUnique, ReviewMeansComplete, OpenWizard,
   Nothing, Progress

LEMMA StartPhase2Inv ==
    ASSUME IntakeInv, NEW n \in Counts, StartPhase2(n)
    PROVE  IntakeInv'
<1>1. count' \in Counts \cup {0} /\ items' \in Seq(Item) /\ dialog' \in {"closed", "base", "items"}
  BY DEF StartPhase2
<1>2. review' = FALSE
  BY DEF StartPhase2
<1>3. IntakeTypes'
  BY <1>1, <1>2 DEF IntakeInv, IntakeTypes, StartPhase2
<1> QED  BY <1>2, <1>3 DEF IntakeInv, NoBlankSaved, StoredSerialsUnique, ReviewMeansComplete, StartPhase2

LEMMA CloseDialogInv ==
    ASSUME IntakeInv, CloseDialog
    PROVE  IntakeInv'
BY DEF IntakeInv, IntakeTypes, NoBlankSaved, StoredSerialsUnique, ReviewMeansComplete, CloseDialog

LEMMA SaveProgressInv ==
    ASSUME IntakeInv, SaveProgress
    PROVE  IntakeInv'
<1>1. saved' \in Progress /\ events' \in 0..MaxEvents
  BY IntakeAssumption DEF IntakeInv, IntakeTypes, SaveProgress, Progress
<1> QED  BY <1>1 DEF IntakeInv, IntakeTypes, NoBlankSaved, StoredSerialsUnique, ReviewMeansComplete, SaveProgress

LEMMA LoadProgressInv ==
    ASSUME IntakeInv, LoadProgress
    PROVE  IntakeInv'
<1>1. saved.items \in Seq(Item) /\ saved.count \in Counts \cup {0} /\ saved.count \in Nat
  BY CountType DEF IntakeInv, IntakeTypes, Progress
<1>2. items' \in Seq(Item) /\ count' \in Counts \cup {0}
  BY <1>1 DEF LoadProgress
<1>3. review' \in BOOLEAN /\ (review' => Len(items') >= count')
  <2>1. review' = (Len(items') >= count')
    BY DEF LoadProgress
  <2>2. Len(items') \in Int /\ count' \in Int
    BY <1>1, <1>2 DEF LoadProgress
  <2>3. (Len(items') >= count') \in BOOLEAN
    BY <2>2, AtLeastIsBoolean
  <2> QED  BY <2>1, <2>3, Zenon
<1>4. dialog' \in {"closed", "base", "items"}
  BY DEF LoadProgress
<1>5. IntakeTypes'
  BY <1>2, <1>3, <1>4 DEF IntakeInv, IntakeTypes, LoadProgress
<1> QED  BY <1>3, <1>5 DEF IntakeInv, NoBlankSaved, StoredSerialsUnique, ReviewMeansComplete, LoadProgress

LEMMA AutoTagsInv ==
    ASSUME IntakeInv, NEW base \in Tags, AutoTags(base)
    PROVE  IntakeInv'
<1>1. items' \in Seq(Item)
  BY CountType, SequentialType DEF IntakeInv, AutoTags
<1> QED  BY <1>1 DEF IntakeInv, IntakeTypes, NoBlankSaved, StoredSerialsUnique, ReviewMeansComplete, AutoTags

LEMMA ManualTagsInv ==
    ASSUME IntakeInv, ManualTags
    PROVE  IntakeInv'
BY DEF IntakeInv, IntakeTypes, NoBlankSaved, StoredSerialsUnique, ReviewMeansComplete, ManualTags

LEMMA EditItemInv ==
    ASSUME IntakeInv, NEW i \in DOMAIN items, NEW it \in Typed \cup {Shape(Blank, 1)}, EditItem(i, it)
    PROVE  IntakeInv'
<1>1. it \in Item /\ items \in Seq(Item)
  BY TypedItems DEF IntakeInv, IntakeTypes
<1>2. items' \in Seq(Item) /\ Len(items') = Len(items)
  BY <1>1 DEF EditItem
<1>3. events' \in 0..MaxEvents
  BY IntakeAssumption DEF IntakeInv, IntakeTypes, EditItem
<1> QED  BY <1>2, <1>3 DEF IntakeInv, IntakeTypes, NoBlankSaved, StoredSerialsUnique, ReviewMeansComplete, EditItem

\* Next: one item more, which is checked first (hardware) or not (software).
LEMMA NextAtCountInv ==
    ASSUME IntakeInv, NextAtCount
    PROVE  IntakeInv'
BY DEF IntakeInv, IntakeTypes, NoBlankSaved, StoredSerialsUnique, ReviewMeansComplete, NextAtCount

\* A handler that goes on, with a batch of items; it goes on to SaveChanges
\* only without blanks.
LEMMA ClickInv ==
    ASSUME IntakeInv, NEW c \in Clicks, NEW k \in Clicked, click' = [click EXCEPT ![c] = k],
           k.pc = "save" => Blank \notin SerialsOf(k.batch), UNCHANGED <<kind, rows>>,
           events' \in 0..MaxEvents, items' \in Seq(Item), count' = count, review' \in BOOLEAN,
           dialog' \in {"closed", "base", "items"}, saved' \in Progress, ReviewMeansComplete'
    PROVE  IntakeInv'
<1>1. \A d \in Clicks : click'[d] = IF d = c THEN k ELSE click[d]
  BY DEF IntakeInv, IntakeTypes
<1>2. IntakeTypes'
  BY DEF IntakeInv, IntakeTypes
<1>3. NoBlankSaved'
  BY <1>1 DEF IntakeInv, NoBlankSaved, SerialsOf
<1> QED  BY <1>2, <1>3 DEF IntakeInv, StoredSerialsUnique

LEMMA NextHardwareInv ==
    ASSUME IntakeInv, NEW c \in Clicks, NEW it \in Typed, NextHardware(c, it)
    PROVE  IntakeInv'
<1> DEFINE k == [pc |-> "check", batch |-> <<it>>]
<1>1. it \in Item
  BY TypedItems DEF IntakeInv
<1>2. k \in Clicked /\ k.pc # "save"
  BY <1>1 DEF Clicked
<1>3. click' = [click EXCEPT ![c] = k] /\ UNCHANGED <<kind, rows, wizardVars, events>>
  BY DEF NextHardware
<1> HIDE DEF k
<1> QED  BY <1>2, <1>3, ClickInv DEF wizardVars, IntakeInv, IntakeTypes, ReviewMeansComplete

LEMMA NextSoftwareInv ==
    ASSUME IntakeInv, NEW it \in Typed, NextSoftware(it)
    PROVE  IntakeInv'
<1>1. items' \in Seq(Item)
  BY TypedItems DEF IntakeInv, IntakeTypes, NextSoftware
<1>2. review' \in BOOLEAN /\ (review' => Len(items') >= count)
  <2>1. review' = (Len(items') >= count)
    BY DEF NextSoftware, ReviewNow
  <2>2. Len(items') \in Int /\ count \in Int
    BY <1>1, CountType DEF IntakeInv
  <2>3. (Len(items') >= count) \in BOOLEAN
    BY <2>2, AtLeastIsBoolean
  <2> QED  BY <2>1, <2>3, Zenon
<1>3. IntakeTypes'
  BY <1>1, <1>2 DEF IntakeInv, IntakeTypes, NextSoftware
<1> QED  BY <1>2, <1>3 DEF IntakeInv, NoBlankSaved, StoredSerialsUnique, ReviewMeansComplete, NextSoftware

LEMMA CheckAnsweredInv ==
    ASSUME IntakeInv, NEW c \in Clicks, NEW ok \in BOOLEAN, CheckAnswered(c, ok)
    PROVE  IntakeInv'
<1>1. click[c].batch \in Seq(Item) /\ items \in Seq(Item)
  BY DEF IntakeInv, IntakeTypes, Clicked
<1>2. UNCHANGED <<kind, rows, dialog, count, saved, events>> /\ click' = [click EXCEPT ![c] = Idle]
  BY DEF CheckAnswered
<1>3. CASE UNCHANGED <<items, review>>
  BY <1>2, <1>3, IdleType, ClickInv DEF Idle, IntakeInv, IntakeTypes, ReviewMeansComplete
<1>4. CASE items' = items \o click[c].batch /\ review' = ReviewNow
  <2>1. items' \in Seq(Item)
    BY <1>1, <1>4
  <2>2. review' \in BOOLEAN /\ (review' => Len(items') >= count)
    <3>1. review' = (Len(items') >= count)
      BY <1>4 DEF ReviewNow
    <3>2. Len(items') \in Int /\ count \in Int
      BY <2>1, CountType DEF IntakeInv
    <3>3. (Len(items') >= count) \in BOOLEAN
      BY <3>2, AtLeastIsBoolean
    <3> QED  BY <3>1, <3>3, Zenon
  <2>3. ReviewMeansComplete'
    BY <1>2, <2>2 DEF ReviewMeansComplete
  <2> QED  BY <1>2, <2>1, <2>2, <2>3, IdleType, ClickInv DEF Idle, IntakeInv, IntakeTypes
<1> QED  BY <1>3, <1>4 DEF CheckAnswered

\* Submit: the handler sends what the items are at the click.
LEMMA SubmittedInv ==
    ASSUME IntakeInv, NEW c \in Clicks, NEW pc \in {"preflight", "post"}, Submitted(c, pc)
    PROVE  IntakeInv'
<1> DEFINE k == [pc |-> pc, batch |-> items]
<1>1. k \in Clicked /\ k.pc # "save"
  BY DEF Clicked, IntakeInv, IntakeTypes
<1>2. click' = [click EXCEPT ![c] = k] /\ UNCHANGED <<kind, rows, wizardVars, events>>
  BY DEF Submitted
<1> HIDE DEF k
<1> QED  BY <1>1, <1>2, ClickInv DEF wizardVars, IntakeInv, IntakeTypes, ReviewMeansComplete

LEMMA PreflightAnsweredInv ==
    ASSUME IntakeInv, NEW c \in Clicks, NEW ok \in BOOLEAN, PreflightAnswered(c, ok)
    PROVE  IntakeInv'
<1>1. PICK k \in {Idle, [click[c] EXCEPT !.pc = "post"]} : click' = [click EXCEPT ![c] = k]
  BY DEF PreflightAnswered, IntakeInv, IntakeTypes
<1>2. k \in Clicked /\ k.pc # "save"
  <2>1. click[c] \in Clicked
    BY DEF IntakeInv, IntakeTypes
  <2>2. Idle.pc = "idle"
    BY DEF Idle
  <2> QED  BY <1>1, <2>1, <2>2, IdleType DEF Clicked
<1>3. UNCHANGED <<kind, rows, wizardVars, events>>
  BY DEF PreflightAnswered
<1> QED  BY <1>1, <1>2, <1>3, ClickInv DEF wizardVars, IntakeInv, IntakeTypes, ReviewMeansComplete

LEMMA ServerChecksInv ==
    ASSUME IntakeInv, NEW c \in Clicks, ServerChecks(c)
    PROVE  IntakeInv'
<1> DEFINE k == IF Accepted(click[c].batch) THEN [click[c] EXCEPT !.pc = "save"] ELSE Idle
<1>1. click' = [click EXCEPT ![c] = k] /\ UNCHANGED <<kind, rows, wizardVars, events>>
  BY DEF ServerChecks, IntakeInv, IntakeTypes
<1>2. click[c] \in Clicked
  BY DEF IntakeInv, IntakeTypes
<1>3. k \in Clicked
  BY <1>2, IdleType DEF Clicked
<1>4. k.pc = "save" => Blank \notin SerialsOf(k.batch)
  <2>1. CASE Accepted(click[c].batch)
    <3>1. k = [click[c] EXCEPT !.pc = "save"]
      BY <2>1
    <3>2. k.batch = click[c].batch
      BY <1>2, <3>1 DEF Clicked
    <3> QED  BY <2>1, <3>2 DEF Accepted
  <2>2. CASE ~Accepted(click[c].batch)
    BY <2>2 DEF Idle
  <2> QED  BY <2>1, <2>2
<1> HIDE DEF k
<1> QED  BY <1>1, <1>3, <1>4, ClickInv DEF wizardVars, IntakeInv, IntakeTypes, ReviewMeansComplete

\* The unique index: the rows of a batch are new, and differ from each other.
LEMMA ServerSavesInv ==
    ASSUME IntakeInv, NEW c \in Clicks, ServerSaves(c)
    PROVE  IntakeInv'
<1> DEFINE batch == click[c].batch
           new == {[serial |-> it.serial, tag |-> it.tag, archived |-> FALSE] : it \in ToSet(batch)}
<1>1. click[c] \in Clicked /\ click[c].pc = "save" /\ batch \in Seq(Item)
  BY DEF IntakeInv, IntakeTypes, Clicked, ServerSaves
<1>2. UNCHANGED <<kind, wizardVars, events>>
  BY DEF ServerSaves
<1>3. PICK k \in {Idle, [click[c] EXCEPT !.pc = "answer"]} : click' = [click EXCEPT ![c] = k]
  BY DEF ServerSaves, IntakeInv, IntakeTypes
<1>4. k \in Clicked /\ k.pc # "save"
  <2>1. Idle.pc = "idle"
    BY DEF Idle
  <2> QED  BY <1>1, <1>3, <2>1, IdleType DEF Clicked
<1>5. CASE rows' = rows
  BY <1>2, <1>3, <1>4, <1>5, ClickInv DEF wizardVars, IntakeInv, IntakeTypes, ReviewMeansComplete
<1>6. CASE UniqueSerial(batch) /\ rows' = rows \cup new
  <2>1. \A it \in ToSet(batch) : it \in Item /\ \E i \in DOMAIN batch : it = batch[i]
    BY <1>1 DEF ToSet
  <2>2. \A i \in DOMAIN batch : batch[i].serial \in SerialsOf(batch)
    BY DEF SerialsOf
  <2>3. Blank \notin SerialsOf(batch)
    BY <1>1 DEF IntakeInv, NoBlankSaved
  <2>4. new \subseteq Row
    <3>1. \A it \in ToSet(batch) : it \in Item /\ it.serial # Blank
      BY <2>1, <2>2, <2>3
    <3> HIDE DEF batch
    <3> QED  BY <3>1, StoredRow
  <2>5. \A r \in new : \E i \in DOMAIN batch :
           r = [serial |-> batch[i].serial, tag |-> batch[i].tag, archived |-> FALSE]
    BY <2>1
  <2>6. ASSUME NEW r \in rows, NEW s \in new  PROVE r.serial # s.serial
    BY <1>6, <2>2, <2>5 DEF UniqueSerial
  <2>7. ASSUME NEW r \in new, NEW s \in new, r.serial = s.serial  PROVE r = s
    <3>1. PICK i \in DOMAIN batch :
            r = [serial |-> batch[i].serial, tag |-> batch[i].tag, archived |-> FALSE]
      BY <2>5
    <3>2. PICK j \in DOMAIN batch :
            s = [serial |-> batch[j].serial, tag |-> batch[j].tag, archived |-> FALSE]
      BY <2>5
    <3>3. batch[i].serial = batch[j].serial
      BY <2>7, <3>1, <3>2
    <3>4. i = j
      BY <1>6, <3>3 DEF UniqueSerial, IsInjective
    <3> QED  BY <3>1, <3>2, <3>4
  <2>8. StoredSerialsUnique'
    <3> HIDE DEF new
    <3> QED  BY <1>6, <2>6, <2>7 DEF IntakeInv, StoredSerialsUnique
  <2>9. rows' \subseteq Row
    BY <1>6, <2>4 DEF IntakeInv, IntakeTypes
  <2>10. IntakeTypes' /\ ReviewMeansComplete'
    BY <1>2, <1>3, <1>4, <2>9 DEF IntakeInv, IntakeTypes, ReviewMeansComplete, wizardVars
  <2>11. NoBlankSaved'
    <3>1. \A d \in Clicks : click'[d] = IF d = c THEN k ELSE click[d]
      BY <1>3 DEF IntakeInv, IntakeTypes
    <3> QED  BY <1>4, <3>1 DEF IntakeInv, NoBlankSaved, SerialsOf
  <2> QED  BY <2>8, <2>10, <2>11 DEF IntakeInv
<1> QED  BY <1>5, <1>6 DEF ServerSaves

LEMMA SucceedsInv ==
    ASSUME IntakeInv, NEW c \in Clicks, Succeeds(c)
    PROVE  IntakeInv'
<1>1. ReviewMeansComplete'
  BY DEF Succeeds, ReviewMeansComplete
<1>2. dialog' \in {"closed", "base", "items"} /\ saved' \in Progress
  BY IdleType DEF Succeeds, IntakeInv, IntakeTypes
<1> QED  BY <1>1, <1>2, IdleType, ClickInv DEF Succeeds, Idle, IntakeInv, IntakeTypes

LEMMA FailsInv ==
    ASSUME IntakeInv, NEW c \in Clicks, Fails(c)
    PROVE  IntakeInv'
<1>1. PICK k \in {Idle, [click[c] EXCEPT !.pc = "post"]} : click' = [click EXCEPT ![c] = k]
  BY DEF Fails, IntakeInv, IntakeTypes
<1>2. k \in Clicked /\ k.pc # "save"
  <2>1. click[c] \in Clicked
    BY DEF IntakeInv, IntakeTypes
  <2>2. Idle.pc = "idle"
    BY DEF Idle
  <2> QED  BY <1>1, <2>1, <2>2, IdleType DEF Clicked
<1>3. events' \in 0..MaxEvents
  BY IntakeAssumption DEF Fails, IntakeInv, IntakeTypes
<1>4. UNCHANGED <<kind, rows, wizardVars>>
  BY DEF Fails
<1> QED  BY <1>1, <1>2, <1>3, <1>4, ClickInv DEF wizardVars, IntakeInv, IntakeTypes, ReviewMeansComplete

\* Others: an insertion under the same index, or a row that is archived.
LEMMA OtherAddsInv ==
    ASSUME IntakeInv, NEW s \in Serials, NEW t \in Tags, OtherAdds(Shape(s, t))
    PROVE  IntakeInv'
<1> DEFINE it == Shape(s, t)
           r0 == [serial |-> it.serial, tag |-> it.tag, archived |-> FALSE]
<1>1. it.serial = s /\ it \in Item /\ s # Blank
  BY DEF Shape, Item, Serials, Blank
<1>2. r0 \in Row /\ r0.serial = s
  <2> HIDE DEF it
  <2> QED  BY <1>1, StoredRow
<1>3. s \in SerialsOf(<<it>>)
  <2>1. 1 \in DOMAIN <<it>> /\ <<it>>[1] = it
    OBVIOUS
  <2> QED  BY <1>1, <2>1 DEF SerialsOf
<1>4. \A r \in rows : r.serial # s
  BY <1>3 DEF OtherAdds, UniqueSerial
<1>5. rows' = rows \cup {r0} /\ UNCHANGED <<kind, wizardVars, click>>
  BY DEF OtherAdds
<1>6. events' \in 0..MaxEvents
  BY IntakeAssumption DEF OtherAdds, IntakeInv, IntakeTypes
<1> HIDE DEF r0, it
<1>7. StoredSerialsUnique'
  BY <1>2, <1>4, <1>5 DEF IntakeInv, StoredSerialsUnique
<1>8. IntakeTypes'
  BY <1>2, <1>5, <1>6 DEF IntakeInv, IntakeTypes, wizardVars
<1>9. NoBlankSaved' /\ ReviewMeansComplete'
  BY <1>5 DEF IntakeInv, NoBlankSaved, ReviewMeansComplete, wizardVars
<1> QED  BY <1>7, <1>8, <1>9 DEF IntakeInv

LEMMA OtherArchivesInv ==
    ASSUME IntakeInv, NEW r \in rows, OtherArchives(r)
    PROVE  IntakeInv'
<1> DEFINE r0 == [r EXCEPT !.archived = TRUE]
<1>1. r \in Row
  BY DEF IntakeInv, IntakeTypes
<1>2. r0 \in Row /\ r0.serial = r.serial
  BY <1>1 DEF Row
<1>3. rows' = (rows \ {r}) \cup {r0} /\ UNCHANGED <<kind, wizardVars, click>>
  BY DEF OtherArchives
<1>4. events' \in 0..MaxEvents
  BY IntakeAssumption DEF OtherArchives, IntakeInv, IntakeTypes
<1> HIDE DEF r0
<1>5. StoredSerialsUnique'
  BY <1>2, <1>3 DEF IntakeInv, StoredSerialsUnique
<1>6. IntakeTypes'
  BY <1>2, <1>3, <1>4 DEF IntakeInv, IntakeTypes, wizardVars
<1>7. NoBlankSaved' /\ ReviewMeansComplete'
  BY <1>3 DEF IntakeInv, NoBlankSaved, ReviewMeansComplete, wizardVars
<1> QED  BY <1>5, <1>6, <1>7 DEF IntakeInv

LEMMA UserInv ==
    ASSUME IntakeInv, User
    PROVE  IntakeInv'
<1>1. ASSUME NEW c \in Clicks, SubmitHardware(c) \/ SubmitSoftware(c)  PROVE IntakeInv'
  BY <1>1, SubmittedInv DEF SubmitHardware, SubmitSoftware
<1> QED  BY <1>1, OpenWizardInv, StartPhase2Inv, CloseDialogInv, SaveProgressInv,
         LoadProgressInv, AutoTagsInv, ManualTagsInv, EditItemInv, NextAtCountInv,
         NextSoftwareInv, NextHardwareInv DEF User

LEMMA IntakeInvStep == IntakeInv /\ [IntakeNext]_intakeVars => IntakeInv'
<1> SUFFICES ASSUME IntakeInv, [IntakeNext]_intakeVars PROVE IntakeInv'
  OBVIOUS
<1>1. CASE User
  BY <1>1, UserInv
<1>2. ASSUME NEW c \in Clicks, Handler(c) \/ Fails(c)  PROVE IntakeInv'
  BY <1>2, CheckAnsweredInv, PreflightAnsweredInv, ServerChecksInv, ServerSavesInv,
     SucceedsInv, FailsInv DEF Handler
<1>3. ASSUME NEW s \in Serials, NEW t \in Tags, OtherAdds(Shape(s, t))  PROVE IntakeInv'
  BY <1>3, OtherAddsInv
<1>4. ASSUME NEW r \in rows, OtherArchives(r)  PROVE IntakeInv'
  BY <1>4, OtherArchivesInv
<1>5. CASE UNCHANGED intakeVars
  BY <1>5 DEF IntakeInv, IntakeTypes, NoBlankSaved, StoredSerialsUnique, ReviewMeansComplete,
     intakeVars, wizardVars
<1> QED  BY <1>1, <1>2, <1>3, <1>4, <1>5 DEF IntakeNext

-----------------------------------------------------------------------------
(* The theorems.                                                           *)

THEOREM IntakeInvariant == IntakeSpec => []IntakeInv
BY IntakeInvInit, IntakeInvStep, PTL DEF IntakeSpec

\* Every variable of the wizards keeps its type: what is stored has a serial
\* number, whatever the edits of a batch left blank.
THEOREM IntakeTypeCorrect == IntakeSpec => []IntakeTypeOK
<1>1. IntakeInv => IntakeTypeOK
  BY DEF IntakeInv, IntakeTypes, IntakeTypeOK, Clicked, Progress
<1> QED  BY <1>1, IntakeInvariant, PTL

\* No interleaving of double clicks, stale checks and other administrators
\* stores a serial number or license key twice.
THEOREM NoSerialStoredTwice == IntakeSpec => []StoredSerialsUnique
<1>1. IntakeInv => StoredSerialsUnique
  BY DEF IntakeInv
<1> QED  BY <1>1, IntakeInvariant, PTL

\* Whatever check comes back late, the review shows only complete batches.
THEOREM ReviewIsOfCompleteBatch == IntakeSpec => []ReviewMeansComplete
<1>1. IntakeInv => ReviewMeansComplete
  BY DEF IntakeInv
<1> QED  BY <1>1, IntakeInvariant, PTL
=============================================================================
