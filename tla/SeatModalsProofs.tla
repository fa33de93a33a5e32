-------------------------- MODULE SeatModalsProofs ---------------------------
(***************************************************************************)
(* Theorems about SeatModals, for any assets, users, seats, handlers and   *)
(* bounds.                                                                 *)
(***************************************************************************)
EXTENDS SeatModals, FiniteSetTheorems, TLAPS

\* The handlers of the assign dialog once it is submitted, and those of the
\* unassign dialog.
Granting  == {"as:post", "as:answer", "as:upload", "as:seated"}
Closing   == {"un:post", "un:answer"}
Unassigns == {"un:summary", "un:list", "un:resolve"} \cup Closing
Task == [pc : {"idle", "as:summary"} \cup Granting \cup Unassigns,
         asset : Assets \cup {None}, user : Users \cup {None}, used : 0..Seats]

\* A handler at work knows its asset, and a request its user.
TaskOK(t) ==
    /\ task[t].pc = "idle" => task[t] = Idle
    /\ task[t].pc # "idle" => task[t].asset \in Assets
    /\ task[t].pc \in Granting \cup Closing => task[t].user \in Users
    /\ task[t].pc = "as:seated" => task[t].asset \in Software

ModalsTypes ==
    /\ open \subseteq Pairs
    /\ row \in [Assets -> (0..Seats) \cup Users \cup {None, Unnamed}]
    /\ \A a \in Software : row[a] \in 0..Seats
    /\ \A a \in Hardware : row[a] \in Users \cup {None, Unnamed}
    /\ mode \in Software \cup {None}
    /\ assign \in [shown : BOOLEAN, asset : Assets \cup {None}, user : Users \cup {None},
                   sel : Users \cup {None}]
    /\ picker \in [loading : BOOLEAN, list : SUBSET Users]
    /\ file \in Assets \cup {None}
    /\ unassign \in [shown : BOOLEAN, says : Assets \cup {None}, asset : Assets \cup {None},
                     hidden : Pairs \cup {None}, list : SUBSET Pairs]
    /\ task \in [Tasks -> Task]
    /\ \A t \in Tasks : TaskOK(t)
    /\ haste \in 0..MaxHaste /\ events \in 0..MaxEvents

\* The assign dialog names an asset, and its user is the one whose option is
\* selected; a device has one holder.  This holds whatever else goes on.
Agreed == assign.user = assign.sel /\ (assign.shown => assign.asset \in Assets)
HeldOnce == \A a \in Hardware : \A u, v \in HoldersOf(a) : u = v

\* What the handler knows while the user waits for it.
Knows(t) ==
    LET a == task[t].asset  u == task[t].user  pc == task[t].pc
    IN /\ pc \in Unassigns => unassign.asset = a
       /\ pc = "un:summary" => unassign.list = {}
       /\ pc \in {"un:list", "un:resolve"} =>
            unassign.says = a /\ unassign.list = {} /\ unassign.hidden = None
       /\ pc \in Granting => assign.sel = u
       /\ pc \in {"as:answer", "as:upload"} => <<a, u>> \in open
       /\ pc = "as:answer" /\ a \in Software => task[t].used = Cardinality(HoldersOf(a))
       /\ pc = "as:seated" => a \in Software /\ task[t].used = Cardinality(HoldersOf(a))
       /\ pc = "un:answer" => IF a \in Software THEN row[a] = Cardinality(HoldersOf(a)) + 1
                              ELSE HoldersOf(a) = {}

\* The server has changed an asset and its row has not been patched yet.
Behind(t, a) ==
    /\ task[t].asset = a
    /\ \/ task[t].pc \in {"as:answer", "un:answer"}
       \/ task[t].pc = "as:upload" /\ a \in Hardware

OneAtWork == \A t, x \in Tasks : task[t] # Idle /\ task[x] # Idle => t = x
ModeAlone == mode # None => ~assign.shown /\ ~unassign.shown /\ Quiet
SaysAsset == unassign.shown => unassign.says = unassign.asset
RowsFollow == \A a \in Assets : (\A t \in Tasks : ~Behind(t, a)) => row[a] = Cell(a)
Offered == ({unassign.hidden} \ {None}) \cup unassign.list
OffersOpen ==
    unassign.shown /\ (\A t \in Tasks : task[t].pc # "un:answer") =>
        Offered \subseteq {p \in open : p[1] = unassign.says}

\* Only the asset being worked on is behind, and the dialog offers what is open
\* until the request it sends has closed that.
Solo ==
    /\ OneAtWork /\ ModeAlone /\ SaysAsset /\ RowsFollow /\ OffersOpen
    /\ \A t \in Tasks : Knows(t)

Base == ModalsTypes /\ Agreed /\ HeldOnce

\* RowsFollowServer and OffersOpenAssignments made inductive.
ModalsInv ==
    /\ Base
    /\ haste = 0 /\ events = 0 => Solo

-----------------------------------------------------------------------------
(* Values.                                                                 *)

LEMMA AssetKinds ==
    /\ \A a \in Software : a \in Assets /\ a \notin Hardware
    /\ \A a \in Hardware : a \in Assets /\ a \notin Software
    /\ \A a \in Assets : a \in Hardware \/ a \in Software
    /\ None \notin Assets
BY ModalsAssumption DEF Assets

LEMMA HoldersFinite ==
    ASSUME NEW a
    PROVE  IsFiniteSet(HoldersOf(a)) /\ Cardinality(HoldersOf(a)) \in Nat
<1>1. HoldersOf(a) \in SUBSET Users
  BY DEF HoldersOf
<1>2. IsFiniteSet(HoldersOf(a))
  BY <1>1, ModalsAssumption, FS_Subset
<1> QED  BY <1>2, FS_CardinalityType

\* One assignment more, or one less, is one holder more or less of its asset.
LEMMA HolderAdded ==
    ASSUME NEW a, NEW u \in Users, <<a, u>> \notin open, open' = open \cup {<<a, u>>}
    PROVE  /\ HoldersOf(a)' = HoldersOf(a) \cup {u}
           /\ Cardinality(HoldersOf(a)') = Cardinality(HoldersOf(a)) + 1
           /\ \A b : b # a => HoldersOf(b)' = HoldersOf(b)
<1>1. HoldersOf(a)' = HoldersOf(a) \cup {u} /\ u \notin HoldersOf(a)
  BY DEF HoldersOf
<1>2. \A b : b # a => HoldersOf(b)' = HoldersOf(b)
  BY DEF HoldersOf
<1>3. Cardinality(HoldersOf(a) \cup {u}) = Cardinality(HoldersOf(a)) + 1
  BY <1>1, HoldersFinite, FS_AddElement
<1> QED  BY <1>1, <1>2, <1>3

LEMMA HolderRemoved ==
    ASSUME NEW a, NEW u \in Users, <<a, u>> \in open, open' = open \ {<<a, u>>}
    PROVE  /\ HoldersOf(a)' = HoldersOf(a) \ {u}
           /\ Cardinality(HoldersOf(a)') = Cardinality(HoldersOf(a)) - 1
           /\ \A b : b # a => HoldersOf(b)' = HoldersOf(b)
<1>1. HoldersOf(a)' = HoldersOf(a) \ {u} /\ u \in HoldersOf(a)
  BY DEF HoldersOf
<1>2. \A b : b # a => HoldersOf(b)' = HoldersOf(b)
  BY DEF HoldersOf
<1>3. Cardinality(HoldersOf(a) \ {u}) = Cardinality(HoldersOf(a)) - 1
  BY <1>1, HoldersFinite, FS_RemoveElement
<1> QED  BY <1>1, <1>2, <1>3

LEMMA IdleTask == Idle \in Task /\ Idle.pc = "idle"
BY ModalsAssumption DEF Idle, Task

\* A handler at a new place.
LEMMA OpenedTask ==
    ASSUME NEW a \in Assets, NEW pc \in {"as:summary"} \cup Unassigns
    PROVE  /\ [Idle EXCEPT !.pc = pc, !.asset = a] \in Task
           /\ [Idle EXCEPT !.pc = pc, !.asset = a].pc = pc
           /\ [Idle EXCEPT !.pc = pc, !.asset = a].asset = a
<1>1. Idle \in Task
  BY IdleTask
<1> QED  BY <1>1 DEF Task

LEMMA GrantedTask ==
    ASSUME NEW k \in Task, NEW pc \in {"as:answer", "as:seated"}, NEW n \in 0..Seats
    PROVE  LET r == [k EXCEPT !.pc = pc, !.used = n]
           IN  r \in Task /\ r.pc = pc /\ r.asset = k.asset /\ r.user = k.user
               /\ r.used = n
<1> DEFINE q == [k EXCEPT !.pc = pc]
           r == [q EXCEPT !.used = n]
<1>1. q \in Task /\ q.pc = pc /\ q.asset = k.asset /\ q.user = k.user
  BY DEF Task, Granting
<1>2. [k EXCEPT !.pc = pc, !.used = n] = r
  OBVIOUS
<1> HIDE DEF q
<1>3. r \in Task /\ r.pc = pc /\ r.asset = k.asset /\ r.user = k.user /\ r.used = n
  BY <1>1 DEF Task
<1> QED  BY <1>2, <1>3

\* One handler moves.
LEMMA TaskMoves ==
    ASSUME ModalsTypes, NEW t \in Tasks, NEW r \in Task, task' = [task EXCEPT ![t] = r],
           r.pc = "idle" => r = Idle,
           r.pc # "idle" => r.asset \in Assets,
           r.pc \in Granting \cup Closing => r.user \in Users,
           r.pc = "as:seated" => r.asset \in Software
    PROVE  task' \in [Tasks -> Task] /\ (\A x \in Tasks : TaskOK(x))'
<1>1. task' \in [Tasks -> Task] /\ \A x \in Tasks : task'[x] = IF x = t THEN r ELSE task[x]
  BY DEF ModalsTypes
<1>2. ASSUME NEW x \in Tasks  PROVE TaskOK(x)'
  <2>1. CASE x = t
    BY <1>1, <2>1 DEF TaskOK
  <2>2. CASE x # t
    BY <1>1, <2>2 DEF ModalsTypes, TaskOK
  <2> QED  BY <2>1, <2>2
<1> QED  BY <1>1, <1>2

LEMMA TaskEnds ==
    ASSUME ModalsTypes, NEW t \in Tasks, task' = End(t)
    PROVE  task' \in [Tasks -> Task] /\ (\A x \in Tasks : TaskOK(x))'
BY IdleTask, TaskMoves DEF End, Granting, Closing

LEMMA TaskOpens ==
    ASSUME ModalsTypes, NEW t \in Tasks, NEW a \in Assets,
           NEW pc \in {"as:summary", "un:summary", "un:list", "un:resolve"}, task' = Open(t, pc, a)
    PROVE  task' \in [Tasks -> Task] /\ (\A x \in Tasks : TaskOK(x))'
<1>1. pc \in {"as:summary"} \cup Unassigns /\ pc # "idle" /\ pc \notin Granting \cup Closing
  BY DEF Unassigns, Granting, Closing
<1> DEFINE r == [Idle EXCEPT !.pc = pc, !.asset = a]
<1>2. r \in Task /\ r.pc = pc /\ r.asset = a
  BY <1>1, OpenedTask
<1>3. task' = [task EXCEPT ![t] = r]
  BY DEF Open
<1> HIDE DEF r
<1>4. /\ r.pc = "idle" => r = Idle
      /\ r.pc # "idle" => r.asset \in Assets
      /\ r.pc \in Granting \cup Closing => r.user \in Users
      /\ r.pc # "as:seated"
  BY <1>1, <1>2 DEF Granting
<1> QED  BY <1>2, <1>3, <1>4, TaskMoves

LEMMA HasteType == ModalsTypes /\ Hasty => haste' \in 0..MaxHaste
BY ModalsAssumption DEF ModalsTypes, Hasty

-----------------------------------------------------------------------------
(* Types, and what holds in any haste.                                     *)

LEMMA BaseInit == ModalsInit => Base
<1> SUFFICES ASSUME ModalsInit PROVE Base
  OBVIOUS
<1> USE ModalsAssumption DEF ModalsInit
<1>1. open \subseteq Pairs /\ haste \in 0..MaxHaste /\ events \in 0..MaxEvents
  OBVIOUS
<1>2. /\ row \in [Assets -> (0..Seats) \cup Users \cup {None, Unnamed}]
      /\ \A a \in Software : row[a] \in 0..Seats
      /\ \A a \in Hardware : row[a] \in Users \cup {None, Unnamed}
  BY AssetKinds
<1>3. mode \in Software \cup {None} /\ file \in Assets \cup {None}
  OBVIOUS
<1>4. assign \in [shown : BOOLEAN, asset : Assets \cup {None}, user : Users \cup {None},
                  sel : Users \cup {None}]
  OBVIOUS
<1>5. picker \in [loading : BOOLEAN, list : SUBSET Users]
  OBVIOUS
<1>6. unassign \in [shown : BOOLEAN, says : Assets \cup {None}, asset : Assets \cup {None},
                    hidden : Pairs \cup {None}, list : SUBSET Pairs]
  OBVIOUS
<1>7. task \in [Tasks -> Task] /\ \A t \in Tasks : TaskOK(t)
  BY IdleTask DEF TaskOK, Granting, Closing
<1>8. Agreed /\ HeldOnce
  BY DEF Agreed, HeldOnce, HoldersOf
<1> QED  BY <1>1, <1>2, <1>3, <1>4, <1>5, <1>6, <1>7, <1>8 DEF Base, ModalsTypes

LEMMA StartAssignBase ==
    ASSUME Base, NEW t \in Tasks, NEW a \in Assets, StartAssign(t, a), Hasty,
           mode' \in Software \cup {None}, UNCHANGED <<open, row, file, events>>
    PROVE  Base'
<1>1. task' \in [Tasks -> Task] /\ (\A x \in Tasks : TaskOK(x))'
  BY TaskOpens DEF StartAssign, Base
<1>2. assign' \in [shown : BOOLEAN, asset : Assets \cup {None}, user : Users \cup {None},
                   sel : Users \cup {None}] /\ Agreed'
  BY DEF Base, ModalsTypes, StartAssign, Agreed
<1>3. picker' \in [loading : BOOLEAN, list : SUBSET Users] /\ unassign' = unassign
  BY DEF Base, ModalsTypes, StartAssign
<1> QED  BY <1>1, <1>2, <1>3, HasteType DEF Base, ModalsTypes, Agreed, HeldOnce, HoldersOf

LEMMA StartUnassignBase ==
    ASSUME Base, NEW t \in Tasks, NEW a \in Assets, StartUnassign(t, a), Hasty,
           mode' \in Software \cup {None}, UNCHANGED <<open, row, file, events>>
    PROVE  Base'
<1>1. task' \in [Tasks -> Task] /\ (\A x \in Tasks : TaskOK(x))'
  BY TaskOpens DEF StartUnassign, Base
<1>2. unassign' \in [shown : BOOLEAN, says : Assets \cup {None}, asset : Assets \cup {None},
                     hidden : Pairs \cup {None}, list : SUBSET Pairs]
  BY DEF Base, ModalsTypes, StartUnassign
<1>3. UNCHANGED <<assign, picker>>
  BY DEF StartUnassign
<1> QED  BY <1>1, <1>2, <1>3, HasteType DEF Base, ModalsTypes, Agreed, HeldOnce, HoldersOf

LEMMA ClickRowBase ==
    ASSUME Base, NEW t \in Tasks, NEW a \in Assets, ClickRow(t, a)
    PROVE  Base'
<1>1. Hasty /\ UNCHANGED <<open, row, file, events>>
  BY DEF ClickRow
<1>2. CASE StartAssign(t, a) /\ UNCHANGED mode
  BY <1>1, <1>2, StartAssignBase DEF Base, ModalsTypes
<1>3. CASE StartUnassign(t, a) /\ UNCHANGED mode
  BY <1>1, <1>3, StartUnassignBase DEF Base, ModalsTypes
<1>4. CASE a \in Software /\ mode' = a /\ UNCHANGED <<assign, picker, unassign, task>>
  BY <1>1, <1>4, HasteType DEF Base, ModalsTypes, Agreed, HeldOnce, HoldersOf, TaskOK
<1> QED  BY <1>2, <1>3, <1>4 DEF ClickRow

LEMMA ChooseModeBase ==
    ASSUME Base, NEW t \in Tasks, ChooseMode(t)
    PROVE  Base'
<1>1. Hasty /\ mode' = None /\ UNCHANGED <<open, row, file, events>> /\ mode \in Assets
  BY AssetKinds DEF ChooseMode, Base, ModalsTypes
<1>2. CASE StartAssign(t, mode)
  BY <1>1, <1>2, StartAssignBase
<1>3. CASE StartUnassign(t, mode)
  BY <1>1, <1>3, StartUnassignBase
<1>4. CASE UNCHANGED <<assign, picker, unassign, task>>
  BY <1>1, <1>4, HasteType DEF Base, ModalsTypes, Agreed, HeldOnce, HoldersOf, TaskOK
<1> QED  BY <1>2, <1>3, <1>4 DEF ChooseMode

\* Handlers and buttons of the dialogs that leave the database and the rows.
LEMMA DialogBase ==
    ASSUME Base, UNCHANGED <<open, row, mode>>, file' \in Assets \cup {None},
           assign' \in [shown : BOOLEAN, asset : Assets \cup {None}, user : Users \cup {None},
                        sel : Users \cup {None}],
           Agreed',
           picker' \in [loading : BOOLEAN, list : SUBSET Users],
           unassign' \in [shown : BOOLEAN, says : Assets \cup {None}, asset : Assets \cup {None},
                          hidden : Pairs \cup {None}, list : SUBSET Pairs],
           task' \in [Tasks -> Task], (\A x \in Tasks : TaskOK(x))',
           haste' \in 0..MaxHaste, events' \in 0..MaxEvents
    PROVE  Base'
BY DEF Base, ModalsTypes, Agreed, HeldOnce, HoldersOf

LEMMA Unmoved ==
    ASSUME Base
    PROVE  /\ assign \in [shown : BOOLEAN, asset : Assets \cup {None}, user : Users \cup {None},
                          sel : Users \cup {None}]
           /\ Agreed
           /\ picker \in [loading : BOOLEAN, list : SUBSET Users]
           /\ unassign \in [shown : BOOLEAN, says : Assets \cup {None}, asset : Assets \cup {None},
                            hidden : Pairs \cup {None}, list : SUBSET Pairs]
           /\ file \in Assets \cup {None} /\ open \subseteq Pairs /\ mode \in Software \cup {None}
           /\ haste \in 0..MaxHaste /\ events \in 0..MaxEvents
           /\ task \in [Tasks -> Task] /\ (\A x \in Tasks : TaskOK(x))
BY DEF Base, ModalsTypes, Agreed

LEMMA AgreedStays ==
    ASSUME Base, assign' = assign
    PROVE  Agreed'
BY DEF Base, Agreed

LEMMA TasksStay ==
    ASSUME Base, task' = task
    PROVE  task' \in [Tasks -> Task] /\ (\A x \in Tasks : TaskOK(x))'
BY DEF Base, ModalsTypes, TaskOK

LEMMA AssignOpenedBase ==
    ASSUME Base, NEW t \in Tasks, AssignOpened(t)
    PROVE  Base'
<1>1. task' \in [Tasks -> Task] /\ (\A x \in Tasks : TaskOK(x))'
  BY TaskEnds DEF AssignOpened, Base
<1>2. task[t].asset \in Assets
  BY DEF AssignOpened, Base, ModalsTypes, TaskOK
<1>3. assign' \in [shown : BOOLEAN, asset : Assets \cup {None}, user : Users \cup {None},
                   sel : Users \cup {None}] /\ Agreed'
  BY <1>2 DEF AssignOpened, Agreed
<1>4. picker' \in [loading : BOOLEAN, list : SUBSET Users]
  BY DEF AssignOpened, Load
<1> QED  BY <1>1, <1>3, <1>4, Unmoved, DialogBase DEF AssignOpened

LEMMA UnassignNamedBase ==
    ASSUME Base, NEW t \in Tasks, UnassignNamed(t)
    PROVE  Base'
<1> DEFINE a == task[t].asset
<1>1. a \in Assets
  BY DEF UnassignNamed, Base, ModalsTypes, TaskOK
<1>2. task' \in [Tasks -> Task] /\ (\A x \in Tasks : TaskOK(x))'
  <2>1. PICK pc \in {"un:list", "un:resolve"} : task' = Open(t, pc, a)
    BY DEF UnassignNamed
  <2> HIDE DEF a
  <2> QED  BY <1>1, <2>1, TaskOpens DEF Base
<1>3. unassign' \in [shown : BOOLEAN, says : Assets \cup {None}, asset : Assets \cup {None},
                     hidden : Pairs \cup {None}, list : SUBSET Pairs]
  <2>1. PICK l \in {{}, unassign.list} :
          unassign' = [unassign EXCEPT !.says = a, !.hidden = None, !.list = l]
    BY Unmoved DEF UnassignNamed
  <2>2. l \subseteq Pairs
    BY <2>1, Unmoved
  <2> HIDE DEF a
  <2> QED  BY <1>1, <2>1, <2>2, Unmoved
<1> QED  BY <1>2, <1>3, Unmoved, AgreedStays, DialogBase DEF UnassignNamed

LEMMA UnassignResolvedBase ==
    ASSUME Base, NEW t \in Tasks, NEW found \in BOOLEAN, UnassignResolved(t, found)
    PROVE  Base'
<1> DEFINE ps == {p \in open : found /\ p[1] = task[t].asset}
           h == IF ps = {} THEN None ELSE CHOOSE p \in ps : TRUE
<1>1. task' \in [Tasks -> Task] /\ (\A x \in Tasks : TaskOK(x))'
  BY TaskEnds DEF UnassignResolved, Base
<1>2. h \in Pairs \cup {None}
  BY Unmoved
<1>3. unassign' = [unassign EXCEPT !.shown = TRUE, !.hidden = h]
  BY DEF UnassignResolved
<1>4. unassign' \in [shown : BOOLEAN, says : Assets \cup {None}, asset : Assets \cup {None},
                     hidden : Pairs \cup {None}, list : SUBSET Pairs]
  <2> HIDE DEF h
  <2> QED  BY <1>2, <1>3, Unmoved
<1> QED  BY <1>1, <1>4, Unmoved, AgreedStays, DialogBase DEF UnassignResolved

LEMMA UnassignListedBase ==
    ASSUME Base, NEW t \in Tasks, NEW found \in BOOLEAN, UnassignListed(t, found)
    PROVE  Base'
<1> DEFINE l == unassign.list \cup {p \in open : found /\ p[1] = task[t].asset}
<1>1. task' \in [Tasks -> Task] /\ (\A x \in Tasks : TaskOK(x))'
  BY TaskEnds DEF UnassignListed, Base
<1>2. l \subseteq Pairs
  BY Unmoved
<1>3. unassign' = [unassign EXCEPT !.shown = TRUE, !.list = l]
  BY Unmoved DEF UnassignListed
<1>4. unassign' \in [shown : BOOLEAN, says : Assets \cup {None}, asset : Assets \cup {None},
                     hidden : Pairs \cup {None}, list : SUBSET Pairs]
  <2> HIDE DEF l
  <2> QED  BY <1>2, <1>3, Unmoved
<1> QED  BY <1>1, <1>4, Unmoved, AgreedStays, DialogBase DEF UnassignListed

\* The controls of the dialogs.
ControlStep ==
    \/ \E list \in SUBSET Users : PickerAnswered(list)
    \/ SearchUsers
    \/ \E u \in Users : PickUser(u)
    \/ ChooseFile
    \/ CloseAssign
    \/ \E p \in Pairs : PickSeat(p)
    \/ CloseUnassign

LEMMA ControlBase ==
    ASSUME Base, ControlStep
    PROVE  Base'
<1>1. UNCHANGED <<open, row, mode, task, events>>
  BY DEF ControlStep, PickerAnswered, SearchUsers, PickUser, ChooseFile, CloseAssign, PickSeat, CloseUnassign
<1>2. haste' \in 0..MaxHaste
  BY HasteType, Unmoved DEF Base, ControlStep, PickerAnswered, SearchUsers, PickUser, ChooseFile,
     CloseAssign, PickSeat, CloseUnassign
<1>3. file' \in Assets \cup {None}
  BY Unmoved, AssetKinds DEF ControlStep, PickerAnswered, SearchUsers, PickUser, ChooseFile,
     CloseAssign, PickSeat, CloseUnassign
<1>4. assign' \in [shown : BOOLEAN, asset : Assets \cup {None}, user : Users \cup {None},
                   sel : Users \cup {None}] /\ Agreed'
  BY Unmoved DEF ControlStep, PickerAnswered, SearchUsers, PickUser, ChooseFile,
     CloseAssign, PickSeat, CloseUnassign, Agreed
<1>5. picker' \in [loading : BOOLEAN, list : SUBSET Users]
  <2>1. \/ \E list \in SUBSET Users : picker' = [loading |-> FALSE, list |-> list]
        \/ picker' = Load \/ picker' = picker
    BY DEF ControlStep, PickerAnswered, SearchUsers, PickUser, ChooseFile,
       CloseAssign, PickSeat, CloseUnassign
  <2>2. Load \in [loading : BOOLEAN, list : SUBSET Users]
    BY DEF Load
  <2>3. \A list \in SUBSET Users :
           [loading |-> FALSE, list |-> list] \in [loading : BOOLEAN, list : SUBSET Users]
    OBVIOUS
  <2>4. picker \in [loading : BOOLEAN, list : SUBSET Users]
    BY Unmoved
  <2> QED  BY <2>1, <2>2, <2>3, <2>4, Zenon
<1>6. unassign' \in [shown : BOOLEAN, says : Assets \cup {None}, asset : Assets \cup {None},
                     hidden : Pairs \cup {None}, list : SUBSET Pairs]
  BY Unmoved DEF ControlStep, PickerAnswered, SearchUsers, PickUser, ChooseFile,
     CloseAssign, PickSeat, CloseUnassign
<1> QED  BY <1>1, <1>2, <1>3, <1>4, <1>5, <1>6, TasksStay, Unmoved, DialogBase

LEMMA SubmitAssignBase ==
    ASSUME Base, NEW t \in Tasks, SubmitAssign(t)
    PROVE  Base'
<1> DEFINE r == [Idle EXCEPT !.pc = "as:post", !.asset = assign.asset, !.user = assign.user]
<1>1. assign.user \in Users /\ assign.asset \in Assets
  BY Unmoved DEF SubmitAssign, Agreed
<1>2. r \in Task /\ r.pc = "as:post" /\ r.asset = assign.asset /\ r.user = assign.user
  BY <1>1, IdleTask DEF Task, Granting
<1>3. task' = [task EXCEPT ![t] = r]
  BY DEF SubmitAssign
<1>4. task' \in [Tasks -> Task] /\ (\A x \in Tasks : TaskOK(x))'
  <2> HIDE DEF r
  <2> QED  BY <1>1, <1>2, <1>3, TaskMoves DEF Base
<1>5. haste' \in 0..MaxHaste /\ Agreed'
  BY HasteType, AgreedStays DEF SubmitAssign, Base
<1> QED  BY <1>4, <1>5, Unmoved, DialogBase DEF SubmitAssign

LEMMA SubmitUnassignBase ==
    ASSUME Base, NEW t \in Tasks, SubmitUnassign(t)
    PROVE  Base'
<1> DEFINE r == [Idle EXCEPT !.pc = "un:post", !.asset = unassign.hidden[1], !.user = unassign.hidden[2]]
<1>1. unassign.hidden[1] \in Assets /\ unassign.hidden[2] \in Users
  BY Unmoved DEF SubmitUnassign, Pairs
<1>2. r \in Task /\ r.pc = "un:post" /\ r.asset = unassign.hidden[1] /\ r.user = unassign.hidden[2]
  BY <1>1, IdleTask DEF Task, Unassigns, Closing
<1>3. task' = [task EXCEPT ![t] = r]
  BY DEF SubmitUnassign
<1>4. task' \in [Tasks -> Task] /\ (\A x \in Tasks : TaskOK(x))'
  <2> HIDE DEF r
  <2> QED  BY <1>1, <1>2, <1>3, TaskMoves DEF Base
<1>5. haste' \in 0..MaxHaste /\ Agreed'
  BY HasteType, AgreedStays DEF SubmitUnassign, Base
<1> QED  BY <1>4, <1>5, Unmoved, DialogBase DEF SubmitUnassign

\* The endpoints: an assignment is opened where it may be, or one is closed.
LEMMA HeldOnceGranted ==
    ASSUME HeldOnce, NEW a \in Assets, NEW u \in Users, Assignable(a, u), open' = open \cup {<<a, u>>}
    PROVE  HeldOnce'
BY AssetKinds DEF HeldOnce, HoldersOf, Assignable

LEMMA HeldOnceClosed ==
    ASSUME HeldOnce, NEW p, open' = open \ {p}
    PROVE  HeldOnce'
BY DEF HeldOnce, HoldersOf

LEMMA UsedInSeats ==
    ASSUME NEW a \in Assets, NEW u \in Users, Assignable(a, u)
    PROVE  Cardinality(HoldersOf(a)) + 1 \in 1..Seats
<1>1. CASE a \in Hardware
  BY <1>1, FS_EmptySet, ModalsAssumption DEF Assignable
<1>2. CASE a \notin Hardware
  BY <1>2, HoldersFinite, ModalsAssumption DEF Assignable
<1> QED  BY <1>1, <1>2

LEMMA ServerAssignsBase ==
    ASSUME Base, NEW t \in Tasks, ServerAssigns(t)
    PROVE  Base'
<1> DEFINE a == task[t].asset
           u == task[t].user
           used == Cardinality(HoldersOf(a)) + 1
           r == [task[t] EXCEPT !.pc = "as:answer", !.used = used]
<1>1. a \in Assets /\ u \in Users /\ task[t] \in Task /\ task[t].pc = "as:post"
  BY DEF ServerAssigns, Base, ModalsTypes, TaskOK, Granting
<1>2. UNCHANGED <<row, mode, assign, picker, file, unassign, haste, events>>
  BY DEF ServerAssigns
<1>3. CASE Assignable(a, u)
  <2>1. open' = open \cup {<<a, u>>} /\ task' = [task EXCEPT ![t] = r]
    BY <1>3, Unmoved, AssetKinds DEF ServerAssigns, Assignable, Seated
  <2>2. used \in 1..Seats
    BY <1>1, <1>3, UsedInSeats
  <2>3. r \in Task /\ r.pc = "as:answer" /\ r.asset = a /\ r.user = u
    <3>1. used \in 0..Seats
      BY <2>2, ModalsAssumption
    <3>2. task[t] \in Task
      BY <1>1
    <3> HIDE DEF used
    <3> QED  BY <3>1, <3>2, GrantedTask
  <2>4. task' \in [Tasks -> Task] /\ (\A x \in Tasks : TaskOK(x))'
    <3> HIDE DEF r, a, u
    <3> QED  BY <1>1, <2>1, <2>3, TaskMoves DEF Base
  <2>5. open' \subseteq Pairs
    BY <1>1, <2>1, Unmoved DEF Pairs
  <2>6. HeldOnce'
    BY <1>1, <1>3, <2>1, HeldOnceGranted DEF Base
  <2> HIDE DEF r, a, u, used
  <2> QED  BY <1>2, <2>4, <2>5, <2>6, AgreedStays DEF Base, ModalsTypes
<1>4. CASE ~Assignable(a, u) /\ Seated(a, u)
  <2> DEFINE n == Cardinality(HoldersOf(a))
             q == [task[t] EXCEPT !.pc = "as:seated", !.used = n]
  <2>1. open' = open /\ task' = [task EXCEPT ![t] = q] /\ a \in Software
    BY <1>4, Unmoved DEF ServerAssigns, Seated
  <2>2. n \in 0..Seats
    BY <1>4, HoldersFinite, ModalsAssumption DEF Seated
  <2>3. q \in Task /\ q.pc = "as:seated" /\ q.asset = a /\ q.user = u
    <3>1. task[t] \in Task
      BY <1>1
    <3> HIDE DEF n
    <3> QED  BY <2>2, <3>1, GrantedTask
  <2>4. task' \in [Tasks -> Task] /\ (\A x \in Tasks : TaskOK(x))'
    <3> HIDE DEF q, a, u
    <3> QED  BY <1>1, <2>1, <2>3, TaskMoves DEF Base
  <2> HIDE DEF q, a, u, n
  <2> QED  BY <1>2, <2>1, <2>4, AgreedStays DEF Base, ModalsTypes, HeldOnce, HoldersOf
<1>5. CASE ~Assignable(a, u) /\ ~Seated(a, u)
  <2>1. open' = open /\ task' = End(t)
    BY <1>5 DEF ServerAssigns
  <2>2. task' \in [Tasks -> Task] /\ (\A x \in Tasks : TaskOK(x))'
    BY <2>1, TaskEnds DEF Base
  <2> QED  BY <1>2, <2>1, <2>2, AgreedStays DEF Base, ModalsTypes, HeldOnce, HoldersOf
<1> QED  BY <1>3, <1>4, <1>5

LEMMA ServerClosesBase ==
    ASSUME Base, NEW t \in Tasks, ServerCloses(t)
    PROVE  Base'
<1> DEFINE p == <<task[t].asset, task[t].user>>
           r == [task[t] EXCEPT !.pc = "un:answer"]
<1>1. task[t] \in Task /\ task[t].pc = "un:post" /\ TaskOK(t)
  BY DEF ServerCloses, Base, ModalsTypes
<1>2. open' = open \ {p} /\ UNCHANGED <<row, mode, assign, picker, file, unassign, haste, events>>
  BY DEF ServerCloses
<1>3. task' \in [Tasks -> Task] /\ (\A x \in Tasks : TaskOK(x))'
  <2>1. CASE task' = End(t)
    BY <2>1, TaskEnds DEF Base
  <2>2. CASE task' = [task EXCEPT ![t] = r]
    <3>1. r \in Task /\ r.pc = "un:answer" /\ r.asset = task[t].asset /\ r.user = task[t].user
      BY <1>1 DEF Task, Unassigns, Closing
    <3>2. r.asset \in Assets /\ r.user \in Users
      BY <1>1, <3>1 DEF TaskOK, Closing
    <3> HIDE DEF r
    <3> QED  BY <2>2, <3>1, <3>2, TaskMoves DEF Base
  <2> QED  BY <2>1, <2>2, Unmoved DEF ServerCloses
<1>4. HeldOnce'
  BY <1>2, HeldOnceClosed DEF Base
<1> HIDE DEF p, r
<1> QED  BY <1>2, <1>3, <1>4, AgreedStays DEF Base, ModalsTypes

\* The cell of a row takes a number (software) or a name (hardware).
RowTypes ==
    /\ row \in [Assets -> (0..Seats) \cup Users \cup {None, Unnamed}]
    /\ \A a \in Software : row[a] \in 0..Seats
    /\ \A a \in Hardware : row[a] \in Users \cup {None, Unnamed}

LEMMA CellWritten ==
    ASSUME RowTypes, NEW a \in Assets \cup {None}, NEW v,
           a \in Software => v \in 0..Seats, a \notin Software => v \in Users \cup {None, Unnamed},
           row' = [row EXCEPT ![a] = v]
    PROVE  RowTypes' /\ \A b \in Assets : row'[b] = IF b = a THEN v ELSE row[b]
<1>1. \A b \in Assets : row'[b] = IF b = a THEN v ELSE row[b]
  BY DEF RowTypes
<1>2. \A b \in Assets : row'[b] \in (0..Seats) \cup Users \cup {None, Unnamed}
  BY <1>1 DEF RowTypes
<1>3. row' \in [Assets -> (0..Seats) \cup Users \cup {None, Unnamed}]
  BY <1>2 DEF RowTypes
<1> QED  BY <1>1, <1>3, AssetKinds DEF RowTypes

LEMMA AssignAnsweredBase ==
    ASSUME Base, NEW t \in Tasks, AssignAnswered(t)
    PROVE  Base'
<1> DEFINE r == [task[t] EXCEPT !.pc = "as:upload"]
<1>1. task[t] \in Task /\ task[t].pc = "as:answer" /\ TaskOK(t)
  BY DEF AssignAnswered, Base, ModalsTypes
<1>2. r \in Task /\ r.pc = "as:upload" /\ r.asset \in Assets /\ r.user \in Users
  BY <1>1 DEF Task, TaskOK, Granting
<1>3. task' = [task EXCEPT ![t] = r] /\ UNCHANGED <<open, mode, assign, picker, file, unassign, haste, events>>
  BY Unmoved DEF AssignAnswered
<1> HIDE DEF r
<1>4. task' \in [Tasks -> Task] /\ (\A x \in Tasks : TaskOK(x))'
  BY <1>2, <1>3, TaskMoves DEF Base
<1>5. RowTypes'
  <2>1. RowTypes
    BY DEF RowTypes, Base, ModalsTypes
  <2>2. CASE task[t].asset \in Software
    <3>1. task[t].used \in 0..Seats /\ row' = [row EXCEPT ![task[t].asset] = task[t].used]
      BY <1>1, <2>2 DEF Task, AssignAnswered
    <3> QED  BY <2>1, <2>2, <3>1, CellWritten, AssetKinds
  <2>3. CASE row' = row
    BY <2>1, <2>3 DEF RowTypes
  <2> QED  BY <2>2, <2>3 DEF AssignAnswered
<1> QED  BY <1>3, <1>4, <1>5, AgreedStays DEF Base, ModalsTypes, RowTypes, HeldOnce, HoldersOf

LEMMA SeatKeptBase ==
    ASSUME Base, NEW t \in Tasks, SeatKept(t)
    PROVE  Base'
<1>1. task' \in [Tasks -> Task] /\ (\A x \in Tasks : TaskOK(x))'
  BY TaskEnds DEF SeatKept, Base
<1>2. RowTypes'
  <2>1. RowTypes
    BY DEF RowTypes, Base, ModalsTypes
  <2>2. task[t] \in Task /\ task[t].asset \in Software
    BY DEF SeatKept, Base, ModalsTypes, TaskOK
  <2>3. task[t].used \in 0..Seats /\ row' = [row EXCEPT ![task[t].asset] = task[t].used]
    BY <2>2 DEF Task, SeatKept
  <2> QED  BY <2>1, <2>2, <2>3, CellWritten, AssetKinds
<1>3. assign' \in [shown : BOOLEAN, asset : Assets \cup {None}, user : Users \cup {None},
                   sel : Users \cup {None}] /\ Agreed'
  BY Unmoved DEF SeatKept, Agreed
<1>4. UNCHANGED <<open, mode, picker, file, unassign, haste, events>>
  BY DEF SeatKept
<1> QED  BY <1>1, <1>2, <1>3, <1>4 DEF Base, ModalsTypes, RowTypes, HeldOnce, HoldersOf

LEMMA AgreementSentBase ==
    ASSUME Base, NEW t \in Tasks, AgreementSent(t)
    PROVE  Base'
<1>1. task' \in [Tasks -> Task] /\ (\A x \in Tasks : TaskOK(x))'
  BY TaskEnds DEF AgreementSent, Base
<1>2. RowTypes'
  <2>1. RowTypes
    BY DEF RowTypes, Base, ModalsTypes
  <2>2. CASE task[t].asset \in Hardware
    <3>1. NameSent(assign.sel) \in Users \cup {Unnamed}
      BY Unmoved DEF NameSent
    <3>2. row' = [row EXCEPT ![task[t].asset] = NameSent(assign.sel)]
      BY <2>2 DEF AgreementSent
    <3> QED  BY <2>1, <2>2, <3>1, <3>2, CellWritten, AssetKinds
  <2>3. CASE row' = row
    BY <2>1, <2>3 DEF RowTypes
  <2> QED  BY <2>2, <2>3 DEF AgreementSent
<1>3. assign' \in [shown : BOOLEAN, asset : Assets \cup {None}, user : Users \cup {None},
                   sel : Users \cup {None}] /\ Agreed'
  BY Unmoved DEF AgreementSent, Agreed
<1>4. UNCHANGED <<open, mode, picker, unassign, haste, events>> /\ file' = None
  BY DEF AgreementSent
<1> QED  BY <1>1, <1>2, <1>3, <1>4 DEF Base, ModalsTypes, RowTypes, HeldOnce, HoldersOf

LEMMA UnassignAnsweredBase ==
    ASSUME Base, NEW t \in Tasks, UnassignAnswered(t)
    PROVE  Base'
<1>1. task' \in [Tasks -> Task] /\ (\A x \in Tasks : TaskOK(x))'
  BY TaskEnds DEF UnassignAnswered, Base
<1>2. unassign.asset \in Assets \cup {None} /\ RowTypes
  BY Unmoved DEF RowTypes, Base, ModalsTypes
<1>3. RowTypes'
  <2> DEFINE a == unassign.asset
             v == IF a \in Software THEN SeatsAfterUnassign(row[a]) ELSE None
  <2>1. row' = [row EXCEPT ![a] = v]
    BY DEF UnassignAnswered
  <2>2. a \in Software => v \in 0..Seats
    BY <1>2, ModalsAssumption DEF RowTypes, SeatsAfterUnassign
  <2>3. a \notin Software => v \in Users \cup {None, Unnamed}
    OBVIOUS
  <2> HIDE DEF v
  <2> QED  BY <1>2, <2>1, <2>2, <2>3, CellWritten
<1>4. unassign' \in [shown : BOOLEAN, says : Assets \cup {None}, asset : Assets \cup {None},
                     hidden : Pairs \cup {None}, list : SUBSET Pairs]
  BY Unmoved DEF UnassignAnswered
<1>5. UNCHANGED <<open, mode, assign, picker, file, haste, events>>
  BY DEF UnassignAnswered
<1> QED  BY <1>1, <1>3, <1>4, <1>5, AgreedStays DEF Base, ModalsTypes, RowTypes, HeldOnce, HoldersOf

LEMMA LostBase ==
    ASSUME Base, NEW t \in Tasks, Lost(t)
    PROVE  Base'
<1>1. task' \in [Tasks -> Task] /\ (\A x \in Tasks : TaskOK(x))'
  BY TaskEnds DEF Lost, Base
<1>2. events' \in 0..MaxEvents
  BY Unmoved, ModalsAssumption DEF Lost
<1> QED  BY <1>1, <1>2, AgreedStays, DialogBase, Unmoved DEF Lost

LEMMA OtherChangesBase ==
    ASSUME Base, NEW p \in Pairs, OtherChanges(p)
    PROVE  Base'
<1>1. HeldOnce' /\ open' \subseteq Pairs
  <2>1. p = <<p[1], p[2]>> /\ p[1] \in Assets /\ p[2] \in Users
    BY DEF Pairs
  <2>2. CASE Assignable(p[1], p[2]) /\ open' = open \cup {p}
    BY <2>1, <2>2, HeldOnceGranted, Unmoved DEF Base
  <2>3. CASE open' = open \ {p}
    BY <2>3, HeldOnceClosed, Unmoved DEF Base
  <2> QED  BY <2>2, <2>3 DEF OtherChanges
<1>2. events' \in 0..MaxEvents
  BY Unmoved, ModalsAssumption DEF OtherChanges
<1>3. UNCHANGED <<row, mode, assign, picker, file, unassign, task, haste>>
  BY DEF OtherChanges
<1> QED  BY <1>1, <1>2, <1>3, AgreedStays, TasksStay DEF Base, ModalsTypes

LEMMA BaseStep ==
    ASSUME Base, ModalsNext
    PROVE  Base'
<1>1. ASSUME NEW t \in Tasks,
             \/ \E a \in Assets : ClickRow(t, a)
             \/ ChooseMode(t)
             \/ SubmitAssign(t)
             \/ SubmitUnassign(t)
             \/ Handler(t)
             \/ Lost(t)
      PROVE  Base'
  BY <1>1, ClickRowBase, ChooseModeBase, SubmitAssignBase, SubmitUnassignBase, LostBase,
     AssignOpenedBase, UnassignNamedBase, UnassignResolvedBase, UnassignListedBase,
     ServerAssignsBase, AssignAnsweredBase, AgreementSentBase, SeatKeptBase, ServerClosesBase,
     UnassignAnsweredBase DEF Handler
<1>2. CASE ControlStep
  BY <1>2, ControlBase
<1>3. ASSUME NEW p \in Pairs, OtherChanges(p)  PROVE Base'
  BY <1>3, OtherChangesBase
<1> QED  BY <1>1, <1>2, <1>3 DEF ModalsNext, ControlStep

-----------------------------------------------------------------------------
(* One click at a time.                                                    *)

LEMMA NoHaste ==
    ASSUME Base, Hasty, haste' = 0
    PROVE  haste = 0 /\ Quiet
BY ModalsAssumption DEF Base, ModalsTypes, Hasty

LEMMA IdleKnows ==
    ASSUME NEW t \in Tasks, task[t] = Idle
    PROVE  Knows(t) /\ (\A a : ~Behind(t, a)) /\ task[t].pc = "idle"
BY DEF Knows, Behind, Idle, Unassigns, Granting, Closing

\* A handler that is at work is the only one; one that starts is, if none was.
LEMMA Turn ==
    ASSUME Base, OneAtWork, NEW t \in Tasks, task[t] # Idle \/ Quiet,
           NEW r, task' = [task EXCEPT ![t] = r]
    PROVE  /\ task'[t] = r /\ OneAtWork'
           /\ \A x \in Tasks : x # t =>
                /\ task[x] = Idle /\ task'[x] = Idle
                /\ Knows(x)' /\ (\A a : ~Behind(x, a) /\ ~Behind(x, a)')
                /\ task[x].pc # "un:answer" /\ task'[x].pc # "un:answer"
<1>1. \A x \in Tasks : task'[x] = IF x = t THEN r ELSE task[x]
  BY DEF Base, ModalsTypes
<1>2. \A x \in Tasks : x # t => task[x] = Idle /\ task'[x] = Idle
  BY <1>1 DEF OneAtWork, Quiet
<1>3. OneAtWork'
  BY <1>2 DEF OneAtWork
<1>4. ASSUME NEW x \in Tasks, x # t
      PROVE  /\ Knows(x)' /\ (\A a : ~Behind(x, a) /\ ~Behind(x, a)')
             /\ task[x].pc # "un:answer" /\ task'[x].pc # "un:answer"
  BY <1>2, <1>4 DEF Knows, Behind, Idle, Unassigns, Granting, Closing
<1> QED  BY <1>1, <1>2, <1>3, <1>4

\* What is left to show for the handler whose turn it is.
LEMMA SoloFromTurn ==
    ASSUME Base, Solo, NEW t \in Tasks, task[t] # Idle \/ Quiet,
           NEW r, task' = [task EXCEPT ![t] = r],
           mode' = None, SaysAsset', Knows(t)',
           \A a \in Assets : ~Behind(t, a)' => row'[a] = Cell(a)',
           unassign'.shown /\ r.pc # "un:answer" =>
             Offered' \subseteq {p \in open' : p[1] = unassign'.says}
    PROVE  Solo'
<1>1. OneAtWork
  BY DEF Solo
<1>2. /\ task'[t] = r /\ OneAtWork'
      /\ \A x \in Tasks : x # t =>
                /\ Knows(x)' /\ (\A a : ~Behind(x, a)')
                /\ task'[x].pc # "un:answer"
  BY <1>1, Turn
<1>3. ModeAlone' /\ (\A x \in Tasks : Knows(x))'
  BY <1>2 DEF ModeAlone
<1>4. RowsFollow'
  BY <1>2 DEF RowsFollow
<1>5. OffersOpen'
  BY <1>2 DEF OffersOpen
<1> QED  BY <1>2, <1>3, <1>4, <1>5 DEF Solo

\* Before its turn: the row follows unless this handler is behind.
LEMMA SoloNow ==
    ASSUME Base, Solo, NEW t \in Tasks, task[t] # Idle \/ Quiet
    PROVE  /\ Knows(t) /\ SaysAsset
           /\ task[t] # Idle => mode = None
           /\ \A a \in Assets : ~Behind(t, a) => row[a] = Cell(a)
           /\ unassign.shown /\ task[t].pc # "un:answer" =>
                Offered \subseteq {p \in open : p[1] = unassign.says}
<1>1. \A x \in Tasks : x # t => task[x] = Idle
  BY DEF Solo, OneAtWork, Quiet
<1>2. \A x \in Tasks : x # t => (\A a : ~Behind(x, a)) /\ task[x].pc # "un:answer"
  BY <1>1, IdleKnows
<1>3. Knows(t) /\ SaysAsset /\ ModeAlone /\ RowsFollow /\ OffersOpen
  BY DEF Solo
<1>4. task[t] # Idle => mode = None
  BY <1>3 DEF ModeAlone, Quiet
<1>5. \A a \in Assets : ~Behind(t, a) => row[a] = Cell(a)
  BY <1>2, <1>3 DEF RowsFollow
<1>6. unassign.shown /\ task[t].pc # "un:answer" =>
        Offered \subseteq {p \in open : p[1] = unassign.says}
  BY <1>2, <1>3 DEF OffersOpen
<1> QED  BY <1>3, <1>4, <1>5, <1>6

LEMMA CellStays ==
    ASSUME NEW a, HoldersOf(a)' = HoldersOf(a)
    PROVE  Cell(a)' = Cell(a)
BY DEF Cell

LEMMA SoloInit == ModalsInit => Solo
<1> SUFFICES ASSUME ModalsInit PROVE Solo
  OBVIOUS
<1>1. \A t \in Tasks : task[t] = Idle
  BY DEF ModalsInit
<1>2. \A a : HoldersOf(a) = {}
  BY DEF ModalsInit, HoldersOf
<1>3. RowsFollow
  BY <1>2, AssetKinds, FS_EmptySet DEF RowsFollow, Cell, ModalsInit
<1>4. ModeAlone /\ SaysAsset /\ OffersOpen
  BY DEF ModalsInit, ModeAlone, SaysAsset, OffersOpen
<1> QED  BY <1>1, <1>3, <1>4, IdleKnows DEF Solo, OneAtWork

LEMMA StartAssignSolo ==
    ASSUME Base, Solo, NEW t \in Tasks, NEW a \in Assets, Quiet, ~assign.shown, ~unassign.shown,
           StartAssign(t, a), mode' = None, UNCHANGED <<open, row>>
    PROVE  Solo'
<1> DEFINE r == [Idle EXCEPT !.pc = "as:summary", !.asset = a]
<1>1. task' = [task EXCEPT ![t] = r] /\ unassign' = unassign
  BY DEF StartAssign, Open
<1>2. r.pc = "as:summary" /\ r.asset = a
  BY ZenonT(60), OpenedTask
<1>3. task'[t] = r
  BY <1>1 DEF Base, ModalsTypes
<1> HIDE DEF r
<1>4. Knows(t)' /\ SaysAsset'
  BY <1>1, <1>2, <1>3, SoloNow DEF Knows, Unassigns, Granting, Closing, SaysAsset
<1>5. \A b \in Assets : row'[b] = Cell(b)'
  <2>1. \A b : ~Behind(t, b)
    BY IdleKnows DEF Quiet
  <2> QED  BY <2>1, SoloNow, CellStays DEF HoldersOf
<1> QED  BY <1>1, <1>4, <1>5, SoloFromTurn

LEMMA StartUnassignSolo ==
    ASSUME Base, Solo, NEW t \in Tasks, NEW a \in Assets, Quiet, ~assign.shown, ~unassign.shown,
           StartUnassign(t, a), mode' = None, UNCHANGED <<open, row>>
    PROVE  Solo'
<1> DEFINE r == [Idle EXCEPT !.pc = "un:summary", !.asset = a]
<1>1. task' = [task EXCEPT ![t] = r]
  BY DEF StartUnassign, Open
<1>2. r.pc = "un:summary" /\ r.asset = a
  BY ZenonT(60), OpenedTask DEF Unassigns
<1>3. task'[t] = r
  BY <1>1 DEF Base, ModalsTypes
<1>4. unassign'.asset = a /\ unassign'.list = {} /\ ~unassign'.shown
  BY Unmoved DEF StartUnassign
<1> HIDE DEF r
<1>5. Knows(t)' /\ SaysAsset'
  BY <1>2, <1>3, <1>4 DEF Knows, Unassigns, Granting, Closing, SaysAsset
<1>6. \A b \in Assets : row'[b] = Cell(b)'
  <2>1. \A b : ~Behind(t, b)
    BY IdleKnows DEF Quiet
  <2> QED  BY <2>1, SoloNow, CellStays DEF HoldersOf
<1> QED  BY <1>1, <1>4, <1>5, <1>6, SoloFromTurn

\* Steps that move no handler.
LEMMA QuietSolo ==
    ASSUME Base, Solo, UNCHANGED <<open, row, task>>, ModeAlone', SaysAsset',
           Quiet \/ UNCHANGED <<unassign.says, unassign.asset, unassign.hidden, unassign.list, assign.sel>>,
           unassign'.shown =>
             /\ unassign.shown /\ unassign'.says = unassign.says
             /\ Offered' \subseteq Offered
    PROVE  Solo'
<1>1. OneAtWork' /\ RowsFollow'
  BY DEF Solo, OneAtWork, RowsFollow, Behind, Cell, HoldersOf
<1>2. \A t \in Tasks : Knows(t)'
  <2>1. CASE Quiet
    BY <2>1 DEF Quiet, Knows, Idle, Unassigns, Granting, Closing
  <2>2. CASE UNCHANGED <<unassign.says, unassign.asset, unassign.hidden, unassign.list, assign.sel>>
    BY <2>2 DEF Solo, Knows, HoldersOf
  <2> QED  BY <2>1, <2>2
<1>3. OffersOpen'
  BY DEF Solo, OffersOpen
<1> QED  BY <1>1, <1>2, <1>3 DEF Solo

LEMMA ClickRowSolo ==
    ASSUME Base, Solo, NEW t \in Tasks, NEW a \in Assets, ClickRow(t, a), haste' = 0
    PROVE  Solo'
<1>1. Quiet /\ ~assign.shown /\ ~unassign.shown /\ mode = None /\ UNCHANGED <<open, row>>
  BY NoHaste DEF ClickRow
<1>2. CASE StartAssign(t, a) /\ UNCHANGED mode
  BY <1>1, <1>2, StartAssignSolo
<1>3. CASE StartUnassign(t, a) /\ UNCHANGED mode
  BY <1>1, <1>3, StartUnassignSolo
<1>4. CASE UNCHANGED <<assign, picker, unassign, task>>
  <2>1. ModeAlone' /\ SaysAsset'
    BY <1>1, <1>4 DEF ModeAlone, SaysAsset, Quiet
  <2> QED  BY <1>1, <1>4, <2>1, QuietSolo
<1> QED  BY <1>2, <1>3, <1>4 DEF ClickRow

LEMMA ChooseModeSolo ==
    ASSUME Base, Solo, NEW t \in Tasks, ChooseMode(t), haste' = 0
    PROVE  Solo'
<1>1. Quiet /\ mode # None /\ mode' = None /\ UNCHANGED <<open, row>>
  BY NoHaste DEF ChooseMode
<1>2. ~assign.shown /\ ~unassign.shown /\ mode \in Assets
  BY <1>1, AssetKinds, Unmoved DEF Solo, ModeAlone
<1>3. CASE StartAssign(t, mode)
  BY <1>1, <1>2, <1>3, StartAssignSolo
<1>4. CASE StartUnassign(t, mode)
  BY <1>1, <1>2, <1>4, StartUnassignSolo
<1>5. CASE UNCHANGED <<assign, picker, unassign, task>>
  <2>1. ModeAlone' /\ SaysAsset'
    BY <1>1, <1>2, <1>5 DEF ModeAlone, SaysAsset
  <2> QED  BY <1>1, <1>2, <1>5, <2>1, QuietSolo
<1> QED  BY <1>3, <1>4, <1>5 DEF ChooseMode

LEMMA ControlSolo ==
    ASSUME Base, Solo, ControlStep, haste' = 0
    PROVE  Solo'
<1>0. UNCHANGED <<open, row, mode, task>>
  BY DEF ControlStep, PickerAnswered, SearchUsers, PickUser, ChooseFile, CloseAssign, PickSeat, CloseUnassign
<1>1. assign'.shown => assign.shown
  BY Unmoved DEF ControlStep, PickerAnswered, SearchUsers, PickUser, ChooseFile, CloseAssign, PickSeat, CloseUnassign
<1>2. /\ unassign'.shown => unassign.shown
      /\ unassign'.says = unassign.says /\ unassign'.asset = unassign.asset
      /\ unassign'.list = unassign.list
      /\ unassign'.hidden = unassign.hidden \/ unassign'.hidden \in unassign.list
  BY Unmoved DEF ControlStep, PickerAnswered, SearchUsers, PickUser, ChooseFile, CloseAssign, PickSeat, CloseUnassign
<1>3. ModeAlone' /\ SaysAsset'
  BY <1>0, <1>1, <1>2 DEF Solo, ModeAlone, SaysAsset, Quiet
<1>4. Quiet \/ UNCHANGED <<unassign.says, unassign.asset, unassign.hidden, unassign.list, assign.sel>>
  <2>1. CASE Hasty
    BY <2>1, NoHaste
  <2>2. CASE ~Hasty
    <3>1. (\E list \in SUBSET Users : PickerAnswered(list)) \/ CloseAssign \/ CloseUnassign
      BY <2>2 DEF ControlStep, SearchUsers, PickUser, ChooseFile, PickSeat
    <3> QED  BY <3>1, Unmoved DEF PickerAnswered, CloseAssign, CloseUnassign
  <2> QED  BY <2>1, <2>2
<1>5. Offered' \subseteq Offered
  BY <1>2 DEF Offered
<1> QED  BY <1>0, <1>2, <1>3, <1>4, <1>5, QuietSolo

\* A handler that ends: nothing is behind, and the dialog offers what is open.
LEMMA SoloAtEnd ==
    ASSUME Base, Solo, NEW t \in Tasks, task[t] # Idle, task' = End(t), UNCHANGED mode, SaysAsset',
           \A a \in Assets : row'[a] = Cell(a)',
           unassign'.shown => Offered' \subseteq {p \in open' : p[1] = unassign'.says}
    PROVE  Solo'
<1>1. task' = [task EXCEPT ![t] = Idle] /\ mode' = None
  BY SoloNow DEF End
<1>2. task'[t] = Idle
  BY <1>1 DEF Base, ModalsTypes
<1>3. Knows(t)'
  BY <1>2 DEF Knows, Idle, Unassigns, Granting, Closing
<1> QED  BY <1>1, <1>3, SoloFromTurn

\* The rows, while the database and they stay as they are.
LEMMA RowsStay ==
    ASSUME Base, Solo, NEW t \in Tasks, task[t] # Idle \/ Quiet, UNCHANGED <<open, row>>,
           task[t].pc \notin {"as:answer", "un:answer", "as:upload"}
    PROVE  \A a \in Assets : row'[a] = Cell(a)'
<1>1. \A a : ~Behind(t, a)
  BY DEF Behind
<1> QED  BY <1>1, SoloNow, CellStays DEF HoldersOf

LEMMA Working ==
    ASSUME NEW t, task[t].pc # "idle"
    PROVE  task[t] # Idle
BY DEF Idle

LEMMA AssignOpenedSolo ==
    ASSUME Base, Solo, NEW t \in Tasks, AssignOpened(t)
    PROVE  Solo'
<1>1. task[t].pc = "as:summary" /\ task[t] # Idle
  BY Working DEF AssignOpened
<1>2. UNCHANGED <<open, row, mode, unassign>> /\ task' = End(t)
  BY DEF AssignOpened
<1>3. \A a \in Assets : row'[a] = Cell(a)'
  BY <1>1, <1>2, RowsStay
<1>4. SaysAsset'
  BY <1>2 DEF SaysAsset, Solo
<1>5. unassign'.shown => Offered' \subseteq {p \in open' : p[1] = unassign'.says}
  BY <1>1, <1>2, SoloNow DEF Offered
<1> QED  BY <1>1, <1>2, <1>3, <1>4, <1>5, SoloAtEnd

LEMMA UnassignNamedSolo ==
    ASSUME Base, Solo, NEW t \in Tasks, UnassignNamed(t)
    PROVE  Solo'
<1> DEFINE a == task[t].asset
<1>1. task[t].pc = "un:summary" /\ task[t] # Idle /\ a \in Assets
  BY Working DEF UnassignNamed, Base, ModalsTypes, TaskOK
<1>2. UNCHANGED <<open, row, mode, assign>> /\ mode' = None
  BY <1>1, SoloNow DEF UnassignNamed
<1>3. unassign.asset = a /\ unassign.list = {}
  BY <1>1, SoloNow DEF Knows, Unassigns
<1>4. /\ unassign'.says = a /\ unassign'.asset = a /\ unassign'.hidden = None /\ unassign'.list = {}
  <2>1. PICK l \in {{}, unassign.list} :
          unassign' = [unassign EXCEPT !.says = a, !.hidden = None, !.list = l]
    BY Unmoved DEF UnassignNamed
  <2> HIDE DEF a
  <2> QED  BY <1>3, <2>1, Unmoved
<1>5. PICK pc \in {"un:list", "un:resolve"} : task' = Open(t, pc, a)
  BY DEF UnassignNamed
<1> DEFINE r == [Idle EXCEPT !.pc = pc, !.asset = a]
<1>6. task' = [task EXCEPT ![t] = r]
  BY <1>5 DEF Open
<1>7. r.pc = pc /\ r.asset = a
  BY <1>1, OpenedTask DEF Unassigns
<1> HIDE DEF r
<1>8. task'[t] = r
  BY <1>6 DEF Base, ModalsTypes
<1>9. Knows(t)' /\ SaysAsset'
  BY <1>4, <1>5, <1>7, <1>8 DEF Knows, Granting, SaysAsset
<1>10. \A b \in Assets : row'[b] = Cell(b)'
  BY <1>1, <1>2, RowsStay
<1>11. Offered' = {}
  BY <1>4 DEF Offered
<1> HIDE DEF a
<1> QED  BY <1>1, <1>2, <1>6, <1>9, <1>10, <1>11, SoloFromTurn

LEMMA UnassignResolvedSolo ==
    ASSUME Base, Solo, NEW t \in Tasks, NEW found \in BOOLEAN, UnassignResolved(t, found)
    PROVE  Solo'
<1> DEFINE a == task[t].asset
           ps == {p \in open : found /\ p[1] = a}
           h == IF ps = {} THEN None ELSE CHOOSE p \in ps : TRUE
<1>1. task[t].pc = "un:resolve" /\ task[t] # Idle
  BY Working DEF UnassignResolved
<1>2. UNCHANGED <<open, row, mode>> /\ task' = End(t)
  BY DEF UnassignResolved
<1>3. unassign.asset = a /\ unassign.says = a /\ unassign.list = {}
  BY <1>1, SoloNow DEF Knows, Unassigns
<1>4. h = None \/ h \in {p \in open : p[1] = a}
  OBVIOUS
<1>5. unassign' = [unassign EXCEPT !.shown = TRUE, !.hidden = h]
  BY DEF UnassignResolved
<1> HIDE DEF h
<1>6. unassign'.asset = a /\ unassign'.says = a /\ unassign'.list = {} /\ unassign'.hidden = h
  BY <1>3, <1>5, Unmoved
<1>7. Offered' \subseteq {p \in open' : p[1] = unassign'.says}
  BY <1>2, <1>4, <1>6 DEF Offered
<1>8. SaysAsset'
  BY <1>6 DEF SaysAsset
<1>9. \A b \in Assets : row'[b] = Cell(b)'
  BY <1>1, <1>2, RowsStay
<1> QED  BY <1>1, <1>2, <1>7, <1>8, <1>9, SoloAtEnd

LEMMA UnassignListedSolo ==
    ASSUME Base, Solo, NEW t \in Tasks, NEW found \in BOOLEAN, UnassignListed(t, found)
    PROVE  Solo'
<1> DEFINE a == task[t].asset
           l == unassign.list \cup {p \in open : found /\ p[1] = a}
<1>1. task[t].pc = "un:list" /\ task[t] # Idle
  BY Working DEF UnassignListed
<1>2. UNCHANGED <<open, row, mode>> /\ task' = End(t)
  BY DEF UnassignListed
<1>3. unassign.asset = a /\ unassign.says = a /\ unassign.list = {} /\ unassign.hidden = None
  BY <1>1, SoloNow DEF Knows, Unassigns
<1>4. l \subseteq {p \in open : p[1] = a}
  BY <1>3
<1>5. unassign' = [unassign EXCEPT !.shown = TRUE, !.list = l]
  BY Unmoved DEF UnassignListed
<1> HIDE DEF l
<1>6. unassign'.asset = a /\ unassign'.says = a /\ unassign'.list = l /\ unassign'.hidden = None
  BY <1>3, <1>5, Unmoved
<1>7. Offered' \subseteq {p \in open' : p[1] = unassign'.says}
  BY <1>2, <1>4, <1>6 DEF Offered
<1>8. SaysAsset'
  BY <1>6 DEF SaysAsset
<1>9. \A b \in Assets : row'[b] = Cell(b)'
  BY <1>1, <1>2, RowsStay
<1> QED  BY <1>1, <1>2, <1>7, <1>8, <1>9, SoloAtEnd

LEMMA SubmitAssignSolo ==
    ASSUME Base, Solo, NEW t \in Tasks, SubmitAssign(t), haste' = 0
    PROVE  Solo'
<1> DEFINE r == [Idle EXCEPT !.pc = "as:post", !.asset = assign.asset, !.user = assign.user]
<1>1. Quiet /\ assign.shown /\ task' = [task EXCEPT ![t] = r]
      /\ UNCHANGED <<open, row, mode, assign, unassign>>
  BY NoHaste DEF SubmitAssign
<1>2. r.pc = "as:post" /\ r.user = assign.user
  BY IdleTask DEF Task
<1> HIDE DEF r
<1>3. task'[t] = r /\ task[t] = Idle
  BY <1>1 DEF Base, ModalsTypes, Quiet
<1>4. mode' = None
  BY <1>1 DEF Solo, ModeAlone
<1>5. Knows(t)' /\ SaysAsset'
  <2>1. assign.sel = assign.user
    BY Unmoved DEF Agreed
  <2> QED  BY <1>1, <1>2, <1>3, <2>1, SoloNow DEF Knows, Unassigns, Closing, SaysAsset
<1>6. \A b \in Assets : row'[b] = Cell(b)'
  BY <1>1, <1>3, RowsStay, IdleTask
<1>7. unassign'.shown => Offered' \subseteq {p \in open' : p[1] = unassign'.says}
  BY <1>1, <1>3, SoloNow, IdleTask DEF Offered
<1> QED  BY <1>1, <1>4, <1>5, <1>6, <1>7, SoloFromTurn

\* The request is about the assignment offered, of the asset named.
LEMMA SubmitUnassignSolo ==
    ASSUME Base, Solo, NEW t \in Tasks, SubmitUnassign(t), haste' = 0
    PROVE  Solo'
<1> DEFINE r == [Idle EXCEPT !.pc = "un:post", !.asset = unassign.hidden[1], !.user = unassign.hidden[2]]
<1>1. Quiet /\ unassign.shown /\ unassign.hidden # None /\ task' = [task EXCEPT ![t] = r]
      /\ UNCHANGED <<open, row, mode, assign, unassign>>
  BY NoHaste DEF SubmitUnassign
<1>2. r.pc = "un:post" /\ r.asset = unassign.hidden[1]
  BY IdleTask DEF Task
<1> HIDE DEF r
<1>3. task'[t] = r /\ task[t] = Idle
  BY <1>1 DEF Base, ModalsTypes, Quiet
<1>4. mode' = None
  BY <1>1 DEF Solo, ModeAlone
<1>5. unassign'.shown => Offered' \subseteq {p \in open' : p[1] = unassign'.says}
  BY <1>1, <1>3, SoloNow, IdleTask DEF Offered
<1>6. unassign.hidden[1] = unassign.asset
  <2>1. unassign.hidden \in Offered
    BY <1>1 DEF Offered
  <2>2. unassign.hidden \in {p \in open : p[1] = unassign.says}
    BY <1>1, <1>3, <2>1, SoloNow, IdleTask
  <2> QED  BY <1>1, <2>2, SoloNow DEF SaysAsset
<1>7. Knows(t)' /\ SaysAsset'
  BY <1>1, <1>2, <1>3, <1>6, SoloNow DEF Knows, Granting, SaysAsset
<1>8. \A b \in Assets : row'[b] = Cell(b)'
  BY <1>1, <1>3, RowsStay, IdleTask
<1> QED  BY <1>1, <1>4, <1>5, <1>7, <1>8, SoloFromTurn

LEMMA ServerAssignsSolo ==
    ASSUME Base, Solo, NEW t \in Tasks, ServerAssigns(t)
    PROVE  Solo'
<1>0. PICK a \in Assets, u \in Users, used \in Nat :
        a = task[t].asset /\ u = task[t].user /\ used = Cardinality(HoldersOf(a)) + 1
  BY HoldersFinite DEF ServerAssigns, Base, ModalsTypes, TaskOK, Granting
<1> DEFINE r == [task[t] EXCEPT !.pc = "as:answer", !.used = used]
<1>1. task[t].pc = "as:post" /\ task[t] # Idle /\ task[t] \in Task
  BY Working DEF ServerAssigns, Base, ModalsTypes
<1>2. UNCHANGED <<row, mode, assign, unassign>> /\ mode = None
  BY <1>1, SoloNow DEF ServerAssigns
<1>3. assign.sel = u
  BY <1>0, <1>1, SoloNow DEF Knows, Granting
<1>4. SaysAsset'
  BY <1>2 DEF Solo, SaysAsset
<1>5. \A b \in Assets : row[b] = Cell(b)
  BY <1>1, SoloNow DEF Behind
<1>6. CASE Assignable(a, u)
  <2>1. open' = open \cup {<<a, u>>} /\ task' = [task EXCEPT ![t] = r]
    BY <1>0, <1>6, Unmoved, AssetKinds DEF ServerAssigns, Assignable, Seated
  <2>2. <<a, u>> \notin open
    BY <1>6, AssetKinds DEF Assignable, HoldersOf
  <2>3. used \in 0..Seats
    BY <1>0, <1>6, UsedInSeats, ModalsAssumption
  <2>4. r.pc = "as:answer" /\ r.asset = a /\ r.user = u /\ r.used = used
    <3>1. task[t] \in Task /\ "as:answer" \in {"as:answer", "as:seated"}
      BY <1>1
    <3>2. r.pc = "as:answer" /\ r.asset = task[t].asset /\ r.user = task[t].user /\ r.used = used
      BY <2>3, <3>1, GrantedTask
    <3> QED  BY <1>0, <3>2
  <2>5. /\ Cardinality(HoldersOf(a)') = used
        /\ \A b : b # a => HoldersOf(b)' = HoldersOf(b)
    BY <1>0, <2>1, <2>2, HolderAdded
  <2>6. task'[t] = r
    BY <2>1 DEF Base, ModalsTypes
  <2> HIDE DEF r
  <2>7. Knows(t)'
    BY <1>2, <1>3, <2>1, <2>4, <2>5, <2>6 DEF Knows, Unassigns, Closing
  <2>8. \A b \in Assets : ~Behind(t, b)' => row'[b] = Cell(b)'
    <3> SUFFICES ASSUME NEW b \in Assets, ~Behind(t, b)'  PROVE row'[b] = Cell(b)'
      OBVIOUS
    <3>1. b # a
      BY <2>4, <2>6 DEF Behind
    <3> QED  BY <1>2, <1>5, <2>5, <3>1, CellStays
  <2>9. unassign'.shown => Offered' \subseteq {p \in open' : p[1] = unassign'.says}
    <3>1. unassign.shown => Offered \subseteq {p \in open : p[1] = unassign.says}
      BY <1>1, SoloNow
    <3>2. open \subseteq open'
      BY <2>1
    <3>3. Offered' = Offered /\ unassign' = unassign
      BY <1>2 DEF Offered
    <3> QED  BY <3>1, <3>2, <3>3
  <2> QED  BY <1>1, <1>2, <1>4, <2>1, <2>7, <2>8, <2>9, SoloFromTurn
<1>7. CASE ~Assignable(a, u) /\ Seated(a, u)
  <2> DEFINE n == Cardinality(HoldersOf(a))
             q == [task[t] EXCEPT !.pc = "as:seated", !.used = n]
  <2>1. open' = open /\ task' = [task EXCEPT ![t] = q] /\ a \in Software
    BY <1>0, <1>7, Unmoved DEF ServerAssigns, Seated
  <2>2. q.pc = "as:seated" /\ q.asset = a /\ q.user = u /\ q.used = n
    <3>1. n \in 0..Seats
      BY <1>7, HoldersFinite, ModalsAssumption DEF Seated
    <3>2. task[t] \in Task /\ "as:seated" \in {"as:answer", "as:seated"}
      BY <1>1
    <3> HIDE DEF n
    <3>3. q.pc = "as:seated" /\ q.asset = task[t].asset /\ q.user = task[t].user /\ q.used = n
      BY <3>1, <3>2, GrantedTask
    <3> QED  BY <1>0, <3>3
  <2>3. task'[t] = q
    BY <2>1 DEF Base, ModalsTypes
  <2>4. HoldersOf(a)' = HoldersOf(a)
    BY <2>1 DEF HoldersOf
  <2> HIDE DEF q
  <2>5. Knows(t)'
    BY <1>2, <1>3, <2>1, <2>2, <2>3, <2>4 DEF Knows, Unassigns, Closing
  <2>6. \A b \in Assets : row'[b] = Cell(b)'
    BY <1>2, <1>5, <2>1, CellStays DEF HoldersOf
  <2>7. unassign'.shown => Offered' \subseteq {p \in open' : p[1] = unassign'.says}
    BY <1>1, <1>2, <2>1, SoloNow DEF Offered
  <2> QED  BY <1>1, <1>2, <1>4, <2>1, <2>5, <2>6, <2>7, SoloFromTurn
<1>8. CASE ~Assignable(a, u) /\ ~Seated(a, u)
  <2>1. open' = open /\ task' = End(t)
    BY <1>0, <1>8 DEF ServerAssigns
  <2>2. \A b \in Assets : row'[b] = Cell(b)'
    BY <1>2, <1>5, <2>1, CellStays DEF HoldersOf
  <2>3. unassign'.shown => Offered' \subseteq {p \in open' : p[1] = unassign'.says}
    BY <1>1, <1>2, <2>1, SoloNow DEF Offered
  <2> QED  BY <1>1, <1>2, <1>4, <2>1, <2>2, <2>3, SoloAtEnd
<1> QED  BY <1>6, <1>7, <1>8

\* The row of a license takes the number of seats used.
LEMMA AssignAnsweredSolo ==
    ASSUME Base, Solo, NEW t \in Tasks, AssignAnswered(t)
    PROVE  Solo'
<1> DEFINE a == task[t].asset
           u == task[t].user
           r == [task[t] EXCEPT !.pc = "as:upload"]
<1>1. task[t].pc = "as:answer" /\ task[t] # Idle /\ task[t] \in Task /\ a \in Assets
  BY Working DEF AssignAnswered, Base, ModalsTypes, TaskOK
<1>2. UNCHANGED <<open, mode, assign, unassign>> /\ mode = None
      /\ task' = [task EXCEPT ![t] = r]
  BY <1>1, SoloNow, Unmoved DEF AssignAnswered
<1>3. assign.sel = u /\ <<a, u>> \in open
      /\ (a \in Software => task[t].used = Cardinality(HoldersOf(a)))
  BY <1>1, SoloNow DEF Knows, Granting
<1>4. r.pc = "as:upload" /\ r.asset = a /\ r.user = u
  BY <1>1 DEF Task
<1>5. task'[t] = r
  BY <1>2 DEF Base, ModalsTypes
<1> HIDE DEF r
<1>6. Knows(t)' /\ SaysAsset'
  <2>1. SaysAsset'
    BY <1>2 DEF Solo, SaysAsset
  <2> QED  BY <1>2, <1>3, <1>4, <1>5, <2>1 DEF Knows, Unassigns, Closing
<1>7. \A b \in Assets : ~Behind(t, b)' => row'[b] = Cell(b)'
  <2> SUFFICES ASSUME NEW b \in Assets, ~Behind(t, b)'  PROVE row'[b] = Cell(b)'
    OBVIOUS
  <2>1. Cell(b)' = Cell(b)
    BY <1>2, CellStays DEF HoldersOf
  <2>2. CASE b = a
    <3>1. a \in Software
      BY <1>1, <1>4, <1>5, <2>2, AssetKinds DEF Behind
    <3>2. row'[a] = task[t].used
      BY <1>1, <3>1 DEF AssignAnswered, Base, ModalsTypes
    <3> QED  BY <1>3, <2>1, <2>2, <3>1, <3>2 DEF Cell
  <2>3. CASE b # a
    <3>1. row[b] = Cell(b)
      BY <2>3, SoloNow, <1>1 DEF Behind
    <3>2. row'[b] = row[b]
      BY <2>3 DEF AssignAnswered, Base, ModalsTypes
    <3> QED  BY <2>1, <3>1, <3>2
  <2> QED  BY <2>2, <2>3
<1>8. unassign'.shown => Offered' \subseteq {p \in open' : p[1] = unassign'.says}
  BY <1>1, <1>2, SoloNow DEF Offered
<1> QED  BY <1>1, <1>2, <1>6, <1>7, <1>8, SoloFromTurn

\* The row of a license takes the number of seats it has shown before.
LEMMA SeatKeptSolo ==
    ASSUME Base, Solo, NEW t \in Tasks, SeatKept(t)
    PROVE  Solo'
<1> DEFINE a == task[t].asset
<1>1. task[t].pc = "as:seated" /\ task[t] # Idle /\ a \in Assets
  BY Working DEF SeatKept, Base, ModalsTypes, TaskOK
<1>2. UNCHANGED <<open, mode, unassign>> /\ task' = End(t)
  BY DEF SeatKept
<1>3. a \in Software /\ task[t].used = Cardinality(HoldersOf(a))
  BY <1>1, SoloNow DEF Knows
<1>4. \A b \in Assets : row'[b] = Cell(b)'
  <2> SUFFICES ASSUME NEW b \in Assets  PROVE row'[b] = Cell(b)'
    OBVIOUS
  <2>1. Cell(b)' = Cell(b)
    BY <1>2, CellStays DEF HoldersOf
  <2>2. CASE b = a
    <3>1. row'[a] = task[t].used
      BY <1>1 DEF SeatKept, Base, ModalsTypes
    <3> QED  BY <1>3, <2>1, <2>2, <3>1 DEF Cell
  <2>3. CASE b # a
    <3>1. row[b] = Cell(b) /\ row'[b] = row[b]
      BY <1>1, <2>3, SoloNow DEF Behind, SeatKept, Base, ModalsTypes
    <3> QED  BY <2>1, <3>1
  <2> QED  BY <2>2, <2>3
<1>5. SaysAsset'
  BY <1>2 DEF Solo, SaysAsset
<1>6. unassign'.shown => Offered' \subseteq {p \in open' : p[1] = unassign'.says}
  BY <1>1, <1>2, SoloNow DEF Offered
<1> QED  BY <1>1, <1>2, <1>4, <1>5, <1>6, SoloAtEnd

\* The row of a device takes the name of its holder.
LEMMA AgreementSentSolo ==
    ASSUME Base, Solo, NEW t \in Tasks, AgreementSent(t)
    PROVE  Solo'
<1> DEFINE a == task[t].asset
           u == task[t].user
<1>1. task[t].pc = "as:upload" /\ task[t] # Idle /\ a \in Assets /\ u \in Users
  BY Working DEF AgreementSent, Base, ModalsTypes, TaskOK, Granting
<1>2. UNCHANGED <<open, mode, unassign>> /\ task' = End(t)
  BY DEF AgreementSent
<1>3. assign.sel = u /\ <<a, u>> \in open
  BY <1>1, SoloNow DEF Knows, Granting
<1>4. NameSent(assign.sel) = u
  BY <1>1, <1>3, ModalsAssumption DEF NameSent
<1>5. \A b \in Assets : row'[b] = Cell(b)'
  <2> SUFFICES ASSUME NEW b \in Assets  PROVE row'[b] = Cell(b)'
    OBVIOUS
  <2>1. Cell(b)' = Cell(b)
    BY <1>2, CellStays DEF HoldersOf
  <2>2. CASE b = a /\ a \in Hardware
    <3>1. row'[a] = u
      BY <1>1, <1>4, <2>2 DEF AgreementSent, Base, ModalsTypes
    <3>2. HoldersOf(a) = {u}
      BY <1>1, <1>3, <2>2 DEF Base, HeldOnce, HoldersOf
    <3>3. Cell(a) = u
      BY <1>1, <2>2, <3>2, AssetKinds DEF Cell
    <3> QED  BY <2>1, <2>2, <3>1, <3>3
  <2>3. CASE ~(b = a /\ a \in Hardware)
    <3>1. row[b] = Cell(b)
      BY <1>1, <2>3, SoloNow DEF Behind
    <3>2. row'[b] = row[b]
      BY <2>3 DEF AgreementSent, Base, ModalsTypes
    <3> QED  BY <2>1, <3>1, <3>2
  <2> QED  BY <2>2, <2>3
<1>6. SaysAsset'
  BY <1>2 DEF Solo, SaysAsset
<1>7. unassign'.shown => Offered' \subseteq {p \in open' : p[1] = unassign'.says}
  BY <1>1, <1>2, SoloNow DEF Offered
<1> QED  BY <1>1, <1>2, <1>5, <1>6, <1>7, SoloAtEnd

LEMMA ServerClosesSolo ==
    ASSUME Base, Solo, NEW t \in Tasks, ServerCloses(t)
    PROVE  Solo'
<1>0. PICK a \in Assets, u \in Users : a = task[t].asset /\ u = task[t].user
  BY DEF ServerCloses, Base, ModalsTypes, TaskOK, Closing
<1> DEFINE r == [task[t] EXCEPT !.pc = "un:answer"]
<1>1. task[t].pc = "un:post" /\ task[t] # Idle /\ task[t] \in Task
  BY Working DEF ServerCloses, Base, ModalsTypes
<1>2. UNCHANGED <<row, mode, assign, unassign>> /\ mode = None
  BY <1>1, SoloNow DEF ServerCloses
<1>3. unassign.asset = a
  BY <1>0, <1>1, SoloNow DEF Knows, Unassigns, Closing
<1>4. SaysAsset'
  BY <1>2 DEF Solo, SaysAsset
<1>5. \A b \in Assets : row[b] = Cell(b)
  BY <1>1, SoloNow DEF Behind
<1>6. CASE <<a, u>> \in open
  <2>1. open' = open \ {<<a, u>>} /\ task' = [task EXCEPT ![t] = r]
    BY <1>0, <1>6, Unmoved DEF ServerCloses
  <2>2. /\ HoldersOf(a)' = HoldersOf(a) \ {u}
        /\ Cardinality(HoldersOf(a)') = Cardinality(HoldersOf(a)) - 1
        /\ \A b : b # a => HoldersOf(b)' = HoldersOf(b)
    BY <1>6, <2>1, HolderRemoved
  <2>3. r.pc = "un:answer" /\ r.asset = a
    BY <1>0, <1>1 DEF Task
  <2>4. task'[t] = r
    BY <2>1 DEF Base, ModalsTypes
  <2> HIDE DEF r
  <2>5. IF a \in Software THEN row[a] = Cardinality(HoldersOf(a)') + 1 ELSE HoldersOf(a)' = {}
    <3>1. CASE a \in Software
      <4>1. row[a] = Cardinality(HoldersOf(a))
        BY <1>5, <3>1 DEF Cell
      <4> QED  BY <2>2, <3>1, <4>1, HoldersFinite
    <3>2. CASE a \notin Software
      <4>1. HoldersOf(a) = {u}
        BY <1>6, <3>2, AssetKinds DEF Base, HeldOnce, HoldersOf
      <4> QED  BY <2>2, <3>2, <4>1
    <3> QED  BY <3>1, <3>2
  <2>6. Knows(t)'
    BY <1>2, <1>3, <2>3, <2>4, <2>5 DEF Knows, Granting
  <2>7. \A b \in Assets : ~Behind(t, b)' => row'[b] = Cell(b)'
    <3> SUFFICES ASSUME NEW b \in Assets, ~Behind(t, b)'  PROVE row'[b] = Cell(b)'
      OBVIOUS
    <3>1. b # a
      BY <2>3, <2>4 DEF Behind
    <3> QED  BY <1>2, <1>5, <2>2, <3>1, CellStays
  <2> QED  BY <1>1, <1>2, <1>4, <2>1, <2>3, <2>6, <2>7, SoloFromTurn
<1>7. CASE <<a, u>> \notin open
  <2>1. open' = open /\ task' = End(t)
    BY <1>0, <1>7 DEF ServerCloses
  <2>2. \A b \in Assets : row'[b] = Cell(b)'
    BY <1>2, <1>5, <2>1, CellStays DEF HoldersOf
  <2>3. unassign'.shown => Offered' \subseteq {p \in open' : p[1] = unassign'.says}
    BY <1>1, <1>2, <2>1, SoloNow DEF Offered
  <2> QED  BY <1>1, <1>2, <1>4, <2>1, <2>2, <2>3, SoloAtEnd
<1> QED  BY <1>6, <1>7

\* The row the answer is about is the one whose assignment was closed.
LEMMA UnassignAnsweredSolo ==
    ASSUME Base, Solo, NEW t \in Tasks, UnassignAnswered(t)
    PROVE  Solo'
<1> DEFINE a == task[t].asset
<1>1. task[t].pc = "un:answer" /\ task[t] # Idle /\ a \in Assets
  BY Working DEF UnassignAnswered, Base, ModalsTypes, TaskOK
<1>2. UNCHANGED <<open, mode>> /\ task' = End(t) /\ ~unassign'.shown
  BY Unmoved DEF UnassignAnswered
<1>3. unassign.asset = a
      /\ IF a \in Software THEN row[a] = Cardinality(HoldersOf(a)) + 1 ELSE HoldersOf(a) = {}
  BY <1>1, SoloNow DEF Knows, Unassigns, Closing
<1>4. row' = [row EXCEPT ![a] = IF a \in Software THEN SeatsAfterUnassign(row[a]) ELSE None]
  BY <1>3 DEF UnassignAnswered
<1>5. \A b \in Assets : row'[b] = Cell(b)'
  <2> SUFFICES ASSUME NEW b \in Assets  PROVE row'[b] = Cell(b)'
    OBVIOUS
  <2>1. Cell(b)' = Cell(b)
    BY <1>2, CellStays DEF HoldersOf
  <2>2. CASE b = a
    <3>1. row'[a] = IF a \in Software THEN SeatsAfterUnassign(row[a]) ELSE None
      BY <1>1, <1>4 DEF Base, ModalsTypes
    <3>2. CASE a \in Software
      <4>1. row[a] = Cardinality(HoldersOf(a)) + 1 /\ Cardinality(HoldersOf(a)) \in Nat
        BY <1>3, <3>2, HoldersFinite
      <4>2. SeatsAfterUnassign(row[a]) = Cardinality(HoldersOf(a))
        BY <4>1 DEF SeatsAfterUnassign
      <4> QED  BY <2>1, <2>2, <3>1, <3>2, <4>2 DEF Cell
    <3>3. CASE a \notin Software
      BY <1>3, <2>1, <2>2, <3>1, <3>3 DEF Cell
    <3> QED  BY <3>2, <3>3
  <2>3. CASE b # a
    <3>1. row[b] = Cell(b)
      BY <2>3, SoloNow, <1>1 DEF Behind
    <3>2. row'[b] = row[b]
      BY <1>4, <2>3 DEF Base, ModalsTypes
    <3> QED  BY <2>1, <3>1, <3>2
  <2> QED  BY <2>2, <2>3
<1> QED  BY <1>1, <1>2, <1>5, SoloAtEnd DEF SaysAsset

-----------------------------------------------------------------------------
(* The theorems.                                                           *)

LEMMA SoloStep ==
    ASSUME ModalsInv, ModalsNext, haste' = 0, events' = 0
    PROVE  Solo'
<1>1. Base /\ haste \in Nat /\ events \in Nat
  BY ModalsAssumption DEF ModalsInv, Base, ModalsTypes
<1>2. events = 0 /\ ~(\E t \in Tasks : Lost(t)) /\ ~(\E p \in Pairs : OtherChanges(p))
  <2>1. \A t \in Tasks : Lost(t) => events' = events + 1
    BY DEF Lost
  <2>2. \A p \in Pairs : OtherChanges(p) => events' = events + 1
    BY SMTT(60) DEF OtherChanges
  <2>3. events' = events \/ events' = events + 1
    BY ZenonT(60) DEF ModalsNext, ClickRow, ChooseMode, SubmitAssign, SubmitUnassign, Handler, Lost,
       PickerAnswered, SearchUsers, PickUser, ChooseFile, CloseAssign, PickSeat, OtherChanges,
       CloseUnassign, AssignOpened, UnassignNamed, UnassignResolved, UnassignListed,
       ServerAssigns, AssignAnswered, AgreementSent, SeatKept, ServerCloses, UnassignAnswered
  <2> QED  BY <1>1, <2>1, <2>2, <2>3
<1>3. haste = 0
  <2>1. haste' = haste \/ Hasty
    BY ZenonT(60) DEF ModalsNext, ClickRow, ChooseMode, SubmitAssign, SubmitUnassign, Handler, Lost,
       PickerAnswered, SearchUsers, PickUser, ChooseFile, CloseAssign, PickSeat, OtherChanges,
       CloseUnassign, AssignOpened, UnassignNamed, UnassignResolved, UnassignListed,
       ServerAssigns, AssignAnswered, AgreementSent, SeatKept, ServerCloses, UnassignAnswered
  <2> QED  BY <1>1, <2>1, NoHaste
<1>4. Solo
  BY <1>2, <1>3 DEF ModalsInv
<1>5. ASSUME NEW t \in Tasks, \/ \E a \in Assets : ClickRow(t, a)
                              \/ ChooseMode(t) \/ SubmitAssign(t) \/ SubmitUnassign(t) \/ Handler(t)
      PROVE  Solo'
  BY <1>1, <1>4, <1>5, ClickRowSolo, ChooseModeSolo, SubmitAssignSolo, SubmitUnassignSolo,
     AssignOpenedSolo, UnassignNamedSolo, UnassignResolvedSolo, UnassignListedSolo,
     ServerAssignsSolo, AssignAnsweredSolo, AgreementSentSolo, SeatKeptSolo, ServerClosesSolo,
     UnassignAnsweredSolo DEF Handler
<1>6. CASE ControlStep
  BY <1>1, <1>4, <1>6, ControlSolo
<1> QED  BY <1>2, <1>5, <1>6 DEF ModalsNext, ControlStep

LEMMA ModalsInvStep == ModalsInv /\ [ModalsNext]_modalVars => ModalsInv'
<1> SUFFICES ASSUME ModalsInv, [ModalsNext]_modalVars PROVE ModalsInv'
  OBVIOUS
<1>1. CASE ModalsNext
  BY <1>1, BaseStep, SoloStep DEF ModalsInv
<1>2. CASE UNCHANGED modalVars
  <2>1. Base'
    BY <1>2, TasksStay DEF ModalsInv, Base, ModalsTypes, Agreed, HeldOnce, HoldersOf, modalVars
  <2>2. ASSUME Solo PROVE Solo'
    <3>1. UNCHANGED <<open, row, mode, assign, unassign, task>>
      BY <1>2 DEF modalVars
    <3>2. ModeAlone' /\ SaysAsset'
      BY <2>2, <3>1 DEF Solo, ModeAlone, Quiet, SaysAsset
    <3>3. Offered' = Offered
      BY <3>1 DEF Offered
    <3> QED  BY <2>2, <3>1, <3>2, <3>3, QuietSolo DEF ModalsInv
  <2> QED  BY <1>2, <2>1, <2>2 DEF ModalsInv, modalVars
<1> QED  BY <1>1, <1>2

THEOREM ModalsInvariant == ModalsSpec => []ModalsInv
<1>1. ModalsInit => ModalsInv
  BY BaseInit, SoloInit DEF ModalsInv
<1> QED  BY <1>1, ModalsInvStep, PTL DEF ModalsSpec

\* Every variable of the page and its dialogs keeps its type, in any haste: a
\* cell counts from 0 to all the seats, or says a name.
THEOREM ModalsTypeCorrect == ModalsSpec => []ModalsTypeOK
<1>1. ModalsInv => ModalsTypeOK
  BY DEF ModalsInv, Base, ModalsTypes, ModalsTypeOK, Task
<1> QED  BY <1>1, ModalsInvariant, PTL

LEMMA SoloImplies == Solo /\ Quiet => \A a \in Assets : row[a] = Cell(a)
<1> SUFFICES ASSUME Solo, Quiet, NEW a \in Assets PROVE row[a] = Cell(a)
  OBVIOUS
<1>1. \A t \in Tasks : ~Behind(t, a)
  BY IdleKnows DEF Quiet
<1> QED  BY <1>1 DEF Solo, RowsFollow

\* Patched from events and never read again, the rows of a user who waits for
\* each click say what the database holds.
THEOREM RowsSayWhatServerHolds == ModalsSpec => []RowsFollowServer
<1>1. ModalsInv => RowsFollowServer
  BY SoloImplies DEF ModalsInv, RowsFollowServer
<1> QED  BY <1>1, ModalsInvariant, PTL

\* The unassign dialog offers that user nothing of an earlier opening.
THEOREM DialogOffersOpenAssignments == ModalsSpec => []OffersOpenAssignments
<1>1. ModalsInv => OffersOpenAssignments
  <2> SUFFICES ASSUME ModalsInv, haste = 0, events = 0, Quiet, unassign.shown
               PROVE  Offered \subseteq {p \in open : p[1] = unassign.says}
    BY DEF OffersOpenAssignments, Offered
  <2>1. \A t \in Tasks : task[t].pc # "un:answer"
    BY IdleTask DEF Quiet
  <2> QED  BY <2>1 DEF ModalsInv, Solo, OffersOpen
<1> QED  BY <1>1, ModalsInvariant, PTL
==============================================================================
