--------------------------- MODULE AdminPageProofs --------------------------
(***************************************************************************)
(* The administration page for every directory, set of offices and number  *)
(* of requests: the button of the add dialog comes back; for a user who    *)
(* waits for the answers nobody is added twice and the rows are current.   *)
(***************************************************************************)
EXTENDS AdminPage, SequenceTheorems, FiniteSetTheorems, TLAPS

UserT == [st : Statuses \cup {"none"}, office : Offices]
RowT  == [id : People, st : Statuses, office : Offices \cup {Blank}]
FormT == [shown : BOOLEAN, name : People \cup {Blank, "typed"}, graph : People \cup {Blank},
          offered : SUBSET People, exists : BOOLEAN, off : BOOLEAN]
TaskT == [pc : {"idle", "aad", "check", "add", "status", "office"}, who : People \cup {Blank},
          st : Statuses, office : Offices \cup {Blank}]
EditT == [shown : BOOLEAN, id : People \cup {Blank}, was : BOOLEAN, old : Offices \cup {Blank}]
SearchT == [asked : {Blank} \cup [text : People, inactive : BOOLEAN], held : Seq(SUBSET RowT)]

Known(p) == p \in People /\ db[p].st # "none"

TypesOK ==
    /\ db \in [People -> UserT]
    /\ box \in [text : People \cup {Blank}, inactive : BOOLEAN]
    /\ table \in [rows : SUBSET RowT, prompt : Prompts]
    /\ search \in SearchT
    /\ form \in FormT /\ edit \in EditT /\ task \in [Tasks -> TaskT]
    /\ \A t \in Tasks : task[t].pc \in {"add", "office"} => task[t].office \in Offices
    /\ haste \in Nat /\ events \in Nat

\* Whoever is in the table, in an answer that is held back, in the edit dialog or
\* in a request of it, is a user of the database: nobody ever leaves it.
NobodyVanishes ==
    /\ \A r \in table.rows : Known(r.id)
    /\ \A i \in 1..Len(search.held) : \A r \in search.held[i] : Known(r.id)
    /\ edit.shown => Known(edit.id)
    /\ \A t \in Tasks : task[t].pc \in {"status", "office"} => Known(task[t].who)
    /\ \A t \in Tasks : task[t].pc # "idle" => task[t].who \in People
    /\ \A t \in Tasks : task[t].pc = "idle" => task[t] = Idle

\* With nobody hasty and nothing failed, one request is under way at a time, and
\* the button tells whether the person picked is in the system.
OneAtATime == \A t, u \in Tasks : task[t] # Idle /\ task[u] # Idle => t = u
ButtonTells ==
    /\ \A t \in Tasks : task[t].pc = "check" => task[t].who = form.graph
    /\ \A t \in Tasks : task[t].pc = "add" => db[task[t].who].st = "none"
    /\ /\ form.name = form.graph /\ form.graph # Blank
       /\ \A t \in Tasks : task[t].pc \notin {"check", "add"}
       => form.off = (db[form.graph].st # "none")

AdminIInv ==
    /\ TypesOK /\ NobodyVanishes /\ ButtonComesBack
    /\ haste = 0 /\ events = 0 => OneAtATime /\ ButtonTells

\* What the careful user may rely on.
Careful == haste = 0 /\ events = 0
CarefulOK == Careful => OneAtATime /\ ButtonTells

LEMMA IInvParts ==
    /\ AdminIInv => TypesOK /\ NobodyVanishes /\ ButtonComesBack /\ CarefulOK
    /\ TypesOK /\ NobodyVanishes /\ ButtonComesBack /\ CarefulOK => AdminIInv
    /\ AdminIInv' <=> (TypesOK /\ NobodyVanishes /\ ButtonComesBack /\ CarefulOK)'
BY DEF AdminIInv, CarefulOK, Careful

-----------------------------------------------------------------------------
(* Clicks, failures and the operators of the actions.                      *)

LEMMA HastyClick ==
    ASSUME haste \in Nat, NEW careless \in BOOLEAN, Hasty(careless)
    PROVE  /\ haste' \in Nat
           /\ haste' = 0 => haste = 0 /\ Quiet /\ ~careless
BY AdminAssumption DEF Hasty

LEMMA FailureCounts ==
    ASSUME events \in Nat, Event
    PROVE  events' \in Nat /\ events' # 0
BY AdminAssumption DEF Event

LEMMA FoundIsKnown ==
    ASSUME TypesOK, NEW asked \in [text : People, inactive : BOOLEAN]
    PROVE  Found(asked) \in SUBSET RowT /\ \A r \in Found(asked) : Known(r.id)
<1>1. StatusOf(asked.inactive) \in Statuses
  BY DEF StatusOf, Statuses
<1>2. "none" \notin Statuses
  BY DEF Statuses
<1>3. ASSUME NEW p \in People, db[p].st = StatusOf(asked.inactive)
      PROVE  Row(p) \in RowT /\ Known(Row(p).id)
  BY <1>1, <1>2, <1>3 DEF Row, RowT, Known, TypesOK, UserT
<1> QED BY <1>3 DEF Found

\* A search that starts empties the table and leaves the answers held back.
LEMMA SearchStarts ==
    ASSUME TypesOK, NEW text \in People \cup {Blank}, NEW inactive \in BOOLEAN,
           searchUsersFromServer(text, inactive)
    PROVE  /\ table' \in [rows : SUBSET RowT, prompt : Prompts] /\ search' \in SearchT
           /\ table'.rows = {} /\ search'.held = search.held
<1>1. CASE text = Blank
  <2>1. table' = [rows |-> {}, prompt |-> "enter"] /\ search' = search
    BY <1>1 DEF searchUsersFromServer
  <2> QED BY <2>1 DEF TypesOK, Prompts
<1>2. CASE text # Blank
  <2>1. /\ table' = [rows |-> {}, prompt |-> ""]
        /\ search' = [search EXCEPT !.asked = [text |-> text, inactive |-> inactive]]
    BY <1>2 DEF searchUsersFromServer
  <2>2. [text |-> text, inactive |-> inactive] \in [text : People, inactive : BOOLEAN]
    BY <1>2
  <2>3. search' \in SearchT /\ search'.held = search.held
    BY <2>1, <2>2 DEF TypesOK, SearchT
  <2> QED BY <2>1, <2>3 DEF Prompts
<1> QED BY <1>1, <1>2

LEMMA ReloadStarts ==
    ASSUME TypesOK, reloadCurrentSearch
    PROVE  /\ table' \in [rows : SUBSET RowT, prompt : Prompts] /\ search' \in SearchT
           /\ table'.rows = {} /\ search'.held = search.held
<1>1. CASE box.text = Blank
  BY <1>1 DEF reloadCurrentSearch, TypesOK, SearchT
<1>2. CASE box.text # Blank
  <2>1. box.text \in People \cup {Blank} /\ box.inactive \in BOOLEAN
    BY DEF TypesOK
  <2> QED BY <1>2, <2>1, SearchStarts DEF reloadCurrentSearch
<1> QED BY <1>1, <1>2

\* Where the dialogs and the requests stay as they are, so does what is known of them.
LEMMA SameDialogs ==
    ASSUME AdminIInv, UNCHANGED <<db, form, edit, task>>,
           haste' \in Nat, events' \in Nat, Careful' => Careful,
           box' \in [text : People \cup {Blank}, inactive : BOOLEAN],
           table' \in [rows : SUBSET RowT, prompt : Prompts], search' \in SearchT,
           \A r \in table'.rows : Known(r.id),
           \A i \in 1..Len(search'.held) : \A r \in search'.held[i] : Known(r.id)
    PROVE  AdminIInv'
<1>1. TypesOK'
  BY DEF AdminIInv, TypesOK
<1>2. NobodyVanishes'
  BY DEF AdminIInv, NobodyVanishes, Known
<1>3. ButtonComesBack'
  BY DEF AdminIInv, ButtonComesBack
<1>4. CarefulOK'
  BY IInvParts DEF CarefulOK, OneAtATime, ButtonTells
<1> QED BY <1>1, <1>2, <1>3, <1>4, IInvParts

\* One request is sent or ends, and the rest of the page is a form of its type.
LEMMA OneRequest ==
    ASSUME AdminIInv, NEW t \in Tasks, NEW X \in TaskT, task' = [task EXCEPT ![t] = X],
           X.pc = "idle" => X = Idle,
           X.pc # "idle" => X.who \in People,
           X.pc \in {"status", "office"} => Known(X.who),
           X.pc \in {"add", "office"} => X.office \in Offices,
           form' \in FormT, edit' \in EditT, edit'.shown => Known(edit'.id),
           UNCHANGED <<db, box, table, search>>, haste' \in Nat, events' \in Nat
    PROVE  /\ TypesOK' /\ NobodyVanishes'
           /\ \A u \in Tasks : task'[u] = IF u = t THEN X ELSE task[u]
<1>1. \A u \in Tasks : task'[u] = IF u = t THEN X ELSE task[u]
  BY DEF AdminIInv, TypesOK
<1>2. task' \in [Tasks -> TaskT]
  BY DEF AdminIInv, TypesOK
<1>3. TypesOK'
  BY <1>1, <1>2 DEF AdminIInv, TypesOK
<1>4. NobodyVanishes'
  BY <1>1 DEF AdminIInv, NobodyVanishes, Known
<1> QED BY <1>1, <1>3, <1>4

LEMMA IdleIsTask ==
    Idle \in TaskT /\ Idle.pc = "idle"
BY DEF Idle, TaskT, Statuses

\* In a quiet page nothing is under way.
LEMMA QuietIsIdle ==
    ASSUME AdminIInv, Quiet
    PROVE  \A t \in Tasks : task[t] = Idle /\ task[t].pc = "idle"
BY IdleIsTask DEF Quiet

LEMMA CarefulClick ==
    ASSUME AdminIInv, NEW careless \in BOOLEAN, Hasty(careless), UNCHANGED events
    PROVE  /\ haste' \in Nat /\ events' \in Nat
           /\ Careful' => /\ Careful /\ ~careless /\ OneAtATime /\ ButtonTells
                          /\ \A t \in Tasks : task[t] = Idle /\ task[t].pc = "idle"
<1>1. haste \in Nat /\ events \in Nat
  BY DEF AdminIInv, TypesOK
<1>2. haste' \in Nat /\ (haste' = 0 => haste = 0 /\ Quiet /\ ~careless)
  BY <1>1, HastyClick
<1> QED BY <1>1, <1>2, QuietIsIdle DEF Careful, AdminIInv

-----------------------------------------------------------------------------
(* The table.                                                              *)

LEMMA TableIsSafe ==
    ASSUME AdminIInv, TableNext
    PROVE  AdminIInv'
<1>1. /\ TypesOK /\ NobodyVanishes /\ haste \in Nat /\ events \in Nat
      /\ box.text \in People \cup {Blank} /\ box.inactive \in BOOLEAN
  BY DEF AdminIInv, TypesOK
<1>2. ASSUME NEW text \in People \cup {Blank}, TypeSearch(text) PROVE AdminIInv'
  <2>1. /\ box' = [box EXCEPT !.text = text]
        /\ UNCHANGED <<db, table, search, form, edit, task, haste, events>>
    BY <1>2 DEF TypeSearch
  <2>2. box' \in [text : People \cup {Blank}, inactive : BOOLEAN]
    BY <1>1, <2>1 DEF TypesOK
  <2>3. Careful' => Careful
    BY <2>1 DEF Careful
  <2>4. /\ table' \in [rows : SUBSET RowT, prompt : Prompts] /\ search' \in SearchT
        /\ \A r \in table'.rows : Known(r.id)
        /\ \A i \in 1..Len(search'.held) : \A r \in search'.held[i] : Known(r.id)
    BY <1>1, <2>1 DEF TypesOK, NobodyVanishes
  <2> QED BY <1>1, <2>1, <2>2, <2>3, <2>4, SameDialogs
<1>3. CASE PressEnter
  <2>1. /\ Hasty(FALSE) /\ searchUsersFromServer(box.text, box.inactive)
        /\ UNCHANGED <<db, box, form, edit, task, events>>
    BY <1>3 DEF PressEnter
  <2>2. /\ table' \in [rows : SUBSET RowT, prompt : Prompts] /\ search' \in SearchT
        /\ table'.rows = {} /\ search'.held = search.held
    BY <1>1, <2>1, SearchStarts
  <2>3. haste' \in Nat /\ (Careful' => Careful)
    BY <2>1, CarefulClick
  <2>4. box' \in [text : People \cup {Blank}, inactive : BOOLEAN]
    BY <1>1, <2>1 DEF TypesOK
  <2>5. \A i \in 1..Len(search'.held) : \A r \in search'.held[i] : Known(r.id)
    BY <1>1, <2>2 DEF NobodyVanishes
  <2> QED BY <1>1, <2>1, <2>2, <2>3, <2>4, <2>5, SameDialogs
<1>4. CASE ToggleInactive
  <2>1. /\ Hasty(FALSE)
        /\ table' = [rows |-> {}, prompt |-> "enter"]
        /\ box' = [text |-> Blank, inactive |-> ~box.inactive]
        /\ UNCHANGED <<db, form, edit, task, events>>
    BY <1>4 DEF ToggleInactive
  <2>2. search' \in SearchT /\ search'.held = search.held
    <3>1. CASE box.text = Blank
      BY <1>1, <1>4, <3>1 DEF ToggleInactive, TypesOK
    <3>2. CASE box.text # Blank
      <4>1. search' = [search EXCEPT !.asked = [text |-> box.text, inactive |-> ~box.inactive]]
        BY <1>4, <3>2 DEF ToggleInactive
      <4>2. [text |-> box.text, inactive |-> ~box.inactive] \in [text : People, inactive : BOOLEAN]
        BY <1>1, <3>2
      <4> QED BY <1>1, <4>1, <4>2 DEF TypesOK, SearchT
    <3> QED BY <3>1, <3>2
  <2>3. haste' \in Nat /\ (Careful' => Careful)
    BY <2>1, CarefulClick
  <2>4. /\ box' \in [text : People \cup {Blank}, inactive : BOOLEAN]
        /\ table' \in [rows : SUBSET RowT, prompt : Prompts] /\ table'.rows = {}
    BY <1>1, <2>1 DEF Prompts
  <2>5. \A i \in 1..Len(search'.held) : \A r \in search'.held[i] : Known(r.id)
    BY <1>1, <2>2 DEF NobodyVanishes
  <2> QED BY <1>1, <2>1, <2>2, <2>3, <2>4, <2>5, SameDialogs
<1>5. CASE SearchAnswered
  <2> DEFINE found == Found(search.asked)
  <2>1. /\ search.asked # Blank
        /\ search' = [asked |-> Blank, held |-> Append(search.held, found)]
        /\ UNCHANGED <<db, box, table, form, edit, task, haste, events>>
    BY <1>5 DEF SearchAnswered
  <2>2. search.asked \in [text : People, inactive : BOOLEAN] /\ search.held \in Seq(SUBSET RowT)
    BY <1>1, <2>1 DEF TypesOK, SearchT
  <2>3. found \in SUBSET RowT /\ \A r \in found : Known(r.id)
    BY <1>1, <2>2, FoundIsKnown
  <2> HIDE DEF found
  <2>4. /\ Append(search.held, found) \in Seq(SUBSET RowT)
        /\ Len(search.held) \in Nat
        /\ Len(Append(search.held, found)) = Len(search.held) + 1
        /\ \A i \in 1..Len(search.held) : Append(search.held, found)[i] = search.held[i]
        /\ Append(search.held, found)[Len(search.held) + 1] = found
    BY <2>2, <2>3, AppendProperties, LenProperties
  <2>5. search' \in SearchT
    BY <2>1, <2>4 DEF SearchT
  <2>6. \A i \in 1..Len(search'.held) : \A r \in search'.held[i] : Known(r.id)
    <3> SUFFICES ASSUME NEW i \in 1..(Len(search.held) + 1)
                 PROVE  \A r \in Append(search.held, found)[i] : Known(r.id)
      BY <2>1, <2>4
    <3>1. CASE i = Len(search.held) + 1
      BY <2>3, <2>4, <3>1
    <3>2. CASE i \in 1..Len(search.held)
      BY <1>1, <2>4, <3>2 DEF NobodyVanishes
    <3> QED BY <2>4, <3>1, <3>2
  <2>7. /\ table' \in [rows : SUBSET RowT, prompt : Prompts]
        /\ \A r \in table'.rows : Known(r.id) /\ (Careful' => Careful)
        /\ box' \in [text : People \cup {Blank}, inactive : BOOLEAN]
    BY <1>1, <2>1 DEF TypesOK, NobodyVanishes, Careful
  <2>8. (Careful' => Careful) /\ haste' \in Nat /\ events' \in Nat
    BY <1>1, <2>1 DEF Careful
  <2> QED BY <2>1, <2>5, <2>6, <2>7, <2>8, SameDialogs
<1>6. CASE SearchShown
  <2>1. /\ search.held # <<>> /\ search' = [search EXCEPT !.held = Tail(@)]
        /\ UNCHANGED <<db, box, form, edit, task, haste, events>>
    BY <1>6 DEF SearchShown
  <2>2. search \in SearchT /\ search.held \in Seq(SUBSET RowT)
    BY <1>1 DEF TypesOK, SearchT
  <2>3. /\ Head(search.held) \in SUBSET RowT /\ Tail(search.held) \in Seq(SUBSET RowT)
        /\ Len(search.held) \in Nat
        /\ Len(Tail(search.held)) = Len(search.held) - 1
        /\ \A i \in 1..Len(Tail(search.held)) : Tail(search.held)[i] = search.held[i + 1]
        /\ Head(search.held) = search.held[1]
    BY <2>1, <2>2, HeadTailProperties, LenProperties
  <2>4. search' \in SearchT /\ search'.held = Tail(search.held)
    BY <2>1, <2>2, <2>3 DEF SearchT
  <2>5. \A i \in 1..Len(search'.held) : \A r \in search'.held[i] : Known(r.id)
    <3> SUFFICES ASSUME NEW i \in 1..Len(Tail(search.held))
                 PROVE  \A r \in search.held[i + 1] : Known(r.id)
      BY <2>3, <2>4
    <3>1. i + 1 \in 1..Len(search.held)
      BY <2>3
    <3> QED BY <1>1, <3>1 DEF NobodyVanishes
  <2>6. Len(search.held) > 0
    BY <2>1, <2>2, EmptySeq
  <2>7. \A r \in Head(search.held) : Known(r.id)
    <3>1. 1 \in 1..Len(search.held)
      BY <2>3, <2>6
    <3> QED BY <1>1, <2>3, <3>1 DEF NobodyVanishes
  <2>8. table' \in [rows : SUBSET RowT, prompt : Prompts] /\ \A r \in table'.rows : Known(r.id)
    <3>1. CASE Head(search.held) = {}
      <4>1. table' = [rows |-> {}, prompt |-> "nobody"]
        BY <1>6, <3>1 DEF SearchShown
      <4> QED BY <4>1 DEF Prompts
    <3>2. CASE Head(search.held) # {}
      <4>1. table' = [table EXCEPT !.rows = Head(search.held)]
        BY <1>6, <3>2 DEF SearchShown
      <4> QED BY <1>1, <2>3, <2>7, <4>1 DEF TypesOK
    <3> QED BY <3>1, <3>2
  <2>9. /\ (Careful' => Careful) /\ haste' \in Nat /\ events' \in Nat
        /\ box' \in [text : People \cup {Blank}, inactive : BOOLEAN]
    BY <1>1, <2>1 DEF Careful, TypesOK
  <2> QED BY <2>1, <2>4, <2>5, <2>8, <2>9, SameDialogs
<1>7. CASE SearchFails
  <2>1. /\ Event /\ search' = [search EXCEPT !.asked = Blank]
        /\ UNCHANGED <<db, box, table, form, edit, task, haste>>
    BY <1>7 DEF SearchFails
  <2>2. events' \in Nat /\ events' # 0
    BY <1>1, <2>1, FailureCounts
  <2>3. search' \in SearchT /\ search'.held = search.held
    BY <1>1, <2>1 DEF TypesOK, SearchT
  <2>4. /\ table' \in [rows : SUBSET RowT, prompt : Prompts]
        /\ \A r \in table'.rows : Known(r.id)
        /\ box' \in [text : People \cup {Blank}, inactive : BOOLEAN]
    BY <1>1, <2>1 DEF TypesOK, NobodyVanishes
  <2>5. \A i \in 1..Len(search'.held) : \A r \in search'.held[i] : Known(r.id)
    BY <1>1, <2>3 DEF NobodyVanishes
  <2>6. (Careful' => Careful) /\ haste' \in Nat
    BY <1>1, <2>1, <2>2 DEF Careful
  <2> QED BY <2>1, <2>2, <2>3, <2>4, <2>5, <2>6, SameDialogs
<1> QED BY <1>2, <1>3, <1>4, <1>5, <1>6, <1>7 DEF TableNext

-----------------------------------------------------------------------------
(* Adding a user.                                                          *)

\* The form is shown or hidden, or its suggestions change, and nothing else.
LEMMA SuggestionsOnly ==
    ASSUME AdminIInv, form' \in FormT, form'.name = form.name, form'.graph = form.graph,
           form'.exists = form.exists, form'.off = form.off,
           UNCHANGED <<db, box, table, search, edit>>, haste' \in Nat, events' \in Nat,
           Careful' => Careful,
           \/ UNCHANGED task
           \/ \E t \in Tasks : task[t].pc = "aad" /\ task' = [task EXCEPT ![t] = Idle]
    PROVE  AdminIInv'
<1>1. TypesOK' /\ NobodyVanishes'
  <2>1. CASE UNCHANGED task
    BY <2>1 DEF AdminIInv, TypesOK, NobodyVanishes, Known
  <2>2. ASSUME NEW t \in Tasks, task' = [task EXCEPT ![t] = Idle] PROVE TypesOK' /\ NobodyVanishes'
    <3>1. edit' \in EditT /\ (edit'.shown => Known(edit'.id))
      BY DEF AdminIInv, TypesOK, NobodyVanishes
    <3> QED BY <2>2, <3>1, IdleIsTask, OneRequest
  <2> QED BY <2>1, <2>2
<1>2. \A t \in Tasks : /\ task'[t] # Idle => task'[t] = task[t]
                       /\ task[t].pc # "aad" => task'[t] = task[t]
                       /\ task[t].pc = "aad" => task'[t].pc \in {"aad", "idle"}
  BY IdleIsTask DEF AdminIInv, TypesOK
<1>3. ButtonComesBack'
  BY <1>2 DEF AdminIInv, ButtonComesBack
<1>4. ASSUME Careful' PROVE OneAtATime' /\ ButtonTells'
  <2>1. OneAtATime /\ ButtonTells
    BY <1>4 DEF AdminIInv, Careful
  <2>2. OneAtATime'
    BY <1>2, <2>1 DEF OneAtATime
  <2>3. \A t \in Tasks : task'[t].pc \in {"check", "add"} => task'[t] = task[t]
    BY <1>2, IdleIsTask
  <2>4. (\A t \in Tasks : task'[t].pc \notin {"check", "add"})
         => \A t \in Tasks : task[t].pc \notin {"check", "add"}
    BY <1>2
  <2>5. ButtonTells'
    BY <2>1, <2>3, <2>4 DEF ButtonTells
  <2> QED BY <2>2, <2>5
<1> QED BY <1>1, <1>3, <1>4, IInvParts DEF CarefulOK

LEMMA SuggestionsAreSafe ==
    ASSUME AdminIInv, NEW t \in Tasks,
           OpenAdd \/ CloseAdd \/ SuggestionsAnswered(t) \/ SuggestionsFail(t)
    PROVE  AdminIInv'
<1>1. /\ form \in FormT /\ haste \in Nat /\ events \in Nat /\ task \in [Tasks -> TaskT]
      /\ NobodyVanishes
  BY DEF AdminIInv, TypesOK
<1>2. CASE OpenAdd
  <2>1. form' \in FormT /\ form'.name = form.name /\ form'.graph = form.graph
        /\ form'.exists = form.exists /\ form'.off = form.off
    BY <1>1, <1>2 DEF OpenAdd, FormT
  <2>2. UNCHANGED <<db, box, table, search, edit, task, haste, events>>
    BY <1>2 DEF OpenAdd
  <2> QED BY <1>1, <2>1, <2>2, SuggestionsOnly DEF Careful
<1>3. CASE CloseAdd
  <2>1. form' \in FormT /\ form'.name = form.name /\ form'.graph = form.graph
        /\ form'.exists = form.exists /\ form'.off = form.off
    BY <1>1, <1>3 DEF CloseAdd, FormT
  <2>2. UNCHANGED <<db, box, table, search, edit, task, events>> /\ Hasty(FALSE)
    BY <1>3 DEF CloseAdd
  <2>3. haste' \in Nat /\ events' \in Nat /\ (Careful' => Careful)
    BY <2>2, CarefulClick
  <2> QED BY <2>1, <2>2, <2>3, SuggestionsOnly
<1>4. CASE SuggestionsAnswered(t)
  <2>1. task[t].pc = "aad" /\ task' = [task EXCEPT ![t] = Idle]
        /\ form' = [form EXCEPT !.offered = {task[t].who}]
        /\ UNCHANGED <<db, box, table, search, edit, haste, events>>
    BY <1>4 DEF SuggestionsAnswered, End
  <2>2. task[t].who \in People
    BY <1>1, <2>1 DEF NobodyVanishes
  <2>3. form' \in FormT /\ form'.name = form.name /\ form'.graph = form.graph
        /\ form'.exists = form.exists /\ form'.off = form.off
    BY <1>1, <2>1, <2>2 DEF FormT
  <2> QED BY <1>1, <2>1, <2>3, SuggestionsOnly DEF Careful
<1>5. CASE SuggestionsFail(t)
  <2>1. task[t].pc = "aad" /\ task' = [task EXCEPT ![t] = Idle]
        /\ form' = [form EXCEPT !.offered = {}] /\ Event
        /\ UNCHANGED <<db, box, table, search, edit, haste>>
    BY <1>5 DEF SuggestionsFail, End
  <2>2. form' \in FormT /\ form'.name = form.name /\ form'.graph = form.graph
        /\ form'.exists = form.exists /\ form'.off = form.off
    BY <1>1, <2>1 DEF FormT
  <2>3. events' \in Nat /\ events' # 0
    BY <1>1, <2>1, FailureCounts
  <2> QED BY <1>1, <2>1, <2>2, <2>3, SuggestionsOnly DEF Careful
<1> QED BY <1>2, <1>3, <1>4, <1>5

LEMMA TypingIsSafe ==
    ASSUME AdminIInv, NEW t \in Tasks, NEW text \in People, TypeName(t, text)
    PROVE  AdminIInv'
<1> DEFINE X == [pc |-> "aad", who |-> text, st |-> "Active", office |-> Blank]
<1>1. /\ task[t] = Idle /\ Hasty(FALSE) /\ task' = [task EXCEPT ![t] = X]
      /\ form' = [form EXCEPT !.name = "typed", !.offered = {}]
      /\ UNCHANGED <<db, box, table, search, edit, events>>
  BY DEF TypeName, Send
<1>2. X \in TaskT /\ X.pc = "aad" /\ X.who \in People
  BY DEF TaskT, Statuses
<1>3. form' \in FormT /\ form'.name = "typed" /\ form'.graph = form.graph
      /\ form'.exists = form.exists /\ form'.off = form.off
  BY <1>1 DEF AdminIInv, TypesOK, FormT
<1>4. edit' \in EditT /\ (edit'.shown => Known(edit'.id))
  BY <1>1 DEF AdminIInv, TypesOK, NobodyVanishes
<1>5. /\ haste' \in Nat /\ events' \in Nat
      /\ Careful' => \A u \in Tasks : task[u] = Idle /\ task[u].pc = "idle"
  BY <1>1, CarefulClick
<1> HIDE DEF X
<1>6. TypesOK' /\ NobodyVanishes' /\ \A u \in Tasks : task'[u] = IF u = t THEN X ELSE task[u]
  BY <1>1, <1>2, <1>3, <1>4, <1>5, OneRequest
<1>7. ButtonComesBack'
  BY <1>1, <1>3, <1>6, IdleIsTask DEF AdminIInv, ButtonComesBack
<1>8. ASSUME Careful' PROVE OneAtATime' /\ ButtonTells'
  <2>1. \A u \in Tasks : u # t => task'[u] = Idle /\ task'[u].pc = "idle"
    BY <1>5, <1>6, <1>8
  <2>2. OneAtATime'
    BY <2>1 DEF OneAtATime
  <2>3. \A u \in Tasks : task'[u].pc \notin {"check", "add"}
    BY <1>2, <1>6, <2>1
  <2>4. form'.graph \in People \cup {Blank} /\ form'.name # form'.graph
    BY <1>3, AdminAssumption DEF FormT
  <2> QED BY <2>2, <2>3, <2>4 DEF ButtonTells
<1> QED BY <1>6, <1>7, <1>8, IInvParts DEF CarefulOK

LEMMA PickingIsSafe ==
    ASSUME AdminIInv, NEW t \in Tasks, NEW p \in People, PickSuggestion(t, p)
    PROVE  AdminIInv'
<1> DEFINE X == [pc |-> "check", who |-> p, st |-> "Active", office |-> Blank]
<1>1. /\ task[t] = Idle /\ Hasty(FALSE) /\ task' = [task EXCEPT ![t] = X]
      /\ form' = [form EXCEPT !.name = p, !.graph = p, !.offered = {}]
      /\ UNCHANGED <<db, box, table, search, edit, events>>
  BY DEF PickSuggestion, Send
<1>2. X \in TaskT /\ X.pc = "check" /\ X.who = p
  BY DEF TaskT, Statuses
<1>3. form' \in FormT /\ form'.graph = p /\ form'.exists = form.exists /\ form'.off = form.off
  BY <1>1 DEF AdminIInv, TypesOK, FormT
<1>4. edit' \in EditT /\ (edit'.shown => Known(edit'.id))
  BY <1>1 DEF AdminIInv, TypesOK, NobodyVanishes
<1>5. /\ haste' \in Nat /\ events' \in Nat
      /\ Careful' => \A u \in Tasks : task[u] = Idle /\ task[u].pc = "idle"
  BY <1>1, CarefulClick
<1> HIDE DEF X
<1>6. TypesOK' /\ NobodyVanishes' /\ \A u \in Tasks : task'[u] = IF u = t THEN X ELSE task[u]
  BY <1>1, <1>2, <1>3, <1>4, <1>5, OneRequest
<1>7. ButtonComesBack'
  BY <1>1, <1>3, <1>6, IdleIsTask DEF AdminIInv, ButtonComesBack
<1>8. ASSUME Careful' PROVE OneAtATime' /\ ButtonTells'
  <2>1. \A u \in Tasks : u # t => task'[u] = Idle /\ task'[u].pc = "idle"
    BY <1>5, <1>6, <1>8
  <2>2. OneAtATime'
    BY <2>1 DEF OneAtATime
  <2>3. \A u \in Tasks : task'[u].pc \in {"check", "add"} => u = t
    BY <2>1
  <2>4. task'[t] = X
    BY <1>6
  <2>5. ButtonTells'
    BY <1>2, <1>3, <2>3, <2>4 DEF ButtonTells
  <2> QED BY <2>2, <2>5
<1> QED BY <1>6, <1>7, <1>8, IInvParts DEF CarefulOK

LEMMA CheckIsSafe ==
    ASSUME AdminIInv, NEW t \in Tasks, ExistsAnswered(t) \/ ExistsFails(t)
    PROVE  AdminIInv'
<1>1. /\ task[t].pc = "check" /\ task' = [task EXCEPT ![t] = Idle]
      /\ UNCHANGED <<db, box, table, search, edit, haste>>
  BY DEF ExistsAnswered, ExistsFails, End
<1>2. /\ form' \in FormT /\ form'.name = form.name /\ form'.graph = form.graph
      /\ form'.exists = form'.off
      /\ ExistsAnswered(t) => form'.off = Exists(task[t].who)
  <2>1. Exists(task[t].who) \in BOOLEAN
    BY DEF Exists
  <2> QED BY ZenonT(60), <2>1 DEF ExistsAnswered, ExistsFails, AdminIInv, TypesOK, FormT
<1>3. haste' \in Nat /\ events' \in Nat /\ (Careful' => Careful /\ ExistsAnswered(t))
  BY <1>1, FailureCounts DEF ExistsAnswered, ExistsFails, AdminIInv, TypesOK, Careful
<1>4. edit' \in EditT /\ (edit'.shown => Known(edit'.id))
  BY <1>1 DEF AdminIInv, TypesOK, NobodyVanishes
<1>5. TypesOK' /\ NobodyVanishes' /\ \A u \in Tasks : task'[u] = IF u = t THEN Idle ELSE task[u]
  BY <1>1, <1>2, <1>3, <1>4, IdleIsTask, OneRequest
<1>6. ButtonComesBack'
  BY <1>2 DEF ButtonComesBack
<1>7. ASSUME Careful' PROVE OneAtATime' /\ ButtonTells'
  <2>1. OneAtATime /\ ButtonTells /\ ExistsAnswered(t)
    BY <1>3, <1>7 DEF AdminIInv, Careful
  <2>2. \A u \in Tasks : task'[u] = Idle /\ task'[u].pc = "idle"
    BY <1>1, <1>5, <2>1, IdleIsTask DEF OneAtATime, AdminIInv, NobodyVanishes
  <2>3. OneAtATime'
    BY <2>2 DEF OneAtATime
  <2>4. form'.off = (db[form.graph].st # "none")
    BY <1>1, <1>2, <2>1 DEF ButtonTells, Exists
  <2>5. ButtonTells'
    BY <1>1, <1>2, <2>2, <2>4 DEF ButtonTells
  <2> QED BY <2>3, <2>5
<1> QED BY <1>5, <1>6, <1>7, IInvParts DEF CarefulOK

LEMMA SubmittingIsSafe ==
    ASSUME AdminIInv, NEW t \in Tasks, NEW office \in Offices, NEW status \in Statuses,
           SubmitUser(t, office, status)
    PROVE  AdminIInv'
<1> DEFINE X == [pc |-> "add", who |-> form.graph, st |-> status, office |-> office]
           careless == form.name # form.graph
<1>1. /\ ~form.off /\ form.graph # Blank /\ task[t] = Idle /\ Hasty(careless)
      /\ task' = [task EXCEPT ![t] = X]
      /\ form' = [form EXCEPT !.off = TRUE, !.offered = {}]
      /\ UNCHANGED <<db, box, table, search, edit, events>>
  BY DEF SubmitUser, Send
<1>2. form.graph \in People
  BY <1>1 DEF AdminIInv, TypesOK, FormT
<1>3. X \in TaskT /\ X.pc = "add" /\ X.who = form.graph /\ X.office = office
  BY <1>2 DEF TaskT
<1>4. form' \in FormT /\ form'.name = form.name /\ form'.graph = form.graph
  BY <1>1 DEF AdminIInv, TypesOK, FormT
<1>5. edit' \in EditT /\ (edit'.shown => Known(edit'.id))
  BY <1>1 DEF AdminIInv, TypesOK, NobodyVanishes
<1>6. /\ haste' \in Nat /\ events' \in Nat
      /\ Careful' => /\ ~careless /\ ButtonTells
                     /\ \A u \in Tasks : task[u] = Idle /\ task[u].pc = "idle"
  BY <1>1, CarefulClick
<1> HIDE DEF X
<1>7. TypesOK' /\ NobodyVanishes' /\ \A u \in Tasks : task'[u] = IF u = t THEN X ELSE task[u]
  BY <1>1, <1>2, <1>3, <1>4, <1>5, <1>6, OneRequest
<1>8. ButtonComesBack'
  BY <1>3, <1>7 DEF ButtonComesBack
<1>9. ASSUME Careful' PROVE OneAtATime' /\ ButtonTells'
  <2>1. \A u \in Tasks : u # t => task'[u] = Idle /\ task'[u].pc = "idle"
    BY <1>6, <1>7, <1>9
  <2>2. OneAtATime'
    BY <2>1 DEF OneAtATime
  <2>3. db[form.graph].st = "none"
    BY <1>1, <1>6, <1>9 DEF ButtonTells
  <2>4. task'[t] = X
    BY <1>7
  <2>5. ButtonTells'
    BY ZenonT(60), <1>1, <1>3, <2>1, <2>3, <2>4 DEF ButtonTells
  <2> QED BY <2>2, <2>5
<1> QED BY <1>7, <1>8, <1>9, IInvParts DEF CarefulOK

\* A request that ends may change the database, in which nobody vanishes.
LEMMA RequestEnds ==
    ASSUME AdminIInv, NEW t \in Tasks, task' = [task EXCEPT ![t] = Idle],
           db' \in [People -> UserT],
           \A p \in People : db[p].st # "none" => db'[p].st # "none",
           form' \in FormT, edit' \in EditT, edit'.shown => edit' = edit,
           table' \in [rows : SUBSET RowT, prompt : Prompts],
           \A r \in table'.rows : Known(r.id)',
           search' \in SearchT, search'.held = search.held,
           UNCHANGED box, haste' \in Nat, events' \in Nat
    PROVE  /\ TypesOK' /\ NobodyVanishes'
           /\ \A u \in Tasks : task'[u] = IF u = t THEN Idle ELSE task[u]
<1>1. \A u \in Tasks : task'[u] = IF u = t THEN Idle ELSE task[u]
  BY DEF AdminIInv, TypesOK
<1>2. task' \in [Tasks -> TaskT]
  BY IdleIsTask DEF AdminIInv, TypesOK
<1>3. TypesOK'
  BY <1>1, <1>2, IdleIsTask DEF AdminIInv, TypesOK
<1>4. \A p : Known(p) => Known(p)'
  BY DEF Known
<1>5. \A i \in 1..Len(search'.held) : \A r \in search'.held[i] : Known(r.id)'
  BY <1>4 DEF AdminIInv, NobodyVanishes
<1>6. edit'.shown => Known(edit.id)' /\ edit' = edit
  BY <1>4 DEF AdminIInv, NobodyVanishes
<1>7. \A u \in Tasks : /\ task'[u].pc \in {"status", "office"} => Known(task[u].who)' /\ task'[u] = task[u]
                       /\ task'[u].pc # "idle" => task'[u].who \in People
                       /\ task'[u].pc = "idle" => task'[u] = Idle
  BY <1>1, <1>4, IdleIsTask DEF AdminIInv, NobodyVanishes
<1>8. NobodyVanishes'
  BY <1>5, <1>6, <1>7 DEF NobodyVanishes, Known
<1> QED BY <1>1, <1>3, <1>8

\* In a careful session nothing is left once a request has ended.
LEMMA LastRequest ==
    ASSUME AdminIInv, Careful, NEW t \in Tasks, task[t].pc # "idle",
           \A u \in Tasks : task'[u] = IF u = t THEN Idle ELSE task[u]
    PROVE  OneAtATime' /\ \A u \in Tasks : task'[u] = Idle /\ task'[u].pc = "idle"
<1>1. \A u \in Tasks : task'[u] = Idle /\ task'[u].pc = "idle"
  BY IdleIsTask DEF AdminIInv, Careful, OneAtATime, NobodyVanishes
<1> QED BY <1>1 DEF OneAtATime

LEMMA AddEndsSafely ==
    ASSUME AdminIInv, NEW t \in Tasks, NEW done \in BOOLEAN, UserAdded(t) \/ AddFails(t, done)
    PROVE  AdminIInv'
<1> DEFINE p == task[t].who
           new == [id |-> p, st |-> task[t].st, office |-> Blank]
<1>1. /\ task[t].pc = "add" /\ task' = [task EXCEPT ![t] = Idle]
      /\ db' = Upserted(p, task[t].office) \/ db' = db
      /\ UNCHANGED <<box, search, edit, haste>>
  BY DEF UserAdded, insertUserRow, AddFails, End
<1>2. /\ p \in People /\ task[t].office \in Offices /\ task[t].st \in Statuses
      /\ db \in [People -> UserT] /\ search \in SearchT /\ edit \in EditT /\ form \in FormT
      /\ table \in [rows : SUBSET RowT, prompt : Prompts]
      /\ \A r \in table.rows : Known(r.id)
      /\ haste \in Nat /\ events \in Nat
  BY <1>1 DEF AdminIInv, TypesOK, NobodyVanishes, TaskT
<1>3. /\ db' \in [People -> UserT]
      /\ \A q \in People : db[q].st # "none" => db'[q].st # "none"
  <2>1. [st |-> "Active", office |-> task[t].office] \in UserT
    BY <1>2 DEF UserT, Statuses
  <2> QED BY <1>1, <1>2, <2>1 DEF Upserted
<1>4. \A q : Known(q) => Known(q)'
  BY <1>3 DEF Known
<1>5. /\ table' \in [rows : SUBSET RowT, prompt : Prompts]
      /\ \A r \in table'.rows : Known(r.id)'
  <2>1. CASE UserAdded(t)
    <3>1. table' = [table EXCEPT !.rows = @ \cup {new}]
      BY <2>1 DEF UserAdded, insertUserRow
    <3>2. new \in RowT /\ new.id = p
      BY <1>2 DEF RowT
    <3>3. p \in People /\ db'[p].st # "none"
      <4>1. db' = Upserted(p, task[t].office)
        BY <2>1 DEF UserAdded, insertUserRow
      <4> QED BY <1>2, <4>1 DEF Upserted
    <3> HIDE DEF new, p
    <3>4. table'.rows = table.rows \cup {new} /\ table' \in [rows : SUBSET RowT, prompt : Prompts]
      BY <1>2, <3>1, <3>2
    <3> QED BY <1>2, <1>4, <3>2, <3>3, <3>4 DEF Known
  <2>2. CASE AddFails(t, done)
    BY <1>2, <1>4, <2>2 DEF AddFails
  <2> QED BY <2>1, <2>2
<1>6. /\ form' \in FormT /\ ~form'.off /\ form'.graph = form.graph
      /\ UserAdded(t) => form'.name = Blank
  BY <1>2 DEF UserAdded, AddFails, FormT
<1>7. haste' \in Nat /\ events' \in Nat /\ (Careful' => Careful /\ UserAdded(t))
  BY <1>1, <1>2, FailureCounts DEF UserAdded, AddFails, Careful
<1>8. TypesOK' /\ NobodyVanishes' /\ \A u \in Tasks : task'[u] = IF u = t THEN Idle ELSE task[u]
  <2> HIDE DEF p, new
  <2> QED BY <1>1, <1>2, <1>3, <1>5, <1>6, <1>7, RequestEnds
<1>9. ButtonComesBack'
  BY <1>6 DEF ButtonComesBack
<1>10. ASSUME Careful' PROVE OneAtATime' /\ ButtonTells'
  <2>1. OneAtATime' /\ \A u \in Tasks : task'[u] = Idle /\ task'[u].pc = "idle"
    BY <1>1, <1>7, <1>8, <1>10, LastRequest
  <2>2. form'.name = Blank
    BY <1>6, <1>7, <1>10
  <2> QED BY <2>1, <2>2 DEF ButtonTells
<1> QED BY <1>8, <1>9, <1>10, IInvParts DEF CarefulOK

-----------------------------------------------------------------------------
(* Editing a user.                                                         *)

LEMMA ClosedIsEdit == Closed \in EditT /\ ~Closed.shown
BY DEF Closed, EditT

\* The edit dialog opens or closes, and a search may start.
LEMMA EditOnly ==
    ASSUME AdminIInv, edit' \in EditT, edit'.shown => Known(edit'.id),
           UNCHANGED <<db, box, form, task>>, haste' \in Nat, events' \in Nat,
           Careful' => Careful,
           table' \in [rows : SUBSET RowT, prompt : Prompts],
           \A r \in table'.rows : Known(r.id),
           search' \in SearchT, search'.held = search.held
    PROVE  AdminIInv'
<1>1. TypesOK'
  BY DEF AdminIInv, TypesOK
<1>2. NobodyVanishes'
  BY DEF AdminIInv, NobodyVanishes, Known
<1>3. ButtonComesBack'
  BY DEF AdminIInv, ButtonComesBack
<1>4. CarefulOK'
  BY IInvParts DEF CarefulOK, OneAtATime, ButtonTells
<1> QED BY <1>1, <1>2, <1>3, <1>4, IInvParts

LEMMA EditDialogIsSafe ==
    ASSUME AdminIInv, (\E r \in table.rows : openEditUserModal(r)) \/ CloseEdit
    PROVE  AdminIInv'
<1>1. /\ table \in [rows : SUBSET RowT, prompt : Prompts] /\ search \in SearchT
      /\ \A r \in table.rows : r \in RowT /\ Known(r.id)
      /\ haste \in Nat /\ events \in Nat
  BY DEF AdminIInv, TypesOK, NobodyVanishes
<1>2. ASSUME NEW r \in table.rows, openEditUserModal(r) PROVE AdminIInv'
  <2>1. /\ edit' = [shown |-> TRUE, id |-> r.id, was |-> r.st = "Inactive", old |-> r.office]
        /\ UNCHANGED <<db, box, table, search, form, task, haste, events>>
    BY <1>2 DEF openEditUserModal
  <2>2. edit' \in EditT /\ Known(edit'.id)
    BY <1>1, <2>1 DEF EditT, RowT
  <2> QED BY <1>1, <2>1, <2>2, EditOnly DEF Careful
<1>3. CASE CloseEdit
  <2>1. edit' = Closed /\ Hasty(FALSE) /\ UNCHANGED <<db, box, table, search, form, task, events>>
    BY <1>3 DEF CloseEdit
  <2>2. haste' \in Nat /\ events' \in Nat /\ (Careful' => Careful)
    BY <2>1, CarefulClick
  <2> QED BY <1>1, <2>1, <2>2, ClosedIsEdit, EditOnly
<1> QED BY <1>2, <1>3

LEMMA SavingIsSafe ==
    ASSUME AdminIInv, NEW t \in Tasks, NEW office \in Offices, NEW status \in Statuses,
           saveUserEdit(t, status, office)
    PROVE  AdminIInv'
<1> DEFINE restatus == (status = "Inactive") # edit.was
           pc == IF restatus THEN "status" ELSE "office"
           X == [pc |-> pc, who |-> edit.id, st |-> status, office |-> office]
<1>1. /\ edit.shown /\ task[t] = Idle /\ Hasty(FALSE) /\ UNCHANGED <<db, box, form, events>>
      /\ Known(edit.id) /\ TypesOK
  BY DEF saveUserEdit, AdminIInv, NobodyVanishes
<1>2. /\ haste' \in Nat /\ events' \in Nat
      /\ Careful' => /\ Careful /\ ButtonTells
                     /\ \A u \in Tasks : task[u] = Idle /\ task[u].pc = "idle"
  BY <1>1, CarefulClick
<1>3. CASE restatus \/ office # edit.old
  <2>1. task' = [task EXCEPT ![t] = X] /\ UNCHANGED <<edit, table, search>>
    BY <1>3 DEF saveUserEdit, Send
  <2>2. X \in TaskT /\ X.pc \in {"status", "office"} /\ X.who = edit.id /\ X.office = office
    BY <1>1 DEF TaskT, Known
  <2>3. edit' \in EditT /\ (edit'.shown => Known(edit'.id)) /\ form' \in FormT /\ edit.id \in People
    BY <1>1, <2>1 DEF TypesOK, Known
  <2> HIDE DEF X
  <2>4. TypesOK' /\ NobodyVanishes' /\ \A u \in Tasks : task'[u] = IF u = t THEN X ELSE task[u]
    BY <1>1, <1>2, <2>1, <2>2, <2>3, OneRequest
  <2>5. ButtonComesBack'
    BY <1>1, <2>4, IdleIsTask DEF AdminIInv, ButtonComesBack
  <2>6. ASSUME Careful' PROVE OneAtATime' /\ ButtonTells'
    <3>1. \A u \in Tasks : u # t => task'[u] = Idle /\ task'[u].pc = "idle"
      BY <1>2, <2>4, <2>6
    <3>2. OneAtATime'
      BY <3>1 DEF OneAtATime
    <3>3. \A u \in Tasks : task'[u].pc \notin {"check", "add"} /\ task[u].pc \notin {"check", "add"}
      BY <1>2, <2>2, <2>4, <2>6, <3>1
    <3> QED BY <1>1, <1>2, <2>6, <3>2, <3>3 DEF ButtonTells
  <2> QED BY <2>4, <2>5, <2>6, IInvParts DEF CarefulOK
<1>4. CASE ~(restatus \/ office # edit.old)
  <2>1. edit' = Closed /\ reloadCurrentSearch /\ UNCHANGED task
    BY <1>4 DEF saveUserEdit
  <2>2. /\ table' \in [rows : SUBSET RowT, prompt : Prompts] /\ search' \in SearchT
        /\ table'.rows = {} /\ search'.held = search.held
    BY <1>1, <2>1, ReloadStarts
  <2> QED BY <1>1, <1>2, <2>1, <2>2, ClosedIsEdit, EditOnly
<1> QED BY <1>3, <1>4

LEMMA EditEndsSafely ==
    ASSUME AdminIInv, NEW t \in Tasks, NEW done \in BOOLEAN,
           EditSaved(t) \/ EditRefused(t) \/ EditFails(t, done)
    PROVE  AdminIInv'
<1>1. /\ task[t].pc \in {"status", "office"} /\ task' = [task EXCEPT ![t] = Idle]
      /\ db' = Edited(t) \/ db' = db
      /\ edit' = Closed \/ edit' = edit
      /\ UNCHANGED <<box, form, haste>>
  BY DEF EditSaved, EditRefused, Refused, EditFails, End
<1>2. /\ Known(task[t].who) /\ task[t].st \in Statuses
      /\ task[t].pc = "office" => task[t].office \in Offices
      /\ TypesOK /\ NobodyVanishes /\ edit \in EditT /\ form \in FormT
  BY <1>1 DEF AdminIInv, TypesOK, NobodyVanishes, TaskT
<1>3. /\ db' \in [People -> UserT]
      /\ \A p \in People : (db[p].st # "none") <=> (db'[p].st # "none")
  <2>1. CASE db' = db
    BY <1>2, <2>1 DEF TypesOK
  <2>2. CASE db' = Edited(t) /\ task[t].pc = "status"
    <3>1. db' = [db EXCEPT ![task[t].who].st = task[t].st]
      BY <2>2 DEF Edited
    <3>2. task[t].st # "none"
      BY <1>2 DEF Statuses
    <3> QED BY <1>2, <3>1, <3>2 DEF TypesOK, UserT, Known
  <2>3. CASE db' = Edited(t) /\ task[t].pc = "office"
    <3>1. db' = [db EXCEPT ![task[t].who].office = task[t].office]
      BY <2>3 DEF Edited
    <3> QED BY <1>2, <2>3, <3>1 DEF TypesOK, UserT, Known
  <2> QED BY <1>1, <2>1, <2>2, <2>3
<1>4. \A p : Known(p) => Known(p)'
  BY <1>3 DEF Known
<1>5. /\ table' \in [rows : SUBSET RowT, prompt : Prompts] /\ search' \in SearchT
      /\ search'.held = search.held /\ \A r \in table'.rows : Known(r.id)'
  <2>1. CASE EditSaved(t)
    <3>1. reloadCurrentSearch
      BY <2>1 DEF EditSaved
    <3> QED BY <1>2, <3>1, ReloadStarts
  <2>2. CASE EditRefused(t) \/ EditFails(t, done)
    <3>1. UNCHANGED <<table, search>>
      BY <2>2 DEF EditRefused, EditFails
    <3> QED BY <1>2, <1>4, <3>1 DEF TypesOK, NobodyVanishes
  <2> QED BY <2>1, <2>2
<1>6. haste' \in Nat /\ events' \in Nat /\ (Careful' => Careful)
  BY <1>1, <1>2, FailureCounts DEF EditSaved, EditRefused, EditFails, TypesOK, Careful
<1>7. edit' \in EditT /\ (edit'.shown => edit' = edit) /\ form' \in FormT
  BY <1>1, <1>2, ClosedIsEdit
<1>8. TypesOK' /\ NobodyVanishes' /\ \A u \in Tasks : task'[u] = IF u = t THEN Idle ELSE task[u]
  BY <1>1, <1>3, <1>5, <1>6, <1>7, RequestEnds
<1>9. ButtonComesBack'
  BY <1>1, <1>8 DEF AdminIInv, ButtonComesBack
<1>10. ASSUME Careful' PROVE OneAtATime' /\ ButtonTells'
  <2>1. ButtonTells /\ OneAtATime
    BY <1>6, <1>10 DEF AdminIInv, Careful
  <2>2. OneAtATime' /\ \A u \in Tasks : task'[u] = Idle /\ task'[u].pc = "idle"
    BY <1>1, <1>6, <1>8, <1>10, LastRequest
  <2>3. \A u \in Tasks : task[u].pc \notin {"check", "add"}
    BY <1>1, <2>1, IdleIsTask DEF OneAtATime
  <2>4. form.graph # Blank => form.graph \in People
    BY <1>2 DEF FormT
  <2>5. ButtonTells'
    BY <1>1, <1>3, <2>1, <2>2, <2>3, <2>4 DEF ButtonTells
  <2> QED BY <2>2, <2>5
<1> QED BY <1>8, <1>9, <1>10, IInvParts DEF CarefulOK

-----------------------------------------------------------------------------

LEMMA AdminInitIInv == AdminInit => AdminIInv
<1> SUFFICES ASSUME AdminInit PROVE AdminIInv
  OBVIOUS
<1>1. form \in FormT /\ ~form.off
  BY DEF AdminInit, FormT
<1>2. search \in SearchT /\ Len(search.held) = 0
  BY EmptySeq DEF AdminInit, SearchT
<1>3. task \in [Tasks -> TaskT] /\ \A t \in Tasks : task[t] = Idle /\ task[t].pc = "idle"
  BY IdleIsTask DEF AdminInit
<1>4. TypesOK
  BY <1>1, <1>2, <1>3, ClosedIsEdit DEF AdminInit, TypesOK, UserT, Prompts
<1>5. NobodyVanishes
  BY <1>2, <1>3, ClosedIsEdit DEF AdminInit, NobodyVanishes
<1>6. ButtonComesBack
  BY <1>1 DEF ButtonComesBack
<1>7. OneAtATime
  BY <1>3 DEF OneAtATime
<1>8. ButtonTells
  BY <1>3 DEF AdminInit, ButtonTells
<1> QED BY <1>4, <1>5, <1>6, <1>7, <1>8 DEF AdminIInv

LEMMA AdminNextIInv == AdminIInv /\ [AdminNext]_adminVars => AdminIInv'
<1> SUFFICES ASSUME AdminIInv, [AdminNext]_adminVars PROVE AdminIInv'
  OBVIOUS
<1>1. CASE TableNext
  BY <1>1, TableIsSafe
<1>2. CASE OpenAdd \/ CloseAdd
  <2>1. CASE Tasks = {}
    <3>1. form' \in FormT /\ form'.name = form.name /\ form'.graph = form.graph
          /\ form'.exists = form.exists /\ form'.off = form.off
      BY <1>2 DEF OpenAdd, CloseAdd, AdminIInv, TypesOK, FormT
    <3>2. UNCHANGED <<db, box, table, search, edit, task, events>>
      BY <1>2 DEF OpenAdd, CloseAdd
    <3>3. haste' \in Nat /\ events' \in Nat /\ (Careful' => Careful)
      <4>1. CASE OpenAdd
        BY <4>1 DEF OpenAdd, AdminIInv, TypesOK, Careful
      <4>2. CASE CloseAdd
        BY <3>2, <4>2, CarefulClick DEF CloseAdd
      <4> QED BY <1>2, <4>1, <4>2
    <3> QED BY <3>1, <3>2, <3>3, SuggestionsOnly
  <2>2. CASE Tasks # {}
    BY <1>2, <2>2, SuggestionsAreSafe
  <2> QED BY <2>1, <2>2
<1>3. ASSUME NEW t \in Tasks, NEW p \in People, TypeName(t, p) \/ PickSuggestion(t, p)
      PROVE  AdminIInv'
  BY <1>3, TypingIsSafe, PickingIsSafe
<1>4. ASSUME NEW t \in Tasks, SuggestionsAnswered(t) \/ SuggestionsFail(t) PROVE AdminIInv'
  BY <1>4, SuggestionsAreSafe
<1>5. ASSUME NEW t \in Tasks, ExistsAnswered(t) \/ ExistsFails(t) PROVE AdminIInv'
  BY <1>5, CheckIsSafe
<1>6. ASSUME NEW t \in Tasks, NEW office \in Offices, NEW status \in Statuses,
             SubmitUser(t, office, status)
      PROVE  AdminIInv'
  BY <1>6, SubmittingIsSafe
<1>7. ASSUME NEW t \in Tasks, UserAdded(t) PROVE AdminIInv'
  BY <1>7, AddEndsSafely
<1>8. ASSUME NEW t \in Tasks, NEW done \in BOOLEAN, AddFails(t, done) PROVE AdminIInv'
  BY <1>8, AddEndsSafely
<1>9. CASE (\E r \in table.rows : openEditUserModal(r)) \/ CloseEdit
  BY <1>9, EditDialogIsSafe
<1>10. ASSUME NEW t \in Tasks, NEW office \in Offices, NEW status \in Statuses,
              saveUserEdit(t, status, office)
       PROVE  AdminIInv'
  BY <1>10, SavingIsSafe
<1>11. ASSUME NEW t \in Tasks, EditSaved(t) \/ EditRefused(t) PROVE AdminIInv'
  BY <1>11, EditEndsSafely
<1>12. ASSUME NEW t \in Tasks, NEW done \in BOOLEAN, EditFails(t, done) PROVE AdminIInv'
  BY <1>12, EditEndsSafely
<1>13. CASE UNCHANGED adminVars
  BY <1>13 DEF adminVars, AdminIInv, TypesOK, NobodyVanishes, Known, ButtonComesBack,
     OneAtATime, ButtonTells
<1>14. CASE AddNext
  BY <1>2, <1>3, <1>4, <1>5, <1>6, <1>7, <1>8, <1>14 DEF AddNext
<1>15. CASE EditNext
  BY <1>9, <1>10, <1>11, <1>12, <1>15 DEF EditNext
<1> QED BY <1>1, <1>13, <1>14, <1>15 DEF AdminNext

LEMMA AdminInvariant == AdminSpec => []AdminIInv
BY AdminInitIInv, AdminNextIInv, PTL DEF AdminSpec

\* Whatever is clicked and fails, the button of the add dialog is out of reach only
\* while a user is being added or the form says that the user is in the system.
THEOREM ButtonAlwaysComesBack == AdminSpec => []ButtonComesBack
<1>1. AdminIInv => ButtonComesBack
  BY DEF AdminIInv
<1> QED BY <1>1, AdminInvariant, PTL

\* A user who waits for each answer never sends the request that adds a user for
\* one who has a row already, archived or not, while no request fails.
THEOREM NobodyIsAddedTwice == AdminSpec => []NoExistingUserIsAdded
<1>1. AdminIInv => NoExistingUserIsAdded
  BY DEF AdminIInv, NoExistingUserIsAdded, ButtonTells
<1> QED BY <1>1, AdminInvariant, PTL
-----------------------------------------------------------------------------
(* The load of the page: searches and requests under way.                   *)

Busy    == {t \in Tasks : task[t] # Idle}
Asking  == IF search.asked = Blank THEN 0 ELSE 1
Load    == Len(search.held) + Asking + Cardinality(Busy)

\* Each click starts one thing at most, and is hasty unless nothing is under way:
\* what is under way was started by hasty clicks but for one.
Counted == IsFiniteSet(Busy) /\ Load <= haste + 1

Bounded == haste \in 0..MaxHaste /\ events \in 0..MaxEvents

\* A row as a search would bring it now.
Current(r) == r = Row(r.id) /\ r.st = StatusOf(box.inactive)

\* The table and the answers held back are current; a search under way asks for
\* the status that the toggle shows.
Fresh ==
    /\ search.asked # Blank => search.asked.inactive = box.inactive
    /\ \A i \in 1..Len(search.held) : \A r \in search.held[i] : Current(r)
    /\ \A r \in table.rows : r.office # Blank => Current(r)

PageInv ==
    /\ AdminIInv /\ Counted /\ Bounded
    /\ ~(form.shown /\ edit.shown)
    /\ Careful => Fresh

-----------------------------------------------------------------------------
(* What is under way.                                                      *)

LEMMA Numbers ==
    ASSUME TypesOK, IsFiniteSet(Busy)
    PROVE  /\ Len(search.held) \in Nat /\ Asking \in 0..1 /\ Cardinality(Busy) \in Nat
           /\ Load \in Nat
<1>1. Len(search.held) \in Nat
  BY LenProperties DEF TypesOK, SearchT
<1>2. Cardinality(Busy) \in Nat
  BY FS_CardinalityType
<1>3. Asking \in 0..1
  BY DEF Asking
<1> QED BY <1>1, <1>2, <1>3 DEF Load

\* In a quiet page nothing is under way.
LEMMA QuietIsEmpty ==
    ASSUME Quiet
    PROVE  Load = 0
<1>1. Busy = {} /\ search.held = <<>> /\ search.asked = Blank
  BY DEF Quiet, Busy
<1>2. Cardinality(Busy) = 0
  BY <1>1, FS_EmptySet
<1>3. Len(search.held) = 0
  BY <1>1
<1> QED BY <1>1, <1>2, <1>3 DEF Load, Asking

\* A click may start one thing.
LEMMA ClickCounts ==
    ASSUME PageInv, TypesOK', NEW careless \in BOOLEAN, Hasty(careless), UNCHANGED events,
           IsFiniteSet(Busy'), Load' <= Load + 1
    PROVE  Counted' /\ Bounded'
<1>1. /\ haste \in 0..MaxHaste /\ events \in 0..MaxEvents /\ TypesOK /\ Counted
      /\ MaxHaste \in Nat
  BY AdminAssumption DEF PageInv, Bounded, AdminIInv
<1>2. Load \in Nat /\ Load <= haste + 1
  BY <1>1, Numbers DEF Counted
<1>3. Load' \in Nat
  <2>1. (TypesOK /\ IsFiniteSet(Busy) => Load \in Nat)'
    BY Numbers, PTL
  <2> QED BY <2>1
<1>4. CASE careless \/ ~Quiet
  <2>1. haste < MaxHaste /\ haste' = haste + 1
    BY <1>4 DEF Hasty
  <2> QED BY <1>1, <1>2, <1>3, <2>1 DEF Counted, Bounded
<1>5. CASE ~(careless \/ ~Quiet)
  <2>1. haste' = haste /\ Load = 0
    BY <1>5, QuietIsEmpty DEF Hasty
  <2> QED BY <1>1, <1>2, <1>3, <2>1 DEF Counted, Bounded
<1> QED BY <1>4, <1>5

\* Nothing else starts anything.
LEMMA OthersCount ==
    ASSUME PageInv, UNCHANGED haste, events' = events \/ Event,
           IsFiniteSet(Busy'), Load' <= Load, Load' \in Nat
    PROVE  Counted' /\ Bounded'
<1>1. /\ haste \in 0..MaxHaste /\ events \in 0..MaxEvents /\ MaxHaste \in Nat /\ MaxEvents \in Nat
      /\ TypesOK /\ Counted
  BY AdminAssumption DEF PageInv, Bounded, AdminIInv
<1>2. Load \in Nat /\ Load <= haste + 1
  BY <1>1, Numbers DEF Counted
<1>3. events' \in 0..MaxEvents
  BY <1>1 DEF Event
<1> QED BY <1>1, <1>2, <1>3 DEF Counted, Bounded
\* Requests: none moves, one is sent, one ends.
LEMMA BusySame ==
    ASSUME PageInv, UNCHANGED task
    PROVE  IsFiniteSet(Busy') /\ Cardinality(Busy') = Cardinality(Busy)
<1>1. Busy' = Busy
  BY DEF Busy
<1> QED BY <1>1 DEF PageInv, Counted

LEMMA BusySent ==
    ASSUME PageInv, NEW t \in Tasks, NEW X, task' = [task EXCEPT ![t] = X]
    PROVE  /\ IsFiniteSet(Busy') /\ Cardinality(Busy') \in Nat
           /\ Cardinality(Busy') <= Cardinality(Busy) + 1
<1>1. IsFiniteSet(Busy) /\ Cardinality(Busy) \in Nat
  BY FS_CardinalityType DEF PageInv, Counted
<1>2. /\ IsFiniteSet(Busy \cup {t}) /\ Cardinality(Busy \cup {t}) \in Nat
      /\ Cardinality(Busy \cup {t}) <= Cardinality(Busy) + 1
  <2> HIDE DEF Busy
  <2>1. IsFiniteSet(Busy \cup {t}) /\ Cardinality(Busy \cup {t}) \in Nat
    BY <1>1, FS_AddElement, FS_CardinalityType
  <2>2. Cardinality(Busy \cup {t}) = IF t \in Busy THEN Cardinality(Busy) ELSE Cardinality(Busy) + 1
    BY <1>1, FS_AddElement
  <2> QED BY <1>1, <2>1, <2>2
<1>3. Busy' \in SUBSET (Busy \cup {t})
  BY DEF Busy, PageInv, AdminIInv, TypesOK
<1>4. IsFiniteSet(Busy') /\ Cardinality(Busy') <= Cardinality(Busy \cup {t})
  BY <1>2, <1>3, FS_Subset
<1>5. Cardinality(Busy') \in Nat
  BY <1>4, FS_CardinalityType
<1> QED BY <1>1, <1>2, <1>4, <1>5

LEMMA BusyEnded ==
    ASSUME PageInv, NEW t \in Tasks, task[t].pc # "idle", task' = [task EXCEPT ![t] = Idle]
    PROVE  /\ IsFiniteSet(Busy') /\ Cardinality(Busy) \in Nat
           /\ Cardinality(Busy') = Cardinality(Busy) - 1
<1>1. IsFiniteSet(Busy) /\ Cardinality(Busy) \in Nat
  BY FS_CardinalityType DEF PageInv, Counted
<1>2. Busy' = Busy \ {t} /\ t \in Busy
  BY IdleIsTask DEF Busy, PageInv, AdminIInv, TypesOK
<1> QED BY <1>1, <1>2, FS_RemoveElement

\* The numbers after a step that keeps the types.
LEMMA NumbersAfter ==
    ASSUME PageInv, TypesOK', IsFiniteSet(Busy')
    PROVE  /\ Len(search.held) \in Nat /\ Asking \in 0..1 /\ Cardinality(Busy) \in Nat
           /\ Len(search'.held) \in Nat /\ Asking' \in 0..1 /\ Cardinality(Busy') \in Nat
           /\ Load = Len(search.held) + Asking + Cardinality(Busy) /\ Load \in Nat
           /\ Load' = Len(search'.held) + Asking' + Cardinality(Busy') /\ Load' \in Nat
<1>1. (TypesOK /\ IsFiniteSet(Busy) => /\ Len(search.held) \in Nat /\ Asking \in 0..1
                                       /\ Cardinality(Busy) \in Nat /\ Load \in Nat)'
  BY Numbers, PTL
<1>2. TypesOK /\ IsFiniteSet(Busy)
  BY DEF PageInv, AdminIInv, Counted
<1>3. /\ Len(search.held) \in Nat /\ Asking \in 0..1 /\ Cardinality(Busy) \in Nat
      /\ Load \in Nat
  BY <1>2, Numbers
<1> QED BY <1>1, <1>3 DEF Load

LEMMA TableCounts ==
    ASSUME PageInv, TypesOK', TableNext
    PROVE  Counted' /\ Bounded'
<1>1. task' = task /\ TypesOK
  BY DEF TableNext, TypeSearch, PressEnter, ToggleInactive, SearchAnswered, SearchShown,
     SearchFails, PageInv, AdminIInv
<1>2. IsFiniteSet(Busy') /\ Cardinality(Busy') = Cardinality(Busy)
  BY <1>1, BusySame
<1>3. /\ Len(search.held) \in Nat /\ Asking \in 0..1 /\ Cardinality(Busy) \in Nat
      /\ Len(search'.held) \in Nat /\ Asking' \in 0..1
      /\ Load = Len(search.held) + Asking + Cardinality(Busy) /\ Load' \in Nat
      /\ Load' = Len(search'.held) + Asking' + Cardinality(Busy)
  BY <1>2, NumbersAfter
<1>4. CASE \E text \in People \cup {Blank} : TypeSearch(text)
  <2>1. UNCHANGED <<search, haste, events>>
    BY <1>4 DEF TypeSearch
  <2>2. Load' = Load
    BY <1>3, <2>1 DEF Asking
  <2> QED BY <1>2, <1>3, <2>1, <2>2, OthersCount
<1>5. CASE PressEnter \/ ToggleInactive
  <2>1. Hasty(FALSE) /\ UNCHANGED events
    BY <1>5 DEF PressEnter, ToggleInactive
  <2>2. search'.held = search.held
    <3>1. CASE PressEnter
      <4>1. searchUsersFromServer(box.text, box.inactive)
        BY <3>1 DEF PressEnter
      <4> QED BY <1>1, <4>1, SearchStarts DEF TypesOK
    <3>2. CASE ToggleInactive
      BY <1>1, <3>2 DEF ToggleInactive, TypesOK, SearchT
    <3> QED BY <1>5, <3>1, <3>2
  <2>3. Load' <= Load + 1
    BY <1>3, <2>2
  <2> QED BY <1>2, <2>1, <2>3, ClickCounts
<1>6. CASE SearchAnswered
  <2>1. /\ search.asked # Blank /\ UNCHANGED <<haste, events>>
        /\ search' = [asked |-> Blank, held |-> Append(search.held, Found(search.asked))]
    BY <1>6 DEF SearchAnswered
  <2>2. search.asked \in [text : People, inactive : BOOLEAN] /\ search.held \in Seq(SUBSET RowT)
    BY <1>1, <2>1 DEF TypesOK, SearchT
  <2>3. Found(search.asked) \in SUBSET RowT
    BY <1>1, <2>2, FoundIsKnown
  <2>4. Len(Append(search.held, Found(search.asked))) = Len(search.held) + 1
    BY <2>2, <2>3, AppendProperties
  <2>5. Asking = 1 /\ Asking' = 0
    BY <2>1 DEF Asking
  <2>6. Load' = Load
    BY <1>3, <2>1, <2>4, <2>5
  <2> QED BY <1>2, <1>3, <2>1, <2>6, OthersCount
<1>7. CASE SearchShown
  <2>1. /\ search.held # <<>> /\ UNCHANGED <<haste, events>>
        /\ search' = [search EXCEPT !.held = Tail(@)]
    BY <1>7 DEF SearchShown
  <2>2. search \in SearchT /\ search.held \in Seq(SUBSET RowT)
    BY <1>1 DEF TypesOK, SearchT
  <2>3. /\ Len(search'.held) = Len(search.held) - 1 /\ search'.asked = search.asked
    BY <2>1, <2>2, HeadTailProperties DEF SearchT
  <2>4. Asking' = Asking
    BY <2>3 DEF Asking
  <2>5. Load' <= Load
    BY <1>3, <2>3, <2>4
  <2> QED BY <1>2, <1>3, <2>1, <2>5, OthersCount
<1>8. CASE SearchFails
  <2>1. Event /\ UNCHANGED haste /\ search' = [search EXCEPT !.asked = Blank]
    BY <1>8 DEF SearchFails
  <2>2. search'.held = search.held /\ search'.asked = Blank
    BY <1>1, <2>1 DEF TypesOK, SearchT
  <2>3. Asking' = 0
    BY <2>2 DEF Asking
  <2>4. Load' <= Load
    BY <1>3, <2>2, <2>3
  <2> QED BY <1>2, <1>3, <2>1, <2>4, OthersCount
<1> QED BY <1>4, <1>5, <1>6, <1>7, <1>8 DEF TableNext
\* The clicks in the dialogs that may send a request or start a search.
ClickInDialog(t) ==
    \/ \E p \in People : TypeName(t, p) \/ PickSuggestion(t, p)
    \/ \E office \in Offices, status \in Statuses :
         SubmitUser(t, office, status) \/ saveUserEdit(t, status, office)

\* The answers and failures of the dialogs' requests.
EndInDialog(t) ==
    \/ SuggestionsAnswered(t) \/ SuggestionsFail(t) \/ ExistsAnswered(t) \/ ExistsFails(t)
    \/ UserAdded(t) \/ EditSaved(t) \/ EditRefused(t)
    \/ \E done \in BOOLEAN : AddFails(t, done) \/ EditFails(t, done)

LEMMA DialogSteps ==
    ASSUME AddNext \/ EditNext
    PROVE  \/ OpenAdd \/ CloseAdd \/ CloseEdit \/ \E r \in table.rows : openEditUserModal(r)
           \/ \E t \in Tasks : ClickInDialog(t) \/ EndInDialog(t)
BY DEF AddNext, EditNext, ClickInDialog, EndInDialog

\* What the clicks in a dialog leave alone.
LEMMA ClickFrame ==
    ASSUME PageInv, NEW t \in Tasks, ClickInDialog(t)
    PROVE  /\ UNCHANGED <<db, box, events>> /\ \E careless \in BOOLEAN : Hasty(careless)
           /\ \/ UNCHANGED <<table, search>> /\ \E X : task' = [task EXCEPT ![t] = X]
              \/ reloadCurrentSearch /\ UNCHANGED task
           /\ edit'.shown => edit' = edit
           /\ form'.shown = form.shown
<1>1. form \in FormT /\ edit \in EditT
  BY DEF PageInv, AdminIInv, TypesOK
<1>2. ASSUME NEW p \in People, TypeName(t, p) \/ PickSuggestion(t, p)
      PROVE  /\ UNCHANGED <<db, box, events, table, search, edit>> /\ Hasty(FALSE)
             /\ \E X : task' = [task EXCEPT ![t] = X]
             /\ form'.shown = form.shown
  BY <1>1, <1>2 DEF TypeName, PickSuggestion, Send, FormT
<1>3. ASSUME NEW office \in Offices, NEW status \in Statuses, SubmitUser(t, office, status)
      PROVE  /\ UNCHANGED <<db, box, events, table, search, edit>> /\ Hasty(form.name # form.graph)
             /\ \E X : task' = [task EXCEPT ![t] = X]
             /\ form'.shown = form.shown
  BY <1>1, <1>3 DEF SubmitUser, Send, FormT
<1>4. ASSUME NEW office \in Offices, NEW status \in Statuses, saveUserEdit(t, status, office)
      PROVE  /\ UNCHANGED <<db, box, events, form>> /\ Hasty(FALSE)
             /\ \/ UNCHANGED <<table, search>> /\ \E X : task' = [task EXCEPT ![t] = X]
                \/ reloadCurrentSearch /\ UNCHANGED task
             /\ edit' \in {Closed, edit}
  BY <1>4 DEF saveUserEdit, Send
<1> QED BY <1>2, <1>3, <1>4, ClosedIsEdit DEF ClickInDialog

\* And their requests' ends.
LEMMA EndFrame ==
    ASSUME PageInv, NEW t \in Tasks, EndInDialog(t)
    PROVE  /\ task[t].pc # "idle" /\ task' = [task EXCEPT ![t] = Idle]
           /\ UNCHANGED <<box, haste>> /\ (events' = events \/ Event)
           /\ UNCHANGED search \/ reloadCurrentSearch
           /\ edit'.shown => edit' = edit
           /\ form'.shown => form.shown
<1>1. form \in FormT /\ edit \in EditT
  BY DEF PageInv, AdminIInv, TypesOK
<1>2. CASE SuggestionsAnswered(t) \/ SuggestionsFail(t) \/ ExistsAnswered(t) \/ ExistsFails(t)
  BY <1>1, <1>2 DEF SuggestionsAnswered, SuggestionsFail, ExistsAnswered, ExistsFails, End, FormT
<1>3. CASE UserAdded(t) \/ \E done \in BOOLEAN : AddFails(t, done)
  BY <1>1, <1>3 DEF UserAdded, AddFails, End, FormT
<1>4. CASE EditSaved(t) \/ EditRefused(t) \/ \E done \in BOOLEAN : EditFails(t, done)
  BY <1>4, ClosedIsEdit DEF EditSaved, EditRefused, EditFails, Refused, End
<1> QED BY <1>2, <1>3, <1>4 DEF EndInDialog

LEMMA DialogCounts ==
    ASSUME PageInv, TypesOK', AddNext \/ EditNext
    PROVE  Counted' /\ Bounded'
<1>1. TypesOK
  BY DEF PageInv, AdminIInv
<1>2. ASSUME UNCHANGED task PROVE IsFiniteSet(Busy') /\ Cardinality(Busy') = Cardinality(Busy)
  BY <1>2, BusySame
<1>3. ASSUME UNCHANGED search \/ reloadCurrentSearch PROVE search'.held = search.held
  BY <1>1, <1>3, ReloadStarts
<1>4. CASE OpenAdd \/ \E r \in table.rows : openEditUserModal(r)
  <2>1. UNCHANGED <<search, task, haste, events>>
    BY <1>4 DEF OpenAdd, openEditUserModal
  <2>2. Load' = Load
    BY <1>2, <2>1, NumbersAfter DEF Asking
  <2>3. IsFiniteSet(Busy') /\ Load' <= Load /\ Load' \in Nat
    BY <1>2, <2>1, <2>2, NumbersAfter
  <2> QED BY <2>1, <2>3, OthersCount
<1>5. CASE CloseAdd \/ CloseEdit
  <2>1. Hasty(FALSE) /\ UNCHANGED <<search, task, events>>
    BY <1>5 DEF CloseAdd, CloseEdit
  <2>2. Load' = Load
    BY <1>2, <2>1, NumbersAfter DEF Asking
  <2>3. IsFiniteSet(Busy') /\ Load' <= Load + 1
    BY <1>2, <2>1, <2>2, NumbersAfter
  <2> QED BY <2>1, <2>3, ClickCounts
<1>6. ASSUME NEW t \in Tasks, ClickInDialog(t) PROVE Counted' /\ Bounded'
  <2>1. PICK careless \in BOOLEAN : Hasty(careless) /\ UNCHANGED events
    BY <1>6, ClickFrame
  <2>2. CASE UNCHANGED <<table, search>> /\ \E X : task' = [task EXCEPT ![t] = X]
    <3>1. IsFiniteSet(Busy') /\ Cardinality(Busy') <= Cardinality(Busy) + 1
      BY <2>2, BusySent
    <3>2. Asking' = Asking /\ search' = search
      BY <2>2 DEF Asking
    <3>3. Load' <= Load + 1
      BY <3>1, <3>2, NumbersAfter
    <3> QED BY <2>1, <3>1, <3>3, ClickCounts
  <2>3. CASE reloadCurrentSearch /\ UNCHANGED task
    <3>1. Load' <= Load + 1
      BY <1>2, <1>3, <2>3, NumbersAfter
    <3> QED BY <1>2, <2>1, <2>3, <3>1, ClickCounts
  <2> QED BY <1>6, <2>2, <2>3, ClickFrame
<1>7. ASSUME NEW t \in Tasks, EndInDialog(t) PROVE Counted' /\ Bounded'
  <2>1. /\ task[t].pc # "idle" /\ task' = [task EXCEPT ![t] = Idle]
        /\ UNCHANGED <<box, haste>> /\ (events' = events \/ Event)
        /\ UNCHANGED search \/ reloadCurrentSearch
    BY <1>7, EndFrame
  <2>2. IsFiniteSet(Busy') /\ Cardinality(Busy') = Cardinality(Busy) - 1
    BY <2>1, BusyEnded
  <2>3. search'.held = search.held
    BY <1>3, <2>1
  <2>4. search' = search => Asking' = Asking
    BY DEF Asking
  <2>5. Load' <= Load /\ Load' \in Nat
    BY <2>2, <2>3, <2>4, NumbersAfter
  <2> QED BY <2>1, <2>2, <2>5, OthersCount
<1> QED BY <1>4, <1>5, <1>6, <1>7, DialogSteps
-----------------------------------------------------------------------------
(* The rows of a user who waits are current.                                *)

\* While a request of a dialog is under way, no search is.
LEMMA OneThing ==
    ASSUME PageInv, Careful, NEW t \in Tasks, task[t].pc # "idle"
    PROVE  Len(search.held) = 0 /\ search.asked = Blank
<1>1. TypesOK /\ IsFiniteSet(Busy) /\ Load <= haste + 1 /\ haste = 0
  BY DEF PageInv, AdminIInv, Counted, Careful
<1>2. t \in Busy
  BY IdleIsTask DEF Busy
<1>3. Cardinality(Busy) \in Nat /\ Cardinality(Busy) # 0
  BY <1>1, <1>2, FS_EmptySet, FS_CardinalityType
<1>4. /\ Len(search.held) \in Nat /\ Asking \in 0..1
      /\ Load = Len(search.held) + Asking + Cardinality(Busy)
  BY <1>1, Numbers DEF Load
<1>5. Len(search.held) = 0 /\ Asking = 0
  BY <1>1, <1>3, <1>4
<1> QED BY <1>5 DEF Asking

LEMMA FoundIsCurrent ==
    ASSUME TypesOK, NEW asked \in [text : People, inactive : BOOLEAN],
           asked.inactive = box.inactive
    PROVE  \A r \in Found(asked) : Current(r)
BY DEF Found, Current, Row

\* The statuses and offices of users who are in the table or in an answer.
LEMMA SameFresh ==
    ASSUME Fresh, UNCHANGED <<db, table, search>>, box'.inactive = box.inactive
    PROVE  Fresh'
BY DEF Fresh, Current, Row

\* A search that starts asks for the status of the toggle, and the table is empty.
LEMMA StartFresh ==
    ASSUME TypesOK, searchUsersFromServer(box.text, box.inactive) \/ reloadCurrentSearch,
           box' = box, search.asked # Blank => search.asked.inactive = box.inactive,
           \A i \in 1..Len(search.held) : \A r \in search.held[i] : Current(r)'
    PROVE  Fresh'
<1>1. box.text \in People \cup {Blank} /\ box.inactive \in BOOLEAN /\ search \in SearchT
  BY DEF TypesOK
<1>2. table'.rows = {} /\ search'.held = search.held
  BY <1>1, SearchStarts, ReloadStarts
<1> DEFINE new == [text |-> box.text, inactive |-> box.inactive]
<1>3. search' = search \/ search' = [search EXCEPT !.asked = new]
  BY DEF searchUsersFromServer, reloadCurrentSearch
<1>4. new.inactive = box.inactive
  OBVIOUS
<1> HIDE DEF new
<1>5. search'.asked = search.asked \/ search'.asked = new
  BY <1>1, <1>3 DEF SearchT
<1> QED BY <1>2, <1>4, <1>5 DEF Fresh

LEMMA TableFresh ==
    ASSUME PageInv, Careful, Fresh, Careful', TableNext
    PROVE  Fresh'
<1>1. TypesOK /\ search \in SearchT /\ search.held \in Seq(SUBSET RowT)
  BY DEF PageInv, AdminIInv, TypesOK, SearchT
<1>2. CASE \E text \in People \cup {Blank} : TypeSearch(text)
  <2>1. UNCHANGED <<db, table, search>> /\ box'.inactive = box.inactive
    BY <1>1, <1>2 DEF TypeSearch, TypesOK
  <2> QED BY <2>1, SameFresh
<1>3. CASE PressEnter
  <2>1. searchUsersFromServer(box.text, box.inactive) /\ UNCHANGED <<db, box>>
    BY <1>3 DEF PressEnter
  <2>2. /\ search.asked # Blank => search.asked.inactive = box.inactive
        /\ \A i \in 1..Len(search.held) : \A r \in search.held[i] : Current(r)'
    BY <2>1 DEF Fresh, Current, Row
  <2> QED BY <1>1, <2>1, <2>2, StartFresh
<1>4. CASE ToggleInactive
  <2>1. Hasty(FALSE) /\ UNCHANGED events
    BY <1>4 DEF ToggleInactive
  <2>2. Quiet
    <3>1. haste \in Nat
      BY <1>1 DEF TypesOK
    <3> QED BY <2>1, <3>1, HastyClick DEF Careful
  <2>3. search.asked = Blank /\ search.held = <<>>
    BY <2>2 DEF Quiet
  <2>4. /\ table'.rows = {} /\ box'.inactive = ~box.inactive
        /\ search' = search \/ search' = [search EXCEPT !.asked = [text |-> box.text, inactive |-> ~box.inactive]]
    BY <1>4 DEF ToggleInactive
  <2>5. search'.held = <<>> /\ (search'.asked # Blank => search'.asked.inactive = box'.inactive)
    BY <1>1, <2>3, <2>4 DEF SearchT
  <2> QED BY <2>4, <2>5 DEF Fresh
<1>5. CASE SearchAnswered
  <2> DEFINE found == Found(search.asked)
  <2>1. /\ search.asked # Blank /\ UNCHANGED <<db, box, table>>
        /\ search' = [asked |-> Blank, held |-> Append(search.held, found)]
    BY <1>5 DEF SearchAnswered
  <2>2. search.asked \in [text : People, inactive : BOOLEAN] /\ search.asked.inactive = box.inactive
    BY <1>1, <2>1 DEF SearchT, Fresh
  <2>3. found \in SUBSET RowT /\ \A r \in found : Current(r)
    BY <1>1, <2>2, FoundIsKnown, FoundIsCurrent
  <2> HIDE DEF found
  <2>4. /\ Len(search.held) \in Nat
        /\ Len(Append(search.held, found)) = Len(search.held) + 1
        /\ \A i \in 1..Len(search.held) : Append(search.held, found)[i] = search.held[i]
        /\ Append(search.held, found)[Len(search.held) + 1] = found
    BY <1>1, <2>3, AppendProperties, LenProperties
  <2>5. \A i \in 1..Len(search'.held) : \A r \in search'.held[i] : Current(r)
    <3> SUFFICES ASSUME NEW i \in 1..(Len(search.held) + 1)
                 PROVE  \A r \in Append(search.held, found)[i] : Current(r)
      BY <2>1, <2>4
    <3>1. CASE i = Len(search.held) + 1
      BY <2>3, <2>4, <3>1
    <3>2. CASE i \in 1..Len(search.held)
      BY <2>4, <3>2 DEF Fresh
    <3> QED BY <2>4, <3>1, <3>2
  <2>6. /\ search'.asked = Blank
        /\ \A i \in 1..Len(search'.held) : \A r \in search'.held[i] : Current(r)'
        /\ \A r \in table'.rows : r.office # Blank => Current(r)'
    BY <2>1, <2>5 DEF Fresh, Current, Row
  <2> QED BY <2>6 DEF Fresh
<1>6. CASE SearchShown
  <2>1. /\ search.held # <<>> /\ search' = [search EXCEPT !.held = Tail(@)]
        /\ UNCHANGED <<db, box>>
    BY <1>6 DEF SearchShown
  <2>2. /\ Len(search.held) \in Nat /\ Len(search.held) > 0
        /\ Len(Tail(search.held)) = Len(search.held) - 1
        /\ \A i \in 1..Len(Tail(search.held)) : Tail(search.held)[i] = search.held[i + 1]
        /\ Head(search.held) = search.held[1]
    BY <1>1, <2>1, HeadTailProperties, LenProperties, EmptySeq
  <2>3. search'.held = Tail(search.held) /\ search'.asked = search.asked
    BY <1>1, <2>1 DEF SearchT
  <2>4. \A i \in 1..Len(search'.held) : \A r \in search'.held[i] : Current(r)
    <3> SUFFICES ASSUME NEW i \in 1..Len(Tail(search.held))
                 PROVE  \A r \in search.held[i + 1] : Current(r)
      BY <2>2, <2>3
    <3>1. i + 1 \in 1..Len(search.held)
      BY <2>2
    <3> QED BY <3>1 DEF Fresh
  <2>5. table'.rows = Head(search.held)
    <3>1. CASE Head(search.held) = {}
      BY <1>6, <3>1 DEF SearchShown
    <3>2. CASE Head(search.held) # {}
      BY <1>1, <1>6, <3>2 DEF SearchShown, TypesOK
    <3> QED BY <3>1, <3>2
  <2>6. \A r \in table'.rows : Current(r)
    <3>1. 1 \in 1..Len(search.held)
      BY <2>2
    <3> QED BY <2>2, <2>5, <3>1 DEF Fresh
  <2>7. /\ search'.asked # Blank => search'.asked.inactive = box'.inactive
        /\ \A i \in 1..Len(search'.held) : \A r \in search'.held[i] : Current(r)'
        /\ \A r \in table'.rows : Current(r)'
    BY <2>1, <2>3, <2>4, <2>6 DEF Fresh, Current, Row
  <2> QED BY <2>7 DEF Fresh
<1>7. CASE SearchFails
  <2>1. events' # 0
    BY <1>1, <1>7, FailureCounts DEF SearchFails, TypesOK
  <2> QED BY <2>1 DEF Careful
<1> QED BY <1>2, <1>3, <1>4, <1>5, <1>6, <1>7 DEF TableNext
\* An addition changes a user who is in no row; a saved edit empties the table.
LEMMA EndFresh ==
    ASSUME PageInv, Careful, Fresh, Careful', NEW t \in Tasks, EndInDialog(t)
    PROVE  Fresh'
<1>1. TypesOK /\ NobodyVanishes /\ ButtonTells /\ haste \in Nat /\ events \in Nat
  BY IInvParts DEF PageInv, CarefulOK, AdminIInv, TypesOK
<1>2. Len(search.held) = 0 /\ search.asked = Blank
  BY EndFrame, OneThing
<1>3. ~Event
  BY <1>1, FailureCounts DEF Careful
<1>4. CASE UserAdded(t)
  <2> DEFINE p == task[t].who
             new == [id |-> p, st |-> task[t].st, office |-> Blank]
  <2>1. /\ task[t].pc = "add" /\ UNCHANGED <<box, search>>
        /\ db' = [db EXCEPT ![p] = [st |-> "Active", office |-> task[t].office]]
        /\ table' = [table EXCEPT !.rows = @ \cup {new}]
    BY <1>4 DEF UserAdded, Upserted, insertUserRow
  <2>2. db[p].st = "none"
    BY <1>1, <2>1 DEF ButtonTells
  <2>3. new.office = Blank
    OBVIOUS
  <2> HIDE DEF new, p
  <2>4. \A r \in table'.rows : r.office # Blank => r \in table.rows
    BY <1>1, <2>1, <2>3 DEF TypesOK
  <2>5. ASSUME NEW r \in table.rows, r.office # Blank PROVE Current(r)'
    <3>1. Current(r) /\ r.id \in People /\ r.id # p
      BY <1>1, <2>2, <2>5 DEF Fresh, NobodyVanishes, Known
    <3>2. db'[r.id] = db[r.id]
      BY <1>1, <2>1, <3>1 DEF TypesOK
    <3> QED BY <2>1, <3>1, <3>2 DEF Current, Row
  <2> QED BY <1>2, <2>1, <2>4, <2>5 DEF Fresh
<1>5. CASE EditSaved(t)
  <2>1. reloadCurrentSearch /\ box' = box
    BY <1>5 DEF EditSaved
  <2> QED BY <1>1, <1>2, <2>1, StartFresh
<1>6. CASE SuggestionsAnswered(t) \/ ExistsAnswered(t) \/ EditRefused(t)
  <2>1. UNCHANGED <<db, box, table, search>>
    BY <1>6 DEF SuggestionsAnswered, ExistsAnswered, EditRefused
  <2> QED BY <2>1, SameFresh
<1>7. CASE \/ SuggestionsFail(t) \/ ExistsFails(t)
           \/ \E done \in BOOLEAN : AddFails(t, done) \/ EditFails(t, done)
  BY <1>3, <1>7 DEF SuggestionsFail, ExistsFails, AddFails, EditFails
<1> QED BY <1>4, <1>5, <1>6, <1>7 DEF EndInDialog

LEMMA DialogFresh ==
    ASSUME PageInv, Careful, Fresh, Careful', AddNext \/ EditNext
    PROVE  Fresh'
<1>1. TypesOK
  BY DEF PageInv, AdminIInv
<1>2. CASE OpenAdd \/ CloseAdd \/ CloseEdit \/ \E r \in table.rows : openEditUserModal(r)
  <2>1. UNCHANGED <<db, box, table, search>>
    BY <1>2 DEF OpenAdd, CloseAdd, CloseEdit, openEditUserModal
  <2> QED BY <2>1, SameFresh
<1>3. ASSUME NEW t \in Tasks, ClickInDialog(t) PROVE Fresh'
  <2>1. UNCHANGED <<db, box>> /\ (UNCHANGED <<table, search>> \/ reloadCurrentSearch)
    BY <1>3, ClickFrame
  <2>2. CASE UNCHANGED <<table, search>>
    BY <2>1, <2>2, SameFresh
  <2>3. CASE reloadCurrentSearch
    <3>1. /\ search.asked # Blank => search.asked.inactive = box.inactive
          /\ \A i \in 1..Len(search.held) : \A r \in search.held[i] : Current(r)'
      BY <2>1 DEF Fresh, Current, Row
    <3> QED BY <1>1, <2>1, <2>3, <3>1, StartFresh
  <2> QED BY <2>1, <2>2, <2>3
<1> QED BY <1>2, <1>3, EndFresh, DialogSteps

-----------------------------------------------------------------------------

\* One dialog is shown at a time: each is opened when none is.
LEMMA OneDialog ==
    ASSUME PageInv, AdminNext
    PROVE  ~(form.shown /\ edit.shown)'
<1>1. ~(form.shown /\ edit.shown) /\ form \in FormT /\ edit \in EditT
  BY DEF PageInv, AdminIInv, TypesOK
<1>2. CASE TableNext
  BY <1>1, <1>2 DEF TableNext, TypeSearch, PressEnter, ToggleInactive, SearchAnswered,
     SearchShown, SearchFails
<1>3. CASE OpenAdd \/ CloseAdd \/ CloseEdit \/ \E r \in table.rows : openEditUserModal(r)
  BY <1>1, <1>3, ClosedIsEdit DEF OpenAdd, CloseAdd, CloseEdit, openEditUserModal, NoDialog, FormT
<1>4. ASSUME NEW t \in Tasks, ClickInDialog(t) PROVE ~(form'.shown /\ edit'.shown)
  BY <1>1, <1>4, ClickFrame
<1>5. ASSUME NEW t \in Tasks, EndInDialog(t) PROVE ~(form'.shown /\ edit'.shown)
  BY <1>1, <1>5, EndFrame
<1> QED BY <1>2, <1>3, <1>4, <1>5, DialogSteps DEF AdminNext

\* What was careful is so no more, never the other way round.
LEMMA CarefulBefore ==
    ASSUME PageInv, AdminNext, Careful'
    PROVE  Careful
<1>1. haste \in Nat /\ events \in Nat /\ AdminIInv
  BY DEF PageInv, AdminIInv, TypesOK
<1>2. ASSUME NEW careless \in BOOLEAN, Hasty(careless), UNCHANGED events PROVE Careful
  BY <1>1, <1>2, CarefulClick
<1>3. ASSUME Event PROVE FALSE
  BY <1>1, <1>3, FailureCounts DEF Careful
<1>4. ASSUME UNCHANGED <<haste, events>> PROVE Careful
  BY <1>4 DEF Careful
<1>5. CASE TableNext
  BY <1>2, <1>3, <1>4, <1>5 DEF TableNext, TypeSearch, PressEnter, ToggleInactive, SearchAnswered,
     SearchShown, SearchFails
<1>6. CASE OpenAdd \/ CloseAdd \/ CloseEdit \/ \E r \in table.rows : openEditUserModal(r)
  BY <1>2, <1>4, <1>6 DEF OpenAdd, CloseAdd, CloseEdit, openEditUserModal
<1>7. ASSUME NEW t \in Tasks, ClickInDialog(t) PROVE Careful
  BY <1>2, <1>7, ClickFrame
<1>8. ASSUME NEW t \in Tasks, EndInDialog(t) PROVE Careful
  BY <1>3, <1>4, <1>8, EndFrame
<1> QED BY <1>5, <1>6, <1>7, <1>8, DialogSteps DEF AdminNext

LEMMA PageInit == AdminInit => PageInv
<1> SUFFICES ASSUME AdminInit PROVE PageInv
  OBVIOUS
<1>1. AdminIInv
  BY AdminInitIInv
<1>2. Quiet /\ Busy = {}
  BY DEF AdminInit, Quiet, Busy
<1>3. Load = 0 /\ IsFiniteSet(Busy)
  BY <1>2, QuietIsEmpty, FS_EmptySet
<1>4. Counted /\ Bounded
  BY <1>3, AdminAssumption DEF AdminInit, Counted, Bounded
<1>5. Fresh
  BY DEF AdminInit, Fresh
<1> QED BY <1>1, <1>4, <1>5 DEF PageInv, AdminInit

LEMMA PageNext == PageInv /\ [AdminNext]_adminVars => PageInv'
<1> SUFFICES ASSUME PageInv, [AdminNext]_adminVars PROVE PageInv'
  OBVIOUS
<1>1. CASE UNCHANGED adminVars
  <2>1. AdminIInv'
    BY <1>1, AdminNextIInv DEF PageInv
  <2>2. (Counted /\ Bounded /\ ~(form.shown /\ edit.shown))'
    BY <1>1 DEF adminVars, PageInv, Counted, Bounded, Load, Asking, Busy
  <2>3. (Careful => Fresh)'
    BY <1>1 DEF adminVars, PageInv, Careful, Fresh, Current, Row
  <2> QED BY <2>1, <2>2, <2>3 DEF PageInv
<1>2. CASE AdminNext
  <2>1. AdminIInv' /\ TypesOK'
    BY <1>2, AdminNextIInv DEF PageInv, AdminIInv
  <2>2. Counted' /\ Bounded'
    BY <1>2, <2>1, TableCounts, DialogCounts DEF AdminNext
  <2>3. ASSUME Careful' PROVE Fresh'
    <3>1. Careful /\ Fresh
      BY <1>2, <2>3, CarefulBefore DEF PageInv
    <3> QED BY <1>2, <2>3, <3>1, TableFresh, DialogFresh DEF AdminNext
  <2>4. (Careful => Fresh)'
    BY <2>3
  <2> QED BY <1>2, <2>1, <2>2, <2>4, OneDialog DEF PageInv
<1> QED BY <1>1, <1>2

\* The inductive invariant of the whole page, for any people, offices, requests and bounds.
THEOREM PageInvariant == AdminSpec => []PageInv
BY PageInit, PageNext, PTL DEF AdminSpec

\* Every variable keeps its type, one dialog is shown at a time, and the queue of
\* answers holds no more than the clicks that started searches.
THEOREM AdminTypeCorrect == AdminSpec => []AdminTypeOK
<1>1. PageInv => AdminTypeOK
  <2> SUFFICES ASSUME PageInv PROVE AdminTypeOK
    OBVIOUS
  <2>1. TypesOK /\ Counted /\ Bounded /\ ~(form.shown /\ edit.shown) /\ MaxHaste \in Nat
    BY AdminAssumption DEF PageInv, AdminIInv
  <2>2. /\ Len(search.held) \in Nat /\ Asking \in 0..1 /\ Cardinality(Busy) \in Nat
        /\ Len(search.held) + Asking + Cardinality(Busy) <= haste + 1
    BY <2>1, Numbers DEF Counted, Load
  <2>3. Len(search.held) <= MaxHaste + 1
    BY <2>1, <2>2 DEF Bounded
  <2>4. Rows = RowT
    BY DEF Rows, RowT
  <2> QED BY <2>1, <2>3, <2>4 DEF AdminTypeOK, TypesOK, UserT, SearchT, FormT, EditT, Bounded
<1> QED BY <1>1, PageInvariant, PTL

\* For a user who waits, and while nothing fails, a row that a search brought shows
\* its user as the database has it, through additions, edits and the toggle.
THEOREM RowsStayCurrent == AdminSpec => []RowsAreCurrent
<1>1. PageInv => RowsAreCurrent
  BY DEF PageInv, Careful, Fresh, Current, RowsAreCurrent
<1> QED BY <1>1, PageInvariant, PTL
=============================================================================
