--------------------------- MODULE SearchPageProofs -------------------------
(***************************************************************************)
(* The search page for every set of queries and searches, and any number   *)
(* of hasty actions and failures: its type invariant, that archived rows   *)
(* stay hidden once the first search is over, and that the registry and    *)
(* the table of a user who waits hold the answers of the server, as far as *)
(* the cap lets them in.                                                   *)
(***************************************************************************)
EXTENDS SearchPage, TLAPS

PageT == [query : Queries \cup {Blank}, box : BOOLEAN, archived : BOOLEAN, boot : BOOLEAN,
          type : Types \cup {""}, restored : BOOLEAN, fresh : BOOLEAN]
ViewT == [items : SUBSET Items, loaded : SUBSET {1, 2}, rows : SUBSET Items]
EntriesT == [Keys -> Entries \cup {None}]
SnapshotT == [q : Queries \cup {Blank}, type : Types \cup {""}, archived : BOOLEAN]
StoreT == [entries : EntriesT, saved : BOOLEAN, snapshot : SnapshotT \cup {None}]
TaskT == [pc : {"idle", "first", "rest"}, key : Keys \cup {None}, url : Keys \cup {None},
          cut : BOOLEAN, boot : BOOLEAN]

\* Only a page with a query is searched, and the search that ends the first
\* phase of a page is under way while that phase lasts.
TasksOK ==
    /\ task \in [Tasks -> TaskT]
    /\ \A t \in Tasks : /\ task[t].pc # "idle" => task[t].key \in Keys
                        /\ task[t].pc = "rest" => task[t].url \in Keys
                        /\ task[t].pc # "idle" => page.query \in Queries
    /\ page.boot => \E t \in Tasks : task[t].pc # "idle" /\ task[t].boot

\* The entry that shares the array of the working set is there.
SharedOK ==
    /\ shared \in Keys \cup {None}
    /\ shared # None => store.entries[shared] # None

SearchIInv ==
    /\ page \in PageT /\ view \in ViewT /\ store \in StoreT /\ spin \in BOOLEAN
    /\ haste \in 0..MaxHaste /\ events \in 0..MaxEvents
    /\ TasksOK
    /\ SharedOK
    /\ ArchivedStayHidden

-----------------------------------------------------------------------------
(* The operators the actions are built from.                               *)

\* The selection keeps within the items, and hides the archived ones.
LEMMA SelectedIsVisible ==
    ASSUME NEW items \in SUBSET Items, NEW archived \in BOOLEAN, NEW type
    PROVE  /\ Selected(items, archived, type) \subseteq items
           /\ ~archived => \A i \in Selected(items, archived, type) : ~isArchivedRow(i)
BY DEF Selected, Visible, Active

\* Rendering brings a page, a view and a store of the right types, a table
\* without archived rows when the toggle is off, and changes neither the toggle
\* nor the query of the page it is given.
LEMMA RenderIsSafe ==
    ASSUME NEW pg \in PageT, NEW items \in SUBSET Items, NEW loaded \in SUBSET {1, 2},
           NEW entries \in EntriesT, NEW saved \in BOOLEAN,
           Render(pg, items, loaded, entries, saved)
    PROVE  /\ page' \in PageT /\ view' \in ViewT /\ store' \in StoreT
           /\ page'.boot = pg.boot /\ page'.query = pg.query
           /\ ArchivedStayHidden'
<1> DEFINE after == [pg EXCEPT !.archived = pg.box, !.type = Facet(items, pg.box, @)]
<1>1. Facet(items, pg.box, pg.type) \in Types \cup {""}
  BY DEF Facet, PageT
<1>2. after \in PageT /\ after.box = pg.box /\ after.boot = pg.boot /\ after.query = pg.query
  BY <1>1 DEF PageT
<1>3. page' = after
  BY DEF Render
<1>4. Selected(items, pg.box, pg.type) \subseteq Items
  BY SelectedIsVisible DEF PageT
<1>5. view' \in ViewT /\ view'.rows = Selected(items, pg.box, pg.type)
  BY <1>4 DEF Render, ViewT
<1>6. Snapshot(after) \in SnapshotT
  BY <1>2 DEF Snapshot, SnapshotT, PageT
<1>7. store' \in StoreT
  BY <1>6 DEF Render, StoreT
<1>8. ~pg.box => \A i \in view'.rows : ~isArchivedRow(i)
  <2>1. pg.box \in BOOLEAN
    BY DEF PageT
  <2>2. ~pg.box => \A i \in Selected(items, pg.box, pg.type) : ~isArchivedRow(i)
    BY <2>1, SelectedIsVisible
  <2> QED BY <1>5, <2>2, Zenon
<1>9. page'.box = pg.box
  BY <1>2, <1>3
<1>10. ArchivedStayHidden'
  BY <1>8, <1>9, Zenon DEF ArchivedStayHidden
<1> QED BY <1>2, <1>3, <1>5, <1>7, <1>10

LEMMA ClearedIsPage ==
    ASSUME NEW pg \in PageT
    PROVE  /\ Cleared(pg) \in PageT
           /\ Cleared(pg).boot = pg.boot /\ Cleared(pg).query = pg.query
           /\ Cleared(pg).box = pg.box
BY DEF Cleared, PageT

LEMMA BootedIsPage ==
    ASSUME NEW pg \in PageT, NEW t \in Tasks, task \in [Tasks -> TaskT]
    PROVE  /\ Booted(t, pg) \in PageT
           /\ Booted(t, pg).boot = (pg.boot /\ ~task[t].boot)
           /\ Booted(t, pg).query = pg.query /\ Booted(t, pg).box = pg.box
BY DEF Booted, PageT, TaskT

LEMMA AnswerIsItems ==
    ASSUME NEW key, NEW number
    PROVE  Answer(key, number) \in SUBSET Items
BY DEF Answer

LEMMA VisibleIsItems ==
    ASSUME NEW items \in SUBSET Items, NEW archived
    PROVE  Visible(items, archived) \in SUBSET Items /\ Active(items) \in SUBSET Items
BY DEF Visible, Active

LEMMA HitIsEntry ==
    ASSUME NEW st \in StoreT, NEW key \in Keys, st.entries[key] # None
    PROVE  st.entries[key].items \in SUBSET Items /\ st.entries[key].loaded \in SUBSET {1, 2}
BY DEF StoreT, EntriesT, Entries

LEMMA EntryStored ==
    ASSUME NEW entries \in EntriesT, NEW key \in Keys,
           NEW items \in SUBSET Items, NEW loaded \in SUBSET {1, 2}
    PROVE  [entries EXCEPT ![key] = [items |-> items, loaded |-> loaded]] \in EntriesT
BY DEF EntriesT, Entries

LEMMA Unshared ==
    ASSUME shared' = None
    PROVE  SharedOK'
BY DEF SharedOK

LEMMA StillShared ==
    ASSUME SharedOK, shared' = shared, store'.entries = store.entries
    PROVE  SharedOK'
BY DEF SharedOK

LEMMA RenderKeepsEntries ==
    ASSUME NEW pg, NEW items, NEW loaded, NEW entries, NEW saved,
           Render(pg, items, loaded, entries, saved)
    PROVE  store'.entries = entries
BY DEF Render

LEMMA HastyTypes ==
    ASSUME haste \in 0..MaxHaste, Hasty
    PROVE  haste' \in 0..MaxHaste
BY SearchAssumption DEF Hasty

LEMMA EventTypes ==
    ASSUME events \in 0..MaxEvents, Event
    PROVE  events' \in 0..MaxEvents
BY SearchAssumption DEF Event

\* A search that starts keeps the invariant, and what is held back stays so.
LEMMA FetchIsSafe ==
    ASSUME NEW t \in Tasks, task[t] = Idle, TasksOK, spin \in BOOLEAN,
           NEW pg \in PageT, pg.query \in Queries, pg.boot = page.boot,
           NEW st \in StoreT, fetchInitial(t, pg, st)
    PROVE  /\ page' \in PageT /\ view' \in ViewT /\ store' \in StoreT /\ spin' \in BOOLEAN
           /\ TasksOK' /\ ArchivedStayHidden'
<1> DEFINE key == makeCacheKey(pg.query, pg.archived)
           now == [pg EXCEPT !.box = pg.archived]
           hit == st.entries[key]
<1>1. key \in Keys
  BY DEF makeCacheKey, Keys, PageT
<1>2. now \in PageT /\ now.query = pg.query /\ now.boot = page.boot
  BY DEF PageT
<1>3. CASE hit # None /\ hit.items # {}
  <2>2. /\ Cleared(now) \in PageT /\ Cleared(now).boot = page.boot
        /\ Cleared(now).query \in Queries
    BY <1>2, ClearedIsPage
  <2>3. hit.items \in SUBSET Items /\ hit.loaded \in SUBSET {1, 2}
    BY <1>1, <1>3, HitIsEntry
  <2>4. /\ Render(Cleared(now), hit.items, hit.loaded, st.entries, st.saved)
        /\ UNCHANGED <<spin, task>>
    BY <1>3 DEF fetchInitial
  <2>5. st.entries \in EntriesT /\ st.saved \in BOOLEAN
    BY DEF StoreT
  <2>6. /\ page' \in PageT /\ view' \in ViewT /\ store' \in StoreT
        /\ page'.boot = page.boot /\ page'.query \in Queries /\ ArchivedStayHidden'
    BY <2>2, <2>3, <2>4, <2>5, RenderIsSafe
  <2>7. TasksOK'
    BY <2>4, <2>6 DEF TasksOK
  <2> QED BY <2>4, <2>6, <2>7
<1>4. CASE ~(hit # None /\ hit.items # {})
  <2> DEFINE asked == [Idle EXCEPT !.pc = "first", !.key = key]
             cut(u) == task[u].cut \/ (task[u].pc = "first" /\ task[u].key = key)
  <2>1. /\ page' = now
        /\ view' = [items |-> {}, loaded |-> {}, rows |-> {}]
        /\ store' = st /\ spin' = TRUE
        /\ task' = [u \in Tasks |->
             IF u = t THEN asked ELSE [task[u] EXCEPT !.cut = cut(u)]]
    BY <1>4 DEF fetchInitial
  <2>2. page' \in PageT /\ page'.boot = page.boot /\ page'.query \in Queries
    BY <1>2, <2>1
  <2>3. view' \in ViewT /\ ArchivedStayHidden'
    BY <2>1 DEF ViewT, ArchivedStayHidden
  <2>4. asked \in TaskT /\ asked.pc = "first" /\ asked.key \in Keys
    BY <1>1 DEF Idle, TaskT
  <2>5. \A u \in Tasks : /\ [task[u] EXCEPT !.cut = cut(u)] \in TaskT
                         /\ [task[u] EXCEPT !.cut = cut(u)].pc = task[u].pc
                         /\ [task[u] EXCEPT !.cut = cut(u)].key = task[u].key
                         /\ [task[u] EXCEPT !.cut = cut(u)].url = task[u].url
                         /\ [task[u] EXCEPT !.cut = cut(u)].boot = task[u].boot
    BY ZenonT(60) DEF TasksOK, TaskT
  <2>6. task' \in [Tasks -> TaskT]
    BY <2>1, <2>4, <2>5
  <2>7. \A u \in Tasks : /\ task'[u].pc # "idle" => task'[u].key \in Keys
                         /\ task'[u].pc = "rest" => task'[u].url \in Keys
    BY <2>1, <2>4, <2>5 DEF TasksOK
  <2>8. ASSUME page'.boot
        PROVE  \E u \in Tasks : task'[u].pc # "idle" /\ task'[u].boot
    <3>1. PICK u \in Tasks : task[u].pc # "idle" /\ task[u].boot
      BY <2>2, <2>8 DEF TasksOK
    <3>2. u # t
      BY <3>1 DEF Idle
    <3>3. task'[u].pc = task[u].pc /\ task'[u].boot = task[u].boot
      BY <2>1, <2>5, <3>2
    <3> QED BY <3>1, <3>3
  <2>9. TasksOK'
    BY <2>2, <2>6, <2>7, <2>8 DEF TasksOK
  <2> QED BY <2>1, <2>2, <2>3, <2>9
<1> QED BY <1>3, <1>4

\* The search that ends releases the toggle if it was held back for it.
LEMMA EndOfSearch ==
    ASSUME NEW t \in Tasks, TasksOK, Finish(t),
           page'.query = page.query, page'.boot = (page.boot /\ ~task[t].boot)
    PROVE  TasksOK' /\ spin' \in BOOLEAN
<1>1. task' = [task EXCEPT ![t] = Idle] /\ spin' = FALSE
  BY DEF Finish
<1>2. Idle \in TaskT /\ Idle.pc = "idle"
  BY DEF Idle, TaskT
<1>3. task' \in [Tasks -> TaskT]
  BY <1>1, <1>2 DEF TasksOK
<1>4. \A u \in Tasks : /\ task'[u].pc # "idle" => task'[u].key \in Keys
                       /\ task'[u].pc = "rest" => task'[u].url \in Keys
                       /\ task'[u].pc # "idle" => page'.query \in Queries
  BY <1>1, <1>2 DEF TasksOK
<1>5. ASSUME page'.boot
      PROVE  \E u \in Tasks : task'[u].pc # "idle" /\ task'[u].boot
  <2>1. page.boot /\ ~task[t].boot
    BY <1>5
  <2>2. PICK u \in Tasks : task[u].pc # "idle" /\ task[u].boot
    BY <2>1 DEF TasksOK
  <2>3. u # t
    BY <2>1, <2>2
  <2>4. task'[u] = task[u]
    BY <1>1, <2>3 DEF TasksOK
  <2> QED BY <2>2, <2>4
<1> QED BY <1>1, <1>3, <1>4, <1>5 DEF TasksOK

\* A search that goes on with its second page holds back what it held back.
LEMMA RestOfSearch ==
    ASSUME NEW t \in Tasks, TasksOK, task[t].pc = "first", NEW url \in Keys,
           task' = [task EXCEPT ![t].pc = "rest", ![t].url = url],
           page'.query = page.query, page'.boot = page.boot
    PROVE  TasksOK'
<1> DEFINE now == [task[t] EXCEPT !.pc = "rest", !.url = url]
<1>1. /\ now \in TaskT /\ now.pc = "rest" /\ now.key = task[t].key
      /\ now.url = url /\ now.boot = task[t].boot
  BY DEF TasksOK, TaskT
<1>2. task' = [task EXCEPT ![t] = now]
  BY DEF TasksOK
<1> HIDE DEF now
<1>3. task' \in [Tasks -> TaskT]
  BY <1>1, <1>2 DEF TasksOK
<1>4. \A u \in Tasks : task'[u] = IF u = t THEN now ELSE task[u]
  BY <1>2 DEF TasksOK
<1>5. \A u \in Tasks : /\ task'[u].pc # "idle" => task'[u].key \in Keys
                       /\ task'[u].pc = "rest" => task'[u].url \in Keys
                       /\ task'[u].pc # "idle" => page'.query \in Queries
  BY <1>1, <1>4 DEF TasksOK
<1>6. ASSUME page'.boot
      PROVE  \E u \in Tasks : task'[u].pc # "idle" /\ task'[u].boot
  <2>1. PICK u \in Tasks : task[u].pc # "idle" /\ task[u].boot
    BY <1>6 DEF TasksOK
  <2> QED BY <1>1, <1>4, <2>1
<1> QED BY <1>3, <1>5, <1>6 DEF TasksOK

-----------------------------------------------------------------------------
(* The actions.                                                            *)

LEMMA FirstAnsweredIsSafe ==
    ASSUME SearchIInv, NEW t \in Tasks, NEW data \in SUBSET Items, FirstAnswered(t, data)
    PROVE  SearchIInv'
<1> DEFINE key    == task[t].key
           items  == Visible(data, page.archived)
           loaded == view.loaded \cup {1}
           stored == [store.entries EXCEPT ![key] = [items |-> items, loaded |-> loaded]]
           active == makeCacheKey(page.query, FALSE)
           seeded == IF page.archived /\ items # {} /\ stored[active] = None
                     THEN [stored EXCEPT ![active] = [items |-> Active(items), loaded |-> {}]]
                     ELSE stored
           pg     == IF page.fresh
                     THEN [page EXCEPT !.fresh = FALSE, !.type = Facet(items, page.archived, @)]
                     ELSE Cleared(page)
           more   == data # {} /\ Room(items) /\ PagesLeft(loaded) # {}
           shown  == IF more THEN pg ELSE Booted(t, pg)
<1>1. /\ task[t].pc = "first" /\ key \in Keys /\ page.query \in Queries
      /\ task \in [Tasks -> TaskT]
  BY DEF FirstAnswered, SearchIInv, TasksOK
<1>2. /\ Render(shown, items, loaded, seeded, store.saved)
      /\ IF more
         THEN /\ task' = [task EXCEPT ![t].pc = "rest",
                                      ![t].url = makeCacheKey(page.query, page.box)]
              /\ UNCHANGED spin
         ELSE Finish(t)
      /\ UNCHANGED <<haste, events>> /\ shared' = None
  BY DEF FirstAnswered
<1>3. items \in SUBSET Items /\ Active(items) \in SUBSET Items
  BY VisibleIsItems
<1>4. loaded \in SUBSET {1, 2} /\ {} \in SUBSET {1, 2}
  BY DEF SearchIInv, ViewT
<1>5. active \in Keys
  BY <1>1 DEF makeCacheKey, Keys
<1>6. stored \in EntriesT
  <2>1. store.entries \in EntriesT
    BY DEF SearchIInv, StoreT
  <2> QED BY <1>1, <1>3, <1>4, <2>1, EntryStored
<1>7. seeded \in EntriesT
  <2>1. [stored EXCEPT ![active] = [items |-> Active(items), loaded |-> {}]] \in EntriesT
    <3> HIDE DEF stored, active, items
    <3> QED BY <1>3, <1>4, <1>5, <1>6, EntryStored
  <2> QED BY <1>6, <2>1
<1>8. pg \in PageT /\ pg.boot = page.boot /\ pg.query = page.query
  <2>1. page \in PageT
    BY DEF SearchIInv
  <2>2. Facet(items, page.archived, page.type) \in Types \cup {""}
    BY <2>1 DEF Facet, PageT
  <2>3. CASE page.fresh
    BY <2>1, <2>2, <2>3 DEF PageT
  <2>4. CASE ~page.fresh
    BY <2>1, <2>4, ClearedIsPage
  <2> QED BY <2>3, <2>4
<1>9. /\ shown \in PageT /\ shown.query = page.query
      /\ shown.boot = IF more THEN page.boot ELSE page.boot /\ ~task[t].boot
  <2> HIDE DEF pg, more
  <2>1. CASE more
    BY <1>8, <2>1
  <2>2. CASE ~more
    BY <1>1, <1>8, <2>2, BootedIsPage
  <2> QED BY <2>1, <2>2
<1>10. store.saved \in BOOLEAN
  BY DEF SearchIInv, StoreT
<1> HIDE DEF key, items, loaded, stored, active, seeded, pg, more, shown
<1>11. /\ page' \in PageT /\ view' \in ViewT /\ store' \in StoreT
       /\ page'.boot = shown.boot /\ page'.query = page.query
       /\ ArchivedStayHidden'
  BY <1>2, <1>3, <1>4, <1>7, <1>9, <1>10, RenderIsSafe
<1>12. TasksOK' /\ spin' \in BOOLEAN
  <2>1. CASE more
    <3>1. makeCacheKey(page.query, page.box) \in Keys
      BY <1>1 DEF makeCacheKey, Keys, SearchIInv, PageT
    <3>2. TasksOK'
      BY <1>1, <1>2, <1>9, <1>11, <2>1, <3>1, RestOfSearch DEF SearchIInv
    <3> QED BY <1>2, <2>1, <3>2 DEF SearchIInv
  <2>2. CASE ~more
    BY <1>2, <1>9, <1>11, <2>2, EndOfSearch DEF SearchIInv
  <2> QED BY <2>1, <2>2
<1>13. SharedOK'
  BY <1>2, Unshared
<1> QED BY <1>2, <1>11, <1>12, <1>13 DEF SearchIInv

LEMMA FirstFailsIsSafe ==
    ASSUME SearchIInv, NEW t \in Tasks, FirstFails(t)
    PROVE  SearchIInv'
<1>1. Finish(t) /\ Event /\ UNCHANGED haste /\ shared' = None
  BY DEF FirstFails
<1>2. /\ page \in PageT /\ view \in ViewT /\ store \in StoreT /\ TasksOK
      /\ task \in [Tasks -> TaskT]
  BY DEF SearchIInv, TasksOK
<1>3. /\ Booted(t, page) \in PageT /\ Booted(t, page).query = page.query
      /\ Booted(t, page).boot = (page.boot /\ ~task[t].boot)
  BY <1>2, BootedIsPage
<1>4. /\ page' \in PageT /\ view' \in ViewT /\ store' \in StoreT /\ ArchivedStayHidden'
      /\ page'.query = page.query /\ page'.boot = (page.boot /\ ~task[t].boot)
  <2>1. CASE task[t].boot /\ page.restored
    <3>1. Render(Booted(t, page), {}, view.loaded, store.entries, store.saved)
      BY <2>1 DEF FirstFails
    <3>2. /\ {} \in SUBSET Items /\ view.loaded \in SUBSET {1, 2}
          /\ store.entries \in EntriesT /\ store.saved \in BOOLEAN
      BY <1>2 DEF ViewT, StoreT
    <3> QED BY <1>3, <3>1, <3>2, RenderIsSafe
  <2>2. CASE ~(task[t].boot /\ page.restored)
    <3>1. /\ page' = Booted(t, page) /\ UNCHANGED store
          /\ view' = [view EXCEPT !.items = {}, !.rows = {}]
      BY <2>2 DEF FirstFails
    <3>2. view' \in ViewT /\ view'.rows = {}
      BY <1>2, <3>1 DEF ViewT
    <3> QED BY <1>2, <1>3, <3>1, <3>2 DEF ArchivedStayHidden
  <2> QED BY <2>1, <2>2
<1>5. TasksOK' /\ spin' \in BOOLEAN
  BY <1>1, <1>2, <1>4, EndOfSearch
<1>6. events' \in 0..MaxEvents
  BY <1>1, EventTypes DEF SearchIInv
<1>7. SharedOK'
  BY <1>1, Unshared
<1> QED BY <1>1, <1>4, <1>5, <1>6, <1>7 DEF SearchIInv

LEMMA RestIsSafe ==
    ASSUME SearchIInv, NEW t \in Tasks, RestAnswered(t) \/ RestFails(t)
    PROVE  SearchIInv'
<1>1. /\ task[t].pc = "rest" /\ task[t].key \in Keys /\ task \in [Tasks -> TaskT]
      /\ page \in PageT /\ store.entries \in EntriesT /\ store.saved \in BOOLEAN
      /\ view.items \in SUBSET Items /\ view.loaded \in SUBSET {1, 2}
  BY DEF RestAnswered, RestFails, SearchIInv, TasksOK, StoreT, ViewT
<1>2. /\ Booted(t, page) \in PageT /\ Booted(t, page).query = page.query
      /\ Booted(t, page).boot = (page.boot /\ ~task[t].boot)
  BY <1>1, BootedIsPage
<1>3. /\ page' \in PageT /\ view' \in ViewT /\ store' \in StoreT
      /\ page'.boot = (page.boot /\ ~task[t].boot) /\ page'.query = page.query
      /\ ArchivedStayHidden' /\ SharedOK'
  <2>1. CASE RestAnswered(t)
    <3> DEFINE key    == task[t].key
               loaded == view.loaded \cup {2}
               items(added)  == view.items \cup added
               pushed(added) == IF shared = None THEN store.entries
                                ELSE [store.entries EXCEPT ![shared].items = items(added)]
               kept(added)   == [pushed(added) EXCEPT ![key] = [items |-> items(added), loaded |-> loaded]]
    <3>1. PICK added \in SUBSET Answer(task[t].url, 2) :
            /\ Render(Booted(t, page), items(added), loaded, kept(added), store.saved)
            /\ shared' = IF shared = key THEN None ELSE shared
      BY <2>1 DEF RestAnswered
    <3>2. items(added) \in SUBSET Items /\ loaded \in SUBSET {1, 2}
      BY <1>1, AnswerIsItems
    <3>3. /\ pushed(added) \in EntriesT
          /\ shared # None => shared \in Keys /\ pushed(added)[shared] # None
      <4>1. shared # None => shared \in Keys /\ store.entries[shared] \in Entries
        BY <1>1 DEF SearchIInv, SharedOK, EntriesT
      <4> HIDE DEF items
      <4>2. ASSUME shared # None
            PROVE  [store.entries[shared] EXCEPT !.items = items(added)] \in Entries
        BY <3>2, <4>1, <4>2 DEF Entries
      <4> QED BY <1>1, <4>1, <4>2, EntryAssumption DEF EntriesT
    <3> HIDE DEF items, loaded, pushed
    <3>4. kept(added) \in EntriesT
      BY <1>1, <3>2, <3>3, EntryStored
    <3>5. SharedOK'
      <4>1. shared' # None => shared' = shared /\ shared # key
        BY <3>1
      <4>2. store'.entries = kept(added)
        BY <3>1, RenderKeepsEntries
      <4>3. shared' # None => shared' \in Keys /\ kept(added)[shared'] # None
        BY <1>1, <3>3, <4>1 DEF EntriesT
      <4> QED BY <4>2, <4>3 DEF SharedOK
    <3> HIDE DEF kept
    <3> QED BY <1>1, <1>2, <3>1, <3>2, <3>4, <3>5, RenderIsSafe
  <2>2. CASE RestFails(t)
    <3>1. Render(Booted(t, page), view.items, view.loaded, store.entries, store.saved)
      BY <2>2 DEF RestFails
    <3>2. SharedOK'
      BY <2>2, <3>1, RenderKeepsEntries, StillShared DEF RestFails, SearchIInv
    <3> QED BY <1>1, <1>2, <3>1, <3>2, RenderIsSafe
  <2> QED BY <2>1, <2>2
<1>4. TasksOK' /\ spin' \in BOOLEAN
  <2>1. Finish(t)
    BY DEF RestAnswered, RestFails
  <2> QED BY <1>3, <2>1, EndOfSearch DEF SearchIInv
<1>5. haste' \in 0..MaxHaste /\ events' \in 0..MaxEvents
  BY EventTypes DEF RestAnswered, RestFails, SearchIInv
<1> QED BY <1>3, <1>4, <1>5 DEF SearchIInv

LEMMA LoadIsSafe ==
    ASSUME SearchIInv, NEW t \in Tasks, NEW q \in Queries, NEW reload \in BOOLEAN,
           Load(t, q, reload)
    PROVE  SearchIInv'
<1> DEFINE saved == reload /\ store.saved
           known == store.snapshot # None /\ store.snapshot.q = q
           snap  == IF known THEN store.snapshot
                    ELSE [q |-> q, type |-> "", archived |-> saved]
           pg    == [BlankPage EXCEPT !.query = q, !.box = snap.archived,
                                      !.archived = snap.archived, !.restored = known]
           key   == makeCacheKey(q, snap.archived)
           hit   == store.entries[key]
           first == [pc |-> "first", key |-> key, url |-> None, cut |-> FALSE, boot |-> TRUE]
<1>1. saved \in BOOLEAN /\ store.entries \in EntriesT /\ store \in StoreT
  BY DEF SearchIInv, StoreT
<1>2. snap \in SnapshotT
  BY <1>1 DEF SearchIInv, StoreT, SnapshotT, Types
<1>3. pg \in PageT /\ ~pg.boot /\ pg.query = q
  <2>1. snap.archived \in BOOLEAN
    BY <1>2 DEF SnapshotT
  <2> HIDE DEF snap
  <2> QED BY <2>1 DEF BlankPage, PageT, Types
<1>4. key \in Keys
  BY <1>2 DEF makeCacheKey, Keys, SnapshotT
<1>5. Event /\ UNCHANGED haste /\ shared' = None
  BY DEF Load
<1>6. haste' \in 0..MaxHaste /\ events' \in 0..MaxEvents /\ SharedOK'
  BY <1>5, EventTypes, Unshared DEF SearchIInv
<1>7. CASE hit # None
  <2> DEFINE shown == [pg EXCEPT !.type = snap.type]
  <2>1. /\ Render(shown, hit.items, hit.loaded, store.entries, saved)
        /\ spin' = FALSE /\ task' = [u \in Tasks |-> Idle]
    BY <1>7 DEF Load
  <2>2. hit.items \in SUBSET Items /\ hit.loaded \in SUBSET {1, 2}
    <3> HIDE DEF key
    <3> QED BY <1>1, <1>4, <1>7, HitIsEntry
  <2>3. shown \in PageT /\ ~shown.boot
    <3> HIDE DEF pg, snap
    <3> QED BY <1>2, <1>3 DEF PageT, SnapshotT
  <2> HIDE DEF pg, snap, hit, saved, shown
  <2>4. page' \in PageT /\ view' \in ViewT /\ store' \in StoreT /\ ~page'.boot
        /\ ArchivedStayHidden'
    BY <1>1, <2>1, <2>2, <2>3, RenderIsSafe
  <2>5. TasksOK'
    BY <2>1, <2>4 DEF TasksOK, TaskT, Idle
  <2> QED BY <1>6, <2>1, <2>4, <2>5 DEF SearchIInv
<1>8. CASE ~(hit # None)
  <2>1. /\ page' = [pg EXCEPT !.boot = TRUE]
        /\ view' = [items |-> {}, loaded |-> {}, rows |-> {}]
        /\ store' = [store EXCEPT !.saved = saved]
        /\ spin' = TRUE
        /\ task' = [u \in Tasks |-> IF u = t THEN first ELSE Idle]
    BY <1>8 DEF Load
  <2> HIDE DEF pg, saved, key
  <2>2. page' \in PageT /\ page'.query = q
    BY <1>3, <2>1 DEF PageT
  <2>3. view' \in ViewT /\ ArchivedStayHidden' /\ store' \in StoreT
    BY <1>1, <2>1 DEF ViewT, ArchivedStayHidden, StoreT
  <2>4. TasksOK'
    BY <1>4, <2>1, <2>2 DEF TasksOK, TaskT, Idle
  <2> QED BY <1>6, <2>1, <2>2, <2>3, <2>4 DEF SearchIInv
<1> QED BY <1>7, <1>8

LEMMA ToggleIsSafe ==
    ASSUME SearchIInv, NEW t \in Tasks, handleShowArchivedChanged(t)
    PROVE  SearchIInv'
<1> DEFINE next == ~page.box
           pg   == [page EXCEPT !.box = next, !.archived = next]
           key  == makeCacheKey(page.query, next)
           hit  == store.entries[key]
           derived == [items |-> Active(view.items), loaded |-> {}]
<1>1. /\ page.query \in Queries /\ ~page.boot /\ task[t] = Idle /\ Hasty
      /\ UNCHANGED events
  BY DEF handleShowArchivedChanged, SearchIInv, PageT
<1>2. /\ next \in BOOLEAN /\ key \in Keys /\ store.entries \in EntriesT /\ store \in StoreT
      /\ view.items \in SUBSET Items /\ Active(view.items) \in SUBSET Items
      /\ {} \in SUBSET {1, 2}
  BY <1>1, VisibleIsItems DEF SearchIInv, PageT, makeCacheKey, Keys, StoreT, ViewT
<1>3. pg \in PageT /\ ~pg.boot /\ pg.query = page.query
  BY <1>1, <1>2 DEF SearchIInv, PageT
<1>4. haste' \in 0..MaxHaste /\ events' \in 0..MaxEvents
  BY <1>1, HastyTypes DEF SearchIInv
<1>5. CASE /\ Render(Cleared(pg), hit.items, hit.loaded, store.entries, next)
           /\ hit # None /\ UNCHANGED <<spin, task>> /\ shared' = None
  <2> HIDE DEF pg, key, next
  <2>1. hit.items \in SUBSET Items /\ hit.loaded \in SUBSET {1, 2}
    BY <1>2, <1>5, HitIsEntry
  <2>2. Cleared(pg) \in PageT /\ ~Cleared(pg).boot /\ Cleared(pg).query = page.query
    BY <1>3, ClearedIsPage
  <2> HIDE DEF hit
  <2>3. /\ page' \in PageT /\ view' \in ViewT /\ store' \in StoreT
        /\ ~page'.boot /\ page'.query = page.query /\ ArchivedStayHidden'
    BY <1>2, <1>5, <2>1, <2>2, RenderIsSafe
  <2>4. TasksOK'
    BY <1>5, <2>3 DEF SearchIInv, TasksOK
  <2>5. SharedOK'
    BY <1>5, Unshared
  <2> QED BY <1>4, <1>5, <2>3, <2>4, <2>5 DEF SearchIInv
<1>6. CASE /\ Render([pg EXCEPT !.type = ""], derived.items, {},
                     [store.entries EXCEPT ![key] = derived], next)
           /\ UNCHANGED <<spin, task>> /\ shared' = key
  <2> DEFINE shown   == [pg EXCEPT !.type = ""]
             entries == [store.entries EXCEPT ![key] = derived]
  <2> HIDE DEF pg, key, next
  <2>1. entries \in EntriesT
    BY <1>2, EntryStored
  <2>6. entries[key] # None
    BY <1>2, EntryAssumption DEF Entries, EntriesT
  <2>2. shown \in PageT /\ ~shown.boot /\ shown.query = page.query
    BY <1>3 DEF PageT, Types
  <2>3. Render(shown, derived.items, {}, entries, next) /\ UNCHANGED <<spin, task>>
    BY <1>6
  <2> HIDE DEF shown, entries
  <2>4. /\ page' \in PageT /\ view' \in ViewT /\ store' \in StoreT
        /\ ~page'.boot /\ page'.query = page.query /\ ArchivedStayHidden'
    BY <1>2, <2>3, <2>1, <2>2, RenderIsSafe
  <2>5. TasksOK'
    BY <1>6, <2>4 DEF SearchIInv, TasksOK
  <2>7. SharedOK'
    BY <1>2, <1>6, <2>3, <2>6, RenderKeepsEntries DEF SharedOK
  <2> QED BY <1>4, <1>6, <2>4, <2>5, <2>7 DEF SearchIInv
<1>7. CASE fetchInitial(t, pg, [store EXCEPT !.saved = next, !.snapshot = Snapshot(pg)])
  <2> HIDE DEF pg, next
  <2>1. [store EXCEPT !.saved = next, !.snapshot = Snapshot(pg)] \in StoreT
    BY <1>2, <1>3 DEF StoreT, Snapshot, SnapshotT, PageT
  <2>2. pg.query \in Queries /\ pg.boot = page.boot /\ spin \in BOOLEAN /\ TasksOK
    BY <1>1, <1>3 DEF SearchIInv, PageT
  <2>3. /\ page' \in PageT /\ view' \in ViewT /\ store' \in StoreT /\ spin' \in BOOLEAN
        /\ TasksOK' /\ ArchivedStayHidden'
    BY <1>1, <1>3, <1>7, <2>1, <2>2, FetchIsSafe
  <2>4. SharedOK'
    BY <1>7, Unshared DEF fetchInitial
  <2> QED BY <1>4, <2>3, <2>4 DEF SearchIInv
<1> QED BY <1>5, <1>6, <1>7 DEF handleShowArchivedChanged

LEMMA RefreshIsSafe ==
    ASSUME SearchIInv, NEW t \in Tasks, NEW q \in Queries, refreshQuery(t, q)
    PROVE  SearchIInv'
<1> DEFINE pg == [resetAllFiltersAndState(page) EXCEPT !.query = q, !.fresh = TRUE]
           st == [store EXCEPT !.saved = FALSE, !.snapshot = None]
<1>1. task[t] = Idle /\ Hasty /\ UNCHANGED events /\ fetchInitial(t, pg, st)
  BY DEF refreshQuery
<1>2. pg \in PageT /\ pg.query \in Queries /\ pg.boot = page.boot
  BY DEF SearchIInv, PageT, BlankPage, Types, resetAllFiltersAndState
<1>3. st \in StoreT
  BY DEF SearchIInv, StoreT
<1>4. haste' \in 0..MaxHaste /\ events' \in 0..MaxEvents
  BY <1>1, HastyTypes DEF SearchIInv
<1> HIDE DEF pg, st
<1>5. /\ page' \in PageT /\ view' \in ViewT /\ store' \in StoreT /\ spin' \in BOOLEAN
      /\ TasksOK' /\ ArchivedStayHidden'
  BY <1>1, <1>2, <1>3, FetchIsSafe DEF SearchIInv
<1>6. SharedOK'
  BY <1>1, Unshared DEF fetchInitial
<1> QED BY <1>4, <1>5, <1>6 DEF SearchIInv

LEMMA ChooseTypeIsSafe ==
    ASSUME SearchIInv, NEW type \in Types \cup {""}, ChooseType(type)
    PROVE  SearchIInv'
<1> DEFINE pg == [page EXCEPT !.type = type]
<1>1. /\ Render(pg, view.items, view.loaded, store.entries, store.saved)
      /\ Hasty /\ UNCHANGED <<shared, spin, task, events>>
  BY DEF ChooseType
<1>2. pg \in PageT /\ pg.boot = page.boot /\ pg.query = page.query
  BY DEF SearchIInv, PageT
<1>3. /\ view.items \in SUBSET Items /\ view.loaded \in SUBSET {1, 2}
      /\ store.entries \in EntriesT /\ store.saved \in BOOLEAN
  BY DEF SearchIInv, ViewT, StoreT
<1> HIDE DEF pg
<1>4. /\ page' \in PageT /\ view' \in ViewT /\ store' \in StoreT
      /\ page'.boot = page.boot /\ page'.query = page.query /\ ArchivedStayHidden'
  <2>1. Render(pg, view.items, view.loaded, store.entries, store.saved)
    BY <1>1
  <2>2. /\ page' \in PageT /\ view' \in ViewT /\ store' \in StoreT
        /\ page'.boot = pg.boot /\ page'.query = pg.query /\ ArchivedStayHidden'
    BY <1>2, <1>3, <2>1, RenderIsSafe
  <2> QED BY <1>2, <2>2
<1>5. TasksOK'
  BY <1>1, <1>4 DEF SearchIInv, TasksOK
<1>6. haste' \in 0..MaxHaste
  BY <1>1, HastyTypes DEF SearchIInv
<1>7. SharedOK'
  BY <1>1, RenderKeepsEntries, StillShared DEF SearchIInv
<1> QED BY <1>1, <1>4, <1>5, <1>6, <1>7 DEF SearchIInv

-----------------------------------------------------------------------------

LEMMA SearchInitIInv == SearchInit => SearchIInv
<1> SUFFICES ASSUME SearchInit PROVE SearchIInv
  OBVIOUS
<1>1. page \in PageT /\ ~page.boot
  BY DEF SearchInit, BlankPage, PageT, Types
<1>2. view \in ViewT /\ ArchivedStayHidden
  BY DEF SearchInit, ViewT, ArchivedStayHidden
<1>3. store \in StoreT
  BY DEF SearchInit, NoStore, StoreT, EntriesT
<1>4. TasksOK
  BY <1>1 DEF SearchInit, TasksOK, Idle, TaskT
<1>5. haste \in 0..MaxHaste /\ events \in 0..MaxEvents
  BY SearchAssumption DEF SearchInit
<1>6. spin \in BOOLEAN
  BY Zenon DEF SearchInit
<1>7. SharedOK
  BY DEF SearchInit, SharedOK
<1> QED BY <1>1, <1>2, <1>3, <1>4, <1>5, <1>6, <1>7 DEF SearchIInv

LEMMA SearchNextIInv == SearchIInv /\ [SearchNext]_searchVars => SearchIInv'
<1> SUFFICES ASSUME SearchIInv, [SearchNext]_searchVars PROVE SearchIInv'
  OBVIOUS
<1>1. ASSUME NEW t \in Tasks, NEW q \in Queries, refreshQuery(t, q) PROVE SearchIInv'
  BY <1>1, RefreshIsSafe
<1>2. ASSUME NEW t \in Tasks, handleShowArchivedChanged(t) PROVE SearchIInv'
  BY <1>2, ToggleIsSafe
<1>3. ASSUME NEW t \in Tasks, Search(t) PROVE SearchIInv'
  <2>1. CASE FirstAnswered(t, Answer(task[t].key, 1))
    BY <2>1, AnswerIsItems, FirstAnsweredIsSafe
  <2>2. CASE FirstAborted(t)
    <3>1. FirstAnswered(t, {}) /\ {} \in SUBSET Items
      BY <2>2 DEF FirstAborted
    <3> QED BY <3>1, FirstAnsweredIsSafe
  <2>3. CASE FirstFails(t)
    BY <2>3, FirstFailsIsSafe
  <2>4. CASE RestAnswered(t) \/ RestFails(t)
    BY <2>4, RestIsSafe
  <2> QED BY <1>3, <2>1, <2>2, <2>3, <2>4 DEF Search
<1>4. ASSUME NEW t \in Tasks, Reload(t) PROVE SearchIInv'
  <2>1. page.query \in Queries /\ Load(t, page.query, TRUE)
    BY <1>4 DEF Reload, SearchIInv, PageT
  <2> QED BY <2>1, LoadIsSafe
<1>5. ASSUME NEW t \in Tasks, Visit(t) PROVE SearchIInv'
  BY <1>5, LoadIsSafe DEF Visit
<1>6. CASE ToggleDuringBoot
  <2>1. /\ page.boot /\ Hasty /\ page' = [page EXCEPT !.box = ~@]
        /\ UNCHANGED <<view, shared, store, spin, task, events>>
    BY <1>6 DEF ToggleDuringBoot
  <2>2. page' \in PageT /\ page'.boot = page.boot /\ page'.query = page.query
    BY <2>1 DEF SearchIInv, PageT
  <2>3. ArchivedStayHidden'
    BY <2>1, <2>2 DEF ArchivedStayHidden
  <2>4. TasksOK'
    BY <2>1, <2>2 DEF SearchIInv, TasksOK
  <2>5. haste' \in 0..MaxHaste
    BY <2>1, HastyTypes DEF SearchIInv
  <2>6. SharedOK'
    BY <2>1, StillShared DEF SearchIInv
  <2> QED BY <2>1, <2>2, <2>3, <2>4, <2>5, <2>6 DEF SearchIInv
<1>7. ASSUME NEW type \in Types \cup {""}, ChooseType(type) PROVE SearchIInv'
  BY <1>7, ChooseTypeIsSafe
<1>8. CASE Expire
  <2>1. /\ Event /\ UNCHANGED <<page, view, spin, task, haste>>
        /\ \E k \in Keys : /\ store' = [store EXCEPT !.entries[k] = None]
                           /\ shared' = IF shared = k THEN None ELSE shared
    BY <1>8 DEF Expire
  <2>2. store' \in StoreT
    BY <2>1 DEF SearchIInv, StoreT, EntriesT
  <2>3. TasksOK' /\ ArchivedStayHidden'
    BY <2>1 DEF SearchIInv, TasksOK, ArchivedStayHidden
  <2>4. events' \in 0..MaxEvents
    BY <2>1, EventTypes DEF SearchIInv
  <2>5. SharedOK'
    BY <2>1 DEF SearchIInv, StoreT, EntriesT, SharedOK
  <2> QED BY <2>1, <2>2, <2>3, <2>4, <2>5 DEF SearchIInv
<1>9. CASE UNCHANGED searchVars
  BY <1>9 DEF searchVars, SearchIInv, TasksOK, SharedOK, ArchivedStayHidden
<1> QED BY <1>1, <1>2, <1>3, <1>4, <1>5, <1>6, <1>7, <1>8, <1>9 DEF SearchNext

LEMMA SearchInvariant == SearchSpec => []SearchIInv
BY SearchInitIInv, SearchNextIInv, PTL DEF SearchSpec

\* The types of the page, its view, its store and its counters hold in every
\* behaviour, and the toggle is held back only while a search is under way.
THEOREM SearchTypeCorrect == SearchSpec => []SearchTypeOK
<1>1. SearchIInv => SearchTypeOK
  BY DEF SearchIInv, SearchTypeOK, PageT, ViewT, StoreT, EntriesT, TasksOK, SharedOK
<1> QED BY <1>1, SearchInvariant, PTL

\* "Absolute rule": whatever is clicked, fails, expires or is loaded in between,
\* no archived row is in the table when the toggle is off and the first search
\* of the page is over.
THEOREM ArchivedRowsStayHidden == SearchSpec => []ArchivedStayHidden
<1>1. SearchIInv => ArchivedStayHidden
  BY DEF SearchIInv
<1> QED BY <1>1, SearchInvariant, PTL
-----------------------------------------------------------------------------
(* A user who waits: one search is under way at a time.                     *)

NowKey     == makeCacheKey(page.query, page.archived)
Whole(key) == Answer(key, 1) \cup Answer(key, 2)

\* The whole answer for a key, or as much of it as the cap lets in.
UpTo(items, key) == items \subseteq Whole(key) /\ (items = Whole(key) \/ ~Room(items))

\* The search under way was asked for what the page shows, and the working set
\* and the registry hold nothing the server does not answer.
Waiting ==
    /\ page.box = page.archived
    /\ \A t, u \in Tasks : task[t].pc # "idle" /\ task[u].pc # "idle" => t = u
    /\ \A t \in Tasks : task[t].pc = "idle" => task[t] = Idle
    /\ \A t \in Tasks : task[t].pc # "idle" => task[t].key = NowKey /\ ~task[t].cut
    /\ \A t \in Tasks : task[t].pc = "rest" => task[t].url = NowKey
    /\ \A t \in Tasks : task[t].pc = "first" => view.items = {} /\ view.loaded = {}
    /\ \A t \in Tasks : task[t].pc = "rest" => view.items = Answer(NowKey, 1)
    /\ \A t \in Tasks : task[t].pc # "idle" => shared = None
    /\ view.items \subseteq Whole(NowKey)
    /\ \A k \in Keys : store.entries[k] # None => store.entries[k].items \subseteq Whole(k)

\* A filter that selects nothing visible would leave the table empty once.
TypeShown == page.type = "" \/ \E i \in Visible(view.items, page.box) : TypeOf(i) = page.type

\* And with nothing failed, expired or left: an entry is whole, up to the cap, unless
\* its search loads the rest, the answer without archived rows is stored before the one with
\* them is asked for, and what is shown in the end is whole.
Untroubled ==
    /\ ~page.restored
    /\ \A k \in Keys : store.entries[k] # None =>
          UpTo(store.entries[k].items, k) \/ \E t \in Tasks : task[t].pc = "rest" /\ task[t].key = k
    /\ page.archived /\ page.query # Blank => store.entries[makeCacheKey(page.query, FALSE)] # None
    /\ page.query # Blank /\ Quiet =>
          /\ store.entries[NowKey] # None /\ UpTo(view.items, NowKey)
          /\ view.rows = Selected(view.items, page.box, page.type)
    /\ \A t \in Tasks : task[t].pc = "rest" => TypeShown

WaitInv == /\ SearchIInv
           /\ haste = 0 => Waiting
           /\ haste = 0 /\ events = 0 => Untroubled
-----------------------------------------------------------------------------
(* Answers, and what rendering does to the page of such a user.             *)

\* Without the toggle an answer has no archived rows; with it, all are visible.
LEMMA AnswerIsVisible ==
    ASSUME NEW q \in Queries, NEW archived \in BOOLEAN, NEW number
    PROVE  LET key == makeCacheKey(q, archived)
           IN  /\ Visible(Answer(key, number), archived) = Answer(key, number)
               /\ \A i \in Answer(key, 1) : ~isArchivedRow(i) => i \in Answer(makeCacheKey(q, FALSE), 1)
               /\ \A i \in Answer(key, 2) : ~isArchivedRow(i) => i \in Answer(makeCacheKey(q, FALSE), 2)
<1>1. makeCacheKey(q, archived)[2] = archived /\ makeCacheKey(q, archived)[1] = q
  BY DEF makeCacheKey
<1>2. makeCacheKey(q, FALSE)[1] = q
  BY DEF makeCacheKey
<1> QED BY <1>1, <1>2 DEF Visible, Active, Answer

LEMMA AnswerIsNotEmpty ==
    ASSUME NEW key \in Keys
    PROVE  Answer(key, 1) # {}
<1>1. key[1] \in Queries
  BY DEF Keys
<1>2. <<key[1], "desk">> \in Items
  BY <1>1 DEF Items, Kinds
<1>3. <<key[1], "desk">>[1] = key[1] /\ <<key[1], "desk">>[2] = "desk"
  OBVIOUS
<1>4. <<key[1], "desk">> \in Answer(key, 1)
  BY <1>2, <1>3 DEF Answer, isArchivedRow
<1> QED BY <1>4

LEMMA ActiveIsAnswer ==
    ASSUME NEW q \in Queries, NEW archived \in BOOLEAN,
           NEW items \in SUBSET Whole(makeCacheKey(q, archived))
    PROVE  Active(items) \subseteq Whole(makeCacheKey(q, FALSE))
BY AnswerIsVisible DEF Active, Whole

LEMMA WholeIsItems ==
    ASSUME NEW key
    PROVE  Whole(key) \in SUBSET Items
BY AnswerIsItems DEF Whole

\* Rendering, field by field.  Afterwards the filter selects something or nothing
\* is filtered; where it did so before, it stays and the table is what it selects.
LEMMA RenderShows ==
    ASSUME NEW pg \in PageT, NEW items \in SUBSET Items, NEW loaded, NEW entries, NEW saved,
           Render(pg, items, loaded, entries, saved)
    PROVE  /\ page'.query = pg.query /\ page'.box = pg.box /\ page'.archived = pg.box
           /\ page'.restored = pg.restored
           /\ view'.items = items /\ view'.loaded = loaded
           /\ store'.entries = entries
           /\ TypeShown'
           /\ \/ pg.type = ""
              \/ \E i \in Visible(items, pg.box) : TypeOf(i) = pg.type
              => view'.rows = Selected(view'.items, page'.box, page'.type)
<1> DEFINE type == Facet(items, pg.box, pg.type)
<1>1. /\ page' = [pg EXCEPT !.archived = pg.box, !.type = type]
      /\ view' = [items |-> items, loaded |-> loaded, rows |-> Selected(items, pg.box, pg.type)]
      /\ store'.entries = entries
  BY DEF Render
<1>2. type = "" \/ (type = pg.type /\ \E i \in Visible(items, pg.box) : TypeOf(i) = type)
  BY DEF Facet
<1>3. pg.type = "" \/ (\E i \in Visible(items, pg.box) : TypeOf(i) = pg.type) => type = pg.type
  BY DEF Facet, TypeOf
<1> HIDE DEF type
<1>4. /\ page'.query = pg.query /\ page'.box = pg.box /\ page'.archived = pg.box
      /\ page'.restored = pg.restored /\ page'.type = type
  BY <1>1 DEF PageT
<1>5. view'.items = items /\ view'.loaded = loaded /\ view'.rows = Selected(items, pg.box, pg.type)
  BY <1>1
<1>6. TypeShown'
  BY <1>2, <1>4, <1>5 DEF TypeShown
<1> QED BY <1>1, <1>3, <1>4, <1>5, <1>6

LEMMA IdleFields == Idle.pc = "idle" /\ Idle.cut = FALSE
BY DEF Idle

\* A page that is rendered with nothing under way.
LEMMA RenderWaits ==
    ASSUME NEW pg \in PageT, NEW items \in SUBSET Items, NEW loaded, NEW entries, NEW saved,
           Render(pg, items, loaded, entries, saved),
           \A t \in Tasks : task'[t] = Idle,
           items \subseteq Whole(makeCacheKey(pg.query, pg.box)),
           \A k \in Keys : entries[k] # None => entries[k].items \subseteq Whole(k)
    PROVE  Waiting'
<1>1. \A t \in Tasks : task'[t] = Idle /\ task'[t].pc = "idle"
  BY IdleFields
<1>2. /\ page'.query = pg.query /\ page'.box = pg.box /\ page'.archived = pg.box
      /\ view'.items = items /\ store'.entries = entries
  BY ZenonT(60), RenderShows
<1>3. NowKey' = makeCacheKey(pg.query, pg.box)
  BY <1>2 DEF NowKey, makeCacheKey
<1> QED BY <1>1, <1>2, <1>3 DEF Waiting

LEMMA RenderUntroubled ==
    ASSUME NEW pg \in PageT, NEW items \in SUBSET Items, NEW loaded, NEW entries, NEW saved,
           Render(pg, items, loaded, entries, saved),
           \A t \in Tasks : task'[t] = Idle,
           ~pg.restored, pg.query \in Queries,
           \A k \in Keys : entries[k] # None => UpTo(entries[k].items, k),
           pg.box => entries[makeCacheKey(pg.query, FALSE)] # None,
           entries[makeCacheKey(pg.query, pg.box)] # None,
           UpTo(items, makeCacheKey(pg.query, pg.box)),
           pg.type = "" \/ \E i \in Visible(items, pg.box) : TypeOf(i) = pg.type
    PROVE  Untroubled'
<1>1. \A t \in Tasks : task'[t] = Idle /\ task'[t].pc = "idle"
  BY IdleFields
<1>2. /\ page'.query = pg.query /\ page'.box = pg.box /\ page'.archived = pg.box
      /\ page'.restored = pg.restored
      /\ view'.items = items /\ store'.entries = entries
      /\ view'.rows = Selected(view'.items, page'.box, page'.type)
  BY ZenonT(60), RenderShows
<1>3. NowKey' = makeCacheKey(pg.query, pg.box)
  BY <1>2 DEF NowKey, makeCacheKey
<1> QED BY <1>1, <1>2, <1>3 DEF Untroubled

LEMMA QuietTasks ==
    ASSUME Quiet, NEW t \in Tasks
    PROVE  task[t] = Idle /\ task[t].pc = "idle"
BY IdleFields DEF Quiet

\* A click that is not hasty.
LEMMA PatientClick ==
    ASSUME haste \in 0..MaxHaste, Hasty, haste' = 0
    PROVE  haste = 0 /\ Quiet
BY SearchAssumption DEF Hasty

LEMMA EventHappened ==
    ASSUME events \in 0..MaxEvents, Event
    PROVE  events' # 0
BY SearchAssumption DEF Event
-----------------------------------------------------------------------------
(* The steps of a user who waits.                                           *)

LEMMA InvTypes ==
    ASSUME WaitInv
    PROVE  /\ page \in PageT /\ view.items \in SUBSET Items /\ view.loaded \in SUBSET {1, 2}
           /\ store \in StoreT /\ store.entries \in EntriesT /\ TasksOK
           /\ haste \in 0..MaxHaste /\ events \in 0..MaxEvents
BY DEF WaitInv, SearchIInv, ViewT, StoreT

\* fetchInitial, with a store that was reset or not.
LEMMA FetchWaits ==
    ASSUME TasksOK, Quiet, NEW t \in Tasks, NEW pg \in PageT, pg.query \in Queries,
           NEW st \in StoreT, fetchInitial(t, pg, st),
           \A k \in Keys : st.entries[k] # None => st.entries[k].items \subseteq Whole(k)
    PROVE  /\ Waiting'
           /\ /\ ~pg.restored
              /\ \A k \in Keys : st.entries[k] # None => UpTo(st.entries[k].items, k)
              /\ pg.archived => st.entries[makeCacheKey(pg.query, FALSE)] # None
              => Untroubled'
<1> DEFINE key == makeCacheKey(pg.query, pg.archived)
           hit == st.entries[key]
           now == [pg EXCEPT !.box = pg.archived]
<1>1. key \in Keys
  BY DEF makeCacheKey, Keys, PageT
<1>2. /\ now \in PageT /\ now.query = pg.query /\ now.box = pg.archived
      /\ now.archived = pg.archived /\ now.restored = pg.restored
  BY DEF PageT
<1>3. CASE hit # None /\ hit.items # {}
  <2>1. /\ Render(Cleared(now), hit.items, hit.loaded, st.entries, st.saved)
        /\ UNCHANGED <<spin, task>>
    BY <1>3 DEF fetchInitial
  <2>2. /\ Cleared(now) \in PageT /\ Cleared(now).query = pg.query
        /\ Cleared(now).box = pg.archived
    BY <1>2, ClearedIsPage
  <2>3. /\ Cleared(now).restored = pg.restored
        /\ ~pg.restored => Cleared(now).type = ""
    BY <1>2 DEF Cleared, PageT
  <2>4. \A u \in Tasks : task'[u] = Idle
    BY <2>1, QuietTasks
  <2>5. hit.items \in SUBSET Items
    BY <1>1, <1>3, HitIsEntry
  <2>6. hit.items \subseteq Whole(key)
    BY <1>1, <1>3
  <2> DEFINE shown == Cleared(now)
             items == hit.items
             loaded == hit.loaded
             entries == st.entries
             saved == st.saved
  <2>7. entries[key] # None
    BY <1>3
  <2>9. /\ Render(shown, items, loaded, entries, saved) /\ shown \in PageT
        /\ shown.query = pg.query /\ shown.box = pg.archived
        /\ shown.restored = pg.restored /\ (~pg.restored => shown.type = "")
        /\ items \in SUBSET Items /\ items \subseteq Whole(makeCacheKey(shown.query, shown.box))
        /\ \A k \in Keys : entries[k] # None => entries[k].items \subseteq Whole(k)
    BY <2>1, <2>2, <2>3, <2>5, <2>6
  <2>10. (\A k \in Keys : entries[k] # None => UpTo(entries[k].items, k)) => UpTo(items, key)
    BY <1>1, <1>3
  <2> HIDE DEF shown, items, loaded, saved, hit
  <2>11. Waiting'
    BY <2>4, <2>9, RenderWaits
  <2>12. ASSUME /\ ~pg.restored
                /\ \A k \in Keys : entries[k] # None => UpTo(entries[k].items, k)
                /\ pg.archived => entries[makeCacheKey(pg.query, FALSE)] # None
         PROVE  Untroubled'
    <3>1. UpTo(items, makeCacheKey(shown.query, shown.box))
      BY <2>9, <2>10, <2>12
    <3>2. shown.query \in Queries /\ ~shown.restored /\ shown.type = ""
      BY <2>9, <2>12
    <3>3. /\ shown.box => entries[makeCacheKey(shown.query, FALSE)] # None
          /\ entries[makeCacheKey(shown.query, shown.box)] # None
      BY <2>7, <2>9, <2>12
    <3> HIDE DEF entries, key
    <3> QED BY <2>4, <2>9, <2>12, <3>1, <3>2, <3>3, RenderUntroubled
  <2> QED BY <2>11, <2>12
<1>4. CASE ~(hit # None /\ hit.items # {})
  <2> DEFINE asked == [Idle EXCEPT !.pc = "first", !.key = key]
  <2>1. /\ page' = now
        /\ view' = [items |-> {}, loaded |-> {}, rows |-> {}]
        /\ store' = st /\ shared' = None
        /\ task' = [u \in Tasks |->
             IF u = t THEN asked
             ELSE [task[u] EXCEPT !.cut = @ \/ (task[u].pc = "first" /\ task[u].key = key)]]
    BY <1>4 DEF fetchInitial
  <2>2. asked.pc = "first" /\ asked.key = key /\ ~asked.cut
    BY DEF Idle
  <2>3. [Idle EXCEPT !.cut = @ \/ (Idle.pc = "first" /\ Idle.key = key)] = Idle
    <3>1. (Idle.cut \/ (Idle.pc = "first" /\ Idle.key = key)) = FALSE
      BY IdleFields
    <3>2. [Idle EXCEPT !.cut = FALSE] = Idle
      <4>1. ASSUME NEW r \in TaskT, r.cut = FALSE PROVE [r EXCEPT !.cut = FALSE] = r
        BY <4>1 DEF TaskT
      <4>2. Idle \in TaskT /\ Idle.cut = FALSE
        BY DEF Idle, TaskT
      <4> QED BY <4>1, <4>2, Zenon
    <3> QED BY <3>1, <3>2, Zenon
  <2>4. \A u \in Tasks : task'[u] = IF u = t THEN asked ELSE Idle
    <3> HIDE DEF asked
    <3> QED BY <2>1, <2>3 DEF Quiet
  <2>5. \A u \in Tasks : /\ u # t => task'[u] = Idle /\ task'[u].pc = "idle"
                         /\ u = t => task'[u].pc = "first" /\ task'[u].key = key /\ ~task'[u].cut
    BY <2>2, <2>4, IdleFields
  <2>6. NowKey' = key /\ page'.box = page'.archived /\ page'.restored = pg.restored
        /\ page'.archived = pg.archived /\ page'.query = pg.query
    BY <1>2, <2>1 DEF NowKey, makeCacheKey
  <2>7. view'.items = {} /\ view'.loaded = {} /\ store' = st /\ shared' = None
    BY <2>1
  <2> HIDE DEF asked, key, hit, now
  <2>8. Waiting'
    BY <2>5, <2>6, <2>7 DEF Waiting
  <2>9. ASSUME /\ ~pg.restored
               /\ \A k \in Keys : st.entries[k] # None => UpTo(st.entries[k].items, k)
               /\ pg.archived => st.entries[makeCacheKey(pg.query, FALSE)] # None
        PROVE  Untroubled'
    <3>1. ~Quiet'
      BY <2>5, IdleFields DEF Quiet
    <3>2. \A u \in Tasks : task'[u].pc # "rest"
      BY <2>5
    <3>3. /\ ~page'.restored
          /\ \A k \in Keys : store'.entries[k] # None => UpTo(store'.entries[k].items, k)
          /\ page'.archived => store'.entries[makeCacheKey(page'.query, FALSE)] # None
      BY <2>6, <2>7, <2>9
    <3>4. \A k : Whole(k)' = Whole(k) /\ \A a : makeCacheKey(page.query, a)' = makeCacheKey(page'.query, a)
      BY DEF Whole, makeCacheKey
    <3> QED BY <3>1, <3>2, <3>3, <3>4 DEF Untroubled
  <2> QED BY <2>8, <2>9
<1> QED BY <1>3, <1>4

LEMMA RefreshWaits ==
    ASSUME WaitInv, NEW t \in Tasks, NEW q \in Queries, refreshQuery(t, q), haste' = 0
    PROVE  Waiting' /\ (events' = 0 => Untroubled')
<1> DEFINE pg == [resetAllFiltersAndState(page) EXCEPT !.query = q, !.fresh = TRUE]
           st == [store EXCEPT !.saved = FALSE, !.snapshot = None]
<1>1. Hasty /\ UNCHANGED events /\ fetchInitial(t, pg, st)
  BY DEF refreshQuery
<1>2. haste = 0 /\ Quiet /\ Waiting /\ (events = 0 => Untroubled)
  BY <1>1, InvTypes, PatientClick DEF WaitInv
<1>3. pg \in PageT /\ pg.query = q /\ ~pg.restored /\ ~pg.archived
  BY InvTypes DEF PageT, BlankPage, Types, resetAllFiltersAndState
<1>4. st \in StoreT /\ st.entries = store.entries
  BY InvTypes DEF StoreT
<1> HIDE DEF pg, st
<1>5. \A k \in Keys : st.entries[k] # None => st.entries[k].items \subseteq Whole(k)
  BY <1>2, <1>4 DEF Waiting
<1>6. ASSUME events = 0
      PROVE  \A k \in Keys : st.entries[k] # None => UpTo(st.entries[k].items, k)
  BY <1>2, <1>4, <1>6, QuietTasks DEF Untroubled
<1>7. TasksOK
  BY InvTypes
<1> QED BY <1>1, <1>2, <1>3, <1>4, <1>5, <1>6, <1>7, FetchWaits
\* The toggle shows an entry, or what is left of the working set, or searches.
LEMMA ToggleWaits ==
    ASSUME WaitInv, NEW t \in Tasks, handleShowArchivedChanged(t), haste' = 0
    PROVE  Waiting' /\ (events' = 0 => Untroubled')
<1> DEFINE next == ~page.box
           pg   == [page EXCEPT !.box = next, !.archived = next]
           key  == makeCacheKey(page.query, next)
           hit  == store.entries[key]
           derived == [items |-> Active(view.items), loaded |-> {}]
           entries == store.entries
<1>1. Hasty /\ UNCHANGED events /\ page.query \in Queries /\ page.query # Blank
  BY InvTypes, SearchAssumption DEF handleShowArchivedChanged, PageT
<1>2. haste = 0 /\ Quiet /\ Waiting /\ (events = 0 => Untroubled)
  BY <1>1, InvTypes, PatientClick DEF WaitInv
<1>3. next \in BOOLEAN /\ key \in Keys /\ entries \in EntriesT
  BY <1>1, InvTypes DEF PageT, Keys, makeCacheKey
<1>4. /\ pg \in PageT /\ pg.query = page.query /\ pg.box = next /\ pg.archived = next
      /\ pg.restored = page.restored
  BY <1>3, InvTypes DEF PageT
<1>5. \A k \in Keys : entries[k] # None => entries[k].items \subseteq Whole(k)
  BY <1>2 DEF Waiting
<1>6. ASSUME events = 0
      PROVE  /\ ~page.restored
             /\ \A k \in Keys : entries[k] # None => UpTo(entries[k].items, k)
             /\ entries[makeCacheKey(page.query, FALSE)] # None
  <2>1. Untroubled /\ page.box = page.archived /\ page.archived \in BOOLEAN
    BY <1>2, <1>6, InvTypes DEF Waiting, PageT
  <2>2. \A u \in Tasks : task[u].pc # "rest"
    BY <1>2, QuietTasks
  <2>3. entries[makeCacheKey(page.query, FALSE)] # None
    <3>1. CASE page.archived
      BY <1>1, <2>1, <3>1 DEF Untroubled
    <3>2. CASE page.archived = FALSE
      <4>1. NowKey = makeCacheKey(page.query, FALSE)
        BY <3>2 DEF NowKey
      <4> QED BY <1>1, <1>2, <2>1, <4>1 DEF Untroubled
    <3> QED BY <2>1, <3>1, <3>2
  <2> QED BY <2>1, <2>2, <2>3 DEF Untroubled
<1>7. \A u \in Tasks : task[u] = Idle
  BY <1>2, QuietTasks
<1>8. CASE /\ Render(Cleared(pg), hit.items, hit.loaded, store.entries, next)
           /\ hit # None /\ UNCHANGED <<spin, task>>
  <2> DEFINE shown == Cleared(pg)
             items == hit.items
             loaded == hit.loaded
  <2>1. /\ shown \in PageT /\ shown.query = page.query /\ shown.box = next
        /\ shown.restored = page.restored /\ (~page.restored => shown.type = "")
    <3> HIDE DEF pg, next
    <3> QED BY <1>4, ClearedIsPage DEF Cleared, PageT
  <2>2. items \in SUBSET Items /\ items \subseteq Whole(makeCacheKey(shown.query, shown.box))
    <3>1. entries[key].items \in SUBSET Items /\ entries[key].items \subseteq Whole(key)
      <4> HIDE DEF key
      <4> QED BY <1>3, <1>5, <1>8, HitIsEntry, InvTypes
    <3> QED BY <2>1, <3>1
  <2>3. Render(shown, items, loaded, entries, next) /\ \A u \in Tasks : task'[u] = Idle
    BY <1>7, <1>8
  <2>4. /\ makeCacheKey(shown.query, shown.box) = key /\ entries[key] # None
        /\ (\A k \in Keys : entries[k] # None => UpTo(entries[k].items, k)) => UpTo(items, key)
    BY <1>3, <1>8, <2>1
  <2> HIDE DEF shown, items, loaded, entries, next, key, hit
  <2>5. Waiting'
    BY <1>5, <2>1, <2>2, <2>3, RenderWaits
  <2>6. ASSUME events = 0 PROVE Untroubled'
    BY <1>1, <1>6, <2>1, <2>2, <2>3, <2>4, <2>6, RenderUntroubled
  <2> QED BY <1>1, <2>5, <2>6
<1>9. CASE /\ hit = None /\ ~next
           /\ Render([pg EXCEPT !.type = ""], derived.items, {},
                     [store.entries EXCEPT ![key] = derived], next)
           /\ UNCHANGED <<spin, task>>
  <2> DEFINE shown == [pg EXCEPT !.type = ""]
             items == Active(view.items)
             kept  == [entries EXCEPT ![key] = derived]
  <2>1. shown \in PageT /\ shown.query = page.query /\ shown.box = FALSE
    <3> HIDE DEF pg
    <3> QED BY <1>4, <1>9 DEF PageT, Types
  <2>2. key = makeCacheKey(page.query, FALSE) /\ makeCacheKey(shown.query, shown.box) = key
    <3>1. next = FALSE
      BY <1>3, <1>9
    <3> HIDE DEF next, shown
    <3> QED BY <2>1, <3>1
  <2>3. items \in SUBSET Items /\ items \subseteq Whole(key)
    <3>1. view.items \in SUBSET Whole(makeCacheKey(page.query, page.archived))
      BY <1>2 DEF Waiting, NowKey
    <3>2. items \subseteq Whole(makeCacheKey(page.query, FALSE))
      BY <1>1, <3>1, ActiveIsAnswer, InvTypes DEF PageT
    <3> QED BY <2>2, <3>2, InvTypes, VisibleIsItems
  <2>4. Render(shown, items, {}, kept, next) /\ \A u \in Tasks : task'[u] = Idle
    BY <1>7, <1>9
  <2>5. \A k \in Keys : kept[k] # None => kept[k].items \subseteq Whole(k)
    <3>1. derived.items = items
      OBVIOUS
    <3> HIDE DEF key, items, entries, derived
    <3> QED BY <1>3, <1>5, <2>3, <3>1 DEF EntriesT
  <2> HIDE DEF shown, items, kept, key
  <2>6. Waiting'
    BY <2>1, <2>2, <2>3, <2>4, <2>5, RenderWaits
  <2>7. events # 0
    BY <1>6, <1>9, <2>2
  <2> QED BY <1>1, <2>6, <2>7
<1>10. CASE fetchInitial(t, pg, [store EXCEPT !.saved = next, !.snapshot = Snapshot(pg)])
  <2> DEFINE st == [store EXCEPT !.saved = next, !.snapshot = Snapshot(pg)]
  <2>1. st \in StoreT /\ st.entries = entries
    <3> HIDE DEF pg, next
    <3> QED BY <1>3, <1>4, InvTypes DEF StoreT, Snapshot, SnapshotT, PageT
  <2>2. fetchInitial(t, pg, st) /\ TasksOK
    BY <1>10, InvTypes
  <2> HIDE DEF st, pg, entries, next
  <2> QED BY <1>1, <1>2, <1>4, <1>5, <1>6, <2>1, <2>2, FetchWaits
<1> QED BY <1>8, <1>9, <1>10 DEF handleShowArchivedChanged

LEMMA ChooseWaits ==
    ASSUME WaitInv, NEW type \in Types \cup {""}, ChooseType(type), haste' = 0
    PROVE  Waiting' /\ (events' = 0 => Untroubled')
<1> DEFINE pg == [page EXCEPT !.type = type]
           items == view.items
           entries == store.entries
<1>1. /\ Render(pg, items, view.loaded, entries, store.saved)
      /\ Hasty /\ UNCHANGED <<spin, task, events>> /\ page.query # Blank
      /\ type = "" \/ \E i \in Visible(items, page.archived) : TypeOf(i) = type
  BY DEF ChooseType
<1>2. haste = 0 /\ Quiet /\ Waiting /\ (events = 0 => Untroubled)
  BY <1>1, InvTypes, PatientClick DEF WaitInv
<1>3. /\ pg \in PageT /\ pg.query = page.query /\ pg.box = page.box /\ pg.type = type
      /\ pg.restored = page.restored
  BY InvTypes DEF PageT
<1>4. /\ page.box = page.archived /\ items \subseteq Whole(NowKey)
      /\ NowKey = makeCacheKey(pg.query, pg.box)
      /\ \A k \in Keys : entries[k] # None => entries[k].items \subseteq Whole(k)
  BY <1>2, <1>3 DEF Waiting, NowKey
<1>5. items \in SUBSET Items /\ \A u \in Tasks : task'[u] = Idle /\ task[u].pc = "idle"
  BY <1>1, <1>2, InvTypes, QuietTasks
<1>6. pg.query \in Queries
  BY <1>1, <1>3, InvTypes DEF PageT
<1>7. ASSUME events = 0
      PROVE  /\ ~pg.restored /\ UpTo(items, NowKey) /\ entries[NowKey] # None
             /\ \A k \in Keys : entries[k] # None => UpTo(entries[k].items, k)
             /\ pg.box => entries[makeCacheKey(pg.query, FALSE)] # None
  <2>1. Untroubled
    BY <1>2, <1>7
  <2> QED BY <1>1, <1>2, <1>3, <1>4, <1>5, <2>1 DEF Untroubled
<1> HIDE DEF pg, items, entries
<1>8. Waiting'
  BY <1>1, <1>3, <1>4, <1>5, RenderWaits
<1>9. ASSUME events = 0 PROVE Untroubled'
  <2>1. pg.type = "" \/ \E i \in Visible(items, pg.box) : TypeOf(i) = pg.type
    BY <1>1, <1>3, <1>4
  <2> QED BY <1>1, <1>3, <1>4, <1>5, <1>6, <1>7, <1>9, <2>1, RenderUntroubled
<1> QED BY <1>1, <1>8, <1>9
\* What is known of the search under way when its answer comes.
LEMMA OneSearch ==
    ASSUME WaitInv, haste = 0, NEW t \in Tasks, task[t].pc # "idle"
    PROVE  /\ Waiting /\ page.query \in Queries /\ page.query # Blank
           /\ task[t].key = NowKey /\ NowKey \in Keys /\ ~task[t].cut
           /\ \A u \in Tasks : u # t => task[u] = Idle /\ task[u].pc = "idle"
<1>1. Waiting
  BY DEF WaitInv
<1>2. page.query \in Queries
  BY InvTypes DEF TasksOK
<1>3. NowKey \in Keys
  BY <1>2, InvTypes DEF NowKey, makeCacheKey, Keys, PageT
<1>4. \A u \in Tasks : u # t => task[u] = Idle
  BY <1>1 DEF Waiting
<1> QED BY <1>1, <1>2, <1>3, <1>4, IdleFields, SearchAssumption DEF Waiting

\* When a search has ended, nothing is under way.
LEMMA LastSearch ==
    ASSUME WaitInv, haste = 0, NEW t \in Tasks, task[t].pc # "idle", Finish(t)
    PROVE  \A u \in Tasks : task'[u] = Idle
BY OneSearch, InvTypes DEF Finish, TasksOK

\* Storing answers under the key they answer.
LEMMA AnswersStored ==
    ASSUME NEW entries \in EntriesT, NEW key \in Keys, NEW items \in SUBSET Items,
           NEW loaded \in SUBSET {1, 2}, items \subseteq Whole(key),
           \A k \in Keys : entries[k] # None => entries[k].items \subseteq Whole(k)
    PROVE  LET kept == [entries EXCEPT ![key] = [items |-> items, loaded |-> loaded]]
           IN  /\ kept \in EntriesT /\ kept[key] # None /\ kept[key].items = items
               /\ \A k \in Keys : k # key => kept[k] = entries[k]
               /\ \A k \in Keys : kept[k] # None => kept[k].items \subseteq Whole(k)
<1> DEFINE entry == [items |-> items, loaded |-> loaded]
           kept  == [entries EXCEPT ![key] = entry]
<1>1. entry \in Entries /\ entry.items = items
  BY DEF Entries
<1>2. entry # None
  BY <1>1, EntryAssumption
<1> HIDE DEF entry
<1>3. kept \in EntriesT /\ \A k \in Keys : kept[k] = IF k = key THEN entry ELSE entries[k]
  BY <1>1 DEF EntriesT
<1> HIDE DEF kept
<1>4. /\ kept \in EntriesT /\ kept[key] # None /\ kept[key].items = items
      /\ \A k \in Keys : k # key => kept[k] = entries[k]
      /\ \A k \in Keys : kept[k] # None => kept[k].items \subseteq Whole(k)
  BY <1>1, <1>2, <1>3
<1> QED BY <1>4 DEF kept, entry

LEMMA BootedKeeps ==
    ASSUME NEW pg \in PageT, NEW t \in Tasks
    PROVE  /\ Booted(t, pg).query = pg.query /\ Booted(t, pg).box = pg.box
           /\ Booted(t, pg).archived = pg.archived /\ Booted(t, pg).restored = pg.restored
           /\ Booted(t, pg).type = pg.type
BY DEF Booted, PageT

\* The first page is all of itself that is visible, and the rest is asked for
\* if there is room.
LEMMA FirstWaits ==
    ASSUME WaitInv, haste = 0, NEW t \in Tasks, FirstAnswered(t, Answer(task[t].key, 1))
    PROVE  Waiting' /\ (events = 0 => Untroubled')
<1> DEFINE key    == task[t].key
           data   == Answer(key, 1)
           items  == Visible(data, page.archived)
           loaded == view.loaded \cup {1}
           stored == [store.entries EXCEPT ![key] = [items |-> items, loaded |-> loaded]]
           active == makeCacheKey(page.query, FALSE)
           seeded == IF page.archived /\ items # {} /\ stored[active] = None
                     THEN [stored EXCEPT ![active] = [items |-> Active(items), loaded |-> {}]]
                     ELSE stored
           pg     == IF page.fresh
                     THEN [page EXCEPT !.fresh = FALSE, !.type = Facet(items, page.archived, @)]
                     ELSE Cleared(page)
           url    == makeCacheKey(page.query, page.box)
<1>1. /\ task[t].pc = "first" /\ Waiting /\ page.query \in Queries /\ page.query # Blank
      /\ key = NowKey /\ NowKey \in Keys /\ ~task[t].cut
      /\ \A u \in Tasks : u # t => task[u] = Idle /\ task[u].pc = "idle"
  <2>1. task[t].pc = "first"
    BY DEF FirstAnswered
  <2> QED BY <2>1, OneSearch
<1>2. /\ page.box = page.archived /\ page.archived \in BOOLEAN /\ url = NowKey
      /\ view.items = {} /\ view.loaded = {}
      /\ \A k \in Keys : store.entries[k] # None => store.entries[k].items \subseteq Whole(k)
  BY <1>1, InvTypes DEF Waiting, PageT, NowKey
<1>3. items = data /\ data # {} /\ data \in SUBSET Items /\ data \subseteq Whole(key)
      /\ data = Answer(NowKey, 1)
  <2>1. NowKey = makeCacheKey(page.query, page.archived)
    BY DEF NowKey
  <2>2. data # {} /\ data \in SUBSET Items /\ data \subseteq Whole(key) /\ data = Answer(NowKey, 1)
    BY <1>1, AnswerIsNotEmpty, AnswerIsItems DEF Whole
  <2> DEFINE now == makeCacheKey(page.query, page.archived)
  <2>3. Visible(Answer(now, 1), page.archived) = Answer(now, 1)
    <3> HIDE DEF data, items, key, url
    <3> QED BY ZenonT(60), <1>1, <1>2, AnswerIsVisible
  <2> QED BY <1>1, <2>1, <2>2, <2>3
<1>4. PagesLeft(loaded) # {}
  BY <1>2 DEF PagesLeft
<1>5. /\ IF Room(items)
         THEN /\ Render(pg, items, loaded, seeded, store.saved)
              /\ task' = [task EXCEPT ![t].pc = "rest", ![t].url = url]
         ELSE Render(Booted(t, pg), items, loaded, seeded, store.saved) /\ Finish(t)
      /\ shared' = None
  BY <1>3, <1>4 DEF FirstAnswered
<1>6. /\ pg \in PageT /\ pg.query = page.query /\ pg.box = page.box
      /\ pg.restored = page.restored
  <2>1. page \in PageT
    BY InvTypes
  <2>2. Facet(items, page.archived, page.type) \in Types \cup {""}
    BY <2>1 DEF Facet, PageT
  <2>3. CASE page.fresh
    BY <2>1, <2>2, <2>3 DEF PageT
  <2>4. CASE ~page.fresh
    BY <2>1, <2>4, ClearedIsPage DEF Cleared, PageT
  <2> QED BY <2>3, <2>4
<1>7. /\ stored \in EntriesT /\ stored[key] # None
      /\ \A k \in Keys : k # key => stored[k] = store.entries[k]
      /\ stored[key].items = items
      /\ \A k \in Keys : stored[k] # None => stored[k].items \subseteq Whole(k)
  <2>1. store.entries \in EntriesT /\ loaded \in SUBSET {1, 2} /\ key \in Keys
        /\ items \in SUBSET Items /\ items \subseteq Whole(key)
    BY <1>1, <1>3, InvTypes
  <2> DEFINE entries == store.entries
  <2>2. \A k \in Keys : entries[k] # None => entries[k].items \subseteq Whole(k)
    BY <1>2
  <2> HIDE DEF key, items, loaded, entries
  <2>3. LET kept == [entries EXCEPT ![key] = [items |-> items, loaded |-> loaded]]
        IN  /\ kept \in EntriesT /\ kept[key] # None /\ kept[key].items = items
            /\ \A k \in Keys : k # key => kept[k] = entries[k]
            /\ \A k \in Keys : kept[k] # None => kept[k].items \subseteq Whole(k)
    BY <2>1, <2>2, AnswersStored DEF entries
  <2> QED BY <2>3 DEF entries
<1>8. seeded \in EntriesT /\ \A k \in Keys : seeded[k] # None => seeded[k].items \subseteq Whole(k)
  <2> DEFINE part == Active(items)
             extra == [stored EXCEPT ![active] = [items |-> part, loaded |-> {}]]
  <2>1. items \in SUBSET Whole(makeCacheKey(page.query, page.archived))
    BY <1>1, <1>3 DEF NowKey
  <2>2. part \subseteq Whole(active)
    <3> HIDE DEF items
    <3> QED BY <1>1, <1>2, <2>1, ActiveIsAnswer
  <2>3. active \in Keys /\ part \in SUBSET Items /\ {} \in SUBSET {1, 2}
    BY <1>1, <1>3, VisibleIsItems DEF makeCacheKey, Keys
  <2>4. seeded = stored \/ seeded = extra
    <3> HIDE DEF stored, active
    <3> QED OBVIOUS
  <2> HIDE DEF stored, active, seeded, part
  <2>5. extra \in EntriesT /\ \A k \in Keys : extra[k] # None => extra[k].items \subseteq Whole(k)
    BY <1>7, <2>2, <2>3, AnswersStored
  <2> QED BY <1>7, <2>4, <2>5
<1> HIDE DEF key, data, items, loaded, stored, active, seeded, pg, url
<1>9. ASSUME events = 0
      PROVE  /\ Untroubled /\ seeded = stored /\ seeded[active] # None
             /\ \A k \in Keys : k # key /\ seeded[k] # None => UpTo(seeded[k].items, k)
  <2>1. Untroubled /\ \A u \in Tasks : task[u].pc # "rest"
    BY <1>1, <1>9 DEF WaitInv
  <2>2. active \in Keys /\ (page.archived => store.entries[active] # None)
        /\ (page.archived = FALSE => active = key)
    BY <1>1, <2>1 DEF active, Untroubled, makeCacheKey, Keys, NowKey
  <2>3. stored[active] # None
    BY <1>2, <1>7, <2>2
  <2>4. seeded = stored
    BY <2>3 DEF seeded
  <2> QED BY <1>7, <2>1, <2>3, <2>4 DEF Untroubled
<1>10. CASE Room(items)
  <2>1. /\ page'.query = page.query /\ page'.box = page.box /\ page'.archived = page.box
        /\ page'.restored = page.restored /\ view'.items = Answer(NowKey, 1)
        /\ store'.entries = seeded /\ TypeShown' /\ NowKey' = NowKey
    <3>1. items \in SUBSET Items
      BY <1>3
    <3> HIDE DEF pg, items, loaded, seeded
    <3>2. /\ page'.query = pg.query /\ page'.box = pg.box /\ page'.archived = pg.box
          /\ page'.restored = pg.restored /\ view'.items = items
          /\ store'.entries = seeded /\ TypeShown'
      BY <1>5, <1>6, <1>10, <3>1, RenderShows
    <3>3. NowKey' = NowKey
      BY <1>2, <1>6, <3>2 DEF NowKey, makeCacheKey
    <3> QED BY <1>3, <1>6, <3>2, <3>3
  <2>2. /\ task'[t].pc = "rest" /\ task'[t].key = NowKey /\ ~task'[t].cut /\ task'[t].url = NowKey
        /\ \A u \in Tasks : u # t => task'[u] = Idle /\ task'[u].pc = "idle"
    <3>1. task \in [Tasks -> TaskT]
      BY InvTypes DEF TasksOK
    <3> HIDE DEF url
    <3> QED BY <1>1, <1>2, <1>5, <1>10, <3>1 DEF TaskT, key
  <2>3. Waiting'
    <3>1. view'.items \subseteq Whole(NowKey')
      BY <2>1 DEF Whole
    <3>2. page'.box = page'.archived
      BY <2>1
    <3>3. \A k \in Keys : store'.entries[k] # None => store'.entries[k].items \subseteq Whole(k)
      BY <1>8, <2>1
    <3>4. \A u \in Tasks : /\ task'[u].pc = "idle" => task'[u] = Idle
                           /\ task'[u].pc # "idle" => u = t /\ task'[u].key = NowKey' /\ ~task'[u].cut
                           /\ task'[u].pc = "rest" => task'[u].url = NowKey'
                                                      /\ view'.items = Answer(NowKey', 1)
                           /\ task'[u].pc # "first"
      BY <2>1, <2>2
    <3>5. shared' = None
      BY <1>5
    <3> QED BY <3>1, <3>2, <3>3, <3>4, <3>5 DEF Waiting
  <2>4. ASSUME events = 0 PROVE Untroubled'
    <3>1. \A k \in Keys : store'.entries[k] # None =>
             UpTo(store'.entries[k].items, k) \/ (task'[t].pc = "rest" /\ task'[t].key = k)
      BY <1>1, <1>9, <2>1, <2>2, <2>4
    <3>2. store'.entries[makeCacheKey(page'.query, FALSE)] # None
      BY <1>9, <2>1, <2>4 DEF active
    <3>3. ~page'.restored /\ ~Quiet'
      BY <1>9, <2>1, <2>2, <2>4, IdleFields DEF Untroubled, Quiet
    <3>4. /\ \A a : makeCacheKey(page.query, a)' = makeCacheKey(page'.query, a)
          /\ \A k \in Keys : UpTo(store.entries[k].items, k)' = UpTo(store'.entries[k].items, k)
      BY DEF makeCacheKey, UpTo, Whole, Room
    <3> QED BY <2>1, <2>2, <3>1, <3>2, <3>3, <3>4 DEF Untroubled
  <2> QED BY <2>3, <2>4
<1>11. CASE ~Room(items)
  <2> DEFINE shown == Booted(t, pg)
  <2>1. Render(shown, items, loaded, seeded, store.saved) /\ \A u \in Tasks : task'[u] = Idle
    BY <1>1, <1>5, <1>11, LastSearch
  <2>2. /\ shown \in PageT /\ shown.query = page.query /\ shown.box = page.box
        /\ shown.restored = page.restored /\ shown.type = pg.type
    BY <1>6, BootedIsPage, BootedKeeps, InvTypes DEF TasksOK
  <2>3. items \in SUBSET Items /\ UpTo(items, key) /\ items \subseteq Whole(key)
    BY <1>3, <1>11 DEF UpTo
  <2>4. makeCacheKey(shown.query, shown.box) = key /\ makeCacheKey(shown.query, FALSE) = active
    BY <1>1, <1>2, <2>2 DEF NowKey, active
  <2> HIDE DEF shown
  <2>5. Waiting'
    BY <1>8, <2>1, <2>2, <2>3, <2>4, RenderWaits
  <2>6. ASSUME events = 0 PROVE Untroubled'
    <3>1. \A k \in Keys : seeded[k] # None => UpTo(seeded[k].items, k)
      BY <1>7, <1>9, <2>3, <2>6
    <3>2. seeded[active] # None /\ seeded[key] # None /\ ~shown.restored
      BY <1>7, <1>9, <2>2, <2>6 DEF Untroubled
    <3>3. shown.type = "" \/ \E i \in Visible(items, shown.box) : TypeOf(i) = shown.type
      <4>1. page \in PageT /\ ~page.restored
        BY <1>9, <2>6, InvTypes DEF Untroubled
      <4>2. CASE page.fresh
        <5>1. pg.type = Facet(items, page.archived, page.type)
          BY <4>1, <4>2 DEF pg, PageT
        <5> QED BY <1>2, <2>2, <5>1 DEF Facet
      <4>3. CASE ~page.fresh
        BY <2>2, <4>1, <4>3 DEF pg, Cleared, PageT
      <4> QED BY <4>2, <4>3
    <3>4. shown.query \in Queries
      BY <1>1, <2>2
    <3> QED BY <2>1, <2>2, <2>3, <2>4, <3>1, <3>2, <3>3, <3>4, RenderUntroubled
  <2> QED BY <2>5, <2>6
<1> QED BY <1>10, <1>11

\* An aborted search would store an empty answer; nobody aborts the only one.
LEMMA NoneIsAborted ==
    ASSUME WaitInv, haste = 0, NEW t \in Tasks, FirstAborted(t)
    PROVE  FALSE
<1>1. task[t].cut /\ task[t].pc = "first"
  BY DEF FirstAborted, FirstAnswered
<1> QED BY <1>1, OneSearch

LEMMA FirstFailureWaits ==
    ASSUME WaitInv, haste = 0, NEW t \in Tasks, FirstFails(t)
    PROVE  Waiting'
<1> DEFINE pg == Booted(t, page)
           entries == store.entries
<1>1. task[t].pc = "first" /\ Finish(t)
  BY DEF FirstFails
<1>2. /\ Waiting /\ \A u \in Tasks : task'[u] = Idle
  BY <1>1, OneSearch, LastSearch
<1>3. /\ pg \in PageT /\ pg.query = page.query /\ pg.box = page.box /\ pg.archived = page.archived
      /\ page.box = page.archived
  BY <1>2, BootedIsPage, BootedKeeps, InvTypes DEF TasksOK, Waiting
<1>4. \A k \in Keys : entries[k] # None => entries[k].items \subseteq Whole(k)
  BY <1>2 DEF Waiting
<1>5. CASE task[t].boot /\ page.restored
  <2>1. Render(pg, {}, view.loaded, entries, store.saved)
    BY <1>5 DEF FirstFails
  <2> HIDE DEF pg, entries
  <2>2. {} \in SUBSET Items /\ {} \subseteq Whole(makeCacheKey(pg.query, pg.box))
    OBVIOUS
  <2> QED BY <1>2, <1>3, <1>4, <2>1, <2>2, RenderWaits
<1>6. CASE ~(task[t].boot /\ page.restored)
  <2>1. page' = pg /\ store' = store /\ view'.items = {}
    BY <1>6 DEF FirstFails, WaitInv, SearchIInv, ViewT
  <2>2. \A u \in Tasks : task'[u] = Idle /\ task'[u].pc = "idle"
    BY <1>2, IdleFields
  <2> HIDE DEF pg
  <2> QED BY <1>3, <1>4, <2>1, <2>2 DEF Waiting
<1> QED BY <1>5, <1>6

\* The second page completes the working set and the entry of its key.
LEMMA RestWaits ==
    ASSUME WaitInv, haste = 0, NEW t \in Tasks, RestAnswered(t)
    PROVE  Waiting' /\ (events = 0 => Untroubled')
<1>0. PICK added \in SUBSET Answer(task[t].url, 2) :
        LET key    == task[t].key
            items  == view.items \cup added
            loaded == view.loaded \cup {2}
            pushed == IF shared = None THEN store.entries
                      ELSE [store.entries EXCEPT ![shared].items = items]
        IN  /\ added = Answer(task[t].url, 2) \/ ~Room(items)
            /\ Render(Booted(t, page), items, loaded,
                      [pushed EXCEPT ![key] = [items |-> items, loaded |-> loaded]], store.saved)
  BY DEF RestAnswered
<1> DEFINE pg      == Booted(t, page)
           items   == view.items \cup added
           loaded  == view.loaded \cup {2}
           entries == store.entries
           kept    == [entries EXCEPT ![NowKey] = [items |-> items, loaded |-> loaded]]
<1>1. task[t].pc = "rest" /\ Finish(t)
  BY DEF RestAnswered
<1>2. /\ Waiting /\ \A u \in Tasks : task'[u] = Idle
      /\ task[t].key = NowKey /\ NowKey \in Keys /\ page.query \in Queries /\ page.query # Blank
  BY <1>1, OneSearch, LastSearch
<1>3. /\ pg \in PageT /\ pg.query = page.query /\ pg.box = page.box
      /\ pg.restored = page.restored /\ pg.type = page.type
      /\ page.box = page.archived
  BY <1>2, BootedIsPage, BootedKeeps, InvTypes DEF TasksOK, Waiting
<1>4. UpTo(items, NowKey) /\ items \subseteq Whole(NowKey) /\ items \in SUBSET Items
  <2>1. task[t].url = NowKey /\ view.items = Answer(NowKey, 1)
    BY <1>1, <1>2 DEF Waiting
  <2>2. added \subseteq Answer(NowKey, 2) /\ (added = Answer(NowKey, 2) \/ ~Room(items))
    BY <1>0, <2>1
  <2> QED BY <2>1, <2>2, WholeIsItems DEF Whole, UpTo
<1>5. NowKey = makeCacheKey(pg.query, pg.box)
  BY <1>3 DEF NowKey
<1>6. Render(pg, items, loaded, kept, store.saved) /\ loaded \in SUBSET {1, 2}
  <2>1. shared = None
    BY <1>1, <1>2 DEF Waiting
  <2> QED BY <1>0, <1>2, <2>1, InvTypes
<1>7. \A k \in Keys : entries[k] # None => entries[k].items \subseteq Whole(k)
  BY <1>2 DEF Waiting
<1>8. view.items \subseteq items
  OBVIOUS
<1>9. entries \in EntriesT
  BY InvTypes
<1> HIDE DEF pg, items, loaded, entries
<1>10. /\ kept[NowKey] # None /\ kept[NowKey].items = items
       /\ \A k \in Keys : k # NowKey => kept[k] = entries[k]
       /\ \A k \in Keys : kept[k] # None => kept[k].items \subseteq Whole(k)
  <2> DEFINE key == NowKey
  <2>1. /\ key \in Keys /\ items \subseteq Whole(key) /\ items \in SUBSET Items
        /\ loaded \in SUBSET {1, 2} /\ entries \in EntriesT
        /\ \A k \in Keys : entries[k] # None => entries[k].items \subseteq Whole(k)
    BY <1>2, <1>4, <1>6, <1>7, <1>9
  <2> HIDE DEF key, kept
  <2>2. LET made == [entries EXCEPT ![key] = [items |-> items, loaded |-> loaded]]
        IN  /\ made \in EntriesT /\ made[key] # None /\ made[key].items = items
            /\ \A k \in Keys : k # key => made[k] = entries[k]
            /\ \A k \in Keys : made[k] # None => made[k].items \subseteq Whole(k)
    BY <2>1, AnswersStored
  <2> QED BY <2>2 DEF key, kept
<1> HIDE DEF kept
<1>11. Waiting'
  BY <1>2, <1>3, <1>4, <1>5, <1>6, <1>10, RenderWaits
<1>12. ASSUME events = 0 PROVE Untroubled'
  <2>1. Untroubled
    BY <1>12 DEF WaitInv
  <2>2. \A k \in Keys : kept[k] # None => UpTo(kept[k].items, k)
    <3> SUFFICES ASSUME NEW k \in Keys, kept[k] # None, k # NowKey PROVE UpTo(kept[k].items, k)
      BY <1>4, <1>10
    <3>1. \A u \in Tasks : task[u].pc = "rest" => task[u].key = NowKey
      BY <1>2 DEF Waiting
    <3> QED BY <1>10, <2>1, <3>1 DEF Untroubled, entries
  <2>3. pg.box => kept[makeCacheKey(pg.query, FALSE)] # None
    <3>1. CASE makeCacheKey(pg.query, FALSE) = NowKey
      BY <1>10, <3>1
    <3>2. CASE makeCacheKey(pg.query, FALSE) # NowKey
      <4>1. makeCacheKey(pg.query, FALSE) \in Keys
        BY <1>2, <1>3 DEF makeCacheKey, Keys
      <4>2. pg.box => entries[makeCacheKey(pg.query, FALSE)] # None
        BY <1>2, <1>3, <2>1 DEF Untroubled, entries
      <4> QED BY <1>10, <3>2, <4>1, <4>2
    <3> QED BY <3>1, <3>2
  <2>4. pg.type = "" \/ \E i \in Visible(items, pg.box) : TypeOf(i) = pg.type
    <3>1. TypeShown
      BY <1>1, <2>1 DEF Untroubled
    <3>2. Visible(view.items, page.box) \subseteq Visible(items, pg.box)
      BY <1>3, <1>8 DEF Visible, Active
    <3> QED BY <1>3, <3>1, <3>2 DEF TypeShown
  <2>5. ~pg.restored /\ pg.query \in Queries
    BY <1>2, <1>3, <2>1 DEF Untroubled
  <2>6. kept[makeCacheKey(pg.query, pg.box)] # None /\ UpTo(items, makeCacheKey(pg.query, pg.box))
    BY <1>4, <1>5, <1>10
  <2> QED BY ZenonT(60), <1>2, <1>3, <1>4, <1>6, <2>2, <2>3, <2>4, <2>5, <2>6, RenderUntroubled
<1> QED BY <1>11, <1>12

LEMMA RestFailureWaits ==
    ASSUME WaitInv, haste = 0, NEW t \in Tasks, RestFails(t)
    PROVE  Waiting'
<1> DEFINE pg == Booted(t, page)
           items == view.items
           entries == store.entries
<1>1. task[t].pc = "rest" /\ Finish(t) /\ Render(pg, items, view.loaded, entries, store.saved)
  BY DEF RestFails
<1>2. Waiting /\ \A u \in Tasks : task'[u] = Idle
  BY <1>1, OneSearch, LastSearch
<1>3. /\ pg \in PageT /\ pg.query = page.query /\ pg.box = page.box /\ page.box = page.archived
  BY <1>2, BootedIsPage, BootedKeeps, InvTypes DEF TasksOK, Waiting
<1>4. /\ items \in SUBSET Items /\ items \subseteq Whole(makeCacheKey(pg.query, pg.box))
      /\ \A k \in Keys : entries[k] # None => entries[k].items \subseteq Whole(k)
  BY <1>2, <1>3, InvTypes DEF Waiting, NowKey
<1> HIDE DEF pg, items, entries
<1> QED BY <1>1, <1>2, <1>3, <1>4, RenderWaits
\* A page that is loaded asks for, or shows the entry of, what it restored.
LEMMA LoadWaits ==
    ASSUME WaitInv, haste = 0, NEW t \in Tasks, NEW q \in Queries, NEW reload \in BOOLEAN,
           Load(t, q, reload)
    PROVE  Waiting'
<1> DEFINE saved == reload /\ store.saved
           known == store.snapshot # None /\ store.snapshot.q = q
           snap  == IF known THEN store.snapshot
                    ELSE [q |-> q, type |-> "", archived |-> saved]
           pg    == [BlankPage EXCEPT !.query = q, !.box = snap.archived,
                                      !.archived = snap.archived, !.restored = known]
           key   == makeCacheKey(q, snap.archived)
           hit   == store.entries[key]
           first == [pc |-> "first", key |-> key, url |-> None, cut |-> FALSE, boot |-> TRUE]
           entries == store.entries
<1>1. saved \in BOOLEAN /\ entries \in EntriesT /\ store \in StoreT
  BY InvTypes DEF StoreT
<1>2. snap \in SnapshotT
  BY <1>1 DEF StoreT, SnapshotT, Types
<1>3. /\ pg \in PageT /\ pg.query = q /\ pg.box = snap.archived /\ pg.archived = snap.archived
  <2>1. snap.archived \in BOOLEAN
    BY <1>2 DEF SnapshotT
  <2> HIDE DEF snap
  <2> QED BY <2>1 DEF BlankPage, PageT, Types
<1>4. key \in Keys
  BY <1>2 DEF makeCacheKey, Keys, SnapshotT
<1>5. \A k \in Keys : entries[k] # None => entries[k].items \subseteq Whole(k)
  BY DEF WaitInv, Waiting
<1>6. CASE hit # None
  <2> DEFINE shown == [pg EXCEPT !.type = snap.type]
             items == hit.items
             loaded == hit.loaded
  <2>1. /\ Render(shown, items, loaded, entries, saved)
        /\ task' = [u \in Tasks |-> Idle]
    BY <1>6 DEF Load
  <2>2. items \in SUBSET Items /\ items \subseteq Whole(key)
    <3> HIDE DEF key
    <3> QED BY <1>1, <1>4, <1>5, <1>6, HitIsEntry
  <2>3. shown \in PageT /\ shown.query = q /\ shown.box = snap.archived
    <3> HIDE DEF pg, snap
    <3> QED BY <1>2, <1>3 DEF PageT, SnapshotT
  <2>4. makeCacheKey(shown.query, shown.box) = key
    BY <2>3
  <2>5. \A u \in Tasks : task'[u] = Idle
    BY <2>1
  <2> HIDE DEF pg, snap, hit, saved, shown, items, loaded, entries, key
  <2> QED BY SMTT(60), <1>5, <2>1, <2>2, <2>3, <2>4, <2>5, RenderWaits
<1>7. CASE ~(hit # None)
  <2>1. /\ page' = [pg EXCEPT !.boot = TRUE]
        /\ view' = [items |-> {}, loaded |-> {}, rows |-> {}]
        /\ store' = [store EXCEPT !.saved = saved] /\ shared' = None
        /\ task' = [u \in Tasks |-> IF u = t THEN first ELSE Idle]
    BY <1>7 DEF Load
  <2>2. first.pc = "first" /\ first.key = key /\ ~first.cut
    OBVIOUS
  <2> HIDE DEF first
  <2>3. \A u \in Tasks : /\ u # t => task'[u] = Idle /\ task'[u].pc = "idle"
                         /\ u = t => task'[u].pc = "first" /\ task'[u].key = key /\ ~task'[u].cut
    BY <2>1, <2>2, IdleFields
  <2>4. page'.query = q /\ page'.box = snap.archived /\ page'.archived = snap.archived
    <3> HIDE DEF pg, snap
    <3> QED BY <1>3, <2>1 DEF PageT
  <2>5. NowKey' = key
    BY <2>4 DEF NowKey, makeCacheKey
  <2>6. store'.entries = entries /\ view'.items = {} /\ view'.loaded = {}
    BY <1>1, <2>1 DEF StoreT
  <2> HIDE DEF key, snap, pg, entries, saved
  <2> QED BY <1>5, <2>1, <2>3, <2>4, <2>5, <2>6 DEF Waiting
<1> QED BY <1>6, <1>7

LEMMA WaitInit == SearchInit => WaitInv
<1> SUFFICES ASSUME SearchInit PROVE WaitInv
  OBVIOUS
<1>1. SearchIInv
  BY SearchInitIInv
<1>2. /\ page = BlankPage /\ view = [items |-> {}, loaded |-> {}, rows |-> {}]
      /\ \A t \in Tasks : task[t] = Idle /\ task[t].pc = "idle"
      /\ \A k \in Keys : store.entries[k] = None
  BY IdleFields DEF SearchInit, NoStore
<1>3. /\ page.box = page.archived /\ view.items = {} /\ page.query = Blank /\ ~page.restored
      /\ ~page.archived
  BY <1>2 DEF BlankPage
<1>4. Waiting
  BY <1>2, <1>3 DEF Waiting
<1>5. Untroubled
  BY <1>2, <1>3 DEF Untroubled
<1> QED BY <1>1, <1>4, <1>5 DEF WaitInv

LEMMA WaitNext == WaitInv /\ [SearchNext]_searchVars => WaitInv'
<1> SUFFICES ASSUME WaitInv, [SearchNext]_searchVars
             PROVE  /\ haste' = 0 => Waiting'
                    /\ haste' = 0 /\ events' = 0 => Untroubled'
  BY SearchNextIInv DEF WaitInv
<1>1. ASSUME NEW t \in Tasks, NEW q \in Queries, refreshQuery(t, q), haste' = 0
      PROVE  Waiting' /\ (events' = 0 => Untroubled')
  BY <1>1, RefreshWaits
<1>2. ASSUME NEW t \in Tasks, handleShowArchivedChanged(t), haste' = 0
      PROVE  Waiting' /\ (events' = 0 => Untroubled')
  BY <1>2, ToggleWaits
<1>3. ASSUME NEW t \in Tasks, Search(t), haste' = 0
      PROVE  Waiting' /\ (events' = 0 => Untroubled')
  <2>1. haste = 0
    BY <1>3 DEF Search, FirstAborted, FirstAnswered, FirstFails, RestAnswered, RestFails
  <2>2. CASE FirstAnswered(t, Answer(task[t].key, 1))
    BY <2>1, <2>2, FirstWaits DEF FirstAnswered
  <2>3. CASE FirstAborted(t)
    BY <2>1, <2>3, NoneIsAborted
  <2>4. CASE FirstFails(t)
    BY <2>1, <2>4, FirstFailureWaits, EventHappened, InvTypes DEF FirstFails
  <2>5. CASE RestAnswered(t)
    BY <2>1, <2>5, RestWaits DEF RestAnswered
  <2>6. CASE RestFails(t)
    BY <2>1, <2>6, RestFailureWaits, EventHappened, InvTypes DEF RestFails
  <2> QED BY <1>3, <2>2, <2>3, <2>4, <2>5, <2>6 DEF Search
<1>4. ASSUME NEW t \in Tasks, Reload(t) \/ Visit(t), haste' = 0
      PROVE  Waiting' /\ events' # 0
  <2>1. \E q \in Queries, reload \in BOOLEAN : Load(t, q, reload)
    BY <1>4, InvTypes DEF Reload, Visit, PageT
  <2>2. Event /\ haste = 0
    BY <1>4, <2>1 DEF Load
  <2> QED BY <2>1, <2>2, LoadWaits, EventHappened, InvTypes
<1>5. ASSUME ToggleDuringBoot, haste' = 0 PROVE FALSE
  <2>1. page.boot /\ Quiet
    BY <1>5, InvTypes, PatientClick DEF ToggleDuringBoot
  <2> QED BY <2>1, QuietTasks, InvTypes DEF TasksOK
<1>6. ASSUME NEW type \in Types \cup {""}, ChooseType(type), haste' = 0
      PROVE  Waiting' /\ (events' = 0 => Untroubled')
  BY <1>6, ChooseWaits
<1>7. ASSUME Expire, haste' = 0 PROVE Waiting' /\ events' # 0
  <2>1. Event /\ haste = 0 /\ UNCHANGED <<page, view, task>>
    BY <1>7 DEF Expire
  <2>2. PICK k \in Keys : /\ store' = [store EXCEPT !.entries[k] = None]
                          /\ shared' = IF shared = k THEN None ELSE shared
    BY <1>7 DEF Expire
  <2>3. \A j \in Keys : store'.entries[j] = IF j = k THEN None ELSE store.entries[j]
    BY <2>2, InvTypes DEF StoreT, EntriesT
  <2>4. Waiting'
    BY <2>1, <2>2, <2>3 DEF WaitInv, Waiting, NowKey, Whole
  <2> QED BY <2>1, <2>4, EventHappened, InvTypes
<1>8. CASE UNCHANGED searchVars
  BY ZenonT(60), <1>8 DEF searchVars, WaitInv, Waiting, Untroubled, NowKey, Whole, UpTo, Room, TypeShown, Quiet
<1> QED BY <1>1, <1>2, <1>3, <1>4, <1>5, <1>6, <1>7, <1>8 DEF SearchNext

\* The inductive invariant behind the next two theorems: one search at a time, for
\* what the page shows, with whole or growing entries.
THEOREM WaitInvariant == SearchSpec => []WaitInv
BY WaitInit, WaitNext, PTL DEF SearchSpec

\* For a user who waits, an entry of the registry holds nothing but what the server
\* answers for its key, across failures, expired entries and page loads.
THEOREM RegistryHoldsAnswers == SearchSpec => []EntriesAreAnswers
<1>1. WaitInv => EntriesAreAnswers
  BY DEF WaitInv, Waiting, EntriesAreAnswers, Whole
<1> QED BY <1>1, WaitInvariant, PTL

\* And while nothing fails, expires or is left, the working set of that user is the
\* whole answer for the query and the toggle, or all that the cap lets in, and the
\* table is what the filter selects of it.
THEOREM TableShowsAnswerUpToCap == SearchSpec => []TableIsAnswerUpToCap
<1>1. WaitInv => TableIsAnswerUpToCap
  <2> SUFFICES ASSUME WaitInv, haste = 0, events = 0, Quiet, page.query # Blank
               PROVE  /\ view.rows = Selected(view.items, page.box, page.type)
                      /\ UpTo(view.items, <<page.query, page.box>>)
    BY DEF TableIsAnswerUpToCap, UpTo, Whole
  <2>1. page.box = page.archived
    BY DEF WaitInv, Waiting
  <2>2. /\ UpTo(view.items, NowKey)
        /\ view.rows = Selected(view.items, page.box, page.type)
    BY DEF WaitInv, Untroubled
  <2>3. NowKey = <<page.query, page.box>>
    BY <2>1 DEF NowKey, makeCacheKey
  <2> QED BY <2>2, <2>3
<1> QED BY <1>1, WaitInvariant, PTL
=============================================================================
