----------------------------- MODULE SearchPage -----------------------------
(***************************************************************************)
(* The asset search page (pages/search.index.js): the registry of answers  *)
(* kept in the page and in the session storage, the working set the table  *)
(* is filtered from, the "Show Archived" toggle, and the searches that     *)
(* fill them.  A search loads its first page, shows it, and loads the rest *)
(* afterwards; searches share the working set, and what a search does when *)
(* its answer comes depends on the page at that time.                      *)
(***************************************************************************)
EXTENDS Integers, FiniteSets

CONSTANTS
    Queries,
    Blank,        \* the page without a query
    None,         \* no entry, no snapshot
    Tasks,        \* searches that can be waiting at once
    MAX_CLIENT_CACHE,   \* how many items the working set may have
    MaxHaste,     \* bound: actions taken while a search is under way
    MaxEvents     \* bound: page loads, failures, expired entries

ASSUME SearchAssumption ==
    Blank \notin Queries /\ None \notin Queries /\ MaxHaste \in Nat /\ MaxEvents \in Nat

\* The first page of an answer (25 items against 5000; two here) fits.
ASSUME CapAssumption == MAX_CLIENT_CACHE \in Nat \ {0, 1}

VARIABLES
    page,         \* the query, the toggle, the Type filter, and how the page started
    view,         \* cacheAllItems, cacheLoadedPages, and the rows in the table
    shared,       \* the entry of CACHE that is the working set itself, no copy of it
    store,        \* CACHE and its copy in sessionStorage, the filter snapshot, the saved toggle
    spin,         \* the spinner
    task,         \* task[t]: a call of fetchInitial that awaits something
    haste, events

searchVars == <<page, view, shared, store, spin, task, haste, events>>

(* The assets a query finds: one of them is archived, and the answer takes  *)
(* two pages.                                                               *)
Kinds == {"desk", "stored", "more", "last"}
Items == Queries \X Kinds
Types == {"Laptop", "Monitor"}
Keys  == Queries \X BOOLEAN
isArchivedRow(i) == i[2] = "stored"
TypeOf(i) == IF isArchivedRow(i) THEN "Monitor" ELSE "Laptop"
Answer(key, number) ==
    {i \in Items : /\ i[1] = key[1] /\ (isArchivedRow(i) => key[2])
                   /\ number = IF i[2] \in {"more", "last"} THEN 2 ELSE 1}

Idle  == [pc |-> "idle", key |-> None, url |-> None, cut |-> FALSE, boot |-> FALSE]
Quiet == \A t \in Tasks : task[t] = Idle
Hasty == /\ ~Quiet => haste < MaxHaste
         /\ haste' = IF Quiet THEN haste ELSE haste + 1
Event == events < MaxEvents /\ events' = events + 1

-----------------------------------------------------------------------------
(***************************************************************************)
(* Deliberately wrong variants of the definitions below them.              *)
(***************************************************************************)
ActiveAll(items) == items
VisibleAll(items, archived) == items
PagesLeftNone(loaded) == {2} \ {2}
BootNeverEnds(t, pg) == pg
SpinnerStays(t) == spin' = (spin /\ task[t].boot) /\ task' = [task EXCEPT ![t] = Idle]
-----------------------------------------------------------------------------

makeCacheKey(q, archived) == <<q, archived>>

Active(items) == {i \in items : ~isArchivedRow(i)}

\* What the toggle lets through, and what the filters then select.
Visible(items, archived) == IF archived THEN items ELSE Active(items)
Selected(items, archived, type) ==
    {i \in Visible(items, archived) : type \in {"", TypeOf(i)}}

\* A filter that no visible item has is dropped.
Facet(items, archived, type) ==
    IF \E i \in Visible(items, archived) : TypeOf(i) = type THEN type ELSE ""

Snapshot(pg) == [q |-> pg.query, type |-> pg.type, archived |-> pg.archived]

\* applyFiltersAndRender with the working set items: the checkbox decides, the
\* rows are selected, and only then the filter is adjusted and all is saved.
Render(pg, items, loaded, entries, saved) ==
    LET after == [pg EXCEPT !.archived = pg.box, !.type = Facet(items, pg.box, @)]
    IN /\ page' = after
       /\ view' = [items |-> items, loaded |-> loaded,
                   rows |-> Selected(items, pg.box, pg.type)]
       /\ store' = [entries |-> entries, saved |-> saved, snapshot |-> Snapshot(after)]

\* The filters are cleared unless they were restored.
Cleared(pg) == [pg EXCEPT !.type = IF pg.restored THEN @ ELSE ""]

\* fetchInitial up to its first await: an entry that is not empty is shown, else
\* the request for the same address is aborted and one is sent.
fetchInitial(t, pg, st) ==
    LET key == makeCacheKey(pg.query, pg.archived)
        hit == st.entries[key]
        now == [pg EXCEPT !.box = pg.archived]
    IN /\ shared' = None
       /\ IF hit # None /\ hit.items # {}
          THEN /\ Render(Cleared(now), hit.items, hit.loaded, st.entries, st.saved)
               /\ UNCHANGED <<spin, task>>
          ELSE /\ page' = now
               /\ view' = [items |-> {}, loaded |-> {}, rows |-> {}]
               /\ store' = st
               /\ spin' = TRUE
               /\ task' = [u \in Tasks |->
                    IF u = t THEN [Idle EXCEPT !.pc = "first", !.key = key]
                    ELSE [task[u] EXCEPT !.cut = @ \/ (task[u].pc = "first" /\ task[u].key = key)]]

-----------------------------------------------------------------------------

NoStore == [entries |-> [k \in Keys |-> None], saved |-> FALSE, snapshot |-> None]
BlankPage == [query |-> Blank, box |-> FALSE, archived |-> FALSE, boot |-> FALSE,
              type |-> "", restored |-> FALSE, fresh |-> FALSE]

SearchInit ==
    /\ page = BlankPage
    /\ view = [items |-> {}, loaded |-> {}, rows |-> {}]
    /\ shared = None
    /\ store = NoStore
    /\ spin = FALSE
    /\ task = [t \in Tasks |-> Idle]
    /\ haste = 0 /\ events = 0

-----------------------------------------------------------------------------

\* The filters, the toggle and what was restored are forgotten.
resetAllFiltersAndState(pg) == [BlankPage EXCEPT !.query = pg.query, !.boot = pg.boot]

\* The search box of the navigation bar, on this page: refreshQuery.
refreshQuery(t, q) ==
    /\ task[t] = Idle
    /\ Hasty
    /\ fetchInitial(t, [resetAllFiltersAndState(page) EXCEPT !.query = q, !.fresh = TRUE],
                    [store EXCEPT !.saved = FALSE, !.snapshot = None])
    /\ UNCHANGED events

\* The toggle, whose change event is ignored until the first search is over.
ToggleDuringBoot ==
    /\ page.boot
    /\ Hasty
    /\ page' = [page EXCEPT !.box = ~@]
    /\ UNCHANGED <<view, shared, store, spin, task, events>>

\* handleShowArchivedChanged: a stored answer; for the active ones, the active
\* items of the working set, in an array that is the entry too; else a search.
handleShowArchivedChanged(t) ==
    /\ page.query # Blank /\ ~page.boot /\ task[t] = Idle
    /\ Hasty
    /\ LET next == ~page.box
           pg   == [page EXCEPT !.box = next, !.archived = next]
           key  == makeCacheKey(page.query, next)
           hit  == store.entries[key]
           derived == [items |-> Active(view.items), loaded |-> {}]
       IN \/ /\ hit # None
             /\ Render(Cleared(pg), hit.items, hit.loaded, store.entries, next)
             /\ shared' = None
             /\ UNCHANGED <<spin, task>>
          \/ /\ hit = None /\ ~next /\ view.items # {}
             /\ Render([pg EXCEPT !.type = ""], derived.items, {},
                       [store.entries EXCEPT ![key] = derived], next)
             /\ shared' = key
             /\ UNCHANGED <<spin, task>>
          \/ /\ hit = None /\ (next \/ view.items = {})
             /\ fetchInitial(t, pg, [store EXCEPT !.saved = next, !.snapshot = Snapshot(pg)])
    /\ UNCHANGED events

\* The Type filter; its debounce only delays the table.
ChooseType(type) ==
    /\ page.query # Blank
    /\ type = "" \/ \E i \in Visible(view.items, page.archived) : TypeOf(i) = type
    /\ Hasty
    /\ Render([page EXCEPT !.type = type], view.items, view.loaded, store.entries, store.saved)
    /\ UNCHANGED <<shared, spin, task, events>>

-----------------------------------------------------------------------------
(* The rest of fetchInitial.                                               *)

\* The first search of a page lets the toggle notify once it is over.
Booted(t, pg) == [pg EXCEPT !.boot = @ /\ ~task[t].boot]
\* The finally branch hides the spinner, whoever else is searching.
Finish(t) == spin' = FALSE /\ task' = [task EXCEPT ![t] = Idle]

PagesLeft(loaded) == {2} \ loaded
\* No page is asked for, and no item added, once the working set is full.
Room(items) == Cardinality(items) < MAX_CLIENT_CACHE

\* The answer becomes the working set and the entry of the key it was asked
\* for, but the toggle and the query are those of now.
FirstAnswered(t, data) ==
    LET key    == task[t].key
        items  == Visible(data, page.archived)
        loaded == view.loaded \cup {1}
        stored == [store.entries EXCEPT ![key] = [items |-> items, loaded |-> loaded]]
        active == makeCacheKey(page.query, FALSE)
        seeded == IF page.archived /\ items # {} /\ stored[active] = None
                  THEN [stored EXCEPT ![active] = [items |-> Active(items), loaded |-> {}]]
                  ELSE stored
        pg     == IF page.fresh
                  THEN [page EXCEPT !.fresh = FALSE, !.type = Facet(items, page.archived, @)]
                  ELSE Cleared(page)
        more   == data # {} /\ Room(items) /\ PagesLeft(loaded) # {}
    IN /\ task[t].pc = "first"
       /\ shared' = None
       /\ Render(IF more THEN pg ELSE Booted(t, pg), items, loaded, seeded, store.saved)
       /\ IF more
          THEN /\ task' = [task EXCEPT ![t].pc = "rest",
                                       ![t].url = makeCacheKey(page.query, page.box)]
               /\ UNCHANGED spin
          ELSE Finish(t)
       /\ UNCHANGED <<haste, events>>

\* The answer of an aborted request has no items.
FirstAborted(t) == task[t].cut /\ FirstAnswered(t, {})

\* The table is emptied; init renders it once more when a filter was restored.
FirstFails(t) ==
    /\ task[t].pc = "first"
    /\ Event
    /\ IF task[t].boot /\ page.restored
       THEN Render(Booted(t, page), {}, view.loaded, store.entries, store.saved)
       ELSE /\ page' = Booted(t, page)
            /\ view' = [view EXCEPT !.items = {}, !.rows = {}]
            /\ UNCHANGED store
    /\ shared' = None
    /\ Finish(t)
    /\ UNCHANGED haste

\* The remaining page, asked for with the query and the toggle of that time, is
\* added to the working set of now, and to the entry that shares its array, as
\* far as there is room; a copy is saved under the first key.
RestAnswered(t) ==
    /\ task[t].pc = "rest"
    /\ \E added \in SUBSET Answer(task[t].url, 2) :
         LET key    == task[t].key
             items  == view.items \cup added
             loaded == view.loaded \cup {2}
             pushed == IF shared = None THEN store.entries
                       ELSE [store.entries EXCEPT ![shared].items = items]
         IN /\ Cardinality(items) <= MAX_CLIENT_CACHE
            /\ added = Answer(task[t].url, 2) \/ ~Room(items)
            /\ Render(Booted(t, page), items, loaded,
                      [pushed EXCEPT ![key] = [items |-> items, loaded |-> loaded]], store.saved)
            /\ shared' = IF shared = key THEN None ELSE shared
    /\ Finish(t)
    /\ UNCHANGED <<haste, events>>

RestFails(t) ==
    /\ task[t].pc = "rest"
    /\ Event
    /\ Render(Booted(t, page), view.items, view.loaded, store.entries, store.saved)
    /\ Finish(t)
    /\ UNCHANGED <<shared, haste>>

-----------------------------------------------------------------------------
(* The page is loaded: again, or from a link or the search box of another  *)
(* page of the same tab.  The session storage survives.                    *)

\* primeShowArchivedFromStorage and init.
Load(t, q, reload) ==
    LET saved == reload /\ store.saved
        snap  == IF store.snapshot # None /\ store.snapshot.q = q THEN store.snapshot
                 ELSE [q |-> q, type |-> "", archived |-> saved]
        pg    == [BlankPage EXCEPT !.query = q, !.box = snap.archived, !.archived = snap.archived,
                                   !.restored = (store.snapshot # None /\ store.snapshot.q = q)]
        hit   == store.entries[makeCacheKey(q, snap.archived)]
        first == [pc |-> "first", key |-> makeCacheKey(q, snap.archived), url |-> None,
                  cut |-> FALSE, boot |-> TRUE]
    IN /\ Event
       /\ IF hit # None
          THEN /\ Render([pg EXCEPT !.type = snap.type], hit.items, hit.loaded, store.entries, saved)
               /\ spin' = FALSE /\ task' = [u \in Tasks |-> Idle]
          ELSE \* the drop-downs are refreshed before there are items: the filter is lost
               /\ page' = [pg EXCEPT !.boot = TRUE]
               /\ view' = [items |-> {}, loaded |-> {}, rows |-> {}]
               /\ store' = [store EXCEPT !.saved = saved]
               /\ spin' = TRUE
               /\ task' = [u \in Tasks |-> IF u = t THEN first ELSE Idle]
       /\ shared' = None
       /\ UNCHANGED haste

Reload(t) == page.query # Blank /\ Load(t, page.query, TRUE)
Visit(t)  == \E q \in Queries : Load(t, q, FALSE)

\* getEntry drops an entry after fifteen minutes.
Expire ==
    /\ Event
    /\ \E k \in Keys : /\ store.entries[k] # None
                       /\ store' = [store EXCEPT !.entries[k] = None]
                       /\ shared' = IF shared = k THEN None ELSE shared
    /\ UNCHANGED <<page, view, spin, task, haste>>

Search(t) ==
    \/ FirstAnswered(t, Answer(task[t].key, 1))
    \/ FirstAborted(t)
    \/ FirstFails(t)
    \/ RestAnswered(t)
    \/ RestFails(t)

SearchNext ==
    \/ \E t \in Tasks :
         \/ \E q \in Queries : refreshQuery(t, q)
         \/ handleShowArchivedChanged(t)
         \/ Search(t)
         \/ Reload(t)
         \/ Visit(t)
    \/ ToggleDuringBoot
    \/ \E type \in Types \cup {""} : ChooseType(type)
    \/ Expire

\* The browser answers every request, well or not.
SearchSpec == SearchInit /\ [][SearchNext]_searchVars
SearchFairSpec == SearchSpec /\ \A t \in Tasks : WF_searchVars(Search(t))

-----------------------------------------------------------------------------
Entries == [items : SUBSET Items, loaded : SUBSET {1, 2}]

\* A key without an entry is told from one with an entry.
ASSUME EntryAssumption == None \notin Entries

\* Types; the toggle is held back only while the first search runs.
SearchTypeOK ==
    /\ page \in [query : Queries \cup {Blank}, box : BOOLEAN, archived : BOOLEAN, boot : BOOLEAN,
                 type : Types \cup {""}, restored : BOOLEAN, fresh : BOOLEAN]
    /\ view \in [items : SUBSET Items, loaded : SUBSET {1, 2}, rows : SUBSET Items]
    /\ \A k \in Keys : store.entries[k] = None \/ store.entries[k] \in Entries
    /\ shared \in Keys \cup {None}
    /\ spin \in BOOLEAN /\ haste \in 0..MaxHaste /\ events \in 0..MaxEvents
    /\ page.boot => \E t \in Tasks : task[t].pc # "idle"

\* Whatever is clicked while searches run, once the first of them is over: with
\* the toggle off no archived row is in the table ("Absolute rule: if toggle is
\* OFF, archived rows never participate in paging or filters").
ArchivedStayHidden ==
    ~page.box /\ ~page.boot => \A i \in view.rows : ~isArchivedRow(i)

\* For a user who waits, an entry of the registry only holds what the server
\* answers for its key, across failures, expiry and page loads.
EntriesAreAnswers ==
    haste = 0 => \A k \in Keys : store.entries[k] # None =>
                    store.entries[k].items \subseteq Answer(k, 1) \cup Answer(k, 2)

\* And while nothing fails and the page is not left, the working set of that
\* user is the whole answer for the query and the toggle, or as much of it as
\* the cap lets in, and the table is the working set as filtered ("cap at
\* MAX_CLIENT_CACHE").
TableIsAnswerUpToCap ==
    haste = 0 /\ events = 0 /\ Quiet /\ page.query # Blank =>
        LET key   == <<page.query, page.box>>
            whole == Answer(key, 1) \cup Answer(key, 2)
        IN /\ view.rows = Selected(view.items, page.box, page.type)
           /\ view.items \subseteq whole
           /\ view.items = whole \/ ~Room(view.items)

\* The spinner never stays.
SpinnerGoesAway == spin ~> ~spin
=============================================================================
