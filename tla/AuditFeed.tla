------------------------------ MODULE AuditFeed -----------------------------
(***************************************************************************)
(* The audit feed: CreateAuditRecordAsync of AuditLogQuery on the server,  *)
(* Archive and Unarchive of AdminUsersApiController, which write to the    *)
(* log and push by themselves, the polling endpoints of                    *)
(* AuditLogApiController, and one open audit log page                      *)
(* (wwwroot/js/pages/auditlog.index.js) that merges what both channels     *)
(* bring.  An event is known by its ExternalId; the time stamp of its last *)
(* save stands for its content.                                            *)
(***************************************************************************)
EXTENDS Integers, FiniteSets, Sequences

CONSTANTS
    Events,      \* identities of audit events
    Keyed,       \* the events whose poster brings the ExternalId
    NoEvent,     \* the event of a post whose ExternalId the database makes up
    Account,     \* a user whom administrators archive; the Id of the pushes about it
    Writers,     \* requests that write audit records at once
    Realtime,    \* AuditRealTime, and the page's FEATURE_REALTIME
    Take,        \* MAX_BATCH of the page
    MaxTime,     \* bound: posts made
    MaxFaults    \* bound: failed fetches, dropped connections, dead requests

ASSUME FeedAssumption ==
    /\ Keyed \subseteq Events /\ NoEvent \notin Events
    /\ Account \notin Events \cup {NoEvent}
    /\ Realtime \in BOOLEAN
    /\ Take \in Nat \ {0} /\ MaxTime \in Nat /\ MaxFaults \in Nat

VARIABLES
    log,        \* log[e]: TimestampUtc of the row of event e, 0 without a row
    acts,       \* the events whose acting user is Account
    archived,   \* Account is archived
    committed,  \* every version <<e, at>> the table has held, and <<Account, at>>
                \* for a row that tells of a change of Account
    clock,      \* DateTime.UtcNow, as far as posts read it
    post,       \* the requests that write
    pushes,     \* auditEvent messages on their way to the page
    hub,        \* the page's SignalR connection
    shown,      \* shown[i]: the time the page's row with Id i displays, 0 for none
    cursor,     \* sinceCursor
    fetch,      \* the page's requests
    seeded,     \* the flag of the same name
    live,       \* the initial load is over
    faults,     \* injected faults so far
    newest,     \* history: the latest time of a row, of a push about Account or
                \* of an answer that had no event to take it from
    missed      \* history: the events the page has been given a reason to miss

tableVars  == <<log, acts, archived, committed>>
serverVars == <<tableVars, clock, post>>
pageVars   == <<shown, cursor, fetch, seeded, live>>
history    == <<newest, missed>>
feedVars   == <<serverVars, pushes, hub, pageVars, faults, history>>

Ids     == Events \cup {Account}
Version == Ids \X (1..MaxTime)

\* own: the acting user is Account; change: the request archives or unarchives.
NoPost  == [pc |-> "idle", change |-> "none", id |-> NoEvent, at |-> 0,
            found |-> FALSE, own |-> FALSE]
Post    == [pc : {"idle", "flag", "stamp", "save", "send"},
            change : {"none", "archive", "unarchive"}, id : Events \cup {NoEvent},
            at : 0..MaxTime, found : BOOLEAN, own : BOOLEAN]

\* "poll" is the timer's request, "nudge" one of a page that became visible or
\* whose connection came back.
Fetches == {"poll", "nudge"}
NoFetch == [pc |-> "idle", kind |-> "since", since |-> 0, items |-> {}, next |-> 0]
Fetch   == [pc : {"idle", "sent", "answered"}, kind : {"since", "latest"},
            since : 0..MaxTime, items : SUBSET Version, next : 0..MaxTime]

-----------------------------------------------------------------------------
(***************************************************************************)
(* Deliberately wrong variants of the definitions below them.              *)
(***************************************************************************)
BroadcastUnsaved(w) ==
    /\ Realtime /\ hub = "up" /\ post[w].pc = "save" /\ post[w].id # NoEvent
    /\ pushes' = Append(pushes, <<post[w].id, post[w].at>>)
    /\ post' = [post EXCEPT ![w] = NoPost]
    /\ UNCHANGED <<tableVars, clock, hub, pageVars, faults, history>>

NextIsNow(page, otherwise) == clock
ShowAfresh(items) ==
    [i \in Ids |-> IF \E v \in items : v[1] = i
                   THEN (CHOOSE v \in items : v[1] = i)[2]
                   ELSE 0]
FetchFailsForGood(f) ==
    /\ faults < MaxFaults
    /\ faults' = faults + 1
    /\ fetch[f].pc = "sent"
    /\ fetch' = [fetch EXCEPT ![f].pc = "dead"]
    /\ UNCHANGED <<serverVars, pushes, hub, shown, cursor, seeded, live, history>>
-----------------------------------------------------------------------------

FeedInit ==
    /\ log = [e \in Events |-> 0]
    /\ acts = {}
    /\ archived = FALSE
    /\ committed = {}
    /\ clock = 0
    /\ post = [w \in Writers |-> NoPost]
    /\ pushes = <<>>
    /\ hub = "off"
    /\ shown = [i \in Ids |-> 0]
    /\ cursor = 0
    /\ fetch = [f \in Fetches |-> NoFetch]
    /\ seeded = FALSE
    /\ live = FALSE
    /\ faults = 0
    /\ newest = 0
    /\ missed = {}

Later(t, u) == IF t > u THEN t ELSE u

-----------------------------------------------------------------------------
(* The server writes.                                                      *)

\* EnsureValidActorAsync, which does not see an archived user,
\* FindExistingByExternalIdAsync, then the time stamp, all before the save.
BeginPost(w, id, own) ==
    /\ post[w] = NoPost
    /\ clock < MaxTime
    /\ own => ~archived
    /\ clock' = clock + 1
    /\ post' = [post EXCEPT ![w] = [NoPost EXCEPT !.pc = "save", !.id = id, !.at = clock',
                                                  !.found = id # NoEvent /\ log[id] # 0,
                                                  !.own = own]]
    /\ UNCHANGED <<tableVars, pushes, hub, pageVars, faults, history>>

\* Archive of a user who is not archived, Unarchive of one who is.
ChangeAccount(w) ==
    /\ post[w] = NoPost
    /\ clock < MaxTime
    /\ post' = [post EXCEPT ![w] = [NoPost EXCEPT
                    !.pc = "flag", !.own = TRUE,
                    !.change = IF archived THEN "unarchive" ELSE "archive"]]
    /\ UNCHANGED <<tableVars, clock, pushes, hub, pageVars, faults, history>>

SaveFlag(w) ==
    /\ post[w].pc = "flag"
    /\ archived' = (post[w].change = "archive")
    /\ post' = [post EXCEPT ![w].pc = "stamp"]
    /\ UNCHANGED <<log, acts, committed, clock, pushes, hub, pageVars, faults, history>>

\* The row about the change, always a new one.
StampChange(w) ==
    /\ post[w].pc = "stamp"
    /\ clock < MaxTime
    /\ clock' = clock + 1
    /\ post' = [post EXCEPT ![w].pc = "save", ![w].at = clock']
    /\ UNCHANGED <<tableVars, pushes, hub, pageVars, faults, history>>

\* SaveChanges updates the row found, or inserts one: under the poster's
\* ExternalId, or under a new one the database makes up.  A row that is saved
\* after one with a later time is one the page may have asked beyond already.
Commit(w, e) ==
    /\ post[w].pc = "save"
    /\ \/ post[w].id = e /\ (post[w].found <=> log[e] # 0)
       \/ post[w].id = NoEvent /\ e \notin Keyed /\ log[e] = 0
    /\ log' = [log EXCEPT ![e] = post[w].at]
    /\ acts' = IF post[w].own THEN acts \cup {e} ELSE acts \ {e}
    /\ committed' = committed \cup {<<e, post[w].at>>} \cup
                      (IF post[w].change = "none" THEN {} ELSE {<<Account, post[w].at>>})
    /\ missed' = IF post[w].at > newest THEN missed \ {e} ELSE missed \cup {e}
    /\ newest' = Later(post[w].at, newest)
    /\ UNCHANGED archived

SavePost(w, e) ==
    /\ Commit(w, e)
    /\ post' = [post EXCEPT ![w].pc = "send", ![w].id = e]
    /\ UNCHANGED <<clock, pushes, hub, pageVars, faults>>

\* The acknowledgement is lost and the execution strategy saves once more.
SaveLostAck(w, e) ==
    /\ faults < MaxFaults
    /\ Commit(w, e)
    /\ faults' = faults + 1
    /\ UNCHANGED <<clock, post, pushes, hub, pageVars>>

\* The unique index on ExternalId; the poster gets a 400.
RejectPost(w) ==
    /\ post[w].pc = "save" /\ post[w].id # NoEvent
    /\ ~post[w].found /\ log[post[w].id] # 0
    /\ post' = [post EXCEPT ![w] = NoPost]
    /\ UNCHANGED <<tableVars, clock, pushes, hub, pageVars, faults, history>>

\* What is pushed: the row, or, about Account, its UserID and the present time.
Message(w) == IF post[w].change = "none" THEN <<post[w].id, post[w].at>> ELSE <<Account, clock>>

\* BroadcastAsync to the group "audit": the connections that are up.
Broadcast(w) ==
    /\ post[w].pc = "send"
    /\ \/ /\ Realtime /\ hub = "up"
          /\ pushes' = Append(pushes, Message(w))
          /\ newest' = Later(Message(w)[2], newest)
       \/ /\ ~(Realtime /\ hub = "up")
          /\ UNCHANGED <<pushes, newest>>
    /\ post' = [post EXCEPT ![w] = NoPost]
    /\ UNCHANGED <<tableVars, clock, hub, pageVars, faults, missed>>

\* The request is cancelled or its process dies.
Abandon(w) ==
    /\ post[w] # NoPost
    /\ faults < MaxFaults
    /\ faults' = faults + 1
    /\ post' = [post EXCEPT ![w] = NoPost]
    /\ UNCHANGED <<tableVars, clock, pushes, hub, pageVars, history>>

-----------------------------------------------------------------------------
(* The server answers.                                                     *)

After(since) == {<<e, log[e]>> : e \in {x \in Events : log[x] # 0 /\ log[x] > since}}

\* Take comes before the join with the acting user, which the query filter
\* hides: an archived user's events use up places and are not in the answer.
CutOff(since) == {v \in After(since) : Cardinality({x \in After(since) : x[2] > v[2]}) >= Take}
Hidden(since) == {v \in After(since) : archived /\ v[1] \in acts}

\* GetEventsWindowAsync: newest first, at most Take.
Window(since) == After(since) \ (CutOff(since) \cup Hidden(since))

\* The time of the newest event of the page.
NextSince(page, otherwise) ==
    IF page = {} THEN otherwise
    ELSE CHOOSE t \in {v[2] : v \in page} : \A v \in page : v[2] <= t

\* GetEventsSince; GetLatest answers an empty table with the present time.
Answer(f) ==
    /\ fetch[f].pc = "sent"
    /\ LET latest == fetch[f].kind = "latest"
           since  == IF latest THEN 0 ELSE fetch[f].since
           page   == Window(since)
       IN  /\ fetch' = [fetch EXCEPT
                ![f].pc = "answered", ![f].items = page,
                ![f].next = NextSince(page, IF latest THEN clock ELSE fetch[f].since)]
           /\ missed' = missed \cup {v[1] : v \in CutOff(since) \cup Hidden(since)}
           /\ newest' = IF latest /\ page = {} THEN Later(clock, newest) ELSE newest
    /\ UNCHANGED <<serverVars, pushes, hub, shown, cursor, seeded, live, faults>>

-----------------------------------------------------------------------------
(* The page.                                                               *)

\* fetchEventsSince from the initial load, the timer or a nudge.
Ask(f) ==
    /\ fetch[f].pc = "idle"
    /\ fetch' = [fetch EXCEPT ![f] = [NoFetch EXCEPT !.pc = "sent", !.since = cursor]]
    /\ UNCHANGED <<serverVars, pushes, hub, shown, cursor, seeded, live, faults, history>>

\* renderAuditEvent of every item: a new row, or the old one rewritten.
Show(items) ==
    [i \in Ids |-> IF \E v \in items : v[1] = i
                   THEN (CHOOSE v \in items : v[1] = i)[2]
                   ELSE shown[i]]

\* sinceCursor takes nextSince, be it later or earlier than what it is.
Receive(f) ==
    /\ fetch[f].pc = "answered"
    /\ shown' = Show(fetch[f].items)
    /\ cursor' = fetch[f].next
    /\ fetch' = [fetch EXCEPT ![f] = NoFetch]
    /\ live' = (live \/ f = "poll")
    /\ seeded' = (seeded \/ (f = "poll" /\ (~live \/ fetch[f].kind = "latest")))
    /\ UNCHANGED <<serverVars, pushes, hub, faults, history>>

\* 429, 5xx or a network error.  A page that is not seeded asks for the latest
\* events instead; a network error of the initial load leaves that to the timer.
FetchFails(f) ==
    /\ faults < MaxFaults
    /\ faults' = faults + 1
    /\ fetch[f].pc = "sent"
    /\ \/ /\ f = "poll" /\ ~seeded /\ fetch[f].kind = "since"
          /\ fetch' = [fetch EXCEPT ![f].kind = "latest"]
          /\ UNCHANGED <<seeded, live>>
       \/ /\ f = "nudge" \/ seeded \/ fetch[f].kind = "latest" \/ ~live
          /\ fetch' = [fetch EXCEPT ![f] = NoFetch]
          /\ live' = (live \/ f = "poll")
          /\ seeded' = (seeded \/ (f = "poll" /\ ~live /\ fetch[f].kind = "latest"))
    /\ UNCHANGED <<serverVars, pushes, hub, shown, cursor, history>>

\* connection.start() at the end of the initial load.
HubStart ==
    /\ Realtime /\ live /\ hub = "off"
    /\ hub' = "up"
    /\ UNCHANGED <<serverVars, pushes, pageVars, faults, history>>

\* The "auditEvent" handler; only a new row moves the cursor, and forward.
\* Rows the page has not asked for yet are not newer than the cursor any more.
Deliver ==
    /\ pushes # <<>>
    /\ LET i  == Head(pushes)[1]
           at == Head(pushes)[2]
       IN  /\ shown' = Show({Head(pushes)})
           /\ cursor' = IF shown[i] = 0 THEN Later(at, cursor) ELSE cursor
    /\ missed' = missed \cup {e \in Events : /\ log[e] > cursor /\ log[e] <= cursor'
                                             /\ shown'[e] = 0}
    /\ pushes' = Tail(pushes)
    /\ UNCHANGED <<serverVars, hub, fetch, seeded, live, faults, newest>>

\* The connection drops, with the messages on it.
HubDrops ==
    /\ hub = "up"
    /\ faults < MaxFaults
    /\ faults' = faults + 1
    /\ hub' = "down"
    /\ pushes' = <<>>
    /\ UNCHANGED <<serverVars, pageVars, history>>

\* withAutomaticReconnect, then the fetch of onreconnected.
HubReturns ==
    /\ hub = "down"
    /\ hub' = "up"
    /\ fetch["nudge"].pc = "idle"
    /\ fetch' = [fetch EXCEPT !["nudge"] = [NoFetch EXCEPT !.pc = "sent", !.since = cursor]]
    /\ UNCHANGED <<serverVars, pushes, shown, cursor, seeded, live, faults, history>>

-----------------------------------------------------------------------------
ServerNext ==
    \E w \in Writers :
      \/ \E id \in Keyed \cup {NoEvent}, own \in BOOLEAN : BeginPost(w, id, own)
      \/ ChangeAccount(w) \/ SaveFlag(w) \/ StampChange(w)
      \/ \E e \in Events : SavePost(w, e) \/ SaveLostAck(w, e)
      \/ RejectPost(w) \/ Broadcast(w) \/ Abandon(w)

PageNext ==
    \/ \E f \in Fetches : Ask(f) \/ Answer(f) \/ Receive(f) \/ FetchFails(f)
    \/ HubStart \/ Deliver \/ HubDrops \/ HubReturns

FeedNext == ServerNext \/ PageNext

FeedSpec == FeedInit /\ [][FeedNext]_feedVars

\* scheduleNext always sets the next timer, and a request that was sent is
\* answered or fails.
FeedFairSpec ==
    /\ FeedSpec
    /\ WF_feedVars(Ask("poll"))
    /\ \A f \in Fetches : WF_feedVars(Answer(f)) /\ WF_feedVars(Receive(f))
-----------------------------------------------------------------------------
FeedTypeOK ==
    /\ log \in [Events -> 0..MaxTime]
    /\ acts \subseteq Events
    /\ archived \in BOOLEAN
    /\ committed \subseteq Version
    /\ clock \in 0..MaxTime
    /\ post \in [Writers -> Post]
    /\ pushes \in Seq(Version)
    /\ hub \in {"off", "up", "down"}
    /\ shown \in [Ids -> 0..MaxTime]
    /\ cursor \in 0..MaxTime
    /\ fetch \in [Fetches -> Fetch]
    /\ seeded \in BOOLEAN /\ live \in BOOLEAN
    /\ faults \in 0..MaxFaults
    /\ newest \in 0..MaxTime
    /\ missed \subseteq Events

\* "after persistence": whichever channel it came by, a row of the page under an
\* ExternalId shows a version the table has held, and one under the id of a
\* user a change of that user that had been saved to the log before.
ShownWasCommitted ==
    /\ \A e \in Events : shown[e] # 0 => <<e, shown[e]>> \in committed
    /\ shown[Account] # 0 => \E t \in 1..shown[Account] : <<Account, t>> \in committed

\* "never clears existing rows": no fetch, fallback, push or failure takes a row
\* from the page.
RowsAreKept == [][\A i \in Ids : shown[i] # 0 => shown'[i] # 0]_feedVars

\* Polling asks for what is newer than the cursor only.  An event that is not
\* newer is on the page, unless there is one of four reasons: it was saved after
\* a later time had gone out, a window was full of newer ones, its acting user
\* was archived when the page asked, or a push moved the cursor past it.
NothingSkipped ==
    \A e \in Events \ missed : log[e] # 0 /\ log[e] <= cursor => shown[e] # 0

\* Every event that there is no such reason for gets to the page, in the end by
\* polling, through failures, dropped connections and lost pushes.
EventsReachThePage == \A e \in Events : log[e] # 0 ~> shown[e] # 0 \/ e \in missed
=============================================================================
