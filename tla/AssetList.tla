------------------------------ MODULE AssetList ------------------------------
(***************************************************************************)
(* The cached asset lists around the license endpoints: AssetSearchQuery   *)
(* pages its rows through an IMemoryCache under a key that starts with     *)
(* CacheStamp.AssetsVersion, and fills in the open seats afterwards, in    *)
(* the cached rows themselves.  One query text, one page; what was read is *)
(* represented by the number of changes committed before it was read.      *)
(***************************************************************************)
EXTENDS SoftwareLicense

CONSTANTS
    Readers,      \* list requests in flight at once
    MaxReads      \* bound: list requests that may be made

ASSUME ReadsAssumption == MaxReads \in Nat

VARIABLES
    lists,        \* every list read so far; cached: GetOrCreateAsync finds it
    reader,       \* the list requests
    reads,        \* list requests made so far
    commits,      \* history: changes of the license or its seats so far
    settled       \* history: those committed before the latest BumpAssets

listVars == <<licenseVars, lists, reader, reads, commits, settled>>

\* row and chips are the changes the row and its seat chips show; no chips have
\* been filled in while chips is 0.  An archived license is not in the list.
AssetRows == [key : Nat, row : Nat, shown : BOOLEAN, chips : Nat, cached : BOOLEAN]

\* key is the stamp in the cache key, floor the value of settled at that
\* moment, list the rows in hand, at and some what a query has answered.
NoReader == [pc |-> "idle", key |-> 0, floor |-> 0, list |-> 0, at |-> 0, some |-> FALSE]

ListRequest == [pc : {"idle", "count", "query", "store", "hydrate", "fill", "answered"},
                key : Nat, floor : Nat, list : Nat, at : Nat, some : BOOLEAN]

-----------------------------------------------------------------------------
(***************************************************************************)
(* Deliberately wrong variants of the definitions below them.              *)
(***************************************************************************)
KeyAtStore(l) == stamp
QueryNotStored(l) ==
    /\ reader[l].pc = "query"
    /\ reader' = [reader EXCEPT ![l].pc = "hydrate"]
    /\ UNCHANGED <<licenseVars, lists, reads, commits, settled>>
-----------------------------------------------------------------------------

ListInit ==
    /\ LicenseInit
    /\ lists = <<>>
    /\ reader = [l \in Readers |-> NoReader]
    /\ reads = 0
    /\ commits = 0
    /\ settled = 0

CachedUnder(k) == {o \in 1..Len(lists) : lists[o].key = k /\ lists[o].cached}

\* HydrateSeatAssignmentsAsync has nothing to do for an empty page.
AfterPage(shown) == IF shown THEN "hydrate" ELSE "answered"

\* BuildCacheKeyBaseAsync reads the stamp.
ListBegin(l) ==
    /\ reader[l].pc \in {"idle", "answered"}
    /\ reads < MaxReads
    /\ reads' = reads + 1
    /\ reader' = [reader EXCEPT ![l] = [NoReader EXCEPT !.pc = "count", !.key = stamp,
                                                        !.floor = settled]]
    /\ UNCHANGED <<licenseVars, lists, commits, settled>>

\* The number of rows has been counted, or found counted: GetOrCreateAsync
\* looks for the page under the key.
ListLookUp(l) ==
    /\ reader[l].pc = "count"
    /\ \/ \E o \in CachedUnder(reader[l].key) :
            reader' = [reader EXCEPT ![l].pc = AfterPage(lists[o].shown), ![l].list = o]
       \/ /\ CachedUnder(reader[l].key) = {}
          /\ reader' = [reader EXCEPT ![l].pc = "query"]
    /\ UNCHANGED <<licenseVars, lists, reads, commits, settled>>

\* The factory's query: the database answers with the rows of this moment.
ListQuery(l) ==
    /\ reader[l].pc = "query"
    /\ reader' = [reader EXCEPT ![l].pc = "store", ![l].at = commits, ![l].some = ~sw.archived]
    /\ UNCHANGED <<licenseVars, lists, reads, commits, settled>>

StoreKey(l) == reader[l].key

\* The entry replaces one that another request has stored meanwhile, which the
\* requests that found it keep using.
ListStore(l) ==
    /\ reader[l].pc = "store"
    /\ LET kept == [o \in 1..Len(lists) |->
                      IF lists[o].key = StoreKey(l) THEN [lists[o] EXCEPT !.cached = FALSE]
                                                    ELSE lists[o]]
       IN  lists' = Append(kept, [key |-> StoreKey(l), row |-> reader[l].at,
                                  shown |-> reader[l].some, chips |-> 0, cached |-> TRUE])
    /\ reader' = [reader EXCEPT ![l].pc = AfterPage(reader[l].some),
                                ![l].list = Len(lists) + 1]
    /\ UNCHANGED <<licenseVars, reads, commits, settled>>

\* The open seats of the page's licenses, hits included.
ListHydrate(l) ==
    /\ reader[l].pc = "hydrate"
    /\ reader' = [reader EXCEPT ![l].pc = "fill", ![l].at = commits, ![l].some = (open # {})]
    /\ UNCHANGED <<licenseVars, lists, reads, commits, settled>>

\* The chips are written into the rows in hand, cached or not; a license
\* without open seats keeps the chips it had.
ListFill(l) ==
    /\ reader[l].pc = "fill"
    /\ lists' = IF reader[l].some THEN [lists EXCEPT ![reader[l].list].chips = reader[l].at]
                                  ELSE lists
    /\ reader' = [reader EXCEPT ![l].pc = "answered"]
    /\ UNCHANGED <<licenseVars, reads, commits, settled>>

\* The entry is older than the two minutes of DefaultTtl.
Expire(o) ==
    /\ lists[o].cached
    /\ lists' = [lists EXCEPT ![o].cached = FALSE]
    /\ UNCHANGED <<licenseVars, reader, reads, commits, settled>>

\* A request to the license runs BumpAssets.
Invalidates == (\E r \in Requests : Bump(r)) \/ (\E q \in AdminRequests : AdminBump(q))

\* A step of the license endpoints, and what the history keeps of it.
LicenseStep ==
    /\ LicenseNext
    /\ commits' = IF <<sw, open>>' # <<sw, open>> THEN commits + 1 ELSE commits
    /\ settled' = IF Invalidates THEN commits ELSE settled
    /\ UNCHANGED <<lists, reader, reads>>

ListNext ==
    \/ LicenseStep
    \/ \E l \in Readers :
         \/ ListBegin(l) \/ ListLookUp(l) \/ ListQuery(l) \/ ListStore(l)
         \/ ListHydrate(l) \/ ListFill(l)
    \/ \E o \in 1..Len(lists) : Expire(o)

ListSpec == ListInit /\ [][ListNext]_listVars
-----------------------------------------------------------------------------
ListTypeOK ==
    /\ lists \in Seq(AssetRows)
    /\ reader \in [Readers -> ListRequest]
    /\ \A l \in Readers :
         reader[l].pc \in {"hydrate", "fill", "answered"} => reader[l].list \in 1..Len(lists)
    /\ reads \in 0..MaxReads
    /\ commits \in Nat
    /\ settled \in 0..commits

\* A list request shows every change of the license and its seats that was
\* committed before the latest BumpAssets ahead of the request: the key is read
\* before the rows, and every handler bumps after its commit.  So a change is
\* in every list asked for once its own request has gone on from SaveChanges,
\* whoever cached that list and whenever.
ListsShowSettledSeats ==
    \A l \in Readers :
      reader[l].pc = "answered" =>
        LET shown == lists[reader[l].list]
        IN  /\ shown.row >= reader[l].floor
            /\ shown.chips = 0 \/ shown.chips >= reader[l].floor
=============================================================================
