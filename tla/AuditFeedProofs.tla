--------------------------- MODULE AuditFeedProofs ---------------------------
(***************************************************************************)
(* Theorems about AuditFeed, for any events, writers and bounds.           *)
(***************************************************************************)
EXTENDS AuditFeed, WellFoundedInduction, TLAPS

\* A row the page may be given: a version of an event the table has held, or a
\* change of Account that the log has held for some time.
Told(v, held) ==
    \/ v[1] \in Events /\ v \in held
    \/ v[1] = Account /\ \E t \in 1..v[2] : <<Account, t>> \in held

\* What is on its way to the page has been in the table.
SentCommitted ==
    /\ \A e \in Events : log[e] # 0 => <<e, log[e]>> \in committed
    /\ \A w \in Writers : post[w].pc = "send" =>
         /\ post[w].id \in Events /\ <<post[w].id, post[w].at>> \in committed
         /\ post[w].change # "none" => <<Account, post[w].at>> \in committed
    /\ \A i \in 1..Len(pushes) : Told(pushes[i], committed)
    /\ \A f \in Fetches : \A v \in fetch[f].items : v[1] \in Events /\ v \in committed

\* A post that is saved or sent has read the clock.
PostsTimed == \A w \in Writers : post[w].pc \in {"save", "send"} => post[w].at \in 1..clock

\* ShownWasCommitted made inductive.
FeedInv == FeedTypeOK /\ PostsTimed /\ SentCommitted /\ ShownWasCommitted

\* No row, push, request or answer is past the latest time that has gone out.
WithinNewest ==
    /\ \A e \in Events : log[e] <= newest
    /\ cursor <= newest
    /\ \A i \in 1..Len(pushes) : pushes[i][2] <= newest
    /\ \A f \in Fetches :
         /\ fetch[f].pc # "idle" => fetch[f].since <= newest
         /\ fetch[f].pc = "answered" => fetch[f].next <= newest

\* The page has a row for e if that is not newer than t.
SeenUpTo(e, t) == log[e] <= t => shown[e] # 0

\* What a request asks for starts where the page is complete, and an answer
\* brings what is missing up to the time it moves the cursor to.
Complete(e) ==
    /\ SeenUpTo(e, cursor)
    /\ \A f \in Fetches :
         /\ fetch[f].pc # "idle" => SeenUpTo(e, fetch[f].since)
         /\ fetch[f].pc = "answered" =>
              SeenUpTo(e, fetch[f].next) \/ \E v \in fetch[f].items : v[1] = e

\* NothingSkipped made inductive.
ReachInv == WithinNewest /\ \A e \in Events \ missed : log[e] # 0 => Complete(e)

-----------------------------------------------------------------------------
(* What the operators of the model return.                                 *)

\* Below a bound, a set of times has a latest one.
LEMMA LatestExists ==
    ASSUME NEW N \in Nat, NEW S \in SUBSET (0..N), S # {}
    PROVE  \E t \in S : \A u \in S : u <= t
<1> DEFINE Left == {N - u : u \in S}
<1>1. Left \subseteq Nat /\ Left # {}
  <2>1. \A u \in S : N - u \in Nat
    OBVIOUS
  <2> QED  BY <2>1
<1>2. PICK x \in Left : \A y \in Left : ~ (<<y, x>> \in OpToRel(<, Nat))
  <2> HIDE DEF Left
  <2> QED  BY <1>1, NatLessThanWellFounded, WFMin
<1>3. PICK t \in S : x = N - t
  BY <1>2
<1>4. ASSUME NEW u \in S  PROVE u <= t
  <2>1. N - u \in Left /\ N - u \in Nat /\ x \in Nat
    BY <1>1, <1>2
  <2>2. ~ (<<N - u, x>> \in OpToRel(<, Nat))
    BY <2>1, <1>2
  <2>3. ~ (N - u < x)
    BY <2>1, <2>2 DEF OpToRel
  <2>4. t \in 0..N /\ u \in 0..N
    BY <1>4
  <2> QED  BY <2>3, <2>4, <1>3
<1> QED  BY <1>4

\* nextSince is the time of an event of the page, and none on it is later.
LEMMA NextSinceIsLatest ==
    ASSUME NEW page \in SUBSET Version, page # {}, NEW o
    PROVE  /\ NextSince(page, o) \in {v[2] : v \in page}
           /\ \A v \in page : v[2] <= NextSince(page, o)
<1> DEFINE Times == {v[2] : v \in page}
<1>1. MaxTime \in Nat /\ Times \subseteq 0..MaxTime /\ Times # {}
  BY FeedAssumption DEF Version
<1>2. \E t \in Times : \A u \in Times : u <= t
  <2> HIDE DEF Times
  <2> QED  BY <1>1, LatestExists
<1>3. \E t \in Times : \A v \in page : v[2] <= t
  BY <1>2
<1>4. NextSince(page, o) = CHOOSE t \in Times : \A v \in page : v[2] <= t
  BY DEF NextSince
<1> HIDE DEF Times
<1>5. NextSince(page, o) \in Times /\ \A v \in page : v[2] <= NextSince(page, o)
  BY <1>3, <1>4
<1> QED  BY <1>5 DEF Times

LEMMA NextSinceType ==
    ASSUME NEW page \in SUBSET Version, NEW o \in 0..MaxTime
    PROVE  NextSince(page, o) \in 0..MaxTime
<1>1. CASE page = {}
  BY <1>1 DEF NextSince
<1>2. CASE page # {}
  BY <1>2, NextSinceIsLatest, FeedAssumption DEF Version
<1> QED  BY <1>1, <1>2

\* A window holds rows of the table, newer than what was asked for, and lacks
\* those alone that are cut off or hidden.
LEMMA WindowHoldsRows ==
    ASSUME log \in [Events -> 0..MaxTime], NEW s
    PROVE  /\ Window(s) \subseteq Version
           /\ \A v \in Window(s) : v[1] \in Events /\ log[v[1]] = v[2] /\ v[2] > s /\ v[2] # 0
           /\ \A e \in Events : log[e] # 0 /\ log[e] > s =>
                \/ e \in {v[1] : v \in CutOff(s) \cup Hidden(s)}
                \/ <<e, log[e]>> \in Window(s)
<1>1. /\ After(s) \subseteq Version
      /\ \A v \in After(s) : v[1] \in Events /\ log[v[1]] = v[2] /\ v[2] > s /\ v[2] # 0
  BY FeedAssumption DEF After, Version, Ids
<1>2. Window(s) \subseteq After(s)
  BY DEF Window
<1>3. ASSUME NEW e \in Events, log[e] # 0, log[e] > s,
             <<e, log[e]>> \notin Window(s)
      PROVE  e \in {v[1] : v \in CutOff(s) \cup Hidden(s)}
  <2>1. <<e, log[e]>> \in After(s)
    BY <1>3 DEF After
  <2>2. <<e, log[e]>> \in CutOff(s) \cup Hidden(s)
    BY <1>3, <2>1 DEF Window
  <2> QED  BY <2>2
<1> QED  BY <1>1, <1>2, <1>3

\* Show rewrites the rows of the items and leaves the others alone.
LEMMA ShowRow ==
    ASSUME NEW items, NEW e \in Ids
    PROVE  \/ (\E v \in items : v[1] = e) /\ (\E v \in items : v[1] = e /\ Show(items)[e] = v[2])
           \/ ~(\E v \in items : v[1] = e) /\ Show(items)[e] = shown[e]
<1>1. CASE \E v \in items : v[1] = e
  <2> DEFINE c == CHOOSE v \in items : v[1] = e
  <2>1. c \in items /\ c[1] = e
    BY <1>1
  <2>2. Show(items)[e] = c[2]
    BY <1>1 DEF Show
  <2> QED  BY <2>1, <2>2
<1>2. CASE ~ \E v \in items : v[1] = e
  BY <1>2 DEF Show
<1> QED  BY <1>1, <1>2

LEMMA ShowType ==
    ASSUME NEW items \in SUBSET Version, shown \in [Ids -> 0..MaxTime]
    PROVE  Show(items) \in [Ids -> 0..MaxTime]
<1>1. DOMAIN Show(items) = Ids /\ Show(items) = [e \in Ids |-> Show(items)[e]]
  BY DEF Show
<1>2. ASSUME NEW e \in Ids  PROVE Show(items)[e] \in 0..MaxTime
  BY ShowRow, FeedAssumption DEF Version
<1> QED  BY <1>1, <1>2

-----------------------------------------------------------------------------
(* Types: what is read of the clock bounds every time in the system.       *)

TypeInv == FeedTypeOK /\ PostsTimed

LEMMA TypeInit == FeedInit => TypeInv
<1> SUFFICES ASSUME FeedInit PROVE TypeInv
  OBVIOUS
<1> USE FeedAssumption
<1>1. NoPost \in Post /\ NoFetch \in Fetch
  BY DEF NoPost, Post, NoFetch, Fetch
<1>2. FeedTypeOK
  <2>1. log \in [Events -> 0..MaxTime] /\ shown \in [Ids -> 0..MaxTime]
    BY DEF FeedInit
  <2>2. post \in [Writers -> Post] /\ fetch \in [Fetches -> Fetch]
    BY <1>1 DEF FeedInit
  <2>3. committed \subseteq Version /\ pushes \in Seq(Version)
    BY DEF FeedInit
  <2>4. /\ clock \in 0..MaxTime /\ cursor \in 0..MaxTime /\ faults \in 0..MaxFaults
        /\ newest \in 0..MaxTime
    BY DEF FeedInit
  <2>5. /\ hub \in {"off", "up", "down"} /\ seeded \in BOOLEAN /\ live \in BOOLEAN
        /\ archived \in BOOLEAN /\ acts \subseteq Events /\ missed \subseteq Events
    BY DEF FeedInit
  <2> QED  BY <2>1, <2>2, <2>3, <2>4, <2>5 DEF FeedTypeOK
<1>3. PostsTimed
  BY DEF FeedInit, PostsTimed, NoPost
<1> QED  BY <1>2, <1>3 DEF TypeInv

\* A post that takes a time takes the one the clock is moved to.
LEMMA PostMovesType ==
    ASSUME TypeInv, NEW w \in Writers, NEW p \in Post,
           post' = [post EXCEPT ![w] = p],
           clock' \in clock..MaxTime, p.pc \in {"save", "send"} => p.at \in 1..clock'
    PROVE  post' \in [Writers -> Post] /\ PostsTimed'
<1>1. post' \in [Writers -> Post] /\ clock \in 0..MaxTime
  BY DEF TypeInv, FeedTypeOK
<1>2. ASSUME NEW x \in Writers, post'[x].pc \in {"save", "send"}
      PROVE  post'[x].at \in 1..clock'
  <2>1. CASE x = w
    BY <1>2, <2>1 DEF TypeInv, FeedTypeOK
  <2>2. CASE x # w
    <3>1. post'[x] = post[x]
      BY <2>2 DEF TypeInv, FeedTypeOK
    <3>2. post[x].at \in 1..clock
      BY <1>2, <3>1 DEF TypeInv, PostsTimed
    <3> QED  BY <1>1, <3>1, <3>2, FeedAssumption
  <2> QED  BY <2>1, <2>2
<1> QED  BY <1>1, <1>2 DEF PostsTimed

LEMMA BeginPostType ==
    ASSUME TypeInv, NEW w \in Writers, NEW id \in Keyed \cup {NoEvent}, NEW own \in BOOLEAN,
           BeginPost(w, id, own)
    PROVE  TypeInv'
<1> DEFINE p == [NoPost EXCEPT !.pc = "save", !.id = id, !.at = clock',
                               !.found = id # NoEvent /\ log[id] # 0, !.own = own]
<1>1. clock' = clock + 1 /\ clock' \in 1..MaxTime /\ clock' \in clock..MaxTime
  BY FeedAssumption DEF TypeInv, FeedTypeOK, BeginPost
<1>2. p \in Post /\ p.at = clock'
  <2> DEFINE found == id # NoEvent /\ log[id] # 0
  <2>1. found \in BOOLEAN /\ clock' \in 0..MaxTime /\ id \in Events \cup {NoEvent}
    BY <1>1, FeedAssumption
  <2> HIDE DEF found
  <2>2. [NoPost EXCEPT !.pc = "save", !.id = id, !.at = clock', !.found = found, !.own = own] \in Post
    BY <2>1 DEF Post, NoPost
  <2> QED  BY <2>2 DEF found, NoPost
<1>3. post' = [post EXCEPT ![w] = p]
  BY DEF BeginPost
<1>4. post' \in [Writers -> Post] /\ PostsTimed'
  <2> HIDE DEF p
  <2>1. p.at \in 1..clock'
    BY <1>1, <1>2, FeedAssumption
  <2> QED  BY <1>1, <1>2, <1>3, <2>1, PostMovesType
<1> HIDE DEF p
<1> QED  BY <1>1, <1>4 DEF TypeInv, FeedTypeOK, BeginPost, tableVars, pageVars, history

LEMMA ChangeAccountType ==
    ASSUME TypeInv, NEW w \in Writers, ChangeAccount(w)
    PROVE  TypeInv'
<1> DEFINE p == [NoPost EXCEPT !.pc = "flag", !.own = TRUE,
                               !.change = IF archived THEN "unarchive" ELSE "archive"]
<1>1. clock' = clock /\ clock' \in clock..MaxTime
  BY FeedAssumption DEF TypeInv, FeedTypeOK, ChangeAccount
<1>2. p \in Post /\ p.pc = "flag"
  <2> DEFINE change == IF archived THEN "unarchive" ELSE "archive"
  <2>1. change \in {"none", "archive", "unarchive"} /\ 0 \in 0..MaxTime
    BY FeedAssumption
  <2> HIDE DEF change
  <2>2. [NoPost EXCEPT !.pc = "flag", !.own = TRUE, !.change = change] \in Post
    BY <2>1 DEF Post, NoPost
  <2> QED  BY <2>2 DEF change, NoPost
<1>3. post' = [post EXCEPT ![w] = p]
  BY DEF ChangeAccount
<1>4. post' \in [Writers -> Post] /\ PostsTimed'
  <2> HIDE DEF p
  <2> QED  BY <1>1, <1>2, <1>3, PostMovesType
<1> HIDE DEF p
<1> QED  BY <1>4 DEF TypeInv, FeedTypeOK, ChangeAccount, tableVars, pageVars, history

LEMMA SaveFlagType ==
    ASSUME TypeInv, NEW w \in Writers, SaveFlag(w)
    PROVE  TypeInv'
<1> DEFINE p == [post[w] EXCEPT !.pc = "stamp"]
<1>1. clock' = clock /\ clock' \in clock..MaxTime
  BY FeedAssumption DEF TypeInv, FeedTypeOK, SaveFlag
<1>2. p \in Post /\ p.pc = "stamp"
  BY DEF TypeInv, FeedTypeOK, Post
<1>3. post' = [post EXCEPT ![w] = p]
  BY DEF SaveFlag
<1>4. post' \in [Writers -> Post] /\ PostsTimed'
  <2> HIDE DEF p
  <2> QED  BY <1>1, <1>2, <1>3, PostMovesType
<1> HIDE DEF p
<1> QED  BY <1>4 DEF TypeInv, FeedTypeOK, SaveFlag, pageVars, history

LEMMA StampChangeType ==
    ASSUME TypeInv, NEW w \in Writers, StampChange(w)
    PROVE  TypeInv'
<1> DEFINE p == [post[w] EXCEPT !.pc = "save", !.at = clock']
<1>1. clock' = clock + 1 /\ clock' \in 1..MaxTime /\ clock' \in clock..MaxTime
  BY FeedAssumption DEF TypeInv, FeedTypeOK, StampChange
<1>2. p \in Post /\ p.at = clock'
  <2>1. post[w] \in Post /\ clock' \in 0..MaxTime
    BY <1>1 DEF TypeInv, FeedTypeOK
  <2> QED  BY <2>1 DEF Post
<1>3. post' = [post EXCEPT ![w] = p]
  BY DEF StampChange
<1>4. post' \in [Writers -> Post] /\ PostsTimed'
  <2> HIDE DEF p
  <2>1. p.at \in 1..clock'
    BY <1>1, <1>2, FeedAssumption
  <2> QED  BY <1>1, <1>2, <1>3, <2>1, PostMovesType
<1> HIDE DEF p
<1> QED  BY <1>1, <1>4 DEF TypeInv, FeedTypeOK, StampChange, tableVars, pageVars, history

LEMMA LaterType ==
    ASSUME NEW t \in 0..MaxTime, NEW u \in 0..MaxTime
    PROVE  Later(t, u) \in 0..MaxTime /\ Later(t, u) >= t /\ Later(t, u) >= u
BY FeedAssumption DEF Later

\* A save writes a version with the time the post has read.
LEMMA CommitType ==
    ASSUME TypeInv, NEW w \in Writers, NEW e \in Events, Commit(w, e)
    PROVE  /\ <<e, post[w].at>> \in Version /\ <<Account, post[w].at>> \in Version
           /\ log' \in [Events -> 0..MaxTime]
           /\ committed' \subseteq Version
           /\ acts' \subseteq Events /\ missed' \subseteq Events
           /\ newest' \in 0..MaxTime /\ archived' \in BOOLEAN
<1> USE FeedAssumption DEF TypeInv, Commit
<1>1. post[w].at \in 1..clock /\ clock \in 0..MaxTime
  BY DEF PostsTimed, FeedTypeOK
<1>2. post[w].at \in 1..MaxTime /\ post[w].at \in 0..MaxTime
  BY <1>1
<1>3. <<e, post[w].at>> \in Version /\ <<Account, post[w].at>> \in Version
  BY <1>2 DEF Version, Ids
<1>4. newest' \in 0..MaxTime
  BY <1>2, LaterType DEF FeedTypeOK
<1> QED  BY <1>2, <1>3, <1>4 DEF FeedTypeOK

LEMMA SavePostType ==
    ASSUME TypeInv, NEW w \in Writers, NEW e \in Events, SavePost(w, e)
    PROVE  TypeInv'
<1> DEFINE p == [post[w] EXCEPT !.pc = "send", !.id = e]
<1>1. Commit(w, e)
  BY DEF SavePost
<1>2. clock' = clock /\ clock' \in clock..MaxTime
  BY FeedAssumption DEF TypeInv, FeedTypeOK, SavePost
<1>3. p \in Post /\ p.at = post[w].at
  BY DEF TypeInv, FeedTypeOK, Post
<1>4. post' = [post EXCEPT ![w] = p]
  BY DEF SavePost
<1>5. post[w].at \in 1..clock'
  BY <1>1, <1>2 DEF Commit, TypeInv, PostsTimed
<1>6. post' \in [Writers -> Post] /\ PostsTimed'
  <2> HIDE DEF p
  <2> QED  BY <1>2, <1>3, <1>4, <1>5, PostMovesType
<1> HIDE DEF p
<1> QED  BY <1>1, <1>6, CommitType DEF TypeInv, FeedTypeOK, SavePost, pageVars

LEMMA SaveLostAckType ==
    ASSUME TypeInv, NEW w \in Writers, NEW e \in Events, SaveLostAck(w, e)
    PROVE  TypeInv'
<1>1. Commit(w, e)
  BY DEF SaveLostAck
<1>2. faults' \in 0..MaxFaults
  BY FeedAssumption DEF TypeInv, FeedTypeOK, SaveLostAck
<1>3. FeedTypeOK'
  BY <1>1, <1>2, CommitType DEF TypeInv, FeedTypeOK, SaveLostAck, pageVars
<1> QED  BY <1>3 DEF TypeInv, PostsTimed, SaveLostAck

\* A post that ends, as rejected, sent or abandoned, leaves the other posts.
LEMMA PostEndsType ==
    ASSUME TypeInv, NEW w \in Writers, post' = [post EXCEPT ![w] = NoPost], UNCHANGED clock
    PROVE  post' \in [Writers -> Post] /\ PostsTimed'
<1>1. NoPost \in Post /\ NoPost.pc = "idle"
  BY FeedAssumption DEF NoPost, Post
<1>2. post' \in [Writers -> Post]
  BY <1>1 DEF TypeInv, FeedTypeOK
<1>3. ASSUME NEW x \in Writers, post'[x].pc \in {"save", "send"}
      PROVE  post'[x].at \in 1..clock'
  BY <1>1, <1>3 DEF TypeInv, PostsTimed, FeedTypeOK
<1> QED  BY <1>2, <1>3 DEF PostsTimed

LEMMA RejectPostType ==
    ASSUME TypeInv, NEW w \in Writers, RejectPost(w)
    PROVE  TypeInv'
<1>1. post' \in [Writers -> Post] /\ PostsTimed'
  BY PostEndsType DEF RejectPost
<1> QED  BY <1>1 DEF TypeInv, FeedTypeOK, RejectPost, tableVars, pageVars, history

LEMMA AbandonType ==
    ASSUME TypeInv, NEW w \in Writers, Abandon(w)
    PROVE  TypeInv'
<1>1. post' \in [Writers -> Post] /\ PostsTimed'
  BY PostEndsType DEF Abandon
<1>2. faults' \in 0..MaxFaults
  BY FeedAssumption DEF Abandon, TypeInv, FeedTypeOK
<1> QED  BY <1>1, <1>2 DEF TypeInv, FeedTypeOK, Abandon, tableVars, pageVars, history

\* What is pushed is a version: of the event, or of Account at present.
LEMMA MessageType ==
    ASSUME TypeInv, NEW w \in Writers, post[w].pc = "send", post[w].id \in Events
    PROVE  Message(w) \in Version
<1>1. post[w].at \in 1..clock /\ clock \in 0..MaxTime
  BY DEF TypeInv, PostsTimed, FeedTypeOK
<1>2. post[w].at \in 1..MaxTime /\ clock \in 1..MaxTime
  BY <1>1, FeedAssumption
<1> QED  BY <1>2 DEF Message, Version, Ids

LEMMA BroadcastType ==
    ASSUME TypeInv, NEW w \in Writers, Broadcast(w),
           post[w].pc = "send" => post[w].id \in Events
    PROVE  TypeInv'
<1>1. post' \in [Writers -> Post] /\ PostsTimed'
  BY PostEndsType DEF Broadcast
<1>2. Message(w) \in Version
  BY MessageType DEF Broadcast
<1>3. Message(w)[2] \in 0..MaxTime
  BY <1>2, FeedAssumption DEF Version
<1>4. Later(Message(w)[2], newest) \in 0..MaxTime
  BY <1>3, LaterType DEF TypeInv, FeedTypeOK
<1>5. pushes' \in Seq(Version) /\ newest' \in 0..MaxTime
  <2>1. pushes \in Seq(Version) /\ newest \in 0..MaxTime
    BY DEF TypeInv, FeedTypeOK
  <2>2. CASE UNCHANGED <<pushes, newest>>
    BY <2>1, <2>2
  <2>3. CASE pushes' = Append(pushes, Message(w)) /\ newest' = Later(Message(w)[2], newest)
    <3>1. Append(pushes, Message(w)) \in Seq(Version)
      BY <1>2, <2>1
    <3> QED  BY <1>4, <2>3, <3>1
  <2> QED  BY <2>2, <2>3 DEF Broadcast
<1> QED  BY <1>1, <1>5 DEF Broadcast, TypeInv, FeedTypeOK, tableVars, pageVars

\* A request that the page or the server rewrites stays one.
LEMMA FetchType ==
    ASSUME TypeInv, NEW f \in Fetches, NEW r \in Fetch,
           fetch' = [fetch EXCEPT ![f] = r], UNCHANGED <<serverVars, pushes>>,
           hub' \in {"off", "up", "down"}, shown' \in [Ids -> 0..MaxTime],
           cursor' \in 0..MaxTime, seeded' \in BOOLEAN, live' \in BOOLEAN,
           faults' \in 0..MaxFaults, newest' \in 0..MaxTime, missed' \subseteq Events
    PROVE  TypeInv'
<1>1. fetch' \in [Fetches -> Fetch]
  BY DEF TypeInv, FeedTypeOK
<1> QED  BY <1>1 DEF TypeInv, FeedTypeOK, PostsTimed, serverVars, tableVars

LEMMA AskedType ==
    ASSUME TypeInv
    PROVE  [NoFetch EXCEPT !.pc = "sent", !.since = cursor] \in Fetch
<1>1. NoFetch \in Fetch
  BY FeedAssumption DEF NoFetch, Fetch
<1>2. cursor \in 0..MaxTime
  BY DEF TypeInv, FeedTypeOK
<1> QED  BY <1>1, <1>2 DEF Fetch

LEMMA AskType ==
    ASSUME TypeInv, NEW f \in Fetches, Ask(f)
    PROVE  TypeInv'
<1> DEFINE r == [NoFetch EXCEPT !.pc = "sent", !.since = cursor]
<1>1. r \in Fetch
  BY AskedType
<1>2. fetch' = [fetch EXCEPT ![f] = r]
  BY DEF Ask
<1> HIDE DEF r
<1> QED  BY <1>1, <1>2, FetchType DEF Ask, TypeInv, FeedTypeOK, history

LEMMA AnswerType ==
    ASSUME TypeInv, NEW f \in Fetches, Answer(f)
    PROVE  TypeInv'
<1> DEFINE latest == fetch[f].kind = "latest"
           page == Window(IF latest THEN 0 ELSE fetch[f].since)
           next == NextSince(page, IF latest THEN clock ELSE fetch[f].since)
           r == [fetch[f] EXCEPT !.pc = "answered", !.items = page, !.next = next]
<1>1. fetch[f] \in Fetch /\ clock \in 0..MaxTime
  BY DEF TypeInv, FeedTypeOK
<1>2. page \in SUBSET Version
  BY WindowHoldsRows DEF TypeInv, FeedTypeOK
<1>3. (IF latest THEN clock ELSE fetch[f].since) \in 0..MaxTime
  BY <1>1 DEF Fetch
<1>4. next \in 0..MaxTime
  <2> HIDE DEF page, latest
  <2> QED  BY <1>2, <1>3, NextSinceType
<1>5. r \in Fetch
  <2> HIDE DEF page, next
  <2> QED  BY <1>1, <1>2, <1>4 DEF Fetch
<1>6. fetch' = [fetch EXCEPT ![f] = r]
  BY DEF Answer
<1>7. missed' \subseteq Events
  <2>1. \A t : CutOff(t) \cup Hidden(t) \subseteq After(t)
    BY DEF CutOff, Hidden
  <2>2. \A t : \A v \in After(t) : v[1] \in Events
    BY DEF After
  <2>3. \A t : {v[1] : v \in CutOff(t) \cup Hidden(t)} \subseteq Events
    BY <2>1, <2>2
  <2> QED  BY <2>3 DEF Answer, TypeInv, FeedTypeOK
<1>8. newest' \in 0..MaxTime
  BY <1>1, LaterType DEF Answer, TypeInv, FeedTypeOK
<1>9. UNCHANGED <<serverVars, pushes, hub, shown, cursor, seeded, live, faults>>
  BY DEF Answer
<1>10. /\ hub' \in {"off", "up", "down"} /\ shown' \in [Ids -> 0..MaxTime]
       /\ cursor' \in 0..MaxTime /\ seeded' \in BOOLEAN /\ live' \in BOOLEAN
       /\ faults' \in 0..MaxFaults
  BY <1>9 DEF TypeInv, FeedTypeOK
<1> HIDE DEF r, page, next, latest
<1> QED  BY <1>5, <1>6, <1>7, <1>8, <1>9, <1>10, FetchType

LEMMA ReceiveType ==
    ASSUME TypeInv, NEW f \in Fetches, Receive(f)
    PROVE  TypeInv'
<1>1. NoFetch \in Fetch
  BY FeedAssumption DEF NoFetch, Fetch
<1>2. fetch[f].items \in SUBSET Version /\ fetch[f].next \in 0..MaxTime
  BY DEF TypeInv, FeedTypeOK, Fetch
<1>3. shown' \in [Ids -> 0..MaxTime] /\ cursor' \in 0..MaxTime
  BY <1>2, ShowType DEF Receive, TypeInv, FeedTypeOK
<1>4. seeded' \in BOOLEAN /\ live' \in BOOLEAN
  BY DEF Receive, TypeInv, FeedTypeOK
<1> QED  BY <1>1, <1>3, <1>4, FetchType DEF Receive, TypeInv, FeedTypeOK, history

LEMMA FetchFailsType ==
    ASSUME TypeInv, NEW f \in Fetches, FetchFails(f)
    PROVE  TypeInv'
<1>1. NoFetch \in Fetch /\ [fetch[f] EXCEPT !.kind = "latest"] \in Fetch
  <2>1. NoFetch \in Fetch
    BY FeedAssumption DEF NoFetch, Fetch
  <2>2. fetch[f] \in Fetch
    BY DEF TypeInv, FeedTypeOK
  <2>3. [fetch[f] EXCEPT !.kind = "latest"] \in Fetch
    BY <2>2 DEF Fetch
  <2> QED  BY <2>1, <2>3
<1>2. faults' \in 0..MaxFaults
  BY FeedAssumption DEF FetchFails, TypeInv, FeedTypeOK
<1>3. PICK r \in Fetch : fetch' = [fetch EXCEPT ![f] = r]
  BY <1>1 DEF FetchFails
<1>4. seeded' \in BOOLEAN /\ live' \in BOOLEAN
  BY DEF FetchFails, TypeInv, FeedTypeOK
<1>5. hub' = hub /\ shown' = shown /\ cursor' = cursor /\ UNCHANGED <<serverVars, pushes, history>>
  BY DEF FetchFails
<1> QED  BY <1>2, <1>3, <1>4, <1>5, FetchType DEF TypeInv, FeedTypeOK, history

LEMMA HubReturnsType ==
    ASSUME TypeInv, HubReturns
    PROVE  TypeInv'
<1> DEFINE r == [NoFetch EXCEPT !.pc = "sent", !.since = cursor]
<1>1. r \in Fetch
  BY AskedType
<1>2. fetch' = [fetch EXCEPT !["nudge"] = r] /\ "nudge" \in Fetches
  BY DEF HubReturns, Fetches
<1> HIDE DEF r
<1> QED  BY <1>1, <1>2, FetchType DEF HubReturns, TypeInv, FeedTypeOK, history

LEMMA DeliverType ==
    ASSUME TypeInv, Deliver
    PROVE  TypeInv'
<1> USE FeedAssumption DEF TypeInv, Deliver
<1>1. Head(pushes) \in Version /\ pushes' \in Seq(Version)
  BY DEF FeedTypeOK
<1>2. shown' \in [Ids -> 0..MaxTime]
  BY <1>1, ShowType DEF FeedTypeOK
<1>3. cursor' \in 0..MaxTime
  <2>1. Head(pushes)[2] \in 0..MaxTime
    BY <1>1 DEF Version
  <2> QED  BY <2>1, LaterType DEF FeedTypeOK
<1>4. FeedTypeOK'
  BY <1>1, <1>2, <1>3 DEF FeedTypeOK, serverVars, tableVars
<1> QED  BY <1>4 DEF PostsTimed, serverVars

LEMMA HubStartType ==
    ASSUME TypeInv, HubStart
    PROVE  TypeInv'
BY DEF TypeInv, HubStart, FeedTypeOK, PostsTimed, serverVars, tableVars, pageVars, history

LEMMA HubDropsType ==
    ASSUME TypeInv, HubDrops
    PROVE  TypeInv'
<1>1. faults' \in 0..MaxFaults /\ pushes' \in Seq(Version)
  BY FeedAssumption DEF TypeInv, HubDrops, FeedTypeOK
<1> QED  BY <1>1 DEF TypeInv, HubDrops, FeedTypeOK, PostsTimed, serverVars, tableVars, pageVars, history

-----------------------------------------------------------------------------
(* Whatever moves towards the page has been committed.                     *)

SentShown == SentCommitted /\ ShownWasCommitted

\* A table that only grows takes nothing back.
LEMMA ToldStays ==
    ASSUME NEW v, NEW held, NEW later, Told(v, held), held \subseteq later
    PROVE  Told(v, later)
BY DEF Told

\* A step that shows nothing new, on a table that only grows.
LEMMA CommittedGrows ==
    ASSUME TypeInv, SentShown, committed \subseteq committed',
           \A e \in Events : log'[e] # 0 => <<e, log'[e]>> \in committed',
           \A w \in Writers : post'[w].pc = "send" =>
             \/ post'[w] = post[w]
             \/ /\ post'[w].id \in Events /\ <<post'[w].id, post'[w].at>> \in committed'
                /\ post'[w].change # "none" => <<Account, post'[w].at>> \in committed',
           UNCHANGED <<pushes, shown>>,
           \A f \in Fetches : \A v \in fetch'[f].items : v[1] \in Events /\ v \in committed'
    PROVE  SentShown'
<1>1. \A i \in 1..Len(pushes') : Told(pushes'[i], committed')
  BY ToldStays DEF SentShown, SentCommitted
<1>2. SentCommitted'
  BY <1>1 DEF SentShown, SentCommitted
<1>3. ShownWasCommitted'
  BY DEF SentShown, ShownWasCommitted
<1> QED  BY <1>2, <1>3 DEF SentShown

LEMMA CommitSent ==
    ASSUME TypeInv, SentShown, NEW w \in Writers, NEW e \in Events, Commit(w, e)
    PROVE  /\ committed \subseteq committed'
           /\ \A x \in Events : log'[x] # 0 => <<x, log'[x]>> \in committed'
           /\ <<e, post[w].at>> \in committed'
           /\ post[w].change # "none" => <<Account, post[w].at>> \in committed'
BY DEF Commit, SentShown, SentCommitted, TypeInv, FeedTypeOK

\* A push carries what the page may be told.
LEMMA MessageTold ==
    ASSUME TypeInv, SentShown, NEW w \in Writers, post[w].pc = "send"
    PROVE  Message(w) \in Version /\ Told(Message(w), committed)
<1>1. /\ post[w].id \in Events /\ <<post[w].id, post[w].at>> \in committed
      /\ post[w].change # "none" => <<Account, post[w].at>> \in committed
  BY DEF SentShown, SentCommitted
<1>2. Message(w) \in Version
  BY <1>1, MessageType
<1>3. CASE post[w].change = "none"
  BY <1>1, <1>2, <1>3 DEF Message, Told
<1>4. CASE post[w].change # "none"
  <2>1. post[w].at \in 1..clock
    BY DEF TypeInv, PostsTimed
  <2> QED  BY <1>1, <1>2, <1>4, <2>1 DEF Message, Told
<1> QED  BY <1>2, <1>3, <1>4

LEMMA ServerSent ==
    ASSUME TypeInv, SentShown, ServerNext
    PROVE  SentShown'
<1>0. /\ \A e \in Events : log[e] # 0 => <<e, log[e]>> \in committed
      /\ \A f \in Fetches : \A v \in fetch[f].items : v[1] \in Events /\ v \in committed
      /\ post \in [Writers -> Post]
  BY DEF SentShown, SentCommitted, TypeInv, FeedTypeOK
<1>1. PICK w \in Writers :
        \/ \E id \in Keyed \cup {NoEvent}, own \in BOOLEAN : BeginPost(w, id, own)
        \/ ChangeAccount(w) \/ SaveFlag(w) \/ StampChange(w)
        \/ \E e \in Events : SavePost(w, e) \/ SaveLostAck(w, e)
        \/ RejectPost(w) \/ Broadcast(w) \/ Abandon(w)
  BY DEF ServerNext
<1>2. CASE \/ \E id \in Keyed \cup {NoEvent}, own \in BOOLEAN : BeginPost(w, id, own)
           \/ ChangeAccount(w) \/ SaveFlag(w) \/ StampChange(w)
           \/ RejectPost(w) \/ Abandon(w)
  <2>1. \A x \in Writers : post'[x].pc = "send" => post'[x] = post[x]
    <3>1. \A x \in Writers : x = w \/ post'[x] = post[x]
      BY <1>0, <1>2 DEF BeginPost, ChangeAccount, SaveFlag, StampChange, RejectPost, Abandon
    <3>2. post'[w].pc \in {"save", "flag", "stamp", "idle"}
      <4>1. CASE \E id \in Keyed \cup {NoEvent}, own \in BOOLEAN : BeginPost(w, id, own)
        <5>1. PICK id \in Keyed \cup {NoEvent}, own \in BOOLEAN : BeginPost(w, id, own)
          BY <4>1
        <5>2. post'[w] = [NoPost EXCEPT !.pc = "save", !.id = id, !.at = clock',
                                        !.found = id # NoEvent /\ log[id] # 0, !.own = own]
          BY <1>0, <5>1 DEF BeginPost
        <5> QED  BY <5>2 DEF NoPost
      <4>2. CASE ChangeAccount(w)
        <5>1. post'[w] = [NoPost EXCEPT !.pc = "flag", !.own = TRUE,
                            !.change = IF archived THEN "unarchive" ELSE "archive"]
          BY <1>0, <4>2 DEF ChangeAccount
        <5> QED  BY <5>1 DEF NoPost
      <4>3. CASE SaveFlag(w) \/ StampChange(w)
        BY <1>0, <4>3 DEF SaveFlag, StampChange, Post
      <4>4. CASE RejectPost(w) \/ Abandon(w)
        BY <1>0, <4>4 DEF RejectPost, Abandon, NoPost
      <4> QED  BY <1>2, <4>1, <4>2, <4>3, <4>4
    <3> QED  BY <3>1, <3>2
  <2>2. UNCHANGED <<log, committed, pushes, shown, fetch>>
    BY <1>2 DEF BeginPost, ChangeAccount, SaveFlag, StampChange, RejectPost, Abandon,
       tableVars, pageVars
  <2> QED  BY <1>0, <2>1, <2>2, CommittedGrows
<1>3. ASSUME NEW e \in Events, SavePost(w, e)  PROVE SentShown'
  <2>1. Commit(w, e)
    BY <1>3 DEF SavePost
  <2>2. \A x \in Writers : x = w \/ post'[x] = post[x]
    BY <1>0, <1>3 DEF SavePost
  <2>3. post'[w].id = e /\ post'[w].at = post[w].at /\ post'[w].change = post[w].change
    BY <1>0, <1>3 DEF SavePost, Post
  <2> QED  BY <1>0, <1>3, <2>1, <2>2, <2>3, CommitSent, CommittedGrows DEF SavePost, pageVars
<1>4. ASSUME NEW e \in Events, SaveLostAck(w, e)  PROVE SentShown'
  <2>1. Commit(w, e)
    BY <1>4 DEF SaveLostAck
  <2> QED  BY <1>0, <1>4, <2>1, CommitSent, CommittedGrows DEF SaveLostAck, pageVars
<1>5. CASE Broadcast(w)
  <2>1. \A x \in Writers : post'[x].pc = "send" => post'[x] = post[x]
    BY <1>0, <1>5 DEF Broadcast, NoPost
  <2>2. Message(w) \in Version /\ Told(Message(w), committed)
    BY <1>5, MessageTold DEF Broadcast
  <2>3. pushes \in Seq(Version) /\ \A i \in 1..Len(pushes) : Told(pushes[i], committed)
    BY DEF SentShown, SentCommitted, TypeInv, FeedTypeOK
  <2>4. \A i \in 1..Len(pushes') : Told(pushes'[i], committed)
    <3>1. CASE pushes' = pushes
      BY <2>3, <3>1
    <3>2. CASE pushes' = Append(pushes, Message(w))
      <4>1. Len(pushes') = Len(pushes) + 1 /\ pushes'[Len(pushes) + 1] = Message(w)
            /\ \A i \in 1..Len(pushes) : pushes'[i] = pushes[i]
        BY <2>2, <2>3, <3>2
      <4> QED  BY <2>2, <2>3, <4>1
    <3> QED  BY <1>5, <3>1, <3>2 DEF Broadcast
  <2>5. UNCHANGED <<log, committed, shown, fetch>>
    BY <1>5 DEF Broadcast, tableVars, pageVars
  <2>6. \A i \in 1..Len(pushes') : Told(pushes'[i], committed')
    BY <2>4, <2>5, ToldStays
  <2> QED  BY <1>0, <2>1, <2>5, <2>6 DEF SentShown, SentCommitted, ShownWasCommitted
<1> QED  BY <1>1, <1>2, <1>3, <1>4, <1>5

\* Showing what the page may be told shows nothing else.
LEMMA ShowCommitted ==
    ASSUME NEW items, \A v \in items : v \in Version /\ Told(v, committed),
           shown \in [Ids -> 0..MaxTime], ShownWasCommitted, shown' = Show(items),
           UNCHANGED committed
    PROVE  ShownWasCommitted'
<1>0. Account \notin Events /\ Events \subseteq Ids /\ Account \in Ids /\ MaxTime \in Nat
  BY FeedAssumption DEF Ids
<1>1. ASSUME NEW e \in Events, shown'[e] # 0  PROVE <<e, shown'[e]>> \in committed
  <2>1. CASE shown'[e] = shown[e]
    BY <1>1, <2>1 DEF ShownWasCommitted
  <2>2. ASSUME NEW v \in items, v[1] = e, shown'[e] = v[2]
        PROVE  <<e, shown'[e]>> \in committed
    <3>1. v \in committed /\ v = <<v[1], v[2]>>
      BY <1>0, <2>2 DEF Told, Version
    <3> QED  BY <2>2, <3>1
  <2> QED  BY <1>0, <2>1, <2>2, ShowRow
<1>2. ASSUME shown'[Account] # 0
      PROVE  \E t \in 1..shown'[Account] : <<Account, t>> \in committed
  <2>1. CASE shown'[Account] = shown[Account]
    BY <1>2, <2>1 DEF ShownWasCommitted
  <2>2. ASSUME NEW v \in items, v[1] = Account, shown'[Account] = v[2]
        PROVE  \E t \in 1..shown'[Account] : <<Account, t>> \in committed
    BY <1>0, <2>2 DEF Told
  <2> QED  BY <1>0, <2>1, <2>2, ShowRow
<1> QED  BY <1>1, <1>2 DEF ShownWasCommitted

LEMMA PageSent ==
    ASSUME TypeInv, SentShown, PageNext
    PROVE  SentShown'
<1>0. /\ \A e \in Events : log[e] # 0 => <<e, log[e]>> \in committed
      /\ \A f \in Fetches : \A v \in fetch[f].items : v[1] \in Events /\ v \in committed
      /\ fetch \in [Fetches -> Fetch] /\ NoFetch.items = {}
      /\ committed \subseteq Version /\ shown \in [Ids -> 0..MaxTime]
  BY DEF SentShown, SentCommitted, TypeInv, FeedTypeOK, NoFetch
<1>1. ASSUME NEW f \in Fetches, Ask(f)  PROVE SentShown'
  <2>1. \A g \in Fetches : fetch'[g].items \subseteq fetch[g].items
    BY <1>0, <1>1 DEF Ask, NoFetch
  <2> QED  BY <1>0, <1>1, <2>1, CommittedGrows DEF Ask, serverVars, tableVars
<1>2. ASSUME NEW f \in Fetches, Answer(f)  PROVE SentShown'
  <2>1. \A s : \A v \in Window(s) : v[1] \in Events /\ v \in committed
    BY <1>0 DEF Window, After
  <2>2. \A v \in fetch'[f].items : v[1] \in Events /\ v \in committed
    BY <1>0, <1>2, <2>1 DEF Answer, Fetch
  <2>3. \A g \in Fetches : g = f \/ fetch'[g] = fetch[g]
    BY <1>0, <1>2 DEF Answer
  <2> QED  BY <1>0, <1>2, <2>2, <2>3, CommittedGrows DEF Answer, serverVars, tableVars
<1>3. ASSUME NEW f \in Fetches, Receive(f)  PROVE SentShown'
  <2>1. \A g \in Fetches : fetch'[g].items \subseteq fetch[g].items
    BY <1>0, <1>3 DEF Receive
  <2>2. \A v \in fetch[f].items : v \in Version /\ Told(v, committed)
    BY <1>0 DEF Told
  <2>3. ShownWasCommitted'
    BY <1>0, <1>3, <2>2, ShowCommitted DEF Receive, SentShown, serverVars, tableVars
  <2>4. \A i \in 1..Len(pushes') : Told(pushes'[i], committed')
    BY <1>3, ToldStays DEF Receive, SentShown, SentCommitted, serverVars, tableVars
  <2> QED  BY <1>0, <1>3, <2>1, <2>3, <2>4 DEF Receive, SentShown, SentCommitted, serverVars, tableVars
<1>4. ASSUME NEW f \in Fetches, FetchFails(f)  PROVE SentShown'
  <2>1. \A g \in Fetches : fetch'[g].items \subseteq fetch[g].items
    BY <1>0, <1>4 DEF FetchFails, Fetch
  <2> QED  BY <1>0, <1>4, <2>1, CommittedGrows DEF FetchFails, serverVars, tableVars
<1>5. CASE HubStart
  BY <1>0, <1>5, CommittedGrows DEF HubStart, SentShown, SentCommitted, serverVars, tableVars, pageVars
<1>6. CASE Deliver
  <2>1. pushes \in Seq(Version) /\ pushes # <<>> /\ \A i \in 1..Len(pushes) : Told(pushes[i], committed)
    BY <1>6 DEF Deliver, SentShown, SentCommitted, TypeInv, FeedTypeOK
  <2>2. \A v \in {Head(pushes)} : v \in Version /\ Told(v, committed)
    BY <2>1
  <2>3. \A i \in 1..Len(pushes') : Told(pushes'[i], committed)
    BY <1>6, <2>1 DEF Deliver
  <2>4. UNCHANGED <<log, committed, post, fetch>> /\ shown' = Show({Head(pushes)})
    BY <1>6 DEF Deliver, serverVars, tableVars
  <2>5. ShownWasCommitted'
    BY <1>0, <2>2, <2>4, ShowCommitted DEF SentShown
  <2>6. \A i \in 1..Len(pushes') : Told(pushes'[i], committed')
    BY <2>3, <2>4, ToldStays
  <2> QED  BY <2>4, <2>5, <2>6 DEF SentShown, SentCommitted
<1>7. CASE HubDrops
  <2>1. Len(pushes') = 0 /\ UNCHANGED <<log, committed, post, fetch, shown>>
    BY <1>7 DEF HubDrops, serverVars, tableVars, pageVars
  <2> QED  BY <2>1 DEF SentShown, SentCommitted, ShownWasCommitted
<1>8. CASE HubReturns
  <2>1. \A g \in Fetches : fetch'[g].items \subseteq fetch[g].items
    BY <1>0, <1>8 DEF HubReturns, NoFetch
  <2> QED  BY <1>0, <1>8, <2>1, CommittedGrows DEF HubReturns, serverVars, tableVars
<1> QED  BY <1>1, <1>2, <1>3, <1>4, <1>5, <1>6, <1>7, <1>8 DEF PageNext

-----------------------------------------------------------------------------
(* The invariant.                                                          *)

LEMMA FeedInvInit == FeedInit => FeedInv
<1> SUFFICES ASSUME FeedInit PROVE FeedInv
  OBVIOUS
<1>1. SentCommitted /\ ShownWasCommitted
  BY DEF FeedInit, SentCommitted, ShownWasCommitted, NoPost, NoFetch, Ids
<1> QED  BY <1>1, TypeInit DEF FeedInv, TypeInv

LEMMA FeedTypeStep ==
    ASSUME FeedInv, FeedNext
    PROVE  TypeInv'
<1>1. TypeInv /\ \A w \in Writers : post[w].pc = "send" => post[w].id \in Events
  BY DEF FeedInv, TypeInv, SentCommitted, FeedTypeOK, Version
<1>2. CASE ServerNext
  BY <1>1, <1>2, BeginPostType, ChangeAccountType, SaveFlagType, StampChangeType, SavePostType, SaveLostAckType, RejectPostType,
     BroadcastType, AbandonType DEF ServerNext
<1>3. CASE PageNext
  BY <1>1, <1>3, AskType, AnswerType, ReceiveType, FetchFailsType, HubStartType,
     DeliverType, HubDropsType, HubReturnsType DEF PageNext
<1> QED  BY <1>2, <1>3 DEF FeedNext

LEMMA FeedInvStep == FeedInv /\ [FeedNext]_feedVars => FeedInv'
<1> SUFFICES ASSUME FeedInv, [FeedNext]_feedVars PROVE FeedInv'
  OBVIOUS
<1>1. TypeInv /\ SentShown
  BY DEF FeedInv, TypeInv, SentShown
<1>2. CASE FeedNext
  <2>1. SentShown'
    BY <1>1, <1>2, ServerSent, PageSent DEF FeedNext
  <2> QED  BY <1>2, <2>1, FeedTypeStep DEF FeedInv, TypeInv, SentShown
<1>3. CASE UNCHANGED feedVars
  <2>1. UNCHANGED <<log, acts, archived, committed, clock, post, pushes, hub, shown, cursor,
                    fetch, seeded, live, faults, newest, missed>>
    BY <1>3 DEF feedVars, serverVars, tableVars, pageVars, history
  <2>2. TypeInv'
    BY <1>1, <2>1 DEF TypeInv, FeedTypeOK, PostsTimed
  <2>3. SentShown'
    BY <1>1, <2>1 DEF SentShown, SentCommitted, ShownWasCommitted, Told
  <2> QED  BY <2>2, <2>3 DEF FeedInv, TypeInv, SentShown
<1> QED  BY <1>2, <1>3

THEOREM FeedInvariant == FeedSpec => []FeedInv
BY FeedInvInit, FeedInvStep, PTL DEF FeedSpec

\* Every variable of the feed keeps its type: a window has a newest event to
\* move the cursor to, and a broadcast carries an event of the table.
THEOREM FeedTypeCorrect == FeedSpec => []FeedTypeOK
<1>1. FeedInv => FeedTypeOK
  BY DEF FeedInv
<1> QED  BY <1>1, FeedInvariant, PTL

\* CreateAuditRecordAsync, Archive and Unarchive push after SaveChanges: neither
\* a push, a window nor a fallback shows an event the table has not held, and
\* what is shown under the id of a user tells of a change logged before.
THEOREM ShownWasPersisted == FeedSpec => []ShownWasCommitted
<1>1. FeedInv => ShownWasCommitted
  BY DEF FeedInv
<1> QED  BY <1>1, FeedInvariant, PTL

LEMMA ShowKeeps ==
    ASSUME NEW items \in SUBSET Version, NEW i \in Ids, shown[i] # 0
    PROVE  Show(items)[i] # 0
BY ShowRow, FeedAssumption DEF Version

LEMMA StepKeepsRows ==
    FeedInv /\ [FeedNext]_feedVars => [\A i \in Ids : shown[i] # 0 => shown'[i] # 0]_feedVars
<1> SUFFICES ASSUME FeedInv, FeedNext, NEW i \in Ids, shown[i] # 0
             PROVE  shown'[i] # 0
  OBVIOUS
<1>1. FeedTypeOK
  BY DEF FeedInv
<1>2. CASE ServerNext
  BY <1>2 DEF ServerNext, BeginPost, ChangeAccount, SaveFlag, StampChange, SavePost,
     SaveLostAck, RejectPost, Broadcast, Abandon, pageVars
<1>3. ASSUME NEW f \in Fetches, Receive(f)  PROVE shown'[i] # 0
  <2>1. fetch[f].items \in SUBSET Version
    BY <1>1 DEF FeedTypeOK, Fetch
  <2> QED  BY <1>3, <2>1, ShowKeeps DEF Receive
<1>4. CASE Deliver
  <2>1. {Head(pushes)} \in SUBSET Version
    BY <1>1, <1>4 DEF FeedTypeOK, Deliver
  <2> QED  BY <1>4, <2>1, ShowKeeps DEF Deliver
<1>5. CASE PageNext /\ ~Deliver /\ \A f \in Fetches : ~Receive(f)
  BY <1>5 DEF PageNext, Ask, Answer, FetchFails, HubStart, HubDrops, HubReturns, pageVars
<1> QED  BY <1>2, <1>3, <1>4, <1>5 DEF FeedNext

\* renderAuditEvent only adds rows or rewrites them: no order of fetches, pushes
\* and failures clears one.
THEOREM PageKeepsRows == FeedSpec => RowsAreKept
<1>1. FeedInv /\ [FeedNext]_feedVars => [\A i \in Ids : shown[i] # 0 => shown'[i] # 0]_feedVars
  BY StepKeepsRows
<1> QED  BY <1>1, FeedInvariant, PTL DEF FeedSpec, RowsAreKept

-----------------------------------------------------------------------------
(* Nothing is skipped without a reason.                                    *)

LEMMA ReachInit == FeedInit => ReachInv
<1> SUFFICES ASSUME FeedInit PROVE ReachInv
  OBVIOUS
<1>1. \A f \in Fetches : fetch[f].pc = "idle"
  BY DEF FeedInit, NoFetch
<1>2. /\ \A e \in Events : log[e] = 0
      /\ cursor = 0 /\ newest = 0 /\ Len(pushes) = 0
  BY DEF FeedInit
<1> QED  BY <1>1, <1>2 DEF ReachInv, WithinNewest

\* A request that starts does so from the cursor; one that fails or falls back
\* to the latest events asks for nothing else.
LEMMA RequestsReach ==
    ASSUME ReachInv, UNCHANGED <<log, cursor, pushes, shown, newest, missed>>,
           \A f \in Fetches :
             \/ fetch'[f] = fetch[f]
             \/ fetch'[f].pc = "idle"
             \/ /\ fetch'[f].pc = "sent"
                /\ \/ fetch'[f].since = cursor
                   \/ fetch[f].pc # "idle" /\ fetch'[f].since = fetch[f].since
    PROVE  ReachInv'
<1>1. WithinNewest'
  BY DEF ReachInv, WithinNewest
<1>2. ASSUME NEW e \in Events \ missed', log'[e] # 0  PROVE Complete(e)'
  <2>1. Complete(e)
    BY <1>2 DEF ReachInv
  <2> QED  BY <2>1 DEF Complete, SeenUpTo
<1> QED  BY <1>1, <1>2 DEF ReachInv

\* A row saved with the latest time is newer than all the page has asked for;
\* one that is not is given up.
LEMMA CommitReach ==
    ASSUME TypeInv, ReachInv, NEW w \in Writers, NEW e \in Events, Commit(w, e),
           UNCHANGED <<pushes, cursor, shown, fetch>>
    PROVE  ReachInv'
<1>1. /\ post[w].at \in 1..clock /\ clock \in 0..MaxTime /\ newest \in 0..MaxTime
      /\ log \in [Events -> 0..MaxTime] /\ MaxTime \in Nat
  BY FeedAssumption DEF Commit, TypeInv, PostsTimed, FeedTypeOK
<1>2. newest' >= newest /\ newest' >= post[w].at /\ newest' \in 0..MaxTime
  <2>1. newest' = Later(post[w].at, newest) /\ post[w].at \in 0..MaxTime
    BY <1>1 DEF Commit
  <2> QED  BY <1>1, <2>1, LaterType
<1>3. /\ log'[e] = post[w].at
      /\ \A x \in Events : x = e \/ log'[x] = log[x]
  BY <1>1 DEF Commit
<1>4. /\ cursor \in 0..MaxTime
      /\ \A f \in Fetches : fetch[f].since \in 0..MaxTime /\ fetch[f].next \in 0..MaxTime
      /\ \A i \in 1..Len(pushes) : pushes[i][2] \in 0..MaxTime
  <2>1. cursor \in 0..MaxTime /\ fetch \in [Fetches -> Fetch] /\ pushes \in Seq(Version)
    BY DEF TypeInv, FeedTypeOK
  <2>2. \A i \in 1..Len(pushes) : pushes[i] \in Version
    BY <2>1
  <2> QED  BY <1>1, <2>1, <2>2 DEF Fetch, Version
<1>5. WithinNewest'
  <2>1. \A x \in Events : log'[x] <= newest'
    BY <1>1, <1>2, <1>3 DEF ReachInv, WithinNewest
  <2>2. \A i \in 1..Len(pushes) : pushes[i][2] <= newest'
    BY <1>1, <1>2, <1>4 DEF ReachInv, WithinNewest
  <2>3. cursor <= newest'
    BY <1>1, <1>2, <1>4 DEF ReachInv, WithinNewest
  <2>4. \A f \in Fetches : /\ fetch[f].pc # "idle" => fetch[f].since <= newest'
                           /\ fetch[f].pc = "answered" => fetch[f].next <= newest'
    BY <1>1, <1>2, <1>4 DEF ReachInv, WithinNewest
  <2> QED  BY <2>1, <2>2, <2>3, <2>4 DEF WithinNewest
<1>6. ASSUME NEW x \in Events \ missed', log'[x] # 0  PROVE Complete(x)'
  <2>1. CASE x = e
    <3>1. post[w].at > newest
      BY <1>6, <2>1 DEF Commit
    <3>2. \A t \in 0..MaxTime : t <= newest => ~(log'[e] <= t)
      BY <1>1, <1>3, <3>1
    <3> QED  BY <1>4, <2>1, <3>2 DEF Complete, SeenUpTo, ReachInv, WithinNewest
  <2>2. CASE x # e
    <3>1. x \notin missed /\ log'[x] = log[x]
      BY <1>3, <1>6, <2>2 DEF Commit
    <3>2. Complete(x)
      BY <1>6, <3>1 DEF ReachInv
    <3> QED  BY <3>1, <3>2 DEF Complete, SeenUpTo
  <2> QED  BY <2>1, <2>2
<1> QED  BY <1>5, <1>6 DEF ReachInv

LEMMA BroadcastReach ==
    ASSUME FeedInv, ReachInv, NEW w \in Writers, Broadcast(w)
    PROVE  ReachInv'
<1>1. /\ pushes \in Seq(Version) /\ newest \in 0..MaxTime /\ MaxTime \in Nat
      /\ cursor \in 0..MaxTime /\ log \in [Events -> 0..MaxTime]
      /\ \A f \in Fetches : fetch[f].since \in 0..MaxTime /\ fetch[f].next \in 0..MaxTime
      /\ \A i \in 1..Len(pushes) : pushes[i][2] \in 0..MaxTime
  <2>1. cursor \in 0..MaxTime /\ fetch \in [Fetches -> Fetch] /\ pushes \in Seq(Version)
    BY DEF FeedInv, FeedTypeOK
  <2>2. \A i \in 1..Len(pushes) : pushes[i] \in Version
    BY <2>1
  <2>3. \A v \in Version : v[2] \in 0..MaxTime
    BY FeedAssumption DEF Version
  <2>4. \A f \in Fetches : fetch[f].since \in 0..MaxTime /\ fetch[f].next \in 0..MaxTime
    BY <2>1 DEF Fetch
  <2> QED  BY <2>1, <2>2, <2>3, <2>4, FeedAssumption DEF FeedInv, FeedTypeOK
<1>2. Message(w) \in Version /\ Message(w)[2] \in 0..MaxTime
  <2>1. Message(w) \in Version
    BY MessageTold DEF FeedInv, TypeInv, SentShown, Broadcast
  <2> QED  BY <2>1, FeedAssumption DEF Version
<1>3. /\ newest' >= newest /\ newest' \in 0..MaxTime
      /\ \A i \in 1..Len(pushes') : pushes'[i][2] <= newest'
  <2>1. CASE UNCHANGED <<pushes, newest>>
    BY <1>1, <2>1 DEF ReachInv, WithinNewest
  <2>2. CASE pushes' = Append(pushes, Message(w)) /\ newest' = Later(Message(w)[2], newest)
    <3>1. newest' >= newest /\ newest' >= Message(w)[2] /\ newest' \in 0..MaxTime
      BY <1>1, <1>2, <2>2, LaterType
    <3>2. /\ Len(pushes') = Len(pushes) + 1 /\ pushes'[Len(pushes) + 1] = Message(w)
          /\ \A i \in 1..Len(pushes) : pushes'[i] = pushes[i]
      BY <1>1, <1>2, <2>2
    <3>3. ASSUME NEW i \in 1..Len(pushes')  PROVE pushes'[i][2] <= newest'
      <4>1. CASE i = Len(pushes) + 1
        BY <1>2, <3>1, <3>2, <4>1
      <4>2. CASE i \in 1..Len(pushes)
        <5>1. pushes[i][2] <= newest /\ pushes[i][2] \in 0..MaxTime
          BY <1>1, <4>2 DEF ReachInv, WithinNewest
        <5> QED  BY <1>1, <3>1, <3>2, <4>2, <5>1
      <4>3. Len(pushes) \in Nat
        BY <1>1
      <4> QED  BY <3>2, <4>1, <4>2, <4>3
    <3> QED  BY <3>1, <3>3
  <2> QED  BY <2>1, <2>2 DEF Broadcast
<1>4. UNCHANGED <<log, cursor, fetch, shown, missed>>
  BY DEF Broadcast, tableVars, pageVars
<1>5. WithinNewest'
  <2>1. \A x \in Events : log[x] <= newest'
    BY <1>1, <1>3 DEF ReachInv, WithinNewest
  <2>2. cursor <= newest'
    BY <1>1, <1>3 DEF ReachInv, WithinNewest
  <2>3. \A f \in Fetches : /\ fetch[f].pc # "idle" => fetch[f].since <= newest'
                           /\ fetch[f].pc = "answered" => fetch[f].next <= newest'
    BY <1>1, <1>3 DEF ReachInv, WithinNewest
  <2> QED  BY <1>3, <1>4, <2>1, <2>2, <2>3 DEF WithinNewest
<1>6. \A e \in Events \ missed' : log'[e] # 0 => Complete(e)'
  BY <1>4 DEF ReachInv, Complete, SeenUpTo
<1> QED  BY <1>5, <1>6 DEF ReachInv

\* An answer lacks only rows that are given up with it.
LEMMA AnswerReach ==
    ASSUME TypeInv, ReachInv, NEW f \in Fetches, Answer(f)
    PROVE  ReachInv'
<1> DEFINE latest == fetch[f].kind = "latest"
           since == IF latest THEN 0 ELSE fetch[f].since
           other == IF latest THEN clock ELSE fetch[f].since
           page == Window(since)
<1>1. /\ log \in [Events -> 0..MaxTime] /\ MaxTime \in Nat /\ newest \in 0..MaxTime
      /\ clock \in 0..MaxTime /\ fetch \in [Fetches -> Fetch] /\ fetch[f].pc = "sent"
      /\ since \in 0..MaxTime
  BY FeedAssumption DEF TypeInv, FeedTypeOK, Answer, Fetch
<1>2. /\ page \in SUBSET Version
      /\ \A v \in page : v[1] \in Events /\ log[v[1]] = v[2] /\ v[2] > since /\ v[2] # 0
      /\ \A e \in Events : log[e] # 0 /\ log[e] > since =>
           e \in {v[1] : v \in CutOff(since) \cup Hidden(since)} \/ <<e, log[e]>> \in page
  BY <1>1, WindowHoldsRows
<1>3. /\ fetch'[f].pc = "answered" /\ fetch'[f].items = page
      /\ fetch'[f].next = NextSince(page, other) /\ fetch'[f].since = fetch[f].since
      /\ \A g \in Fetches : g = f \/ fetch'[g] = fetch[g]
  BY <1>1 DEF Answer, Fetch
<1>4. /\ missed' = missed \cup {v[1] : v \in CutOff(since) \cup Hidden(since)}
      /\ newest' = IF latest /\ page = {} THEN Later(clock, newest) ELSE newest
      /\ UNCHANGED <<log, cursor, pushes, shown>>
  BY DEF Answer, serverVars, tableVars
<1>5. newest' >= newest /\ newest' \in 0..MaxTime /\ (latest /\ page = {} => newest' >= clock)
  <2> HIDE DEF latest, page
  <2> QED  BY <1>1, <1>4, LaterType
<1>6. NextSince(page, other) <= newest' /\ NextSince(page, other) \in 0..MaxTime
  <2>1. CASE page = {}
    <3>1. NextSince(page, other) = other
      BY <2>1 DEF NextSince
    <3>2. ~latest => fetch[f].since <= newest
      BY <1>1 DEF ReachInv, WithinNewest
    <3>3. fetch[f].since \in 0..MaxTime
      BY <1>1 DEF Fetch
    <3>4. CASE latest
      <4> HIDE DEF page
      <4> QED  BY <1>1, <1>5, <2>1, <3>1, <3>4
    <3>5. CASE ~latest
      <4> HIDE DEF page
      <4> QED  BY <1>1, <1>5, <3>1, <3>2, <3>3, <3>5
    <3> QED  BY <3>4, <3>5
  <2>2. CASE page # {}
    <3>1. PICK v \in page : NextSince(page, other) = v[2]
      <4> HIDE DEF page, other
      <4> QED  BY <1>2, <2>2, NextSinceIsLatest
    <3>2. v[2] = log[v[1]] /\ v[1] \in Events
      BY <1>2, <3>1
    <3>3. log[v[1]] <= newest /\ log[v[1]] \in 0..MaxTime
      BY <1>1, <3>2 DEF ReachInv, WithinNewest
    <3> HIDE DEF page, other
    <3> QED  BY <1>1, <1>5, <3>1, <3>2, <3>3
  <2> QED  BY <2>1, <2>2
<1>7. WithinNewest'
  <2> HIDE DEF page, other, latest, since
  <2>1. \A x \in Events : log[x] <= newest'
    BY <1>1, <1>5 DEF ReachInv, WithinNewest
  <2>2. cursor \in 0..MaxTime /\ cursor <= newest'
    BY <1>1, <1>5 DEF ReachInv, WithinNewest, TypeInv, FeedTypeOK
  <2>3. \A i \in 1..Len(pushes) : pushes[i][2] <= newest'
    <3>1. pushes \in Seq(Version)
      BY DEF TypeInv, FeedTypeOK
    <3>2. \A i \in 1..Len(pushes) : pushes[i][2] \in 0..MaxTime
      BY <3>1, FeedAssumption DEF Version
    <3> QED  BY <1>1, <1>5, <3>2 DEF ReachInv, WithinNewest
  <2>4. \A g \in Fetches : /\ fetch'[g].pc # "idle" => fetch'[g].since <= newest'
                           /\ fetch'[g].pc = "answered" => fetch'[g].next <= newest'
    <3>1. \A g \in Fetches : fetch[g].since \in 0..MaxTime /\ fetch[g].next \in 0..MaxTime
      BY <1>1 DEF Fetch
    <3>2. fetch[f].since <= newest'
      BY <1>1, <1>5, <3>1 DEF ReachInv, WithinNewest
    <3>3. \A g \in Fetches : /\ fetch[g].pc # "idle" => fetch[g].since <= newest'
                             /\ fetch[g].pc = "answered" => fetch[g].next <= newest'
      BY <1>1, <1>5, <3>1 DEF ReachInv, WithinNewest
    <3> QED  BY <1>3, <1>6, <3>2, <3>3
  <2> QED  BY <1>4, <2>1, <2>2, <2>3, <2>4 DEF WithinNewest
<1>8. ASSUME NEW e \in Events \ missed', log'[e] # 0  PROVE Complete(e)'
  <2>1. e \notin missed /\ e \notin {v[1] : v \in CutOff(since) \cup Hidden(since)} /\ log[e] # 0
    BY <1>4, <1>8
  <2>2. Complete(e)
    BY <1>8, <2>1 DEF ReachInv
  <2>3. shown[e] # 0 \/ (\E v \in page : v[1] = e) \/ ~(log[e] <= NextSince(page, other))
    <3>1. CASE log[e] > since
      <4>1. <<e, log[e]>> \in page
        BY <1>2, <1>8, <2>1, <3>1
      <4> HIDE DEF page
      <4> QED  BY <4>1
    <3>2. CASE ~(log[e] > since)
      <4>1. log[e] \in 0..MaxTime /\ ~latest /\ log[e] <= fetch[f].since
        BY <1>1, <2>1, <3>2 DEF Fetch
      <4>2. shown[e] # 0
        BY <1>1, <2>2, <4>1 DEF Complete, SeenUpTo
      <4> QED  BY <4>2
    <3> QED  BY <3>1, <3>2
  <2> HIDE DEF page, other, latest, since
  <2>4. \A g \in Fetches :
          /\ fetch'[g].pc # "idle" => SeenUpTo(e, fetch'[g].since)
          /\ fetch'[g].pc = "answered" =>
               SeenUpTo(e, fetch'[g].next) \/ \E v \in fetch'[g].items : v[1] = e
    BY <1>1, <1>3, <2>2, <2>3 DEF Complete, SeenUpTo
  <2> QED  BY <1>4, <2>2, <2>4 DEF Complete, SeenUpTo
<1> QED  BY <1>7, <1>8 DEF ReachInv

LEMMA ReceiveReach ==
    ASSUME TypeInv, ReachInv, NEW f \in Fetches, Receive(f)
    PROVE  ReachInv'
<1>1. /\ fetch \in [Fetches -> Fetch] /\ fetch[f].items \in SUBSET Version
      /\ NoFetch.pc = "idle" /\ fetch[f].pc = "answered" /\ Events \subseteq Ids
      /\ UNCHANGED <<log, pushes, newest, missed>> /\ cursor' = fetch[f].next
      /\ shown' = Show(fetch[f].items)
  BY DEF TypeInv, FeedTypeOK, Fetch, Receive, NoFetch, Ids, serverVars, tableVars, history
<1>2. fetch'[f] = NoFetch /\ \A g \in Fetches : g = f \/ fetch'[g] = fetch[g]
  BY <1>1 DEF Receive
<1>3. WithinNewest'
  BY <1>1, <1>2 DEF ReachInv, WithinNewest
<1>4. ASSUME NEW e \in Events \ missed', log'[e] # 0  PROVE Complete(e)'
  <2>1. Complete(e)
    BY <1>1, <1>4 DEF ReachInv
  <2>2. shown[e] # 0 => shown'[e] # 0
    BY <1>1, ShowKeeps
  <2>3. (\E v \in fetch[f].items : v[1] = e) => shown'[e] # 0
    <3>1. \A v \in fetch[f].items : v[2] # 0
      BY <1>1, FeedAssumption DEF Version
    <3> QED  BY <1>1, <3>1, ShowRow
  <2> QED  BY <1>1, <1>2, <2>1, <2>2, <2>3 DEF Complete, SeenUpTo
<1> QED  BY <1>3, <1>4 DEF ReachInv

LEMMA DeliverReach ==
    ASSUME TypeInv, ReachInv, Deliver
    PROVE  ReachInv'
<1> DEFINE at == Head(pushes)[2]
<1>1. /\ pushes \in Seq(Version) /\ pushes # <<>> /\ Head(pushes) \in Version
      /\ cursor \in 0..MaxTime /\ MaxTime \in Nat /\ Events \subseteq Ids
      /\ log \in [Events -> 0..MaxTime] /\ newest \in 0..MaxTime
      /\ UNCHANGED <<log, newest, fetch>>
  BY FeedAssumption DEF TypeInv, FeedTypeOK, Deliver, Ids, serverVars, tableVars
<1>2. at \in 0..MaxTime /\ at <= newest
  <2>1. Head(pushes) = pushes[1] /\ 1 \in 1..Len(pushes)
    BY <1>1
  <2> QED  BY <1>1, <2>1, FeedAssumption DEF Version, ReachInv, WithinNewest
<1>3. cursor' \in 0..MaxTime /\ cursor' <= newest
  <2>1. cursor <= newest
    BY DEF ReachInv, WithinNewest
  <2>2. cursor' = cursor \/ cursor' = Later(at, cursor)
    BY DEF Deliver
  <2> HIDE DEF at
  <2> QED  BY <1>1, <1>2, <2>1, <2>2 DEF Later
<1>4. WithinNewest'
  <2>1. pushes' = Tail(pushes)
    BY DEF Deliver
  <2>2. Len(pushes') = Len(pushes) - 1 /\ \A i \in 1..Len(pushes') : pushes'[i] = pushes[i + 1]
    BY <1>1, <2>1
  <2>3. \A i \in 1..Len(pushes') : pushes'[i][2] <= newest
    BY <1>1, <2>2 DEF ReachInv, WithinNewest
  <2> QED  BY <1>1, <1>3, <2>3 DEF ReachInv, WithinNewest
<1>5. ASSUME NEW e \in Events \ missed', log'[e] # 0  PROVE Complete(e)'
  <2>1. /\ e \notin missed /\ log[e] # 0
        /\ ~(log[e] > cursor /\ log[e] <= cursor' /\ shown'[e] = 0)
    BY <1>1, <1>5 DEF Deliver
  <2>2. Complete(e)
    BY <2>1 DEF ReachInv
  <2>3. shown[e] # 0 => shown'[e] # 0
    BY <1>1, ShowKeeps DEF Deliver
  <2>4. log[e] \in 0..MaxTime
    BY <1>1
  <2>5. SeenUpTo(e, cursor)'
    BY <1>1, <2>1, <2>2, <2>3, <2>4 DEF Complete, SeenUpTo
  <2> QED  BY <1>1, <2>2, <2>3, <2>5 DEF Complete, SeenUpTo
<1> QED  BY <1>4, <1>5 DEF ReachInv

LEMMA ReachStep == FeedInv /\ ReachInv /\ [FeedNext]_feedVars => ReachInv'
<1> SUFFICES ASSUME FeedInv, ReachInv, [FeedNext]_feedVars PROVE ReachInv'
  OBVIOUS
<1>0. TypeInv /\ fetch \in [Fetches -> Fetch] /\ NoFetch.pc = "idle"
  BY DEF FeedInv, TypeInv, FeedTypeOK, NoFetch
<1>1. CASE ServerNext
  <2>1. PICK w \in Writers :
          \/ \E id \in Keyed \cup {NoEvent}, own \in BOOLEAN : BeginPost(w, id, own)
          \/ ChangeAccount(w) \/ SaveFlag(w) \/ StampChange(w)
          \/ \E e \in Events : SavePost(w, e) \/ SaveLostAck(w, e)
          \/ RejectPost(w) \/ Broadcast(w) \/ Abandon(w)
    BY <1>1 DEF ServerNext
  <2>2. ASSUME NEW e \in Events, SavePost(w, e) \/ SaveLostAck(w, e)  PROVE ReachInv'
    BY <1>0, <2>2, CommitReach DEF SavePost, SaveLostAck, pageVars
  <2>3. CASE Broadcast(w)
    BY <2>3, BroadcastReach
  <2>4. CASE \/ \E id \in Keyed \cup {NoEvent}, own \in BOOLEAN : BeginPost(w, id, own)
             \/ ChangeAccount(w) \/ SaveFlag(w) \/ StampChange(w)
             \/ RejectPost(w) \/ Abandon(w)
    <3>1. UNCHANGED <<log, cursor, pushes, shown, newest, missed, fetch>>
      BY <2>4 DEF BeginPost, ChangeAccount, SaveFlag, StampChange, RejectPost, Abandon,
         tableVars, pageVars, history
    <3> QED  BY <3>1, RequestsReach
  <2> QED  BY <2>1, <2>2, <2>3, <2>4
<1>2. CASE PageNext
  <2>1. ASSUME NEW f \in Fetches, Ask(f)  PROVE ReachInv'
    <3>1. fetch'[f].pc = "sent" /\ fetch'[f].since = cursor
          /\ \A g \in Fetches : g = f \/ fetch'[g] = fetch[g]
      BY <1>0, <2>1 DEF Ask, NoFetch
    <3> QED  BY <2>1, <3>1, RequestsReach DEF Ask, serverVars, tableVars, history
  <2>2. ASSUME NEW f \in Fetches, FetchFails(f)  PROVE ReachInv'
    <3>1. /\ \/ fetch'[f].pc = "idle"
             \/ fetch'[f].pc = "sent" /\ fetch'[f].since = fetch[f].since
          /\ fetch[f].pc # "idle"
          /\ \A g \in Fetches : g = f \/ fetch'[g] = fetch[g]
      BY <1>0, <2>2 DEF FetchFails, Fetch
    <3> QED  BY <2>2, <3>1, RequestsReach DEF FetchFails, serverVars, tableVars, history
  <2>3. CASE HubReturns
    <3>1. "nudge" \in Fetches
      BY DEF Fetches
    <3>2. fetch'["nudge"].pc = "sent" /\ fetch'["nudge"].since = cursor
          /\ \A g \in Fetches : g = "nudge" \/ fetch'[g] = fetch[g]
      BY <1>0, <2>3, <3>1 DEF HubReturns, NoFetch
    <3> QED  BY <2>3, <3>2, RequestsReach DEF HubReturns, serverVars, tableVars, history
  <2>4. CASE HubStart
    BY <2>4, RequestsReach DEF HubStart, serverVars, tableVars, pageVars, history
  <2>5. CASE HubDrops
    <3>1. Len(pushes') = 0 /\ UNCHANGED <<log, cursor, shown, newest, missed, fetch>>
      BY <2>5 DEF HubDrops, serverVars, tableVars, pageVars, history
    <3>2. \A i \in 1..Len(pushes') : pushes'[i][2] <= newest'
      BY <3>1
    <3> QED  BY <3>1, <3>2 DEF ReachInv, WithinNewest, Complete, SeenUpTo
  <2> QED  BY <1>0, <1>2, <2>1, <2>2, <2>3, <2>4, <2>5, AnswerReach, ReceiveReach, DeliverReach
           DEF PageNext
<1>3. CASE UNCHANGED feedVars
  <2>1. UNCHANGED <<log, cursor, pushes, shown, newest, missed, fetch>>
    BY <1>3 DEF feedVars, serverVars, tableVars, pageVars, history
  <2> QED  BY <2>1, RequestsReach
<1> QED  BY <1>1, <1>2, <1>3 DEF FeedNext

\* Whatever the requests, the windows, the failures and the pushes: the page
\* lacks an event it will not ask for any more only for one of the four reasons.
THEOREM NothingSkippedUnseen == FeedSpec => []NothingSkipped
<1>1. FeedInv /\ ReachInv => NothingSkipped
  BY DEF ReachInv, Complete, SeenUpTo, NothingSkipped
<1> QED  BY <1>1, FeedInvariant, ReachInit, ReachStep, PTL DEF FeedSpec
==============================================================================
