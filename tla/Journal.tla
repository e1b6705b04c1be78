------------------------------ MODULE Journal -------------------------------
(***************************************************************************)
(* The delivery journal (src/internal/webhook/log.go) between the          *)
(* dispatcher, which adds and updates records, and the handlers of the     *)
(* admin API that page through it, replay from it and clear it             *)
(* (src/internal/admin/admin.go).                                          *)
(*                                                                         *)
(* The dispatcher is Outbox, which Dispatcher implements: its state says   *)
(* what became of every delivery, the journal holds copies of the newest.  *)
(* Every operation of the journal is one section under its lock.           *)
(***************************************************************************)
EXTENDS Outbox, Sequences, FiniteSets

CONSTANTS
  LogSize,     \* journal slots
  Session,     \* session ids
  NoSession,   \* of deliveries sent with /trigger, and "any" in a query
  Client,      \* requests to the admin API in progress
  Limits,      \* page sizes asked for; 0 is none
  Filters,     \* statuses asked for; "any" is none
  Modes        \* replay modes used

ASSUME JournalAssumption ==
  /\ LogSize \in Nat \ {0}
  /\ Delivery \subseteq Nat \ {0}
  /\ Limits \subseteq Nat
  /\ NoSession \notin Session
  /\ Modes \subseteq {"replay", "redeliver", "duplicate"}

NoDelivery == 0

VARIABLES
  ring,    \* DeliveryLog.ring, next and count; a record is named by its id
  byID,    \* DeliveryLog.byID: it leads to the same records
  rec,     \* the records, kept by whoever still points to them
  pc,      \* where each client is
  walk,    \* a client's query, its cursor, and what its pages held so far
  replay,  \* a replay: the copy it works from, and the delivery it made
  stayed   \* ghost: the records a walk must not miss

logVars == <<ring, byID, rec>>
clientVars == <<pc, walk, replay>>
journalVars == <<outboxVars, logVars, clientVars, stayed>>

R == INSTANCE Ring WITH Size <- LogSize, NoEntry <- NoDelivery

\* What the receiver sees of a delivery is its id or, when that is set, its
\* header id, and the body, named here by the delivery that had it first.
NewRecord(d) ==
  [id |-> d, session |-> NoSession, status |-> "none", attempts |-> 0,
   mode |-> "none", from |-> NoDelivery, header |-> NoDelivery, body |-> d]

NoWalk == [session |-> NoSession, status |-> "any", limit |-> 0,
           cursor |-> NoDelivery, got |-> <<>>]
NoReplay == [source |-> NewRecord(NoDelivery), mode |-> "none", made |-> NoDelivery]

JournalInit ==
  /\ OutboxInit
  /\ ring = R!EmptyRing
  /\ byID = {}
  /\ rec = [d \in Delivery |-> NewRecord(d)]
  /\ pc = [c \in Client |-> "idle"]
  /\ walk = [c \in Client |-> NoWalk]
  /\ replay = [c \in Client |-> NoReplay]
  /\ stayed = [c \in Client |-> {}]

-----------------------------------------------------------------------------
(* The operations of DeliveryLog. *)

\* BUG: the record that rotates out stays in the index.
IndexKept(d) == byID \cup {d}

\* byID after Add: the record in the slot it takes leaves the index.
IndexWith(d) == (byID \ {ring.slot[ring.next]}) \cup {d}

\* A record nobody can reach any more is as good as collected; what never
\* changes of it is kept for DuplicateIsIdentical.
Collected(r) == [r EXCEPT !.status = "none", !.attempts = 0]

\* Add(r), for the record r of a new delivery.
Log(d, r) ==
  /\ ring' = R!Push(ring, d)
  /\ byID' = IndexWith(d)
  /\ rec' = [e \in Delivery |->
               IF e = d THEN r ELSE IF e \in byID' THEN rec[e] ELSE Collected(rec[e])]

\* BUG: a record that rotated out is still amended, a listed one is not.
UpdateNewest(d, status, attempts) ==
  /\ rec' = IF d = R!Nth(ring, 0)
              THEN [rec EXCEPT ![d].status = status, ![d].attempts = attempts]
              ELSE rec
  /\ UNCHANGED <<ring, byID>>

\* update(d, fn)
Update(d, status, attempts) ==
  /\ rec' = IF d \in byID
              THEN [rec EXCEPT ![d].status = status, ![d].attempts = attempts]
              ELSE rec
  /\ UNCHANGED <<ring, byID>>

\* Get(d) finds a record.
Found(d) == d \in byID

Matches(r, q) ==
  /\ q.session # NoSession => r.session = q.session
  /\ q.status # "any" => r.status = q.status

Listing == R!NewestFirst(ring)

\* BUG: the next page starts with the record the last one ended with.
FromCursor(q) ==
  IF q.cursor = NoDelivery THEN 1
  ELSE CHOOSE i \in DOMAIN Listing : Listing[i] = q.cursor

\* Where in the listing the page of q starts: behind the cursor's record.
AfterCursor(q) ==
  IF q.cursor = NoDelivery THEN 1
  ELSE 1 + CHOOSE i \in DOMAIN Listing : Listing[i] = q.cursor

\* Page(q) fails: the cursor's record has left the ring.
CursorExpired(q) ==
  q.cursor # NoDelivery /\ \A i \in DOMAIN Listing : Listing[i] # q.cursor

\* Where in the listing are the records that the pages of q from here on hold.
Remaining(q) ==
  {i \in AfterCursor(q) .. ring.count : Matches(rec[Listing[i]], q)}

\* BUG: one more record that matches is not enough for a next page.
PageEndsEarly(q) == q.limit = 0 \/ Cardinality(Remaining(q)) <= q.limit + 1

\* Nothing matches beyond the page of q: it has no next cursor.
PageIsLast(q) == q.limit = 0 \/ Cardinality(Remaining(q)) <= q.limit

PageLen(q) ==
  IF q.limit = 0 \/ Cardinality(Remaining(q)) < q.limit THEN Cardinality(Remaining(q))
  ELSE q.limit

\* The page of q, the one member of this set, as places in the listing: the
\* first of those that remain, in their order.
Pages(q) ==
  {page \in [1 .. PageLen(q) -> Remaining(q)] :
     /\ \A k, l \in 1 .. PageLen(q) : k < l => page[k] < page[l]
     /\ \A i \in Remaining(q), k \in 1 .. PageLen(q) :
          i < page[k] => \E l \in 1 .. PageLen(q) : page[l] = i}

-----------------------------------------------------------------------------
(* The dispatcher's steps, with the journal's share in each. *)

\* Schedule, for the engine or /trigger.
Schedule(d, s) ==
  /\ Enqueue(d)
  /\ \A e \in Delivery : e < d => state[e] # "none"
  /\ Log(d, [NewRecord(d) EXCEPT !.session = s, !.status = "pending"])
  /\ UNCHANGED clientVars

\* attempt: the flag is looked at and the request goes out, which the journal is
\* not told.
TakeUp(d) == Take(d) /\ UNCHANGED <<logVars, clientVars>>
Attempt(d) == Send(d) /\ UNCHANGED <<logVars, clientVars>>

\* attempt: the outcome.
Attempted(d) ==
  /\ Record(d)
  /\ Update(d, state'[d], tries[d])
  /\ UNCHANGED clientVars

\* CancelSession, CancelAll.
Canceled(d) ==
  /\ d \notin dropped
  /\ Cancel(d)
  /\ Update(d, "canceled", rec[d].attempts)
  /\ UNCHANGED clientVars

\* resetAll clears the journal, unless it is told to keep it.
Clear ==
  /\ ring' = R!EmptyRing
  /\ byID' = {}
  /\ rec' = [d \in Delivery |-> Collected(rec[d])]
  /\ UNCHANGED <<outboxVars, clientVars>>

-----------------------------------------------------------------------------
(* deliveries: a client reads page after page. *)

Goto(c, from, to) == pc[c] \in from /\ pc' = [pc EXCEPT ![c] = to]

Free == {"idle", "walked"}

BeginWalk(c) ==
  /\ Goto(c, Free, "walking")
  /\ \E s \in Session \cup {NoSession}, f \in Filters, n \in Limits :
       walk' = [walk EXCEPT ![c] = [NoWalk EXCEPT !.session = s, !.status = f,
                                                  !.limit = n]]
  /\ replay' = [replay EXCEPT ![c] = NoReplay]
  /\ UNCHANGED <<outboxVars, logVars>>

ReadPage(c) ==
  LET q == walk[c]
      ids(page) == [k \in 1 .. PageLen(q) |-> Listing[page[k]]]
  IN  /\ ~CursorExpired(q)
      /\ \E page \in Pages(q) :
           IF PageIsLast(q)
             THEN /\ Goto(c, {"walking"}, "walked")
                  /\ walk' = [walk EXCEPT ![c].got = @ \o ids(page)]
             ELSE /\ Goto(c, {"walking"}, "walking")
                  /\ walk' = [walk EXCEPT ![c].got = @ \o ids(page),
                                          ![c].cursor = Listing[page[PageLen(q)]]]
      /\ UNCHANGED <<outboxVars, logVars, replay>>

WalkExpired(c) ==
  /\ Goto(c, {"walking"}, "idle")
  /\ CursorExpired(walk[c])
  /\ walk' = [walk EXCEPT ![c] = NoWalk]
  /\ UNCHANGED <<outboxVars, logVars, replay>>

-----------------------------------------------------------------------------
(* deliveryReplay: three looks at the journal, with the dispatcher between. *)

BeginReplay(c) ==
  /\ Goto(c, Free, "replaying")
  /\ \E d \in Delivery, m \in Modes :
       /\ Found(d)
       /\ replay' = [replay EXCEPT ![c] = [NoReplay EXCEPT !.source = rec[d],
                                                           !.mode = m]]
  /\ walk' = [walk EXCEPT ![c] = NoWalk]
  /\ UNCHANGED <<outboxVars, logVars>>

\* BUG: a duplicate of a duplicate carries the id of the copy.
HeaderOfSource(src) == src.id

\* The id a duplicate of src carries.
HeaderID(src) == IF src.header = NoDelivery THEN src.id ELSE src.header

\* Only "replay" may edit the body; it is sent with or without waiting for it.
ReplaySchedule(c, d) ==
  LET src == replay[c].source mode == replay[c].mode
  IN  /\ \E to \in {"waiting", "idle"} : Goto(c, {"replaying"}, to)
      /\ Enqueue(d)
      /\ \A e \in Delivery : e < d => state[e] # "none"
      /\ \E body \in {src.body} \cup IF mode = "replay" THEN {d} ELSE {} :
           Log(d, [NewRecord(d) EXCEPT
                     !.session = src.session, !.status = "pending",
                     !.mode = mode, !.from = src.id, !.body = body,
                     !.header = IF mode = "duplicate" THEN HeaderID(src)
                                                      ELSE NoDelivery])
      /\ replay' = [replay EXCEPT ![c] = [NoReplay EXCEPT !.made = d]]
      /\ UNCHANGED walk

\* waitFirstAttempt sees an attempt, or that there will be none.
Answerable(d) == Found(d) /\ (rec[d].attempts > 0 \/ rec[d].status = "canceled")

WaitAnswered(c) ==
  /\ Goto(c, {"waiting"}, "idle")
  /\ Answerable(replay[c].made)
  /\ replay' = [replay EXCEPT ![c] = NoReplay]
  /\ UNCHANGED <<outboxVars, logVars, walk>>

\* The context of the wait ends.
WaitTimeout(c) ==
  /\ Goto(c, {"waiting"}, "idle")
  /\ replay' = [replay EXCEPT ![c] = NoReplay]
  /\ UNCHANGED <<outboxVars, logVars, walk>>

-----------------------------------------------------------------------------
(* The specification. *)

\* What a walk of c has to show in the end: what matched when it began and has
\* matched and been in the journal ever since.
Matching(c) == {d \in byID : Matches(rec[d], walk[c])}

Track ==
  stayed' = [c \in Client |->
    CASE pc'[c] = "walking" /\ pc[c] # "walking" -> Matching(c)'
      [] pc'[c] = "walking" /\ pc[c] = "walking" -> stayed[c] \cap Matching(c)'
      [] pc'[c] = "walked"                     -> stayed[c]
      [] OTHER                                 -> {}]

DispatcherStep(d) ==
  \/ TakeUp(d) \/ Attempt(d) \/ Attempted(d) \/ Canceled(d)
  \/ \E s \in Session \cup {NoSession} : Schedule(d, s)

ClientStep(c) ==
  \/ BeginWalk(c) \/ ReadPage(c) \/ WalkExpired(c)
  \/ BeginReplay(c)
  \/ \E d \in Delivery : ReplaySchedule(c, d)
  \/ WaitAnswered(c) \/ WaitTimeout(c)

JournalNext ==
  /\ \/ \E d \in Delivery : DispatcherStep(d)
     \/ \E c \in Client : ClientStep(c)
     \/ Clear
  /\ Track

JournalSpec == JournalInit /\ [][JournalNext]_journalVars

-----------------------------------------------------------------------------
(* Types. *)

RecordType ==
  [id : Delivery \cup {NoDelivery}, session : Session \cup {NoSession},
   status : Open \cup {"none", "delivered", "failed", "canceled"},
   attempts : 0 .. MaxAttempts, mode : Modes \cup {"none"},
   from : Delivery \cup {NoDelivery}, header : Delivery \cup {NoDelivery},
   body : Delivery \cup {NoDelivery}]

\* The ring's slots hold ids of deliveries that were scheduled, or nothing.
JournalTypeOK ==
  /\ ring.slot \in [R!Slot -> Delivery \cup {NoDelivery}]
  /\ ring.next \in R!Slot
  /\ ring.count \in 0 .. LogSize
  /\ byID \in SUBSET Delivery
  /\ rec \in [Delivery -> RecordType]

-----------------------------------------------------------------------------
(* Safety. *)

\* The index leads to exactly the records in the ring, each in one slot: nobody
\* can find, or update, a record that rotated out or was cleared, and every
\* listed record can be found and replayed (Add and Clear, log.go:93 and 191).
IndexMatchesRing ==
  /\ JournalTypeOK
  /\ byID = R!Entries(ring)
  /\ \A i, j \in R!Slot :
       ring.slot[i] = ring.slot[j] /\ i # j => ring.slot[i] = NoDelivery

\* A listed record says what became of its delivery: no update was lost to the
\* rotation, or went to another delivery's record (update, log.go:171).  This is
\* why Dispatcher may keep one status per delivery.
JournalTellsTruth ==
  \A d \in byID :
    /\ rec[d].status = state[d]
    /\ rec[d].attempts = tries[d] - IF d \in sending THEN 1 ELSE 0

\* A walk shows records newest first and none twice, whatever is added, updated
\* or rotated out between its pages (Page, log.go:133).
WalkInOrder ==
  \A c \in Client : \A i, j \in DOMAIN walk[c].got :
    i < j => walk[c].got[j] < walk[c].got[i]

\* A walk that came to its end has shown every record that matched from its first
\* page on and is still in the journal (Page, log.go:133).
WalkComplete ==
  \A c \in Client : pc[c] = "walked" =>
    \A d \in stayed[c] : \E i \in DOMAIN walk[c].got : walk[c].got[i] = d

\* A reader who follows next_cursor may rely on both.
WalkSound == WalkInOrder /\ WalkComplete

Visible(r) == IF r.header = NoDelivery THEN r.id ELSE r.header

\* A duplicate cannot be told from the delivery it repeats, which may be a
\* duplicate itself and may have rotated out meanwhile: same id header, same
\* body.  Any other replay has an id of its own (admin.go:505).
DuplicateIsIdentical ==
  \A d \in Delivery : LET r == rec[d] IN
    /\ r.mode = "duplicate" => /\ Visible(r) = Visible(rec[r.from])
                               /\ r.body = rec[r.from].body
    /\ r.mode # "duplicate" => Visible(r) = d

Recent == [i \in DOMAIN Listing |-> rec[Listing[i]]]

Listed == INSTANCE RecentLog WITH Size <- LogSize, recent <- Recent

\* The ring is the list of the newest records (log.go:73).
ImplementsRecentLog == Listed!RecentSpec
=============================================================================
