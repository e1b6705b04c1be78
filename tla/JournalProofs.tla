--------------------------- MODULE JournalProofs ----------------------------
(***************************************************************************)
(* Proofs about Journal: the index and the ring agree, what is listed is   *)
(* true, duplicates are identical, the journal is a list of the newest     *)
(* records, and a walk through its pages misses and repeats nothing; for   *)
(* any size of the ring or of a page, any number of clients and            *)
(* deliveries, and with sessions.                                          *)
(***************************************************************************)
EXTENDS Journal, SequenceTheorems, FiniteSetTheorems, TLAPS

Status == Open \cup {"none", "delivered", "failed", "canceled"}

Place == {"idle", "walking", "walked", "replaying", "waiting"}

OutboxTypes ==
  /\ state \in [Delivery -> Status]
  /\ sending \in SUBSET Delivery
  /\ tries \in [Delivery -> 0 .. MaxAttempts]
  /\ dropped \in SUBSET Delivery
  /\ taken \in SUBSET Delivery
  /\ \A d \in taken : d \notin sending /\ tries[d] < MaxAttempts

\* Of a delivery that is not scheduled yet nothing is known anywhere.
Unscheduled ==
  \A d \in Delivery : state[d] = "none" =>
    d \notin taken \cup sending /\ tries[d] = 0 /\ d \notin byID

RingOK ==
  /\ ring = [slot |-> ring.slot, next |-> ring.next, count |-> ring.count]
  /\ byID = R!Entries(ring)
  /\ \A i, j \in R!Slot :
       ring.slot[i] = ring.slot[j] /\ i # j => ring.slot[i] = NoDelivery

\* A replay works from a copy that shows the receiver what its record shows.
Copies ==
  /\ pc \in [Client -> Place]
  /\ replay \in [Client -> [source : RecordType, mode : Modes \cup {"none"},
                            made : Delivery \cup {NoDelivery}]]
  /\ \A c \in Client : pc[c] = "replaying" =>
       LET src == replay[c].source
       IN  /\ src.id \in Delivery /\ state[src.id] # "none"
           /\ src.header = rec[src.id].header /\ src.body = rec[src.id].body

\* A record keeps its id; a duplicate repeats a delivery that was scheduled.
Origins ==
  \A d \in Delivery :
    /\ rec[d].id = d
    /\ rec[d].mode = "duplicate" =>
         /\ rec[d].from \in Delivery /\ state[rec[d].from] # "none"
         /\ Visible(rec[d]) = Visible(rec[rec[d].from])
         /\ rec[d].body = rec[rec[d].from].body
    /\ rec[d].mode # "duplicate" => rec[d].header = NoDelivery

LogInv ==
  /\ JournalTypeOK /\ OutboxTypes /\ Unscheduled /\ RingOK
  /\ JournalTellsTruth /\ Origins

IInv == LogInv /\ Copies

\* What a step leaves alone of every delivery that was scheduled.
Lasting ==
  \A e \in Delivery : state[e] # "none" =>
    /\ state'[e] # "none"
    /\ rec'[e].header = rec[e].header /\ rec'[e].body = rec[e].body

-----------------------------------------------------------------------------
(* Facts about records and the ring. *)

LEMMA DeliveryFacts ==
  NoDelivery \notin Delivery /\ \A d \in Delivery : d # NoDelivery
  BY JournalAssumption DEF NoDelivery

LEMMA NewRecordType ==
  \A d \in Delivery \cup {NoDelivery} : NewRecord(d) \in RecordType
  BY OutboxAssumption DEF NewRecord, RecordType

\* What update and the loss of a record make of it.
Amended(x, s, n) == [x EXCEPT !.status = s, !.attempts = n]

LEMMA AmendedRecord ==
  ASSUME NEW x \in RecordType, NEW s \in Status, NEW n \in 0 .. MaxAttempts
  PROVE  /\ Amended(x, s, n) \in RecordType
         /\ Amended(x, s, n).status = s /\ Amended(x, s, n).attempts = n
         /\ Amended(x, s, n).id = x.id /\ Amended(x, s, n).header = x.header
         /\ Amended(x, s, n).body = x.body /\ Amended(x, s, n).mode = x.mode
         /\ Amended(x, s, n).from = x.from
  BY DEF Amended, RecordType, Status

\* What Schedule and a replay make of a new record.
Filled(x, s, m, f, b, h) ==
  [x EXCEPT !.session = s, !.status = "pending", !.mode = m, !.from = f,
            !.body = b, !.header = h]

LEMMA FilledRecord ==
  \A x \in RecordType, s \in Session \cup {NoSession}, m \in Modes \cup {"none"},
     f, b, h \in Delivery \cup {NoDelivery} :
    Filled(x, s, m, f, b, h) \in RecordType
<1> SUFFICES ASSUME NEW x \in RecordType, NEW s \in Session \cup {NoSession},
                    NEW m \in Modes \cup {"none"},
                    NEW f \in Delivery \cup {NoDelivery},
                    NEW b \in Delivery \cup {NoDelivery},
                    NEW h \in Delivery \cup {NoDelivery}
             PROVE  Filled(x, s, m, f, b, h) \in RecordType
  OBVIOUS
<1> DEFINE y == [x EXCEPT !.session = s, !.status = "pending", !.mode = m]
<1>1. y \in RecordType
  BY DEF RecordType, Open
<1>2. Filled(x, s, m, f, b, h) = [y EXCEPT !.from = f, !.body = b, !.header = h]
  BY DEF Filled
<1> HIDE DEF y
<1> QED
  BY <1>1, <1>2 DEF RecordType

LEMMA CollectedRecord ==
  ASSUME NEW x \in RecordType
  PROVE  /\ Collected(x) \in RecordType
         /\ Collected(x).id = x.id /\ Collected(x).header = x.header
         /\ Collected(x).body = x.body /\ Collected(x).mode = x.mode
         /\ Collected(x).from = x.from
<1>1. 0 \in 0 .. MaxAttempts /\ "none" \in Status
  BY OutboxAssumption DEF Status
<1>2. Collected(x) = Amended(x, "none", 0)
  BY DEF Collected, Amended
<1> QED
  BY <1>1, <1>2, AmendedRecord

LEMMA NextSlot ==
  ASSUME NEW n \in R!Slot
  PROVE  (n + 1) % LogSize \in R!Slot
  BY JournalAssumption DEF R!Slot

\* Add: the new id takes the place of the oldest in ring and index.
LEMMA PushOK ==
  ASSUME JournalTypeOK, RingOK, NEW d \in Delivery, d \notin byID,
         ring' = R!Push(ring, d), byID' = IndexWith(d)
  PROVE  /\ RingOK'
         /\ ring'.slot \in [R!Slot -> Delivery \cup {NoDelivery}]
         /\ ring'.next \in R!Slot /\ ring'.count \in 0 .. LogSize
         /\ byID' \in SUBSET Delivery /\ byID' \subseteq byID \cup {d}
<1>1. /\ ring.slot \in [R!Slot -> Delivery \cup {NoDelivery}]
      /\ ring.next \in R!Slot /\ ring.count \in 0 .. LogSize
      /\ byID \in SUBSET Delivery /\ d # NoDelivery
  BY DeliveryFacts DEF JournalTypeOK
<1>2. /\ ring'.slot = [ring.slot EXCEPT ![ring.next] = d]
      /\ ring'.next = (ring.next + 1) % LogSize
      /\ ring'.count = IF ring.count < LogSize THEN ring.count + 1 ELSE ring.count
      /\ ring' = [slot |-> ring'.slot, next |-> ring'.next, count |-> ring'.count]
  BY DEF R!Push
<1>3. /\ ring'.slot \in [R!Slot -> Delivery \cup {NoDelivery}]
      /\ ring'.slot[ring.next] = d
      /\ \A i \in R!Slot \ {ring.next} : ring'.slot[i] = ring.slot[i]
  BY <1>1, <1>2
<1>4. ring'.next \in R!Slot
  BY <1>1, <1>2, NextSlot
<1>5. ring'.count \in 0 .. LogSize
  BY <1>1, <1>2, JournalAssumption
<1>6. \A i \in R!Slot : ring.slot[i] # d
  BY <1>1 DEF RingOK, R!Entries
<1>7. byID' = (byID \ {ring.slot[ring.next]}) \cup {d}
  BY DEF IndexWith
<1>8. byID' = R!Entries(ring)'
  <2>1. \A e : e \in R!Entries(ring)' <=>
                 e # NoDelivery /\ \E i \in R!Slot : e = ring'.slot[i]
    BY DEF R!Entries, R!Slot
  <2>2. \A e : e \in byID <=> e # NoDelivery /\ \E i \in R!Slot : e = ring.slot[i]
    BY DEF RingOK, R!Entries
  <2>3. \A e : e \in byID /\ e = ring.slot[ring.next] =>
                 \A i \in R!Slot \ {ring.next} : ring.slot[i] # e
    BY <1>1, <2>2 DEF RingOK
  <2>4. \A e : e \in byID' <=> e \in R!Entries(ring)'
    BY <1>1, <1>3, <1>7, <2>1, <2>2, <2>3
  <2> QED
    BY <2>4
<1>9. \A i, j \in R!Slot :
        ring'.slot[i] = ring'.slot[j] /\ i # j => ring'.slot[i] = NoDelivery
  BY <1>1, <1>3, <1>6 DEF RingOK
<1>10. RingOK'
  BY <1>2, <1>8, <1>9 DEF RingOK, R!Slot
<1> QED
  BY <1>1, <1>3, <1>4, <1>5, <1>7, <1>10

LEMMA ClearOK ==
  ASSUME ring' = R!EmptyRing, byID' = {}
  PROVE  /\ RingOK'
         /\ ring'.slot \in [R!Slot -> Delivery \cup {NoDelivery}]
         /\ ring'.next \in R!Slot /\ ring'.count \in 0 .. LogSize
  BY JournalAssumption DEF R!EmptyRing, RingOK, R!Entries, R!Slot

LEMMA InitIInv == JournalInit => IInv
<1> SUFFICES ASSUME JournalInit PROVE IInv
  OBVIOUS
<1> USE JournalAssumption, OutboxAssumption
<1>1. OutboxTypes /\ Unscheduled /\ JournalTellsTruth
  BY DEF JournalInit, OutboxInit, OutboxTypes, Unscheduled, JournalTellsTruth, Status
<1>2. RingOK /\ ring.slot \in [R!Slot -> Delivery \cup {NoDelivery}]
      /\ ring.next \in R!Slot /\ ring.count \in 0 .. LogSize
  BY DEF JournalInit, R!EmptyRing, RingOK, R!Entries, R!Slot
<1>3. JournalTypeOK
  BY <1>2, NewRecordType DEF JournalInit, JournalTypeOK
<1>4. Origins
  BY DEF JournalInit, Origins, NewRecord, Visible
<1>5. Copies
  BY NewRecordType DEF JournalInit, Copies, NoReplay, Place
<1> QED
  BY <1>1, <1>2, <1>3, <1>4, <1>5 DEF IInv, LogInv

-----------------------------------------------------------------------------
(* Steps of the log. *)

\* What a record may say about where it comes from.
OriginOf(r) ==
  /\ r.mode = "duplicate" =>
       /\ r.from \in Delivery /\ state[r.from] # "none"
       /\ Visible(r) = Visible(rec[r.from]) /\ r.body = rec[r.from].body
  /\ r.mode # "duplicate" => r.header = NoDelivery

\* A new delivery and its record.
LEMMA LogStep ==
  ASSUME LogInv, NEW d \in Delivery, NEW r \in RecordType,
         Enqueue(d), Log(d, r), r.id = d, r.status = "pending", r.attempts = 0,
         OriginOf(r)
  PROVE  LogInv' /\ Lasting
<1>1. /\ state \in [Delivery -> Status] /\ state[d] = "none"
      /\ state' = [state EXCEPT ![d] = "pending"]
      /\ UNCHANGED <<taken, sending, tries, dropped>>
      /\ d \notin byID /\ d \notin taken \cup sending /\ tries[d] = 0
      /\ rec \in [Delivery -> RecordType]
  BY DEF LogInv, JournalTypeOK, OutboxTypes, Unscheduled, Enqueue
<1>2. /\ state'[d] = "pending"
      /\ \A e \in Delivery \ {d} : state'[e] = state[e]
      /\ state' \in [Delivery -> Status]
  BY <1>1 DEF Status, Open
<1>3. /\ RingOK' /\ byID' \subseteq byID \cup {d}
      /\ ring'.slot \in [R!Slot -> Delivery \cup {NoDelivery}]
      /\ ring'.next \in R!Slot /\ ring'.count \in 0 .. LogSize
      /\ byID' \in SUBSET Delivery
  BY <1>1, PushOK DEF LogInv, Log
<1>5. /\ rec'[d] = r
      /\ \A e \in Delivery \ {d} : e \in byID' => rec'[e] = rec[e]
      /\ \A e \in Delivery \ {d} : e \notin byID' => rec'[e] = Collected(rec[e])
      /\ rec' = [e \in Delivery |-> rec'[e]]
  BY DEF Log
<1>6. \A e \in Delivery \ {d} :
        /\ rec'[e] \in RecordType /\ rec[e] \in RecordType
        /\ rec'[e].id = rec[e].id /\ rec'[e].header = rec[e].header
        /\ rec'[e].body = rec[e].body /\ rec'[e].mode = rec[e].mode
        /\ rec'[e].from = rec[e].from
  BY <1>1, <1>5, CollectedRecord
<1>7. JournalTypeOK'
  <2>1. rec' \in [Delivery -> RecordType]
    BY <1>5, <1>6
  <2> QED
    BY <1>3, <2>1 DEF JournalTypeOK, R!Slot
<1>8. OutboxTypes' /\ Unscheduled'
  BY <1>1, <1>2, <1>3 DEF LogInv, OutboxTypes, Unscheduled
<1>9. JournalTellsTruth'
  BY <1>1, <1>2, <1>3, <1>5 DEF LogInv, JournalTellsTruth
<1>10. Origins'
  <2>1. ASSUME NEW e \in Delivery, e # d
        PROVE  /\ rec'[e].id = e
               /\ rec'[e].mode = "duplicate" =>
                    /\ rec'[e].from \in Delivery /\ state'[rec'[e].from] # "none"
                    /\ Visible(rec'[e]) = Visible(rec'[rec'[e].from])
                    /\ rec'[e].body = rec'[rec'[e].from].body
               /\ rec'[e].mode # "duplicate" => rec'[e].header = NoDelivery
    BY <1>1, <1>2, <1>6, <2>1 DEF LogInv, Origins, Visible
  <2>2. /\ rec'[d].id = d
        /\ rec'[d].mode = "duplicate" =>
             /\ rec'[d].from \in Delivery /\ state'[rec'[d].from] # "none"
             /\ Visible(rec'[d]) = Visible(rec'[rec'[d].from])
             /\ rec'[d].body = rec'[rec'[d].from].body
        /\ rec'[d].mode # "duplicate" => rec'[d].header = NoDelivery
    BY <1>1, <1>2, <1>5, <1>6 DEF OriginOf, Visible
  <2> QED
    BY <2>1, <2>2 DEF Origins, Visible
<1> QED
  BY <1>1, <1>2, <1>3, <1>6, <1>7, <1>8, <1>9, <1>10 DEF LogInv, Lasting

\* A step that changes status and attempts of one delivery, and at most those
\* of its record.
LEMMA AmendStep ==
  ASSUME LogInv, OutboxTypes', NEW d \in Delivery, UNCHANGED <<ring, byID>>,
         state[d] # "none", state'[d] # "none",
         \A e \in Delivery \ {d} :
           /\ state'[e] = state[e] /\ tries'[e] = tries[e]
           /\ e \in sending' <=> e \in sending
           /\ e \in taken' => e \in taken
           /\ rec'[e] = rec[e],
         rec' \in [Delivery -> RecordType],
         rec'[d].id = rec[d].id, rec'[d].header = rec[d].header,
         rec'[d].body = rec[d].body, rec'[d].mode = rec[d].mode,
         rec'[d].from = rec[d].from,
         d \in byID => /\ rec'[d].status = state'[d]
                       /\ rec'[d].attempts
                            = tries'[d] - IF d \in sending' THEN 1 ELSE 0
  PROVE  LogInv' /\ Lasting
<1>1. JournalTypeOK' /\ RingOK'
  BY DEF LogInv, JournalTypeOK, RingOK, R!Entries, R!Slot
<1>2. Unscheduled'
  BY DEF LogInv, Unscheduled
<1>3. JournalTellsTruth'
  <2>1. ASSUME NEW e \in byID, e # d
        PROVE  /\ rec'[e].status = state'[e]
               /\ rec'[e].attempts = tries'[e] - IF e \in sending' THEN 1 ELSE 0
    <3>1. e \in Delivery \ {d}
      BY <2>1 DEF LogInv, JournalTypeOK
    <3> QED
      BY <3>1 DEF LogInv, JournalTellsTruth
  <2> QED
    BY <2>1 DEF JournalTellsTruth
<1>4. Origins'
  <2>1. \A e \in Delivery :
          /\ rec'[e].id = rec[e].id /\ rec'[e].header = rec[e].header
          /\ rec'[e].body = rec[e].body /\ rec'[e].mode = rec[e].mode
          /\ rec'[e].from = rec[e].from /\ (state[e] # "none" => state'[e] # "none")
    OBVIOUS
  <2> QED
    BY <2>1 DEF LogInv, Origins, Visible
<1> QED
  BY <1>1, <1>2, <1>3, <1>4 DEF LogInv, Lasting

LEMMA TakeUpStep ==
  ASSUME LogInv, NEW d \in Delivery, TakeUp(d)
  PROVE  LogInv' /\ Lasting
<1>1. /\ state[d] # "none" /\ d \notin sending /\ tries[d] < MaxAttempts
      /\ taken' = taken \cup {d}
      /\ UNCHANGED <<ring, byID, rec, state, sending, tries, dropped>>
  BY DEF TakeUp, Take, Open, logVars
<1>2. OutboxTypes'
  BY <1>1 DEF LogInv, OutboxTypes
<1>3. rec \in [Delivery -> RecordType]
  BY DEF LogInv, JournalTypeOK
<1>4. d \in byID => /\ rec[d].status = state[d]
                    /\ rec[d].attempts = tries[d] - IF d \in sending THEN 1 ELSE 0
  BY DEF LogInv, JournalTellsTruth
<1> QED
  BY <1>1, <1>2, <1>3, <1>4, AmendStep

LEMMA AttemptStep ==
  ASSUME LogInv, NEW d \in Delivery, Attempt(d)
  PROVE  LogInv' /\ Lasting
<1>1. /\ state \in [Delivery -> Status] /\ tries \in [Delivery -> 0 .. MaxAttempts]
      /\ rec \in [Delivery -> RecordType]
      /\ state[d] # "none" /\ d \notin sending /\ tries[d] < MaxAttempts
      /\ taken' = taken \ {d}
      /\ UNCHANGED <<ring, byID, rec, state, dropped>>
      /\ sending' = sending \cup {d} /\ tries' = [tries EXCEPT ![d] = @ + 1]
  BY DEF LogInv, JournalTypeOK, OutboxTypes, Unscheduled, Attempt, Send, logVars
<1>2. tries' \in [Delivery -> 0 .. MaxAttempts] /\ tries'[d] = tries[d] + 1
  BY <1>1, OutboxAssumption
<1>3. OutboxTypes'
  BY <1>1, <1>2 DEF LogInv, OutboxTypes
<1>4. d \in byID => rec[d].status = state[d] /\ rec[d].attempts = tries[d]
  BY <1>1 DEF LogInv, JournalTellsTruth
<1> QED
  BY <1>1, <1>2, <1>3, <1>4, OutboxAssumption, AmendStep

LEMMA UpdatedRecord ==
  ASSUME LogInv, NEW d \in Delivery, NEW s \in Status, NEW n \in 0 .. MaxAttempts,
         Update(d, s, n)
  PROVE  /\ UNCHANGED <<ring, byID>>
         /\ rec' \in [Delivery -> RecordType]
         /\ \A e \in Delivery \ {d} : rec'[e] = rec[e]
         /\ rec'[d].id = rec[d].id /\ rec'[d].header = rec[d].header
         /\ rec'[d].body = rec[d].body /\ rec'[d].mode = rec[d].mode
         /\ rec'[d].from = rec[d].from
         /\ d \in byID => rec'[d].status = s /\ rec'[d].attempts = n
<1>1. rec \in [Delivery -> RecordType] /\ rec[d] \in RecordType
  BY DEF LogInv, JournalTypeOK
<1>2. CASE d \notin byID
  BY <1>1, <1>2 DEF Update
<1>3. CASE d \in byID
  <2> DEFINE x == Amended(rec[d], s, n)
  <2>1. /\ rec' = [rec EXCEPT ![d] = x] /\ UNCHANGED <<ring, byID>>
    BY <1>1, <1>3 DEF Update, Amended
  <2>2. /\ x \in RecordType /\ x.status = s /\ x.attempts = n /\ x.id = rec[d].id
        /\ x.header = rec[d].header /\ x.body = rec[d].body
        /\ x.mode = rec[d].mode /\ x.from = rec[d].from
    BY <1>1, AmendedRecord
  <2> QED
    BY <1>1, <2>1, <2>2
<1> QED
  BY <1>2, <1>3

LEMMA AttemptedStep ==
  ASSUME LogInv, NEW d \in Delivery, Attempted(d)
  PROVE  LogInv' /\ Lasting
<1>1. /\ state \in [Delivery -> Status] /\ tries \in [Delivery -> 0 .. MaxAttempts]
      /\ d \in sending /\ sending' = sending \ {d}
      /\ UNCHANGED <<taken, tries, dropped>>
      /\ Update(d, state'[d], tries[d])
  BY DEF LogInv, OutboxTypes, Attempted, Record
<1>2. PICK o \in Outcomes(d) : state' = [state EXCEPT ![d] = o]
  BY DEF Attempted, Record
<1>3. /\ state'[d] = o /\ o \in Status /\ o # "none"
      /\ \A e \in Delivery \ {d} : state'[e] = state[e]
      /\ state' \in [Delivery -> Status]
  BY <1>1, <1>2 DEF Outcomes, Status, Open
<1>4. OutboxTypes'
  BY <1>1, <1>3 DEF LogInv, OutboxTypes
<1>5. state[d] # "none"
  BY <1>1 DEF LogInv, Unscheduled
<1>6. tries[d] \in 0 .. MaxAttempts
  BY <1>1
<1>7. tries'[d] - (IF d \in sending' THEN 1 ELSE 0) = tries[d]
  BY <1>1, <1>6, OutboxAssumption
<1> QED
  BY <1>1, <1>3, <1>4, <1>5, <1>6, <1>7, UpdatedRecord, AmendStep

LEMMA CanceledStep ==
  ASSUME LogInv, NEW d \in Delivery, Canceled(d)
  PROVE  LogInv' /\ Lasting
<1>1. /\ state \in [Delivery -> Status] /\ tries \in [Delivery -> 0 .. MaxAttempts]
      /\ state[d] # "none" /\ state' = [state EXCEPT ![d] = "canceled"]
      /\ dropped' = dropped \cup {d} /\ UNCHANGED <<taken, sending, tries>>
      /\ Update(d, "canceled", rec[d].attempts)
      /\ rec[d].attempts \in 0 .. MaxAttempts
  BY DEF LogInv, JournalTypeOK, RecordType, OutboxTypes, Canceled, Cancel
<1>2. /\ state'[d] = "canceled" /\ "canceled" \in Status
      /\ \A e \in Delivery \ {d} : state'[e] = state[e]
      /\ state' \in [Delivery -> Status]
  BY <1>1 DEF Status
<1>3. OutboxTypes'
  BY <1>1, <1>2 DEF LogInv, OutboxTypes
<1>4. d \in byID => rec[d].attempts = tries[d] - IF d \in sending THEN 1 ELSE 0
  BY DEF LogInv, JournalTellsTruth
<1> QED
  BY <1>1, <1>2, <1>3, <1>4, UpdatedRecord, AmendStep

LEMMA ClearStep ==
  ASSUME LogInv, Clear
  PROVE  LogInv' /\ Lasting
<1>1. /\ rec \in [Delivery -> RecordType] /\ rec' = [d \in Delivery |-> Collected(rec[d])]
      /\ ring' = R!EmptyRing /\ byID' = {}
      /\ UNCHANGED <<state, taken, sending, tries, dropped>>
  BY DEF LogInv, JournalTypeOK, Clear, outboxVars
<1>2. \A e \in Delivery :
        /\ rec'[e] \in RecordType
        /\ rec'[e].id = rec[e].id /\ rec'[e].header = rec[e].header
        /\ rec'[e].body = rec[e].body /\ rec'[e].mode = rec[e].mode
        /\ rec'[e].from = rec[e].from
  BY <1>1, CollectedRecord
<1>3. JournalTypeOK' /\ RingOK'
  <2>1. rec' \in [Delivery -> RecordType]
    BY <1>1, <1>2
  <2> QED
    BY <1>1, <2>1, ClearOK DEF JournalTypeOK, R!Slot
<1>4. OutboxTypes' /\ Unscheduled' /\ JournalTellsTruth'
  BY <1>1 DEF LogInv, OutboxTypes, Unscheduled, JournalTellsTruth
<1>5. Origins'
  BY <1>1, <1>2 DEF LogInv, Origins, Visible
<1> QED
  BY <1>1, <1>2, <1>3, <1>4, <1>5 DEF LogInv, Lasting

LEMMA SameLog ==
  ASSUME LogInv, UNCHANGED <<outboxVars, logVars>>
  PROVE  LogInv' /\ Lasting
  BY DEF LogInv, outboxVars, logVars, JournalTypeOK, OutboxTypes, Unscheduled,
         RingOK, R!Entries, R!Slot, JournalTellsTruth, Origins, Lasting

-----------------------------------------------------------------------------
(* Steps of clients. *)

LEMMA CopiesKept ==
  ASSUME Copies, Lasting, UNCHANGED <<pc, replay>>
  PROVE  Copies'
  BY DEF Copies, Lasting

\* A client that is not, or no longer, replaying.
LEMMA CopiesAfter ==
  ASSUME Copies, Lasting, NEW c \in Client, NEW to \in Place \ {"replaying"},
         pc' = [pc EXCEPT ![c] = to],
         \/ replay' = replay
         \/ replay' = [replay EXCEPT ![c] = NoReplay]
         \/ \E d \in Delivery :
              replay' = [replay EXCEPT ![c] = [NoReplay EXCEPT !.made = d]]
  PROVE  Copies'
<1> DEFINE T == [source : RecordType, mode : Modes \cup {"none"},
                 made : Delivery \cup {NoDelivery}]
<1>1. NoReplay \in T /\ \A d \in Delivery : [NoReplay EXCEPT !.made = d] \in T
  BY NewRecordType DEF NoReplay
<1>2. replay' \in [Client -> T] /\ \A b \in Client \ {c} : replay'[b] = replay[b]
  BY <1>1 DEF Copies
<1>3. /\ pc' \in [Client -> Place] /\ pc'[c] # "replaying"
      /\ \A b \in Client \ {c} : pc'[b] = pc[b]
  BY DEF Copies
<1> QED
  BY <1>2, <1>3 DEF Copies, Lasting

LEMMA BeginReplayStep ==
  ASSUME IInv, NEW c \in Client, BeginReplay(c)
  PROVE  IInv'
<1>1. PICK d \in Delivery, m \in Modes :
        /\ Found(d)
        /\ replay' = [replay EXCEPT ![c] = [NoReplay EXCEPT !.source = rec[d], !.mode = m]]
  BY DEF BeginReplay
<1>2. LogInv' /\ Lasting
  BY SameLog DEF IInv, BeginReplay
<1>3. /\ pc' = [pc EXCEPT ![c] = "replaying"]
      /\ UNCHANGED <<state, rec, byID>>
  BY DEF BeginReplay, Goto, outboxVars, logVars
<1>4. rec[d] \in RecordType /\ rec[d].id = d /\ state[d] # "none"
  BY <1>1 DEF IInv, LogInv, JournalTypeOK, Origins, Unscheduled, Found
<1>5. Copies'
  <2> DEFINE x == [NoReplay EXCEPT !.source = rec[d], !.mode = m]
             T == [source : RecordType, mode : Modes \cup {"none"},
                   made : Delivery \cup {NoDelivery}]
  <2>1. x \in T /\ x.source = rec[d]
    BY <1>4 DEF NoReplay
  <2>2. /\ replay' \in [Client -> T] /\ replay'[c] = x
        /\ \A b \in Client \ {c} : replay'[b] = replay[b]
    BY <1>1, <2>1 DEF IInv, Copies
  <2>3. /\ pc' \in [Client -> Place]
        /\ \A b \in Client \ {c} : pc'[b] = pc[b]
    BY <1>3 DEF IInv, Copies, Place
  <2> QED
    <3>1. ASSUME NEW b \in Client, pc'[b] = "replaying"
          PROVE  LET s == replay'[b].source
                 IN  /\ s.id \in Delivery /\ state[s.id] # "none"
                     /\ s.header = rec[s.id].header /\ s.body = rec[s.id].body
      <4>1. CASE b = c
        BY <1>4, <2>1, <2>2, <4>1
      <4>2. CASE b # c
        BY <2>2, <2>3, <3>1, <4>2 DEF IInv, Copies
      <4> QED
        BY <4>1, <4>2
    <3> QED
      BY <1>3, <2>2, <2>3, <3>1 DEF Copies
<1> QED
  BY <1>2, <1>5 DEF IInv

\* The record a replay logs: a duplicate shows what its source shows.
LEMMA ReplayScheduleStep ==
  ASSUME IInv, NEW c \in Client, NEW d \in Delivery, ReplaySchedule(c, d)
  PROVE  IInv'
<1> DEFINE src == replay[c].source
           mode == replay[c].mode
           R0(body) == [NewRecord(d) EXCEPT
                          !.session = src.session, !.status = "pending",
                          !.mode = mode, !.from = src.id, !.body = body,
                          !.header = IF mode = "duplicate" THEN HeaderID(src)
                                                           ELSE NoDelivery]
<1>1. PICK body \in {src.body} \cup IF mode = "replay" THEN {d} ELSE {} :
        Log(d, R0(body))
  BY DEF ReplaySchedule
<1>2. PICK to \in {"waiting", "idle"} : Goto(c, {"replaying"}, to)
  BY DEF ReplaySchedule
<1>3. /\ Enqueue(d) /\ pc[c] = "replaying" /\ pc' = [pc EXCEPT ![c] = to]
      /\ replay' = [replay EXCEPT ![c] = [NoReplay EXCEPT !.made = d]]
  BY <1>2 DEF ReplaySchedule, Goto
<1>4. /\ src \in RecordType /\ mode \in Modes \cup {"none"}
      /\ src.id \in Delivery /\ state[src.id] # "none"
      /\ src.header = rec[src.id].header /\ src.body = rec[src.id].body
      /\ rec[src.id].id = src.id
  BY <1>3 DEF IInv, LogInv, Copies, Origins
<1>5. /\ src.session \in Session \cup {NoSession}
      /\ src.header \in Delivery \cup {NoDelivery}
      /\ src.body \in Delivery \cup {NoDelivery}
      /\ HeaderID(src) \in Delivery /\ body \in Delivery \cup {NoDelivery}
  BY <1>1, <1>4 DEF RecordType, HeaderID
<1>6. /\ R0(body).id = d /\ R0(body).status = "pending" /\ R0(body).attempts = 0
      /\ R0(body).mode = mode /\ R0(body).from = src.id /\ R0(body).body = body
      /\ mode = "duplicate" => R0(body).header = HeaderID(src)
      /\ mode # "duplicate" => R0(body).header = NoDelivery
      /\ R0(body) \in RecordType
  <2> DEFINE h == IF mode = "duplicate" THEN HeaderID(src) ELSE NoDelivery
  <2>1. R0(body) = Filled(NewRecord(d), src.session, mode, src.id, body, h)
    BY DEF Filled
  <2>2. h \in Delivery \cup {NoDelivery} /\ NewRecord(d) \in RecordType
    BY <1>5, NewRecordType
  <2>3. NewRecord(d).id = d /\ NewRecord(d).attempts = 0
    BY DEF NewRecord
  <2>4. mode = "duplicate" => h = HeaderID(src)
    OBVIOUS
  <2>5. mode # "duplicate" => h = NoDelivery
    OBVIOUS
  <2> HIDE DEF R0, src, mode, h
  <2> DEFINE x == Filled(NewRecord(d), src.session, mode, src.id, body, h)
  <2>6. /\ src.session \in Session \cup {NoSession}
        /\ mode \in Modes \cup {"none"} /\ src.id \in Delivery \cup {NoDelivery}
        /\ body \in Delivery \cup {NoDelivery}
    BY <1>4, <1>5
  <2>7. x \in RecordType
    BY <2>2, <2>6, FilledRecord
  <2>8. /\ x.status = "pending"
        /\ x.attempts = NewRecord(d).attempts /\ x.id = NewRecord(d).id
        /\ x.mode = mode /\ x.from = src.id /\ x.body = body /\ x.header = h
    BY <2>2, <2>6 DEF Filled, RecordType
  <2> HIDE DEF x
  <2>9. R0(body) = x
    BY <2>1 DEF x
  <2> QED
    BY <2>3, <2>4, <2>5, <2>7, <2>8, <2>9
<1>7. OriginOf(R0(body))
  <2>1. mode = "duplicate" => body = src.body
    BY <1>1
  <2>2. HeaderID(src) # NoDelivery
    BY <1>5, DeliveryFacts
  <2>3. Visible(rec[src.id]) = HeaderID(src)
    BY <1>4 DEF Visible, HeaderID
  <2>4. mode = "duplicate" => Visible(R0(body)) = HeaderID(src)
    BY <1>6, <2>2 DEF Visible
  <2> HIDE DEF R0, src, mode
  <2> QED
    BY <1>4, <1>6, <2>1, <2>3, <2>4 DEF OriginOf
<1>8. LogInv' /\ Lasting
  <2> HIDE DEF R0
  <2> QED
    BY <1>1, <1>3, <1>6, <1>7, LogStep DEF IInv
<1>9. Copies'
  BY <1>3, <1>8, CopiesAfter DEF IInv, Place
<1> QED
  BY <1>8, <1>9 DEF IInv

LEMMA ScheduleStep ==
  ASSUME IInv, NEW d \in Delivery, NEW s \in Session \cup {NoSession}, Schedule(d, s)
  PROVE  IInv'
<1> DEFINE r == [NewRecord(d) EXCEPT !.session = s, !.status = "pending"]
<1>1. /\ r \in RecordType /\ r.id = d /\ r.status = "pending" /\ r.attempts = 0
      /\ r.mode = "none" /\ r.header = NoDelivery
  <2>1. NewRecord(d) \in RecordType
    BY NewRecordType
  <2>2. /\ NewRecord(d).id = d /\ NewRecord(d).attempts = 0
        /\ NewRecord(d).mode = "none" /\ NewRecord(d).header = NoDelivery
    BY DEF NewRecord
  <2> QED
    BY <2>1, <2>2 DEF RecordType, Open
<1>2. OriginOf(r)
  BY <1>1 DEF OriginOf
<1>3. Enqueue(d) /\ Log(d, r) /\ UNCHANGED <<pc, replay>>
  BY DEF Schedule, clientVars
<1> HIDE DEF r
<1>4. LogInv' /\ Lasting
  BY <1>1, <1>2, <1>3, LogStep DEF IInv
<1> QED
  BY <1>3, <1>4, CopiesKept DEF IInv

LEMMA ClientSteps ==
  ASSUME IInv, NEW c \in Client, ClientStep(c)
  PROVE  IInv'
<1>1. ASSUME UNCHANGED <<outboxVars, logVars>>, NEW to \in Place \ {"replaying"},
             pc' = [pc EXCEPT ![c] = to],
             replay' = replay \/ replay' = [replay EXCEPT ![c] = NoReplay]
      PROVE  IInv'
  BY <1>1, SameLog, CopiesAfter DEF IInv
<1>2. CASE BeginWalk(c)
  BY <1>1, <1>2 DEF BeginWalk, Goto, Place
<1>3. CASE ReadPage(c)
  BY <1>1, <1>3 DEF ReadPage, Goto, Place
<1>4. CASE WalkExpired(c)
  BY <1>1, <1>4 DEF WalkExpired, Goto, Place
<1>5. CASE WaitAnswered(c)
  BY <1>1, <1>5 DEF WaitAnswered, Goto, Place
<1>6. CASE WaitTimeout(c)
  BY <1>1, <1>6 DEF WaitTimeout, Goto, Place
<1> QED
  BY <1>2, <1>3, <1>4, <1>5, <1>6, BeginReplayStep, ReplayScheduleStep DEF ClientStep

LEMMA NextIInv ==
  ASSUME IInv, [JournalNext]_journalVars
  PROVE  IInv'
<1>1. ASSUME NEW d \in Delivery, DispatcherStep(d) PROVE IInv'
  <2>1. CASE TakeUp(d) \/ Attempt(d) \/ Attempted(d) \/ Canceled(d)
    BY <2>1, TakeUpStep, AttemptStep, AttemptedStep, CanceledStep, CopiesKept
    DEF IInv, TakeUp, Attempt, Attempted, Canceled, clientVars
  <2> QED
    BY <1>1, <2>1, ScheduleStep DEF DispatcherStep
<1>2. CASE Clear
  BY <1>2, ClearStep, CopiesKept DEF IInv, Clear, clientVars
<1>3. CASE UNCHANGED journalVars
  BY <1>3, SameLog, CopiesKept DEF IInv, journalVars, clientVars
<1> QED
  BY <1>1, <1>2, <1>3, ClientSteps DEF JournalNext

-----------------------------------------------------------------------------
(* The theorems. *)

\* The inductive invariant: among others, the index holds scheduled deliveries
\* only, and the copy a replay works from still shows what its record shows.
THEOREM JournalInvariant == JournalSpec => []IInv
  BY InitIInv, NextIInv, PTL DEF JournalSpec

\* Whatever is added, updated, rotated out and cleared, the index leads to
\* exactly the records in the ring (log.go:93, 191).
THEOREM IndexMatchesRingHolds == JournalSpec => []IndexMatchesRing
<1>1. IInv => IndexMatchesRing
  BY DEF IInv, LogInv, RingOK, IndexMatchesRing
<1> QED
  BY <1>1, JournalInvariant, PTL

\* Every listed record says what became of its delivery (log.go:171).
THEOREM JournalTellsTruthHolds == JournalSpec => []JournalTellsTruth
<1>1. IInv => JournalTellsTruth
  BY DEF IInv, LogInv
<1> QED
  BY <1>1, JournalInvariant, PTL

\* A duplicate, of however long a chain of duplicates, shows the id and the body
\* of the first delivery (admin.go:505).
THEOREM DuplicateIsIdenticalHolds == JournalSpec => []DuplicateIsIdentical
<1>1. IInv => DuplicateIsIdentical
  BY DEF IInv, LogInv, Origins, DuplicateIsIdentical, Visible
<1> QED
  BY <1>1, JournalInvariant, PTL

-----------------------------------------------------------------------------
(* The listing.  The ring's arithmetic: the i-th newest entry is i + 1 slots  *)
(* before the next one to be written, around the end if need be.              *)

LEMMA NthSlot ==
  ASSUME NEW n \in R!Slot, NEW i \in 0 .. LogSize - 1
  PROVE  (n - 1 - i + 2 * LogSize) % LogSize
           = IF i < n THEN n - 1 - i ELSE n - 1 - i + LogSize
<1>1. LogSize \in Nat /\ LogSize > 0 /\ n \in 0 .. LogSize - 1
  BY JournalAssumption DEF R!Slot
<1>2. \A b \in 0 .. LogSize - 1 :
        (b + 2 * LogSize) % LogSize = b /\ (b + LogSize) % LogSize = b
  BY <1>1
<1>3. CASE i < n
  BY <1>1, <1>2, <1>3
<1>4. CASE ~(i < n)
  <2>1. n - 1 - i + LogSize \in 0 .. LogSize - 1
    BY <1>1, <1>4
  <2> DEFINE b == n - 1 - i + LogSize
  <2>2. n - 1 - i + 2 * LogSize = b + LogSize
    BY <1>1
  <2> HIDE DEF b
  <2>3. (b + LogSize) % LogSize = b
    BY <1>2, <2>1 DEF b
  <2>4. (n - 1 - i + 2 * LogSize) % LogSize = b
    BY <2>2, <2>3
  <2> QED
    BY <1>4, <2>4 DEF b
<1> QED
  BY <1>3, <1>4

LEMMA AfterSlot ==
  ASSUME NEW n \in R!Slot
  PROVE  (n + 1) % LogSize = IF n + 1 = LogSize THEN 0 ELSE n + 1
<1>1. LogSize \in Nat /\ LogSize > 0 /\ n \in 0 .. LogSize - 1
  BY JournalAssumption DEF R!Slot
<1>2. CASE n + 1 = LogSize
  <2>1. LogSize % LogSize = 0
    BY <1>1
  <2> QED
    BY <1>2, <2>1
<1>3. CASE n + 1 # LogSize
  <2>1. \A b \in 0 .. LogSize - 1 : b % LogSize = b
    BY <1>1
  <2> QED
    BY <1>1, <1>3, <2>1
<1> QED
  BY <1>2, <1>3

\* Push makes the new entry the newest and each other one older by one.
LEMMA NthOfPush ==
  ASSUME NEW r, NEW x, NEW D, r.slot \in [R!Slot -> D], r.next \in R!Slot
  PROVE  /\ R!Nth(R!Push(r, x), 0) = x
         /\ \A i \in 1 .. LogSize - 1 : R!Nth(R!Push(r, x), i) = R!Nth(r, i - 1)
<1> DEFINE n == r.next
           m == (n + 1) % LogSize
           p == R!Push(r, x)
<1>1. LogSize \in Nat /\ LogSize > 0 /\ n \in 0 .. LogSize - 1
  BY JournalAssumption DEF R!Slot
<1>2. /\ p.slot = [r.slot EXCEPT ![n] = x] /\ p.next = m
      /\ p.slot[n] = x
      /\ \A j \in R!Slot \ {n} : p.slot[j] = r.slot[j]
  BY DEF R!Push
<1>3. m = IF n + 1 = LogSize THEN 0 ELSE n + 1
  BY AfterSlot
<1>4. m \in R!Slot
  BY <1>1, <1>3 DEF R!Slot
<1> HIDE DEF m, p
<1>5. (m - 1 - 0 + 2 * LogSize) % LogSize = n
  <2>1. (m - 1 - 0 + 2 * LogSize) % LogSize = IF 0 < m THEN m - 1 - 0 ELSE m - 1 - 0 + LogSize
    BY <1>1, <1>4, NthSlot
  <2> QED
    BY <1>1, <1>3, <2>1
<1>6. R!Nth(p, 0) = x
  BY <1>2, <1>5 DEF R!Nth
<1>7. ASSUME NEW i \in 1 .. LogSize - 1
      PROVE  R!Nth(p, i) = R!Nth(r, i - 1)
  <2> DEFINE j == (m - 1 - i + 2 * LogSize) % LogSize
             k == (n - 1 - (i - 1) + 2 * LogSize) % LogSize
  <2>1. j = IF i < m THEN m - 1 - i ELSE m - 1 - i + LogSize
    BY <1>1, <1>4, NthSlot
  <2>2. k = IF i - 1 < n THEN n - 1 - (i - 1) ELSE n - 1 - (i - 1) + LogSize
    BY <1>1, NthSlot
  <2> HIDE DEF j, k, n
  <2>3. j = k /\ j \in R!Slot \ {n}
    <3>1. CASE n + 1 = LogSize
      BY <1>1, <1>3, <2>1, <2>2, <3>1 DEF R!Slot
    <3>2. CASE n + 1 # LogSize
      <4>1. m = n + 1 /\ (i < m <=> i - 1 < n)
        BY <1>1, <1>3, <3>2
      <4> QED
        BY <1>1, <2>1, <2>2, <3>2, <4>1 DEF R!Slot
    <3> QED
      BY <3>1, <3>2
  <2>4. R!Nth(p, i) = p.slot[j] /\ R!Nth(r, i - 1) = r.slot[k]
    BY <1>2 DEF R!Nth, j, k, n
  <2> QED
    BY <1>2, <2>3, <2>4 DEF n
<1> QED
  BY <1>6, <1>7 DEF p

\* Two entries are in two slots.
LEMMA NthApart ==
  ASSUME NEW n \in R!Slot, NEW i \in 0 .. LogSize - 1, NEW j \in 0 .. LogSize - 1,
         i # j
  PROVE  /\ (n - 1 - i + 2 * LogSize) % LogSize # (n - 1 - j + 2 * LogSize) % LogSize
         /\ (n - 1 - i + 2 * LogSize) % LogSize \in R!Slot
<1>1. LogSize \in Nat /\ LogSize > 0 /\ n \in 0 .. LogSize - 1
  BY JournalAssumption DEF R!Slot
<1> DEFINE a == (n - 1 - i + 2 * LogSize) % LogSize
           b == (n - 1 - j + 2 * LogSize) % LogSize
<1>2. a = IF i < n THEN n - 1 - i ELSE n - 1 - i + LogSize
  BY NthSlot
<1>3. b = IF j < n THEN n - 1 - j ELSE n - 1 - j + LogSize
  BY NthSlot
<1> HIDE DEF a, b
<1>4. a # b /\ a \in R!Slot
  BY <1>1, <1>2, <1>3 DEF R!Slot
<1> QED
  BY <1>4 DEF a, b

\* Every slot that counts is in use.
ListedOK == \A i \in 1 .. ring.count : Listing[i] \in byID

LEMMA RingFacts ==
  ASSUME IInv
  PROVE  /\ ring.slot \in [R!Slot -> Delivery \cup {NoDelivery}]
         /\ ring.next \in R!Slot /\ ring.count \in 0 .. LogSize
         /\ LogSize \in Nat /\ LogSize > 0
  BY JournalAssumption DEF IInv, LogInv, JournalTypeOK

LEMMA ListingAt ==
  /\ DOMAIN Listing = 1 .. ring.count
  /\ \A i \in 1 .. ring.count : Listing[i] = R!Nth(ring, i - 1)
  BY DEF Listing, R!NewestFirst

\* A record is listed once.
LEMMA ListedOnce ==
  ASSUME IInv, ListedOK, NEW i \in 1 .. ring.count, NEW j \in 1 .. ring.count, i # j
  PROVE  Listing[i] # Listing[j]
<1> DEFINE a == (ring.next - 1 - (i - 1) + 2 * LogSize) % LogSize
           b == (ring.next - 1 - (j - 1) + 2 * LogSize) % LogSize
<1>1. i - 1 \in 0 .. LogSize - 1 /\ j - 1 \in 0 .. LogSize - 1 /\ i - 1 # j - 1
  BY RingFacts
<1>2. a # b /\ a \in R!Slot
  BY <1>1, RingFacts, NthApart
<1>3. b \in R!Slot
  BY <1>1, RingFacts, NthApart
<1>4. Listing[i] = ring.slot[a] /\ Listing[j] = ring.slot[b]
  BY ListingAt DEF R!Nth
<1>5. Listing[i] # NoDelivery
  BY DeliveryFacts DEF ListedOK, IInv, LogInv, JournalTypeOK
<1> HIDE DEF a, b
<1> QED
  BY <1>2, <1>3, <1>4, <1>5 DEF IInv, LogInv, RingOK

\* Add: the new id comes first, the others move down by one.
LEMMA ListingOfPush ==
  ASSUME IInv, NEW d \in Delivery, ring' = R!Push(ring, d)
  PROVE  /\ ring'.count = IF ring.count < LogSize THEN ring.count + 1 ELSE ring.count
         /\ Listing'[1] = d
         /\ \A i \in 2 .. ring'.count : Listing'[i] = Listing[i - 1]
<1>1. ring'.count = IF ring.count < LogSize THEN ring.count + 1 ELSE ring.count
  BY DEF R!Push
<1>2. ring'.count \in 1 .. LogSize /\ ring'.count <= ring.count + 1
  BY <1>1, RingFacts
<1>3. \A i \in 1 .. ring'.count : Listing'[i] = R!Nth(R!Push(ring, d), i - 1)
  BY DEF Listing, R!NewestFirst, R!Nth
<1>6. /\ R!Nth(R!Push(ring, d), 0) = d
      /\ \A i \in 1 .. LogSize - 1 : R!Nth(R!Push(ring, d), i) = R!Nth(ring, i - 1)
  <2>1. /\ ring.slot \in [R!Slot -> Delivery \cup {NoDelivery}]
        /\ ring.next \in R!Slot
    BY RingFacts
  <2> QED
    BY <2>1, NthOfPush
<1>4. Listing'[1] = d
  <2>1. 1 \in 1 .. ring'.count /\ 1 - 1 = 0
    BY <1>2
  <2> QED
    BY <1>3, <1>6, <2>1
<1>5. ASSUME NEW i \in 2 .. ring'.count PROVE Listing'[i] = Listing[i - 1]
  <2>1. /\ i \in 1 .. ring'.count /\ i - 1 \in 1 .. LogSize - 1
        /\ i - 1 \in 1 .. ring.count
    BY <1>2, RingFacts
  <2>2. R!Nth(R!Push(ring, d), i - 1) = R!Nth(ring, (i - 1) - 1)
    BY <1>6, <2>1
  <2> QED
    BY <1>3, <2>1, <2>2, ListingAt
<1> QED
  BY <1>1, <1>4, <1>5

LEMMA ListedAfterPush ==
  ASSUME IInv, IInv', ListedOK, NEW d \in Delivery, ring' = R!Push(ring, d)
  PROVE  ListedOK'
<1>1. ring'.count \in 1 .. LogSize /\ ring'.count <= ring.count + 1
  BY ListingOfPush, RingFacts
<1>2. ASSUME NEW i \in 1 .. ring'.count
      PROVE  /\ Listing'[i] \in R!Entries(ring')
             /\ i # 1 => Listing[i - 1] \in byID /\ Listing'[i] = Listing[i - 1]
  <2>1. Listing'[i] # NoDelivery /\ (i # 1 => Listing[i - 1] \in byID /\ Listing'[i] = Listing[i - 1])
    <3>1. CASE i = 1
      BY <3>1, ListingOfPush, DeliveryFacts
    <3>2. CASE i # 1
      <4>1. i \in 2 .. ring'.count /\ i - 1 \in 1 .. ring.count
        BY <1>1, <3>2, RingFacts
      <4> QED
        BY <4>1, ListingOfPush, DeliveryFacts DEF ListedOK, IInv, LogInv, JournalTypeOK
    <3> QED
      BY <3>1, <3>2
  <2> DEFINE a == (ring'.next - 1 - (i - 1) + 2 * LogSize) % LogSize
  <2>2. ring'.next \in R!Slot /\ i - 1 \in 0 .. LogSize - 1
    BY <1>1, RingFacts, NextSlot DEF R!Push
  <2>3. a \in R!Slot
    <3> DEFINE n == ring'.next
               k == i - 1
    <3>1. n \in R!Slot /\ k \in 0 .. LogSize - 1
      BY <2>2
    <3> HIDE DEF n, k
    <3>2. (n - 1 - k + 2 * LogSize) % LogSize
            = IF k < n THEN n - 1 - k ELSE n - 1 - k + LogSize
      BY <3>1, NthSlot
    <3>3. (n - 1 - k + 2 * LogSize) % LogSize \in R!Slot
      BY <3>1, <3>2, RingFacts DEF R!Slot
    <3> QED
      BY <3>3 DEF n, k
  <2>4. Listing'[i] = ring'.slot[a]
    BY DEF Listing, R!NewestFirst, R!Nth
  <2> HIDE DEF a
  <2> QED
    BY <2>1, <2>3, <2>4 DEF R!Entries
<1> QED
  BY <1>2 DEF ListedOK, IInv, LogInv, RingOK, R!Entries, R!Slot

-----------------------------------------------------------------------------
(* What a step does to the journal. *)

SameScheduled == \A e \in Delivery : state'[e] # "none" <=> state[e] # "none"

\* The next delivery, into ring and index.
AddsTo(d) ==
  /\ state[d] = "none" /\ \A e \in Delivery : e < d => state[e] # "none"
  /\ \A e \in Delivery : state'[e] # "none" <=> state[e] # "none" \/ e = d
  /\ ring' = R!Push(ring, d) /\ byID' = IndexWith(d)
  /\ \A e \in Delivery \ {d} : e \in byID' => rec'[e] = rec[e]

AmendsOnly(d) ==
  /\ SameScheduled /\ UNCHANGED <<ring, byID>>
  /\ \A e \in Delivery \ {d} : rec'[e] = rec[e]

Clears == SameScheduled /\ ring' = R!EmptyRing /\ byID' = {}

LEMMA LogMoves ==
  ASSUME IInv, [JournalNext]_journalVars
  PROVE  \/ \E d \in Delivery : AddsTo(d) \/ AmendsOnly(d)
         \/ Clears
         \/ SameScheduled /\ UNCHANGED logVars
<1>1. rec \in [Delivery -> RecordType] /\ state \in [Delivery -> Status]
  BY DEF IInv, LogInv, JournalTypeOK, OutboxTypes
<1>2. ASSUME NEW d \in Delivery, NEW r, Log(d, r), Enqueue(d),
             \A e \in Delivery : e < d => state[e] # "none"
      PROVE  AddsTo(d)
  BY <1>1, <1>2 DEF Log, Enqueue, AddsTo
<1>3. ASSUME NEW d \in Delivery, NEW s, NEW n, Update(d, s, n), SameScheduled
      PROVE  AmendsOnly(d)
  BY <1>1, <1>3 DEF Update, AmendsOnly
<1>4. ASSUME NEW d \in Delivery, DispatcherStep(d)
      PROVE  AddsTo(d) \/ AmendsOnly(d)
  <2>1. CASE TakeUp(d) \/ Attempt(d)
    BY <2>1 DEF TakeUp, Take, Attempt, Send, logVars, AmendsOnly, SameScheduled
  <2>2. CASE Attempted(d)
    <3>1. PICK o \in Outcomes(d) : state' = [state EXCEPT ![d] = o]
      BY <2>2 DEF Attempted, Record
    <3>2. state[d] # "none" /\ o # "none"
      BY <2>2 DEF IInv, LogInv, Unscheduled, Attempted, Record, Outcomes, Open
    <3>3. SameScheduled
      BY <1>1, <3>1, <3>2 DEF SameScheduled
    <3> QED
      BY <1>3, <2>2, <3>3 DEF Attempted
  <2>3. CASE Canceled(d)
    <3>1. SameScheduled
      BY <1>1, <2>3 DEF Canceled, Cancel, SameScheduled
    <3> QED
      BY <1>3, <2>3, <3>1 DEF Canceled
  <2>4. ASSUME NEW s \in Session \cup {NoSession}, Schedule(d, s)
        PROVE  AddsTo(d)
    BY <1>2, <2>4 DEF Schedule
  <2> QED
    BY <1>4, <2>1, <2>2, <2>3, <2>4 DEF DispatcherStep
<1>5. ASSUME NEW c \in Client, ClientStep(c)
      PROVE  (\E d \in Delivery : AddsTo(d)) \/ (SameScheduled /\ UNCHANGED logVars)
  <2>1. ASSUME NEW d \in Delivery, ReplaySchedule(c, d)
        PROVE  AddsTo(d)
    BY <1>2, <2>1 DEF ReplaySchedule
  <2> QED
    BY <1>5, <2>1 DEF ClientStep, BeginWalk, ReadPage, WalkExpired, BeginReplay,
                      WaitAnswered, WaitTimeout, outboxVars, SameScheduled
<1> QED
  BY <1>4, <1>5 DEF JournalNext, Clear, Clears, journalVars, outboxVars, SameScheduled

LEMMA ListedInit == JournalInit => ListedOK
  BY DEF JournalInit, R!EmptyRing, ListedOK

LEMMA ListedStep ==
  ASSUME IInv, IInv', ListedOK, [JournalNext]_journalVars
  PROVE  ListedOK'
<1>1. ASSUME NEW d \in Delivery, AddsTo(d) PROVE ListedOK'
  BY <1>1, ListedAfterPush DEF AddsTo
<1>2. ASSUME UNCHANGED <<ring, byID>> PROVE ListedOK'
  BY <1>2 DEF ListedOK, Listing, R!NewestFirst, R!Nth
<1>3. ASSUME Clears PROVE ListedOK'
  BY <1>3 DEF Clears, R!EmptyRing, ListedOK
<1> QED
  BY <1>1, <1>2, <1>3, LogMoves DEF AmendsOnly, logVars

-----------------------------------------------------------------------------
(* The journal is a list of the newest records. *)

LEMMA RecentAt ==
  /\ DOMAIN Recent = 1 .. ring.count
  /\ \A i \in 1 .. ring.count : Recent[i] = rec[Listing[i]]
  BY ListingAt DEF Recent

RecentFacts ==
  /\ Recent \in Seq(RecordType) /\ Len(Recent) = ring.count
  /\ ring.count \in 0 .. LogSize
  /\ \A i \in 1 .. ring.count :
       /\ Recent[i] \in RecordType /\ Recent[i].id = Listing[i]
       /\ Recent[i] = rec[Listing[i]]
       /\ Listing[i] \in Delivery /\ Listing[i] \in byID

LEMMA RecentSeq == IInv /\ ListedOK => RecentFacts
<1> SUFFICES ASSUME IInv, ListedOK PROVE RecentFacts
  OBVIOUS
<1>1. ASSUME NEW i \in 1 .. ring.count
      PROVE  /\ Recent[i] \in RecordType /\ Recent[i].id = Listing[i]
             /\ Recent[i] = rec[Listing[i]]
             /\ Listing[i] \in Delivery /\ Listing[i] \in byID
  BY RecentAt DEF ListedOK, IInv, LogInv, JournalTypeOK, Origins
<1>2. ring.count \in Nat /\ Recent = [i \in 1 .. ring.count |-> Recent[i]]
  BY RingFacts, ListingAt DEF Recent
<1>3. Recent \in [1 .. ring.count -> RecordType]
  BY <1>1, <1>2
<1>4. Recent \in Seq(RecordType)
  BY <1>2, <1>3, SeqDef
<1>5. Len(Recent) = ring.count
  BY <1>2, <1>4, RecentAt, LenProperties
<1> QED
  BY <1>1, <1>4, <1>5, RingFacts DEF RecentFacts

LEMMA RecentSeqNext == IInv' /\ ListedOK' => RecentFacts'
  BY RecentSeq, PTL

LEMMA AddPrepends ==
  ASSUME IInv, IInv', ListedOK, ListedOK', NEW d \in Delivery, AddsTo(d)
  PROVE  Listed!Prepend
<1> DEFINE n == ring.count
           m == ring'.count
           s == Recent
           t == Recent'
           long == <<t[1]>> \o s
           kept == IF Len(long) < LogSize THEN Len(long) ELSE LogSize
<1>1. /\ m = IF n < LogSize THEN n + 1 ELSE n
      /\ Listing'[1] = d
      /\ \A i \in 2 .. m : Listing'[i] = Listing[i - 1]
  BY ListingOfPush DEF AddsTo
<1>2. n \in 0 .. LogSize /\ LogSize \in Nat /\ LogSize > 0 /\ m \in 1 .. LogSize /\ m <= n + 1
  BY <1>1, RingFacts
<1>3. /\ s \in Seq(RecordType) /\ Len(s) = n
      /\ \A i \in 1 .. n :
           /\ s[i] \in RecordType /\ s[i].id = Listing[i]
           /\ s[i] = rec[Listing[i]]
           /\ Listing[i] \in Delivery /\ Listing[i] \in byID
  BY RecentSeq DEF RecentFacts
<1>4. /\ t \in Seq(RecordType) /\ Len(t) = m
      /\ \A i \in 1 .. m :
           /\ t[i] \in RecordType /\ t[i].id = Listing'[i]
           /\ t[i] = rec'[Listing'[i]]
           /\ Listing'[i] \in Delivery /\ Listing'[i] \in byID'
  BY RecentSeqNext DEF RecentFacts
<1>5. d \notin byID
  BY DEF AddsTo, IInv, LogInv, Unscheduled
<1>6. \A i \in 2 .. m : t[i] = s[i - 1]
  <2> SUFFICES ASSUME NEW i \in 2 .. m PROVE t[i] = s[i - 1]
    OBVIOUS
  <2>1. i \in 1 .. m /\ i - 1 \in 1 .. n
    BY <1>2
  <2>2. Listing'[i] = Listing[i - 1] /\ Listing[i - 1] # d
    BY <1>1, <1>3, <1>5, <2>1
  <2> QED
    BY <1>3, <1>4, <2>1, <2>2 DEF AddsTo
<1> HIDE DEF n, m, s, t
<1>7. t # <<>> /\ Head(t) = t[1] /\ t[1] \in RecordType /\ t[1].id = d
  BY <1>1, <1>2, <1>4
<1>8. \A i \in 1 .. n : s[i].id # t[1].id
  BY <1>3, <1>5, <1>7
<1>9. <<t[1]>> \in Seq(RecordType) /\ Len(<<t[1]>>) = 1 /\ <<t[1]>>[1] = t[1]
  BY <1>7
<1>10. /\ long \in Seq(RecordType) /\ Len(long) = n + 1
       /\ \A i \in 1 .. n + 1 : long[i] = IF i = 1 THEN t[1] ELSE s[i - 1]
  <2>1. /\ long \in Seq(RecordType) /\ Len(long) = 1 + n
        /\ \A i \in 1 .. 1 + n :
             long[i] = IF i <= 1 THEN <<t[1]>>[i] ELSE s[i - 1]
    BY <1>3, <1>9, ConcatProperties
  <2> QED
    BY <1>2, <1>9, <2>1
<1> HIDE DEF long
<1>11. kept = m /\ \A i \in 1 .. kept : long[i] \in RecordType
  BY <1>1, <1>2, <1>3, <1>7, <1>10
<1>12. /\ SubSeq(long, 1, kept) \in Seq(RecordType)
       /\ Len(SubSeq(long, 1, kept)) = m
       /\ \A i \in 1 .. m : SubSeq(long, 1, kept)[i] = long[i]
  <2> HIDE DEF kept
  <2>1. 1 \in Int /\ kept \in Int
    BY <1>2, <1>11
  <2>2. /\ SubSeq(long, 1, kept) \in Seq(RecordType)
        /\ Len(SubSeq(long, 1, kept)) = IF 1 <= kept THEN kept - 1 + 1 ELSE 0
        /\ \A i \in 1 .. kept - 1 + 1 : SubSeq(long, 1, kept)[i] = long[1 + i - 1]
    BY <1>11, <2>1, SubSeqProperties
  <2> QED
    BY <1>2, <1>11, <2>2
<1>13. t = SubSeq(long, 1, kept)
  <2>1. \A i \in 1 .. m : t[i] = SubSeq(long, 1, kept)[i]
    BY <1>2, <1>6, <1>10, <1>12
  <2> HIDE DEF kept
  <2> QED
    BY <1>4, <1>12, <2>1, SeqEqual
<1> QED
  <2>1. DOMAIN s = 1 .. n
    BY <1>3, LenProperties
  <2> QED
    BY <1>7, <1>8, <1>13, <2>1 DEF Listed!Prepend, Listed!Keep, long, s, t

LEMMA AmendAmends ==
  ASSUME IInv, IInv', ListedOK, ListedOK', NEW d \in Delivery, AmendsOnly(d)
  PROVE  (\E i \in DOMAIN Recent : Listed!Amend(i)) \/ UNCHANGED Recent
<1>1. /\ ring' = ring /\ \A e \in Delivery \ {d} : rec'[e] = rec[e]
      /\ Listing' = Listing
  BY DEF AmendsOnly, Listing, R!NewestFirst, R!Nth
<1>2. /\ Recent = [i \in 1 .. ring.count |-> rec[Listing[i]]]
      /\ Recent' = [i \in 1 .. ring.count |-> rec'[Listing[i]]]
      /\ DOMAIN Recent = 1 .. ring.count
  BY <1>1, ListingAt DEF Recent
<1>3. \A i \in 1 .. ring.count :
        /\ Listing[i] \in Delivery
        /\ Recent[i].id = Listing[i] /\ Recent'[i].id = Listing[i]
  BY <1>1, RecentSeq, RecentSeqNext DEF RecentFacts
<1>4. CASE \A i \in 1 .. ring.count : Listing[i] # d
  BY <1>1, <1>2, <1>3, <1>4
<1>5. CASE \E i \in 1 .. ring.count : Listing[i] = d
  <2>1. PICK i \in 1 .. ring.count : Listing[i] = d
    BY <1>5
  <2>2. \A j \in 1 .. ring.count : j # i => Listing[j] # d
    BY <2>1, ListedOnce
  <2>3. \A j \in 1 .. ring.count : j # i => Recent'[j] = Recent[j]
    BY <1>1, <1>2, <1>3, <2>2
  <2>4. Recent' = [Recent EXCEPT ![i] = Recent'[i]]
    BY <1>2, <2>3
  <2>5. Listed!Amend(i)
    BY <1>3, <2>4 DEF Listed!Amend
  <2> QED
    BY <1>2, <2>5
<1> QED
  BY <1>4, <1>5

LEMMA ClearForgets ==
  ASSUME IInv', ListedOK', Clears
  PROVE  Recent' = <<>>
<1>1. Recent' \in Seq(RecordType) /\ Len(Recent') = 0
  BY RecentSeqNext DEF RecentFacts, Clears, R!EmptyRing
<1> QED
  BY <1>1, EmptySeq

LEMMA RecentInitially == JournalInit => Listed!RecentInit
<1> SUFFICES ASSUME JournalInit PROVE Recent = <<>>
  BY DEF Listed!RecentInit
<1>1. Recent \in Seq(RecordType) /\ Len(Recent) = ring.count
  BY RecentSeq, InitIInv, ListedInit DEF RecentFacts
<1>2. ring.count = 0
  BY DEF JournalInit, R!EmptyRing
<1> QED
  BY <1>1, <1>2, EmptySeq

\* Every step adds a record in front, amends one in its place, forgets them all
\* or is none of the reader's business.
LEMMA RecentStep ==
  IInv /\ IInv' /\ ListedOK /\ ListedOK' /\ [JournalNext]_journalVars
    => [Listed!RecentNext]_Recent
<1> SUFFICES ASSUME IInv, IInv', ListedOK, ListedOK', [JournalNext]_journalVars
             PROVE  Listed!RecentNext \/ UNCHANGED Recent
  OBVIOUS
<1>1. ASSUME NEW d \in Delivery, AddsTo(d) PROVE Listed!RecentNext
  BY <1>1, AddPrepends DEF Listed!RecentNext
<1>2. ASSUME NEW d \in Delivery, AmendsOnly(d)
      PROVE  Listed!RecentNext \/ UNCHANGED Recent
  BY <1>2, AmendAmends DEF Listed!RecentNext
<1>3. CASE Clears
  BY <1>3, ClearForgets DEF Listed!RecentNext, Listed!Forget
<1>4. CASE UNCHANGED logVars
  BY <1>4 DEF logVars, Recent, Listing, R!NewestFirst, R!Nth
<1> QED
  BY <1>1, <1>2, <1>3, <1>4, LogMoves

\* The ring, its write index and its count always are the list of the newest
\* LogSize records since the last clear, newest first, each with its latest
\* status: whatever wraps around, is updated while listed, or after it rotated
\* out (Add, Page and update, log.go:93, 133 and 171).
THEOREM ImplementsRecentLogHolds == JournalSpec => ImplementsRecentLog
<1>1. IInv /\ IInv' /\ ListedOK /\ [JournalNext]_journalVars => ListedOK'
  BY ListedStep
<1> QED
  BY <1>1, JournalInvariant, ListedInit, RecentInitially, RecentStep, PTL
     DEF JournalSpec, ImplementsRecentLog, Listed!RecentSpec

-----------------------------------------------------------------------------
(* Walks.  Deliveries are scheduled in the order of their ids, so the listing *)
(* goes down, and a cursor stands between what was shown and what was not.    *)

Prefix == \A d, e \in Delivery : state[d] # "none" /\ e < d => state[e] # "none"

ListingDown ==
  \A i, j \in 1 .. ring.count : i < j => Listing[j] < Listing[i]

AllListed == \A d \in byID : \E i \in 1 .. ring.count : Listing[i] = d

OrderOK == ListedOK /\ Prefix /\ ListingDown /\ AllListed

LEMMA OrderInit == JournalInit => OrderOK
  BY ListedInit
     DEF JournalInit, OutboxInit, R!EmptyRing, OrderOK, Prefix, ListingDown, AllListed

LEMMA OrderAdds ==
  ASSUME IInv, IInv', OrderOK, ListedOK', NEW d \in Delivery, AddsTo(d)
  PROVE  ListingDown' /\ AllListed'
<1> DEFINE n == ring.count
           m == ring'.count
<1>1. /\ m = IF n < LogSize THEN n + 1 ELSE n
      /\ Listing'[1] = d
      /\ \A i \in 2 .. m : Listing'[i] = Listing[i - 1]
  BY ListingOfPush DEF AddsTo
<1>2. /\ n \in 0 .. LogSize /\ LogSize \in Nat /\ LogSize > 0
      /\ m \in 1 .. LogSize /\ m <= n + 1 /\ n <= m
  BY <1>1, RingFacts
<1>3. Delivery \subseteq Nat /\ byID \subseteq Delivery
  BY JournalAssumption DEF IInv, LogInv, JournalTypeOK
<1>4. ASSUME NEW e \in byID PROVE e < d
  <2>1. e \in Delivery /\ state[e] # "none" /\ state[d] = "none"
    BY <1>3 DEF IInv, LogInv, Unscheduled, AddsTo
  <2>2. ~(d < e)
    BY <2>1 DEF OrderOK, Prefix
  <2> QED
    BY <1>3, <2>1, <2>2
<1>5. \A i \in 1 .. n : Listing[i] \in byID
  BY DEF OrderOK, ListedOK
<1>6. ListingDown'
  <2> SUFFICES ASSUME NEW i \in 1 .. m, NEW j \in 1 .. m, i < j
               PROVE  Listing'[j] < Listing'[i]
    BY DEF ListingDown
  <2>1. j \in 2 .. m /\ j - 1 \in 1 .. n /\ Listing'[j] = Listing[j - 1]
    BY <1>1, <1>2
  <2>2. CASE i = 1
    BY <1>1, <1>4, <1>5, <2>1, <2>2
  <2>3. CASE i # 1
    <3>1. i \in 2 .. m /\ i - 1 \in 1 .. n /\ i - 1 < j - 1 /\ Listing'[i] = Listing[i - 1]
      BY <1>1, <1>2, <2>3
    <3> QED
      BY <2>1, <3>1 DEF OrderOK, ListingDown
  <2> QED
    BY <2>2, <2>3
<1>7. AllListed'
  <2> SUFFICES ASSUME NEW e \in byID' PROVE \E i \in 1 .. m : Listing'[i] = e
    BY DEF AllListed
  <2>1. CASE e = d
    BY <1>1, <1>2, <2>1
  <2>2. CASE e # d
    <3>1. e \in byID /\ e # ring.slot[ring.next]
      BY <2>2 DEF AddsTo, IndexWith
    <3>2. PICK i \in 1 .. n : Listing[i] = e
      BY <3>1 DEF OrderOK, AllListed
    <3>3. i # LogSize
      <4> SUFFICES ASSUME i = LogSize PROVE FALSE
        OBVIOUS
      <4> DEFINE b == ring.next
                 k == LogSize - 1
      <4>1. b \in R!Slot /\ b \in 0 .. LogSize - 1 /\ k \in 0 .. LogSize - 1
        BY <1>2, RingFacts DEF R!Slot
      <4>2. (b - 1 - k + 2 * LogSize) % LogSize
              = IF k < b THEN b - 1 - k ELSE b - 1 - k + LogSize
        BY <4>1, NthSlot
      <4>3. (b - 1 - k + 2 * LogSize) % LogSize = b
        BY <1>2, <4>1, <4>2
      <4>4. Listing[i] = R!Nth(ring, i - 1) /\ i - 1 = k
        BY ListingAt
      <4> QED
        BY <3>1, <3>2, <4>3, <4>4 DEF R!Nth
    <3>4. i + 1 \in 2 .. m /\ (i + 1) - 1 = i
      BY <1>1, <1>2, <3>3
    <3> QED
      BY <1>1, <1>2, <3>2, <3>4
  <2> QED
    BY <2>1, <2>2
<1> QED
  BY <1>6, <1>7

LEMMA OrderStep ==
  ASSUME IInv, IInv', OrderOK, [JournalNext]_journalVars
  PROVE  OrderOK'
<1>1. ListedOK'
  BY ListedStep DEF OrderOK
<1>2. ASSUME SameScheduled PROVE Prefix'
  BY <1>2 DEF SameScheduled, OrderOK, Prefix
<1>3. ASSUME SameScheduled, UNCHANGED <<ring, byID>> PROVE OrderOK'
  BY <1>1, <1>2, <1>3 DEF OrderOK, ListingDown, AllListed, Listing, R!NewestFirst, R!Nth
<1>4. CASE Clears
  BY <1>1, <1>2, <1>4 DEF OrderOK, ListingDown, AllListed, Clears, R!EmptyRing
<1>5. ASSUME NEW d \in Delivery, AddsTo(d)
      PROVE  OrderOK'
  <2>1. Prefix'
    BY <1>5 DEF AddsTo, OrderOK, Prefix
  <2> QED
    BY <1>1, <1>5, <2>1, OrderAdds DEF OrderOK
<1> QED
  BY <1>3, <1>4, <1>5, LogMoves DEF AmendsOnly, logVars

WalkType ==
  [session : Session \cup {NoSession}, status : Filters \cup {"any"}, limit : Nat,
   cursor : Delivery \cup {NoDelivery}, got : Seq(Delivery)]

\* Behind the cursor in the listing are the records older than the cursor's.
LEMMA BehindCursor ==
  ASSUME IInv, OrderOK, NEW w \in WalkType, ~CursorExpired(w)
  PROVE  /\ AfterCursor(w) \in Nat \ {0}
         /\ \A i \in 1 .. ring.count :
              i >= AfterCursor(w) <=> w.cursor = NoDelivery \/ Listing[i] < w.cursor
<1>1. ring.count \in Nat /\ DOMAIN Listing = 1 .. ring.count
  BY RingFacts, ListingAt
<1>2. CASE w.cursor = NoDelivery
  BY <1>1, <1>2 DEF AfterCursor
<1>3. CASE w.cursor # NoDelivery
  <2> DEFINE k == CHOOSE i \in DOMAIN Listing : Listing[i] = w.cursor
  <2>1. k \in 1 .. ring.count /\ Listing[k] = w.cursor
    BY <1>1, <1>3 DEF CursorExpired
  <2>2. AfterCursor(w) = 1 + k
    BY <1>3 DEF AfterCursor
  <2> HIDE DEF k
  <2>3. \A i \in 1 .. ring.count : Listing[i] \in Nat
    BY JournalAssumption DEF OrderOK, ListedOK, IInv, LogInv, JournalTypeOK
  <2>4. \A i \in 1 .. ring.count :
          /\ k < i => Listing[i] < Listing[k]
          /\ i < k => Listing[k] < Listing[i]
    BY <2>1 DEF OrderOK, ListingDown
  <2>5. \A i \in 1 .. ring.count : i >= 1 + k <=> Listing[i] < Listing[k]
    BY <1>1, <2>1, <2>3, <2>4
  <2> QED
    BY <1>1, <1>3, <2>1, <2>2, <2>5
<1> QED
  BY <1>2, <1>3

LEMMA RemainingAt ==
  ASSUME IInv, OrderOK, NEW w \in WalkType, ~CursorExpired(w)
  PROVE  /\ IsFiniteSet(Remaining(w)) /\ Cardinality(Remaining(w)) \in Nat
         /\ \A i : i \in Remaining(w) <=>
              /\ i \in 1 .. ring.count /\ Matches(rec[Listing[i]], w)
              /\ w.cursor = NoDelivery \/ Listing[i] < w.cursor
<1>1. ring.count \in Nat
  BY RingFacts
<1>2. AfterCursor(w) \in Nat \ {0}
  BY BehindCursor
<1>3. \A i : i \in Remaining(w) <=>
         /\ i \in 1 .. ring.count /\ Matches(rec[Listing[i]], w)
         /\ w.cursor = NoDelivery \/ Listing[i] < w.cursor
  <2> SUFFICES ASSUME NEW i
               PROVE  i \in Remaining(w) <=>
                        /\ i \in 1 .. ring.count /\ Matches(rec[Listing[i]], w)
                        /\ w.cursor = NoDelivery \/ Listing[i] < w.cursor
    OBVIOUS
  <2>1. i \in AfterCursor(w) .. ring.count <=>
          i \in 1 .. ring.count /\ i >= AfterCursor(w)
    BY <1>1, <1>2
  <2> QED
    BY <2>1, BehindCursor DEF Remaining
<1>4. IsFiniteSet(1 .. ring.count) /\ Remaining(w) \subseteq 1 .. ring.count
  BY <1>1, <1>3, FS_Interval
<1>5. IsFiniteSet(Remaining(w))
  BY <1>4, FS_Subset
<1> QED
  BY <1>3, <1>5, FS_CardinalityType

\* A page holds all that remains, if it is the last.
LEMMA PageFull ==
  ASSUME NEW q, q.limit \in Nat, NEW page \in Pages(q), PageIsLast(q),
         IsFiniteSet(Remaining(q)), Cardinality(Remaining(q)) \in Nat
  PROVE  \A i \in Remaining(q) : \E k \in 1 .. PageLen(q) : page[k] = i
<1> DEFINE M == Remaining(q)
           n == PageLen(q)
<1>1. n = Cardinality(M)
  BY DEF PageIsLast, PageLen
<1>2. /\ page \in [1 .. n -> M]
      /\ \A k, l \in 1 .. n : k < l => page[k] < page[l]
  BY DEF Pages
<1>3. M \subseteq Int
  BY DEF Remaining
<1> HIDE DEF M, n
<1>4. \A k, l \in 1 .. n : page[k] = page[l] => k = l
  <2> SUFFICES ASSUME NEW k \in 1 .. n, NEW l \in 1 .. n, page[k] = page[l], k # l
               PROVE  FALSE
    OBVIOUS
  <2>1. k < l \/ l < k
    BY <1>1
  <2>2. page[k] \in M
    BY <1>2
  <2>3. page[k] \in Int
    BY <1>3, <2>2
  <2>4. \A x \in Int : ~(x < x)
    OBVIOUS
  <2> QED
    BY <1>2, <2>1, <2>3, <2>4
<1>5. page \in Injection(1 .. n, M)
  BY <1>2, <1>4 DEF Injection, IsInjective
<1>6. Cardinality(1 .. n) = n
  BY <1>1, FS_Interval DEF M
<1>7. page \in Surjection(1 .. n, M)
  BY <1>1, <1>5, <1>6, FS_Injection DEF M
<1> QED
  BY <1>7 DEF Surjection, M, n

Shown(w, d) == \E i \in DOMAIN w.got : w.got[i] = d

\* The record of a cursor is between what its walk has shown, and it is the last
\* of, and what it still has to show.
Reader(c) ==
  LET w == walk[c]
  IN  /\ \A i, j \in DOMAIN w.got : i < j => w.got[j] < w.got[i]
      /\ pc[c] = "walking" =>
           /\ \A i \in DOMAIN w.got : w.cursor # NoDelivery /\ w.cursor <= w.got[i]
           /\ stayed[c] \subseteq Matching(c)
           /\ \A d \in stayed[c] :
                Shown(w, d) \/ w.cursor = NoDelivery \/ d < w.cursor
      /\ pc[c] = "walked" => \A d \in stayed[c] : Shown(w, d)

WalkInv ==
  /\ walk \in [Client -> WalkType]
  /\ \A c \in Client : Reader(c)

LEMMA NewWalkType ==
  ASSUME NEW s \in Session \cup {NoSession}, NEW f \in Filters, NEW n \in Limits
  PROVE  LET w == [NoWalk EXCEPT !.session = s, !.status = f, !.limit = n]
         IN  w \in WalkType /\ w.got = <<>> /\ w.cursor = NoDelivery
<1>1. n \in Nat /\ <<>> \in Seq(Delivery)
  BY JournalAssumption
<1> QED
  BY <1>1 DEF NoWalk, WalkType

LEMMA NoWalkType == NoWalk \in WalkType /\ NoWalk.got = <<>>
<1>1. <<>> \in Seq(Delivery)
  OBVIOUS
<1> QED
  BY <1>1 DEF NoWalk, WalkType

LEMMA WalkInit == JournalInit => WalkInv
<1> SUFFICES ASSUME JournalInit PROVE WalkInv
  OBVIOUS
<1>1. walk \in [Client -> WalkType] /\ \A c \in Client : walk[c].got = <<>>
  BY NoWalkType DEF JournalInit
<1>2. \A c \in Client : pc[c] = "idle" /\ stayed[c] = {}
  BY DEF JournalInit
<1>3. DOMAIN <<>> = {}
  OBVIOUS
<1> QED
  BY <1>1, <1>2, <1>3 DEF WalkInv, Reader

LEMMA TrackAt ==
  ASSUME Track, NEW c \in Client
  PROVE  /\ pc'[c] = "walking" /\ pc[c] # "walking" => stayed'[c] = Matching(c)'
         /\ pc'[c] = "walking" /\ pc[c] = "walking" =>
              stayed'[c] = stayed[c] \cap Matching(c)'
         /\ pc'[c] = "walked" => stayed'[c] = stayed[c]
  BY DEF Track

\* A client whose walk does not go on.
LEMMA ReaderKept ==
  ASSUME WalkInv, Track, NEW c \in Client, walk'[c] = walk[c], pc'[c] = pc[c]
  PROVE  Reader(c)'
<1>1. Reader(c)
  BY DEF WalkInv
<1> QED
  BY <1>1, TrackAt DEF Reader, Shown

-----------------------------------------------------------------------------
(* A page read: what it shows is older than all that was shown, and newer     *)
(* than all that is left.                                                     *)

Ids(w, page) == [k \in 1 .. PageLen(w) |-> Listing[page[k]]]

LEMMA IdsOf ==
  ASSUME IInv, OrderOK, NEW w \in WalkType, ~CursorExpired(w), NEW page \in Pages(w)
  PROVE  /\ PageLen(w) \in Nat
         /\ Ids(w, page) \in Seq(Delivery) /\ Len(Ids(w, page)) = PageLen(w)
         /\ \A k \in 1 .. PageLen(w) :
              /\ page[k] \in Remaining(w) /\ page[k] \in 1 .. ring.count
              /\ Ids(w, page)[k] = Listing[page[k]] /\ Listing[page[k]] \in Delivery
              /\ w.cursor = NoDelivery \/ Listing[page[k]] < w.cursor
         /\ \A k, l \in 1 .. PageLen(w) :
              k < l => Ids(w, page)[l] < Ids(w, page)[k]
<1>1. w.limit \in Nat /\ Cardinality(Remaining(w)) \in Nat
  BY RemainingAt DEF WalkType
<1>2. PageLen(w) \in Nat
  BY <1>1 DEF PageLen
<1>3. ASSUME NEW k \in 1 .. PageLen(w)
      PROVE  /\ page[k] \in Remaining(w) /\ page[k] \in 1 .. ring.count
             /\ Ids(w, page)[k] = Listing[page[k]] /\ Listing[page[k]] \in Delivery
             /\ w.cursor = NoDelivery \/ Listing[page[k]] < w.cursor
  <2>1. page[k] \in Remaining(w)
    BY DEF Pages
  <2> QED
    BY <2>1, RemainingAt DEF Ids, OrderOK, ListedOK, IInv, LogInv, JournalTypeOK
<1>4. Ids(w, page) \in [1 .. PageLen(w) -> Delivery]
  BY <1>3 DEF Ids
<1>5. Ids(w, page) \in Seq(Delivery)
  BY <1>2, <1>4, SeqDef
<1>6. Len(Ids(w, page)) = PageLen(w)
  BY <1>2, <1>4, <1>5, LenProperties
<1>7. ASSUME NEW k \in 1 .. PageLen(w), NEW l \in 1 .. PageLen(w), k < l
      PROVE  Ids(w, page)[l] < Ids(w, page)[k]
  <2>1. page[k] < page[l]
    BY <1>7 DEF Pages
  <2> QED
    BY <1>3, <2>1 DEF OrderOK, ListingDown
<1> QED
  BY <1>2, <1>3, <1>5, <1>6, <1>7

\* What is left after a page is older than the last record of it; nothing is
\* left after the last page.
LEMMA PageCovers ==
  ASSUME IInv, OrderOK, NEW w \in WalkType, ~CursorExpired(w), NEW page \in Pages(w),
         NEW d \in byID, Matches(rec[d], w), w.cursor = NoDelivery \/ d < w.cursor
  PROVE  \/ \E k \in 1 .. PageLen(w) : Ids(w, page)[k] = d
         \/ ~PageIsLast(w) /\ \A k \in 1 .. PageLen(w) : d < Ids(w, page)[k]
<1>1. PICK i \in 1 .. ring.count : Listing[i] = d
  BY DEF OrderOK, AllListed
<1>2. i \in Remaining(w)
  BY <1>1, RemainingAt
<1>3. \A k \in 1 .. PageLen(w) :
        page[k] \in 1 .. ring.count /\ Ids(w, page)[k] = Listing[page[k]]
  BY IdsOf
<1>4. CASE \E k \in 1 .. PageLen(w) : page[k] = i
  BY <1>1, <1>3, <1>4
<1>5. CASE \A k \in 1 .. PageLen(w) : page[k] # i
  <2>1. ~PageIsLast(w)
    <3>1. w.limit \in Nat /\ IsFiniteSet(Remaining(w)) /\ Cardinality(Remaining(w)) \in Nat
      BY RemainingAt DEF WalkType
    <3> QED
      BY <1>2, <1>5, <3>1, PageFull
  <2>2. ASSUME NEW k \in 1 .. PageLen(w) PROVE d < Ids(w, page)[k]
    <3>1. ~(i < page[k])
      BY <1>2, <1>5 DEF Pages
    <3>2. page[k] < i
      BY <1>3, <1>5, <3>1
    <3> QED
      BY <1>1, <1>3, <3>2 DEF OrderOK, ListingDown
  <2> QED
    BY <2>1, <2>2
<1> QED
  BY <1>4, <1>5

\* What the pages held so far, and the new one.
LEMMA GotAfter ==
  ASSUME NEW g \in Seq(Delivery), NEW s \in Seq(Delivery)
  PROVE  /\ g \o s \in Seq(Delivery)
         /\ DOMAIN g = 1 .. Len(g) /\ DOMAIN (g \o s) = 1 .. Len(g) + Len(s)
         /\ Len(g) \in Nat /\ Len(s) \in Nat
         /\ \A i \in 1 .. Len(g) : (g \o s)[i] = g[i]
         /\ \A i \in Len(g) + 1 .. Len(g) + Len(s) :
              i - Len(g) \in 1 .. Len(s) /\ (g \o s)[i] = s[i - Len(g)]
         /\ \A k \in 1 .. Len(s) : (g \o s)[Len(g) + k] = s[k]
<1>1. Len(g) \in Nat /\ Len(s) \in Nat /\ DOMAIN g = 1 .. Len(g)
  BY LenProperties
<1>2. /\ g \o s \in Seq(Delivery) /\ Len(g \o s) = Len(g) + Len(s)
      /\ \A i \in 1 .. Len(g) + Len(s) :
           (g \o s)[i] = IF i <= Len(g) THEN g[i] ELSE s[i - Len(g)]
  BY ConcatProperties
<1>3. DOMAIN (g \o s) = 1 .. Len(g) + Len(s)
  BY <1>2, LenProperties
<1>4. \A i \in 1 .. Len(g) : (g \o s)[i] = g[i]
  BY <1>1, <1>2
<1>5. \A i \in Len(g) + 1 .. Len(g) + Len(s) :
        i - Len(g) \in 1 .. Len(s) /\ (g \o s)[i] = s[i - Len(g)]
  BY <1>1, <1>2
<1>6. ASSUME NEW k \in 1 .. Len(s) PROVE (g \o s)[Len(g) + k] = s[k]
  <2>1. Len(g) + k \in Len(g) + 1 .. Len(g) + Len(s) /\ (Len(g) + k) - Len(g) = k
    BY <1>1
  <2> QED
    BY <1>5, <2>1
<1> QED
  BY <1>1, <1>2, <1>3, <1>4, <1>5, <1>6

LEMMA ReadPageReader ==
  ASSUME IInv, OrderOK, WalkInv, Track, NEW c \in Client, ReadPage(c)
  PROVE  walk' \in [Client -> WalkType] /\ Reader(c)'
<1> DEFINE w == walk[c]
           v == walk'[c]
<1>1. /\ w \in WalkType /\ ~CursorExpired(w) /\ pc[c] = "walking" /\ pc \in [Client -> Place]
      /\ UNCHANGED <<byID, rec>> /\ Reader(c) /\ walk \in [Client -> WalkType]
  BY DEF WalkInv, ReadPage, Goto, logVars, IInv, Copies
<1>2. PICK page \in Pages(w) :
        IF PageIsLast(w)
          THEN /\ Goto(c, {"walking"}, "walked")
               /\ walk' = [walk EXCEPT ![c].got = @ \o Ids(w, page)]
          ELSE /\ Goto(c, {"walking"}, "walking")
               /\ walk' = [walk EXCEPT ![c].got = @ \o Ids(w, page),
                                       ![c].cursor = Listing[page[PageLen(w)]]]
  BY DEF ReadPage, Ids
<1> DEFINE n == PageLen(w)
           g == w.got
           s == Ids(w, page)
<1>3. /\ n \in Nat /\ s \in Seq(Delivery) /\ Len(s) = n
      /\ \A k \in 1 .. n : s[k] \in Delivery /\ (w.cursor = NoDelivery \/ s[k] < w.cursor)
      /\ \A k, l \in 1 .. n : k < l => s[l] < s[k]
      /\ \A k \in 1 .. n : s[k] = Listing[page[k]]
  BY <1>1, IdsOf
<1>4. /\ g \in Seq(Delivery) /\ \A i \in DOMAIN g : g[i] \in Delivery
      /\ Delivery \subseteq Nat /\ w.cursor \in Delivery \cup {NoDelivery}
      /\ w.limit \in Nat
  BY <1>1, LenProperties, ElementOfSeq, JournalAssumption DEF WalkType
<1>5. ~PageIsLast(w) => n \in Nat \ {0} /\ n = w.limit
  <2>1. Cardinality(Remaining(w)) \in Nat
    BY <1>1, RemainingAt
  <2> QED
    BY <1>4, <2>1 DEF PageIsLast, PageLen
<1>6. /\ v.got = g \o s /\ v.session = w.session /\ v.status = w.status /\ v.limit = w.limit
      /\ PageIsLast(w) => v.cursor = w.cursor /\ pc'[c] = "walked"
      /\ ~PageIsLast(w) => v.cursor = s[n] /\ pc'[c] = "walking"
      /\ v \in WalkType /\ walk' \in [Client -> WalkType]
  <2>1. g \o s \in Seq(Delivery)
    BY <1>3, <1>4, GotAfter
  <2>2. CASE PageIsLast(w)
    <3> DEFINE x == [w EXCEPT !.got = g \o s]
    <3>1. walk' = [walk EXCEPT ![c] = x] /\ pc'[c] = "walked"
      BY <1>1, <1>2, <2>2 DEF Goto
    <3>2. /\ x \in WalkType /\ x.got = g \o s /\ x.session = w.session
          /\ x.status = w.status /\ x.limit = w.limit /\ x.cursor = w.cursor
      BY <1>1, <2>1 DEF WalkType
    <3> HIDE DEF x
    <3> QED
      BY <1>1, <2>2, <3>1, <3>2
  <2>3. CASE ~PageIsLast(w)
    <3> DEFINE x == [w EXCEPT !.got = g \o s, !.cursor = Listing[page[n]]]
    <3>1. walk' = [walk EXCEPT ![c] = x] /\ pc'[c] = "walking"
      BY <1>1, <1>2, <2>3 DEF Goto
    <3>2. Listing[page[n]] = s[n] /\ s[n] \in Delivery
      BY <1>3, <1>5, <2>3
    <3>3. /\ x \in WalkType /\ x.got = g \o s /\ x.session = w.session
          /\ x.status = w.status /\ x.limit = w.limit /\ x.cursor = s[n]
      BY <1>1, <2>1, <3>2 DEF WalkType
    <3> HIDE DEF x
    <3> QED
      BY <1>1, <2>3, <3>1, <3>3
  <2> QED
    BY <2>2, <2>3
<1>7. /\ DOMAIN g = 1 .. Len(g) /\ DOMAIN (g \o s) = 1 .. Len(g) + n
      /\ Len(g) \in Nat
      /\ \A i \in 1 .. Len(g) : (g \o s)[i] = g[i]
      /\ \A i \in Len(g) + 1 .. Len(g) + n :
           i - Len(g) \in 1 .. n /\ (g \o s)[i] = s[i - Len(g)]
      /\ \A k \in 1 .. n : (g \o s)[Len(g) + k] = s[k]
  <2>1. g \in Seq(Delivery) /\ s \in Seq(Delivery) /\ Len(s) = n
    BY <1>3, <1>4
  <2> HIDE DEF g, s, n
  <2>2. /\ DOMAIN g = 1 .. Len(g) /\ DOMAIN (g \o s) = 1 .. Len(g) + Len(s)
        /\ Len(g) \in Nat
        /\ \A i \in 1 .. Len(g) : (g \o s)[i] = g[i]
        /\ \A i \in Len(g) + 1 .. Len(g) + Len(s) :
             i - Len(g) \in 1 .. Len(s) /\ (g \o s)[i] = s[i - Len(g)]
        /\ \A k \in 1 .. Len(s) : (g \o s)[Len(g) + k] = s[k]
    BY <2>1, GotAfter
  <2> QED
    BY <2>1, <2>2
<1>15. Len(g) \in Nat /\ n \in Nat /\ 1 .. Len(g) \subseteq 1 .. Len(g) + n
  <2>1. Len(g) \in Nat /\ n \in Nat
    BY <1>3, <1>7
  <2> QED
    BY <2>1
<1>8. /\ \A i, j \in 1 .. Len(g) : i < j => g[j] < g[i]
      /\ \A i \in 1 .. Len(g) : w.cursor # NoDelivery /\ w.cursor <= g[i]
      /\ stayed[c] \subseteq Matching(c)
      /\ \A d \in stayed[c] :
           (\E i \in 1 .. Len(g) : g[i] = d) \/ w.cursor = NoDelivery \/ d < w.cursor
  BY <1>1, <1>7 DEF Reader, Shown
<1>9. Matching(c)' = Matching(c)
  BY <1>1, <1>6 DEF Matching, Matches
<1>10. \A d \in Matching(c) : d \in byID /\ Matches(rec[d], w)
  BY DEF Matching
<1>11. ASSUME NEW d \in stayed[c]
       PROVE  \/ \E i \in 1 .. Len(g) + n : (g \o s)[i] = d
              \/ ~PageIsLast(w) /\ \A k \in 1 .. n : d < s[k]
  <2>1. CASE \E i \in 1 .. Len(g) : g[i] = d
    <3>1. PICK i \in 1 .. Len(g) : g[i] = d
      BY <2>1
    <3>2. i \in 1 .. Len(g) + n /\ (g \o s)[i] = d
      BY <1>7, <1>15, <3>1
    <3> QED
      BY <3>2
  <2>2. CASE w.cursor = NoDelivery \/ d < w.cursor
    <3>1. d \in byID /\ Matches(rec[d], w)
      BY <1>8, <1>10
    <3>2. \/ \E k \in 1 .. n : s[k] = d
          \/ ~PageIsLast(w) /\ \A k \in 1 .. n : d < s[k]
      BY <1>1, <2>2, <3>1, PageCovers
    <3>3. ASSUME NEW k \in 1 .. n, s[k] = d
          PROVE  \E i \in 1 .. Len(g) + n : (g \o s)[i] = d
      <4>1. Len(g) + k \in 1 .. Len(g) + n
        BY <1>3, <1>7
      <4> QED
        BY <1>7, <3>3, <4>1
    <3> QED
      BY <3>2, <3>3
  <2> QED
    BY <1>8, <2>1, <2>2
<1> HIDE DEF w, v, n, g, s
<1>12. ASSUME NEW i \in 1 .. Len(g) + n, NEW j \in 1 .. Len(g) + n, i < j
       PROVE  (g \o s)[j] < (g \o s)[i]
  <2>1. CASE j <= Len(g)
    <3>1. i \in 1 .. Len(g) /\ j \in 1 .. Len(g)
      BY <1>3, <1>7, <1>12, <2>1
    <3> QED
      BY <1>7, <1>8, <1>12, <3>1
  <2>2. CASE Len(g) < i
    <3>1. i \in Len(g) + 1 .. Len(g) + n /\ j \in Len(g) + 1 .. Len(g) + n
      BY <1>3, <1>7, <1>12, <2>2
    <3>2. i - Len(g) < j - Len(g)
      BY <1>3, <1>7, <1>12
    <3> QED
      BY <1>3, <1>7, <3>1, <3>2
  <2>3. CASE i <= Len(g) /\ Len(g) < j
    <3>1. i \in 1 .. Len(g) /\ j \in Len(g) + 1 .. Len(g) + n
      BY <1>3, <1>7, <2>3
    <3>2. w.cursor \in Nat /\ w.cursor <= g[i] /\ g[i] \in Nat
      BY <1>4, <1>7, <1>8, <3>1
    <3>3. s[j - Len(g)] < w.cursor /\ s[j - Len(g)] \in Nat
      BY <1>3, <1>4, <1>7, <1>8, <3>1
    <3>4. s[j - Len(g)] < g[i]
      BY <3>2, <3>3
    <3> QED
      BY <1>7, <3>1, <3>4
  <2> QED
    BY <1>3, <1>7, <2>1, <2>2, <2>3
<1>13. CASE PageIsLast(w)
  <2>1. stayed'[c] = stayed[c] /\ pc'[c] = "walked"
    BY <1>6, <1>13, TrackAt
  <2>2. \A d \in stayed'[c] : Shown(v, d)
    BY <1>6, <1>7, <1>11, <1>13, <2>1 DEF Shown
  <2> QED
    BY <1>6, <1>7, <1>12, <2>1, <2>2 DEF Reader, Shown, v
<1>14. CASE ~PageIsLast(w)
  <2>1. /\ stayed'[c] = stayed[c] \cap Matching(c)' /\ pc'[c] = "walking"
        /\ v.cursor = s[n] /\ n \in 1 .. n
    BY <1>1, <1>5, <1>6, <1>14, TrackAt
  <2>2. s[n] # NoDelivery /\ s[n] \in Nat
    BY <1>3, <1>4, <2>1, DeliveryFacts
  <2>3. \A i \in 1 .. Len(g) + n : s[n] <= (g \o s)[i]
    <3> SUFFICES ASSUME NEW i \in 1 .. Len(g) + n PROVE s[n] <= (g \o s)[i]
      OBVIOUS
    <3>1. Len(g) + n \in 1 .. Len(g) + n /\ (g \o s)[Len(g) + n] = s[n]
      BY <1>3, <1>7, <2>1
    <3>4. s[n] <= s[n]
      BY <2>2
    <3>2. CASE i = Len(g) + n
      BY <3>1, <3>2, <3>4
    <3>3. CASE i # Len(g) + n
      <4>1. i < Len(g) + n
        BY <1>15, <3>3
      <4>2. s[n] < (g \o s)[i]
        BY <1>12, <3>1, <4>1
      <4>3. (g \o s)[i] \in Nat
        <5>1. g \o s \in Seq(Delivery)
          BY <1>3, <1>4, GotAfter
        <5>2. (g \o s)[i] \in Delivery
          BY <1>7, <5>1, LenProperties
        <5> QED
          BY <1>4, <5>2
      <4>4. \A x, y \in Nat : x < y => x <= y
        OBVIOUS
      <4> QED
        BY <2>2, <4>2, <4>3, <4>4
    <3> QED
      BY <3>2, <3>3
  <2>4. \A d \in stayed'[c] : Shown(v, d) \/ d < v.cursor
    BY <1>6, <1>7, <1>11, <2>1 DEF Shown
  <2> QED
    BY <1>6, <1>7, <1>12, <2>1, <2>2, <2>3, <2>4 DEF Reader, Shown, v
<1> QED
  BY <1>6, <1>13, <1>14

-----------------------------------------------------------------------------
(* Any step, and the theorem. *)

LEMMA WalkStep ==
  ASSUME IInv, OrderOK, WalkInv, [JournalNext]_journalVars
  PROVE  WalkInv'
<1>1. /\ walk \in [Client -> WalkType] /\ pc \in [Client -> Place]
      /\ \A c \in Client : Reader(c)
  BY DEF WalkInv, IInv, Copies
<1>2. CASE UNCHANGED journalVars
  BY <1>2 DEF journalVars, outboxVars, logVars, clientVars, WalkInv, Reader, Shown,
              Matching, Matches
<1>3. ASSUME Track, UNCHANGED clientVars PROVE WalkInv'
  <2>1. walk' = walk /\ pc' = pc
    BY <1>3 DEF clientVars
  <2> QED
    BY <1>1, <1>3, <2>1, ReaderKept DEF WalkInv
<1>4. ASSUME Track, NEW c \in Client,
             \A b \in Client \ {c} : walk'[b] = walk[b] /\ pc'[b] = pc[b],
             walk' \in [Client -> WalkType], Reader(c)'
      PROVE  WalkInv'
  <2>1. \A b \in Client \ {c} : Reader(b)'
    BY <1>4, ReaderKept
  <2>2. \A b \in Client : Reader(b)'
    BY <1>4, <2>1
  <2> QED
    BY <1>4, <2>2 DEF WalkInv
<1>5. ASSUME Track, NEW c \in Client, ClientStep(c)
      PROVE  WalkInv'
  <2>1. \A b \in Client \ {c} : walk'[b] = walk[b] /\ pc'[b] = pc[b]
    BY <1>1, <1>5 DEF ClientStep, BeginWalk, ReadPage, WalkExpired, BeginReplay,
                      ReplaySchedule, WaitAnswered, WaitTimeout, Goto
  <2>2. ASSUME walk' \in [Client -> WalkType], walk'[c].got = <<>>,
               pc'[c] \notin {"walking", "walked"}
        PROVE  WalkInv'
    <3>1. DOMAIN walk'[c].got = {}
      BY <2>2
    <3>2. Reader(c)'
      BY <2>2, <3>1 DEF Reader
    <3> QED
      BY <1>4, <1>5, <2>1, <2>2, <3>2
  <2>3. ASSUME walk' = walk, pc'[c] \notin {"walking", "walked"}
        PROVE  WalkInv'
    <3>1. Reader(c)'
      BY <1>1, <2>3 DEF Reader
    <3> QED
      BY <1>1, <1>4, <1>5, <2>1, <2>3, <3>1
  <2>4. CASE BeginWalk(c)
    <3>1. PICK s \in Session \cup {NoSession}, f \in Filters, n \in Limits :
            walk' = [walk EXCEPT ![c] = [NoWalk EXCEPT !.session = s, !.status = f,
                                                       !.limit = n]]
      BY <2>4 DEF BeginWalk
    <3>2. pc[c] # "walking" /\ pc'[c] = "walking"
      BY <1>1, <2>4 DEF BeginWalk, Goto, Free
    <3>3. /\ walk' \in [Client -> WalkType] /\ walk'[c].got = <<>>
          /\ walk'[c].cursor = NoDelivery
      BY <1>1, <3>1, NewWalkType
    <3>4. stayed'[c] = Matching(c)'
      BY <1>5, <3>2, TrackAt
    <3>5. DOMAIN walk'[c].got = {}
      BY <3>3
    <3>6. Reader(c)'
      BY <3>2, <3>3, <3>4, <3>5 DEF Reader
    <3> QED
      BY <1>4, <1>5, <2>1, <3>3, <3>6
  <2>5. CASE ReadPage(c)
    BY <1>4, <1>5, <2>1, <2>5, ReadPageReader
  <2>6. CASE WalkExpired(c) \/ BeginReplay(c)
    <3>1. walk' = [walk EXCEPT ![c] = NoWalk] /\ pc'[c] \notin {"walking", "walked"}
      BY <1>1, <2>6 DEF WalkExpired, BeginReplay, Goto
    <3> QED
      BY <1>1, <2>2, <3>1, NoWalkType
  <2>7. CASE WaitAnswered(c) \/ WaitTimeout(c)
    BY <1>1, <2>3, <2>7 DEF WaitAnswered, WaitTimeout, Goto
  <2>8. ASSUME NEW d \in Delivery, ReplaySchedule(c, d) PROVE WalkInv'
    BY <1>1, <2>3, <2>8 DEF ReplaySchedule, Goto
  <2> QED
    BY <1>5, <2>4, <2>5, <2>6, <2>7, <2>8 DEF ClientStep
<1>6. CASE JournalNext
  BY <1>3, <1>5, <1>6 DEF JournalNext, DispatcherStep, TakeUp, Attempt, Attempted, Canceled,
                          Schedule, Clear
<1> QED
  BY <1>2, <1>6

\* A walk shows records newest first and none twice, and one that came to its
\* end has missed none that matched all along, whatever was added, updated,
\* rotated out or cleared between its pages, for any page size (Page,
\* log.go:133).
THEOREM WalkSoundHolds == JournalSpec => []WalkSound
<1>1. IInv /\ IInv' /\ OrderOK /\ [JournalNext]_journalVars => OrderOK'
  BY OrderStep
<1>2. IInv /\ OrderOK /\ WalkInv /\ [JournalNext]_journalVars => WalkInv'
  BY WalkStep
<1>3. WalkInv => WalkSound
  BY DEF WalkInv, Reader, Shown, WalkSound, WalkInOrder, WalkComplete
<1> QED
  BY <1>1, <1>2, <1>3, JournalInvariant, OrderInit, WalkInit, PTL DEF JournalSpec
=============================================================================
