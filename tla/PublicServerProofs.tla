------------------------- MODULE PublicServerProofs -------------------------
(***************************************************************************)
(* Proofs about PublicServer, for any files, any requests and any number   *)
(* of sessions: the 404 log is the list of the last misses; a config that  *)
(* was accepted can be run and its warnings are right; and answers hold.   *)
(*                                                                         *)
(* The first is a refinement of the log alone.  The others follow from an  *)
(* invariant of the load (LoadInv: what the search for unreachable states  *)
(* has met so far) and one of the request (CallInv: what is known of it    *)
(* once no scenario, and no endpoint, has taken it), which share only the  *)
(* snapshot.  Between the two is what the operators of Loading compute of  *)
(* files: nothing goes missing when they are merged and compiled.          *)
(***************************************************************************)
EXTENDS PublicServer, SequenceTheorems, FiniteSetTheorems, WellFoundedInduction, TLAPS

Entry == [id : Nat]

\* A miss has the number of its request, and a request misses once.
MissInv ==
  /\ requests \in Nat
  /\ misses.slot \in [R!Slot -> Entry \cup {None}]
  /\ misses.next \in R!Slot /\ misses.count \in 0 .. LogSize
  /\ \A i \in 1 .. misses.count :
       /\ Recent[i] \in Entry /\ Recent[i].id <= requests
       /\ pc # "idle" => Recent[i].id < requests

LEMMA SizeFacts == LogSize \in Nat /\ LogSize > 0 /\ R!Slot = 0 .. LogSize - 1
<1>1. LogSize \in Nat \ {0}
  BY PublicServerAssumption, Zenon
<1> QED
  BY <1>1 DEF R!Slot

LEMMA RecentAt ==
  /\ DOMAIN Recent = 1 .. misses.count
  /\ Recent = [i \in 1 .. misses.count |-> R!Nth(misses, i - 1)]
  BY DEF Recent, R!NewestFirst

-----------------------------------------------------------------------------
(* The ring's arithmetic.  The i-th newest entry is i + 1 slots before the    *)
(* next one to be written, around the end if need be.                         *)

LEMMA NthSlot ==
  ASSUME NEW n \in R!Slot, NEW i \in 0 .. LogSize - 1
  PROVE  (n - 1 - i + 2 * LogSize) % LogSize
           = IF i < n THEN n - 1 - i ELSE n - 1 - i + LogSize
<1>1. LogSize \in Nat /\ LogSize > 0 /\ n \in 0 .. LogSize - 1
  BY SizeFacts
<1>2. \A b \in 0 .. LogSize - 1 :
        (b + 2 * LogSize) % LogSize = b /\ (b + LogSize) % LogSize = b
  BY <1>1
<1>3. CASE i < n
  BY <1>1, <1>2, <1>3
<1>4. CASE ~(i < n)
  <2> DEFINE b == n - 1 - i + LogSize
  <2>1. b \in 0 .. LogSize - 1 /\ n - 1 - i + 2 * LogSize = b + LogSize
    BY <1>1, <1>4
  <2> HIDE DEF b
  <2>2. (n - 1 - i + 2 * LogSize) % LogSize = b
    BY <1>2, <2>1
  <2> QED
    BY <1>4, <2>2 DEF b
<1> QED
  BY <1>3, <1>4

LEMMA AfterSlot ==
  ASSUME NEW n \in R!Slot
  PROVE  /\ (n + 1) % LogSize = IF n + 1 = LogSize THEN 0 ELSE n + 1
         /\ (n + 1) % LogSize \in R!Slot
<1>1. LogSize \in Nat /\ LogSize > 0 /\ n \in 0 .. LogSize - 1
  BY SizeFacts
<1>2. \A b \in 0 .. LogSize - 1 : b % LogSize = b
  BY <1>1
<1>3. LogSize % LogSize = 0
  BY <1>1
<1>4. CASE n + 1 = LogSize
  BY <1>1, <1>3, <1>4, SizeFacts
<1>5. CASE n + 1 # LogSize
  BY <1>1, <1>2, <1>5, SizeFacts
<1> QED
  BY <1>4, <1>5

\* Push makes the new entry the newest and each other one older by one.
LEMMA NthOfPush ==
  ASSUME NEW r, NEW x, NEW D, r.slot \in [R!Slot -> D], r.next \in R!Slot
  PROVE  /\ R!Nth(R!Push(r, x), 0) = x
         /\ \A i \in 1 .. LogSize - 1 : R!Nth(R!Push(r, x), i) = R!Nth(r, i - 1)
<1> DEFINE n == r.next
           m == (n + 1) % LogSize
           p == R!Push(r, x)
<1>1. LogSize \in Nat /\ LogSize > 0 /\ n \in 0 .. LogSize - 1
  BY SizeFacts
<1>2. /\ p.slot = [r.slot EXCEPT ![n] = x] /\ p.next = m
      /\ p.slot[n] = x
      /\ \A j \in R!Slot \ {n} : p.slot[j] = r.slot[j]
  BY DEF R!Push
<1>3. m \in R!Slot /\ m = IF n + 1 = LogSize THEN 0 ELSE n + 1
  BY AfterSlot
<1> HIDE DEF m, p
<1>4. R!Nth(p, 0) = x
  <2>1. (m - 1 - 0 + 2 * LogSize) % LogSize = IF 0 < m THEN m - 1 - 0 ELSE m - 1 - 0 + LogSize
    BY <1>1, <1>3, NthSlot
  <2>2. (m - 1 - 0 + 2 * LogSize) % LogSize = n
    BY <1>1, <1>3, <2>1
  <2> QED
    BY <1>2, <2>2 DEF R!Nth
<1>5. ASSUME NEW i \in 1 .. LogSize - 1
      PROVE  R!Nth(p, i) = R!Nth(r, i - 1)
  <2> DEFINE j == (m - 1 - i + 2 * LogSize) % LogSize
             k == (n - 1 - (i - 1) + 2 * LogSize) % LogSize
  <2>1. j = IF i < m THEN m - 1 - i ELSE m - 1 - i + LogSize
    BY <1>1, <1>3, NthSlot
  <2>2. k = IF i - 1 < n THEN n - 1 - (i - 1) ELSE n - 1 - (i - 1) + LogSize
    BY <1>1, NthSlot
  <2> HIDE DEF j, k, n
  <2>3. j = k /\ j \in R!Slot \ {n}
    <3>1. CASE n + 1 = LogSize
      BY <1>1, <1>3, <2>1, <2>2, <3>1, SizeFacts
    <3>2. CASE n + 1 # LogSize
      <4>1. m = n + 1 /\ (i < m <=> i - 1 < n)
        BY <1>1, <1>3, <3>2
      <4> QED
        BY <1>1, <2>1, <2>2, <3>2, <4>1, SizeFacts
    <3> QED
      BY <3>1, <3>2
  <2>4. R!Nth(p, i) = p.slot[j] /\ R!Nth(r, i - 1) = r.slot[k]
    BY <1>2 DEF R!Nth, j, k, n
  <2> QED
    BY <1>2, <2>3, <2>4 DEF n
<1> QED
  BY <1>4, <1>5 DEF p

-----------------------------------------------------------------------------
(* The invariant. *)

RecentTyped == Recent \in Seq(Entry) /\ Len(Recent) = misses.count

LEMMA RecentSeq == MissInv => RecentTyped
<1> SUFFICES ASSUME MissInv PROVE RecentTyped
  OBVIOUS
<1>1. misses.count \in Nat /\ \A i \in 1 .. misses.count : Recent[i] \in Entry
  BY SizeFacts DEF MissInv
<1>2. Recent = [i \in 1 .. misses.count |-> Recent[i]]
  BY RecentAt
<1>3. Recent \in [1 .. misses.count -> Entry]
  BY <1>1, <1>2
<1>4. Recent \in Seq(Entry)
  BY <1>1, <1>3, SeqDef
<1> QED
  BY <1>1, <1>4, RecentAt, LenProperties DEF RecentTyped

LEMMA RecentSeqNext == MissInv' => RecentTyped'
  BY RecentSeq, PTL

LEMMA RecentOfPush ==
  ASSUME MissInv, NEW x, misses' = R!Push(misses, x)
  PROVE  /\ misses'.count = IF misses.count < LogSize THEN misses.count + 1 ELSE misses.count
         /\ misses'.count \in 1 .. LogSize /\ misses'.count <= misses.count + 1
         /\ Recent'[1] = x
         /\ \A i \in 2 .. misses'.count :
              i - 1 \in 1 .. misses.count /\ Recent'[i] = Recent[i - 1]
<1> DEFINE n == misses.count
           m == misses'.count
<1>1. m = IF n < LogSize THEN n + 1 ELSE n
  BY DEF R!Push
<1>2. n \in 0 .. LogSize /\ m \in 1 .. LogSize /\ m <= n + 1
  BY <1>1, SizeFacts DEF MissInv
<1>3. /\ R!Nth(R!Push(misses, x), 0) = x
      /\ \A i \in 1 .. LogSize - 1 : R!Nth(R!Push(misses, x), i) = R!Nth(misses, i - 1)
  <2>1. misses.slot \in [R!Slot -> Entry \cup {None}] /\ misses.next \in R!Slot
    BY DEF MissInv
  <2> QED
    BY <2>1, NthOfPush
<1>4. \A i \in 1 .. m : Recent'[i] = R!Nth(R!Push(misses, x), i - 1)
  BY DEF Recent, R!NewestFirst, R!Nth
<1>5. Recent'[1] = x
  <2>1. 1 \in 1 .. m /\ 1 - 1 = 0
    BY <1>2, SizeFacts
  <2> QED
    BY <1>3, <1>4, <2>1
<1>6. ASSUME NEW i \in 2 .. m
      PROVE  i - 1 \in 1 .. n /\ Recent'[i] = Recent[i - 1]
  <2> HIDE DEF n, m
  <2>1. i \in 1 .. m /\ i - 1 \in 1 .. LogSize - 1 /\ i - 1 \in 1 .. n
    BY <1>2, SizeFacts
  <2>2. Recent[i - 1] = R!Nth(misses, (i - 1) - 1)
    BY <2>1, RecentAt DEF n
  <2> QED
    BY <1>3, <1>4, <2>1, <2>2
<1> QED
  BY <1>1, <1>2, <1>5, <1>6

LEMMA MissInit == Init => MissInv
<1> SUFFICES ASSUME Init PROVE MissInv
  OBVIOUS
<1>1. misses = R!EmptyRing /\ requests = 0
  BY Zenon DEF Init
<1> QED
  BY <1>1, SizeFacts DEF MissInv, R!EmptyRing

\* What a step does to the 404 log and to the count of the requests.
Counted == UNCHANGED <<misses, requests>> /\ (pc = "idle" => pc' = "idle")

Arrived == misses' = misses /\ requests' = requests + 1 /\ pc = "idle"

Missed ==
  /\ misses' = R!Push(misses, [id |-> requests])
  /\ requests' = requests /\ pc # "idle" /\ pc' = "idle"

Cleared == misses' = R!EmptyRing /\ requests' = requests

LEMMA MissMoves ==
  ASSUME [Next]_vars
  PROVE  Counted \/ Arrived \/ Missed \/ Cleared
<1>1. CASE Load \/ LoadGoesOn \/ Recover \/ OthersStart \/ OthersDelete \/ OthersMove
  BY <1>1 DEF Load, LoadGoesOn, Recover, OthersStart, OthersDelete, OthersMove, callVars,
              bounds, Counted
<1>2. CASE ClearMisses
  BY <1>2 DEF ClearMisses, bounds, Cleared
<1>3. ASSUME NEW r \in Requests, Arrive(r) PROVE Arrived
  BY <1>3 DEF Arrive, Arrived
<1>4. CASE Miss
  BY <1>4 DEF Miss, Reply, bounds, Missed
<1>5. CASE TooLarge \/ Find \/ CreateFails \/ Create \/ HeaderConflict
  BY <1>5 DEF TooLarge, Find, CreateFails, Create, HeaderConflict, Reply, Goto, Quietly,
              bounds, Counted
<1>6. CASE HandleInSession \/ TemplateFails \/ FallThrough \/ HandleEndpoint \/ NoEndpoint
  BY <1>6 DEF HandleInSession, TemplateFails, FallThrough, HandleEndpoint, NoEndpoint,
              Reply, Goto, Quietly, bounds, Counted
<1>7. CASE UNCHANGED vars
  BY <1>7 DEF vars, bounds, callVars, Counted
<1> QED
  BY <1>1, <1>2, <1>3, <1>4, <1>5, <1>6, <1>7 DEF Next, Serve

LEMMA MissStep ==
  ASSUME MissInv, [Next]_vars
  PROVE  MissInv'
<1>1. CASE Counted
  BY <1>1 DEF Counted, MissInv, Recent, R!NewestFirst, R!Nth
<1>2. CASE Arrived
  <2>1. Recent' = Recent
    BY <1>2 DEF Arrived, Recent, R!NewestFirst, R!Nth
  <2>2. \A i \in 1 .. misses.count : Recent[i].id \in Nat
    BY DEF MissInv, Entry
  <2> QED
    BY <1>2, <2>1, <2>2 DEF Arrived, MissInv
<1>3. CASE Missed
  <2> DEFINE x == [id |-> requests]
  <2>1. /\ x \in Entry /\ x.id = requests /\ requests \in Nat /\ misses' = R!Push(misses, x)
        /\ requests' = requests /\ pc # "idle" /\ pc' = "idle"
    BY <1>3 DEF Missed, MissInv, Entry
  <2>2. /\ misses'.slot \in [R!Slot -> Entry \cup {None}]
        /\ misses'.next \in R!Slot
    BY <2>1, AfterSlot DEF MissInv, R!Push
  <2>3. /\ misses'.count \in 1 .. LogSize /\ Recent'[1] = x
        /\ \A i \in 2 .. misses'.count :
             i - 1 \in 1 .. misses.count /\ Recent'[i] = Recent[i - 1]
    BY <2>1, RecentOfPush
  <2>4. ASSUME NEW i \in 1 .. misses'.count
        PROVE  Recent'[i] \in Entry /\ Recent'[i].id <= requests
    <3>1. CASE i = 1
      BY <2>1, <2>3, <3>1
    <3>2. CASE i # 1
      <4>1. i \in 2 .. misses'.count
        BY <2>3, <3>2
      <4> QED
        BY <2>3, <4>1 DEF MissInv
    <3> QED
      BY <3>1, <3>2
  <2>5. misses'.count \in 0 .. LogSize
    BY <2>3, SizeFacts
  <2> QED
    BY <2>1, <2>2, <2>4, <2>5 DEF MissInv
<1>4. CASE Cleared
  BY <1>4, SizeFacts DEF Cleared, MissInv, R!EmptyRing
<1> QED
  BY <1>1, <1>2, <1>3, <1>4, MissMoves

-----------------------------------------------------------------------------
(* The refinement. *)

LEMMA PushPrepends ==
  ASSUME MissInv, MissInv', Missed
  PROVE  Listed!Prepend
<1> DEFINE n == misses.count
           m == misses'.count
           s == Recent
           t == Recent'
           long == <<t[1]>> \o s
           kept == IF Len(long) < LogSize THEN Len(long) ELSE LogSize
<1>1. /\ m = IF n < LogSize THEN n + 1 ELSE n
      /\ m \in 1 .. LogSize /\ m <= n + 1
      /\ t[1] = [id |-> requests]
      /\ \A i \in 2 .. m : i - 1 \in 1 .. n /\ t[i] = s[i - 1]
  BY RecentOfPush DEF Missed
<1>2. n \in 0 .. LogSize /\ LogSize \in Nat /\ LogSize > 0 /\ requests \in Nat
  BY SizeFacts DEF MissInv
<1>3. /\ s \in Seq(Entry) /\ Len(s) = n /\ DOMAIN s = 1 .. n
      /\ \A i \in 1 .. n : s[i] \in Entry /\ s[i].id < requests
  BY RecentSeq, RecentAt DEF RecentTyped, MissInv, Missed
<1>4. t \in Seq(Entry) /\ Len(t) = m
  BY RecentSeqNext DEF RecentTyped
<1> HIDE DEF n, m, s, t
<1>5. t # <<>> /\ Head(t) = t[1] /\ t[1] \in Entry /\ t[1].id = requests
  BY <1>1, <1>2, <1>4 DEF Entry
<1>6. \A i \in 1 .. n : s[i].id # t[1].id
  BY <1>2, <1>3, <1>5 DEF Entry
<1>7. <<t[1]>> \in Seq(Entry) /\ Len(<<t[1]>>) = 1 /\ <<t[1]>>[1] = t[1]
  BY <1>5
<1>8. /\ long \in Seq(Entry) /\ Len(long) = n + 1
      /\ \A i \in 1 .. n + 1 : long[i] = IF i = 1 THEN t[1] ELSE s[i - 1]
  <2>1. /\ long \in Seq(Entry) /\ Len(long) = 1 + n
        /\ \A i \in 1 .. 1 + n :
             long[i] = IF i <= 1 THEN <<t[1]>>[i] ELSE s[i - 1]
    BY <1>3, <1>7, ConcatProperties
  <2> QED
    BY <1>2, <1>7, <2>1
<1> HIDE DEF long
<1>9. kept = m /\ \A i \in 1 .. kept : long[i] \in Entry
  BY <1>1, <1>2, <1>3, <1>5, <1>8
<1>10. /\ SubSeq(long, 1, kept) \in Seq(Entry)
       /\ Len(SubSeq(long, 1, kept)) = m
       /\ \A i \in 1 .. m : SubSeq(long, 1, kept)[i] = long[i]
  <2> HIDE DEF kept
  <2>1. 1 \in Int /\ kept \in Int
    BY <1>1, <1>2, <1>9
  <2>2. /\ SubSeq(long, 1, kept) \in Seq(Entry)
        /\ Len(SubSeq(long, 1, kept)) = IF 1 <= kept THEN kept - 1 + 1 ELSE 0
        /\ \A i \in 1 .. kept - 1 + 1 : SubSeq(long, 1, kept)[i] = long[1 + i - 1]
    BY <1>9, <2>1, SubSeqProperties
  <2> QED
    BY <1>1, <1>2, <1>9, <2>2
<1>11. t = SubSeq(long, 1, kept)
  <2>1. \A i \in 1 .. m : t[i] = SubSeq(long, 1, kept)[i]
    BY <1>1, <1>2, <1>8, <1>10
  <2> HIDE DEF kept
  <2> QED
    BY <1>4, <1>10, <2>1, SeqEqual
<1> QED
  BY <1>3, <1>5, <1>6, <1>11 DEF Listed!Prepend, Listed!Keep, long, s, t

LEMMA MissesStep ==
  MissInv /\ MissInv' /\ [Next]_vars => [Listed!RecentNext]_Recent
<1> SUFFICES ASSUME MissInv, MissInv', [Next]_vars
             PROVE  Listed!RecentNext \/ UNCHANGED Recent
  OBVIOUS
<1>1. CASE Missed
  BY <1>1, PushPrepends DEF Listed!RecentNext
<1>2. CASE Cleared
  <2>1. Recent' \in Seq(Entry) /\ Len(Recent') = 0
    BY <1>2, RecentSeqNext DEF RecentTyped, Cleared, R!EmptyRing
  <2> QED
    BY <2>1, EmptySeq DEF Listed!RecentNext, Listed!Forget
<1>3. CASE Counted \/ Arrived
  BY <1>3 DEF Counted, Arrived, Recent, R!NewestFirst, R!Nth
<1> QED
  BY <1>1, <1>2, <1>3, MissMoves

\* The 404 log always is the list of the last misses since it was cleared, newest
\* first, and none of them twice, whatever wraps around (misslog.go:32).
THEOREM MissesAreRecentHolds == Spec => MissesAreRecent
<1>1. Init => Listed!RecentInit
  <2> SUFFICES ASSUME Init PROVE Recent = <<>>
    BY DEF Listed!RecentInit
  <2>1. misses.count = 0
    <3>1. misses = R!EmptyRing
      BY Zenon DEF Init
    <3> QED
      BY <3>1 DEF R!EmptyRing
  <2>2. Recent \in Seq(Entry) /\ Len(Recent) = 0
    BY <2>1, RecentSeq, MissInit DEF RecentTyped
  <2> QED
    BY <2>2, EmptySeq
<1>2. MissInv /\ [Next]_vars => MissInv'
  BY MissStep
<1> QED
  BY <1>1, <1>2, MissInit, MissesStep, PTL DEF Spec, MissesAreRecent, Listed!RecentSpec
-----------------------------------------------------------------------------
(* Numbers and sequences. *)

LEMMA LeastNat ==
  ASSUME NEW S \in SUBSET Nat, S # {}
  PROVE  \E x \in S : \A y \in S : x <= y
<1> DEFINE T == {0 .. x : x \in S}
<1>1. T \subseteq FiniteSubsetsOf(Nat) /\ T # {}
  <2>1. \A x \in S : 0 .. x \in SUBSET Nat /\ IsFiniteSet(0 .. x)
    <3>1. \A x \in S : x \in Int /\ 0 .. x \in SUBSET Nat
      OBVIOUS
    <3> QED
      BY <3>1, FS_Interval
  <2> QED
    BY <2>1 DEF FiniteSubsetsOf
<1>2. \E t \in T : \A u \in T : <<u, t>> \notin StrictSubsetOrdering(Nat)
  <2> HIDE DEF T
  <2>1. IsWellFoundedOn(StrictSubsetOrdering(Nat), FiniteSubsetsOf(Nat))
    BY FS_StrictSubsetOrderingWellFounded
  <2> QED
    BY <1>1, <2>1, WFMin
<1>3. PICK x \in S : \A y \in S : <<0 .. y, 0 .. x>> \notin StrictSubsetOrdering(Nat)
  BY <1>2
<1>4. ASSUME NEW y \in S, y < x
      PROVE  FALSE
  <2>1. 0 .. y \subseteq 0 .. x /\ x \in 0 .. x /\ x \notin 0 .. y
    BY <1>4
  <2>2. 0 .. y \in SUBSET Nat /\ 0 .. x \in SUBSET Nat /\ 0 .. y # 0 .. x
    BY <2>1
  <2> QED
    BY <1>3, <2>1, <2>2 DEF StrictSubsetOrdering
<1> QED
  BY <1>4

LEMMA MinOfNats ==
  ASSUME NEW S \in SUBSET Nat, S # {}
  PROVE  Min(S) \in S /\ \A y \in S : Min(S) <= y
  BY LeastNat DEF Min

LEMMA NatsBySuccessor ==
  ASSUME NEW S \in SUBSET Nat, 0 \in S, \A m \in S : m + 1 \in S
  PROVE  S = Nat
<1> SUFFICES ASSUME Nat \ S # {}
             PROVE  FALSE
  OBVIOUS
<1>1. PICK x \in Nat \ S : \A y \in Nat \ S : x <= y
  BY LeastNat
<1>2. x # 0 /\ x - 1 \in Nat /\ x - 1 \in S
  BY <1>1
<1> QED
  BY <1>1, <1>2

\* What a recursive definition over 0 .. n stands for, there is.
Steps(n, D) == [1 .. n -> [D -> D]]

Iterations(n, D, b, step) ==
  {f \in [0 .. n -> D] : f[0] = b /\ \A i \in 1 .. n : f[i] = step[i][f[i - 1]]}

LEMMA IterationExists ==
  ASSUME NEW n \in Nat, NEW D, NEW b \in D, NEW step \in Steps(n, D)
  PROVE  Iterations(n, D, b, step) # {}
<1> USE DEF Steps
<1> DEFINE Partial(m, f) ==
             /\ f \in [0 .. m -> D]
             /\ f[0] = b /\ \A i \in 1 .. m : f[i] = step[i][f[i - 1]]
           Grows(m) == \E f : Partial(m, f)
           S == {m \in Nat : m <= n => Grows(m)}
<1>1. 0 \in S
  <2>1. Partial(0, [i \in 0 .. 0 |-> b])
    OBVIOUS
  <2> QED
    BY <2>1
<1>2. ASSUME NEW m \in S
      PROVE  m + 1 \in S
  <2> SUFFICES ASSUME m + 1 <= n
               PROVE  Grows(m + 1)
    <3> HIDE DEF Grows
    <3> QED
      OBVIOUS
  <2>1. PICK f : Partial(m, f)
    <3>1. Grows(m)
      <4> HIDE DEF Grows
      <4> QED
        BY <1>2
    <3> QED
      BY <3>1
  <2> DEFINE g == [i \in 0 .. m + 1 |-> IF i <= m THEN f[i] ELSE step[m + 1][f[m]]]
  <2>2. g \in [0 .. m + 1 -> D]
    <3>1. f[m] \in D /\ step[m + 1] \in [D -> D]
      BY <2>1
    <3> QED
      BY <2>1, <3>1
  <2>3. g[0] = b
    BY <2>1
  <2>4. ASSUME NEW i \in 1 .. m + 1
        PROVE  g[i] = step[i][g[i - 1]]
    <3>1. CASE i <= m
      BY <2>1, <3>1
    <3>2. CASE i = m + 1
      BY <2>1, <3>2
    <3> QED
      BY <3>1, <3>2
  <2> QED
    BY <2>2, <2>3, <2>4
<1>3. S = Nat
  <2> HIDE DEF S
  <2>1. S \in SUBSET Nat
    BY DEF S
  <2> QED
    BY <1>1, <1>2, <2>1, NatsBySuccessor
<1>4. PICK f : Partial(n, f)
  BY <1>3
<1> QED
  BY <1>4 DEF Iterations

LEMMA IsSeqFacts ==
  ASSUME NEW s, IsSeq(s)
  PROVE  /\ Len(s) \in Nat /\ DOMAIN s = 1 .. Len(s)
         /\ \A D : (\A i \in DOMAIN s : s[i] \in D) => s \in Seq(D)
<1>1. s \in Seq(ToSet(s))
  BY DEF IsSeq
<1>2. Len(s) \in Nat /\ DOMAIN s = 1 .. Len(s)
  BY <1>1, LenProperties
<1>3. ASSUME NEW D, \A i \in DOMAIN s : s[i] \in D
      PROVE  s \in Seq(D)
  BY <1>1, <1>3, SeqMonotonic DEF ToSet
<1> QED
  BY <1>2, <1>3

\* A sequence is one of its own elements.
LEMMA SeqIsSeq ==
  ASSUME NEW D, NEW s \in Seq(D)
  PROVE  IsSeq(s)
<1>1. DOMAIN s = 1 .. Len(s) /\ Len(s) \in Nat /\ s \in [1 .. Len(s) -> D]
  BY LenProperties
<1>2. s \in [1 .. Len(s) -> ToSet(s)]
  BY <1>1 DEF ToSet
<1> QED
  BY <1>1, <1>2, SeqDef DEF IsSeq

LEMMA WithoutOf ==
  ASSUME NEW D, NEW s \in Seq(D), NEW set
  PROVE  /\ Without(s, set) \in Seq(D)
         /\ ToSet(Without(s, set)) = ToSet(s) \ set
<1> DEFINE n == Len(s)
           step == [i \in 1 .. n |-> [t \in Seq(D) |->
                     IF s[i] \in set THEN t ELSE Append(t, s[i])]]
           Rule(f) == [i \in 0 .. n |->
                         IF i = 0 THEN <<>>
                         ELSE IF s[i] \in set THEN f[i - 1] ELSE Append(f[i - 1], s[i])]
           left == CHOOSE f : f = Rule(f)
<1>1. n \in Nat /\ DOMAIN s = 1 .. n /\ \A i \in 1 .. n : s[i] \in D
  BY LenProperties
<1>2. \E f : f = Rule(f)
  <2>1. step \in Steps(n, Seq(D)) /\ <<>> \in Seq(D)
    BY <1>1, AppendProperties DEF Steps
  <2>2. PICK f \in Iterations(n, Seq(D), <<>>, step) : TRUE
    <3> HIDE DEF step, n
    <3> QED
      BY <1>1, <2>1, IterationExists
  <2>3. /\ f \in [0 .. n -> Seq(D)] /\ f[0] = <<>>
        /\ \A i \in 1 .. n : f[i] = step[i][f[i - 1]]
    <3> HIDE DEF step, n
    <3> QED
      BY <2>2 DEF Iterations
  <2>4. ASSUME NEW i \in 1 .. n
        PROVE  f[i] = IF s[i] \in set THEN f[i - 1] ELSE Append(f[i - 1], s[i])
    <3>1. f[i - 1] \in Seq(D) /\ f[i] = step[i][f[i - 1]]
      <4> HIDE DEF step, n
      <4> QED
        BY <1>1, <2>3
    <3> HIDE DEF n
    <3> QED
      BY <3>1
  <2>5. ASSUME NEW i \in 0 .. n
        PROVE  f[i] = Rule(f)[i]
    <3> HIDE DEF n
    <3>1. CASE i = 0
      BY <2>3, <3>1
    <3>2. CASE i # 0
      <4>1. i \in 1 .. n
        BY <1>1, <3>2
      <4> HIDE DEF step
      <4> QED
        BY <2>4, <3>2, <4>1
    <3> QED
      BY <3>1, <3>2
  <2>6. f = Rule(f)
    <3> HIDE DEF n
    <3> QED
      BY <2>3, <2>5
  <2> QED
    BY <2>6
<1>3. left = Rule(left)
  BY <1>2
<1> HIDE DEF left, n
<1>9. /\ left[0] = <<>>
      /\ \A i \in 1 .. n :
           left[i] = IF s[i] \in set THEN left[i - 1] ELSE Append(left[i - 1], s[i])
  <2>1. \A i \in 0 .. n : left[i] = Rule(left)[i]
    <3> HIDE DEF Rule
    <3> QED
      BY <1>3
  <2> QED
    BY <1>1, <2>1
<1> DEFINE Done(m) == /\ left[m] \in Seq(D)
                      /\ ToSet(left[m]) = {s[j] : j \in 1 .. m} \ set
           S == {m \in Nat : m <= n => Done(m)}
<1>4. 0 \in S
  <2>1. left[0] = <<>>
    BY <1>9
  <2>2. <<>> \in Seq(D) /\ ToSet(<<>>) = {} /\ {s[j] : j \in 1 .. 0} = {}
    BY DEF ToSet
  <2>3. Done(0)
    BY <2>1, <2>2
  <2> HIDE DEF Done
  <2> QED
    BY <2>3
<1>5. ASSUME NEW m \in S
      PROVE  m + 1 \in S
  <2> SUFFICES ASSUME m + 1 <= n
               PROVE  Done(m + 1)
    <3> HIDE DEF Done
    <3> QED
      OBVIOUS
  <2>1. left[m + 1] = IF s[m + 1] \in set THEN left[m] ELSE Append(left[m], s[m + 1])
    BY <1>1, <1>9
  <2>2. left[m] \in Seq(D) /\ ToSet(left[m]) = {s[j] : j \in 1 .. m} \ set
    <3>1. Done(m)
      <4> HIDE DEF Done
      <4> QED
        BY <1>1, <1>5
    <3> QED
      BY <3>1
  <2>3. {s[j] : j \in 1 .. m + 1} = {s[j] : j \in 1 .. m} \cup {s[m + 1]}
    BY <1>1
  <2>4. CASE s[m + 1] \in set
    BY <2>1, <2>2, <2>3, <2>4
  <2>5. CASE s[m + 1] \notin set
    <3>1. s[m + 1] \in D
      BY <1>1
    <3> DEFINE t == left[m]
               u == Append(left[m], s[m + 1])
    <3>2. /\ u \in Seq(D) /\ Len(u) = Len(t) + 1 /\ Len(t) \in Nat
          /\ \A i \in 1 .. Len(t) : u[i] = t[i]
          /\ u[Len(t) + 1] = s[m + 1]
          /\ DOMAIN u = 1 .. Len(u) /\ DOMAIN t = 1 .. Len(t)
      BY <2>2, <3>1, AppendProperties, LenProperties
    <3> HIDE DEF u, t
    <3>3. ToSet(u) = ToSet(t) \cup {s[m + 1]}
      BY <3>2 DEF ToSet
    <3> QED
      BY <2>1, <2>2, <2>3, <2>5, <3>2, <3>3 DEF u, t
  <2> QED
    BY <2>4, <2>5
<1>6. S = Nat
  <2> HIDE DEF S
  <2>1. S \in SUBSET Nat
    BY DEF S
  <2> QED
    BY <1>4, <1>5, <2>1, NatsBySuccessor
<1>7. Without(s, set) = left[n]
  BY DEF Without, left, n
<1>8. Done(n)
  <2> HIDE DEF Done
  <2> QED
    BY <1>1, <1>6
<1> QED
  BY <1>1, <1>7, <1>8 DEF ToSet

LEMMA FlattenedSeq ==
  ASSUME NEW D, NEW ss \in Seq(Seq(D))
  PROVE  FlattenSeq(ss) \in Seq(D)
<1> DEFINE n == Len(ss)
           step == [i \in 1 .. n |-> [t \in Seq(D) |-> t \o ss[i]]]
           Rule(f) == [i \in 1 .. n |-> IF i = 1 THEN ss[i] ELSE f[i - 1] \o ss[i]]
           flat == CHOOSE f : f = Rule(f)
<1>1. n \in Nat /\ \A i \in 1 .. n : ss[i] \in Seq(D)
  BY LenProperties
<1>2. CASE n = 0
  BY <1>2, EmptySeq DEF FlattenSeq
<1>3. CASE n # 0
  <2>1. PICK g \in Iterations(n, Seq(D), <<>>, step) : TRUE
    <3>1. step \in Steps(n, Seq(D)) /\ <<>> \in Seq(D)
      BY <1>1, ConcatProperties DEF Steps
    <3> HIDE DEF step, n
    <3> QED
      BY <1>1, <3>1, IterationExists
  <2>2. /\ g \in [0 .. n -> Seq(D)] /\ g[0] = <<>>
        /\ \A i \in 1 .. n : g[i] = step[i][g[i - 1]]
    <3> HIDE DEF step, n
    <3> QED
      BY <2>1 DEF Iterations
  <2>3. ASSUME NEW i \in 1 .. n
        PROVE  g[i] = g[i - 1] \o ss[i] /\ g[i] \in Seq(D) /\ g[i - 1] \in Seq(D)
    <3>1. g[i - 1] \in Seq(D) /\ g[i] = step[i][g[i - 1]] /\ g[i] \in Seq(D)
      <4> HIDE DEF step, n
      <4> QED
        BY <1>1, <2>2
    <3> HIDE DEF n
    <3> QED
      BY <3>1
  <2> DEFINE f == [i \in 1 .. n |-> g[i]]
  <2>4. ASSUME NEW i \in 1 .. n
        PROVE  f[i] = IF i = 1 THEN ss[i] ELSE f[i - 1] \o ss[i]
    <3> HIDE DEF n
    <3>1. CASE i = 1
      <4>1. g[0] \o ss[i] = ss[i]
        BY <1>1, <2>2, ConcatEmptySeq
      <4>2. g[i] = g[0] \o ss[i]
        <5>1. g[i] = g[i - 1] \o ss[i]
          BY <2>3
        <5>2. i - 1 = 0
          BY <3>1
        <5> HIDE DEF step
        <5> QED
          BY <5>1, <5>2
      <4>3. f[i] = g[i]
        OBVIOUS
      <4> HIDE DEF f, step
      <4> QED
        BY <3>1, <4>1, <4>2, <4>3
    <3>2. CASE i # 1
      <4>1. i - 1 \in 1 .. n
        BY <1>1, <3>2
      <4>2. f[i] = g[i] /\ f[i - 1] = g[i - 1]
        BY <4>1
      <4>3. g[i] = g[i - 1] \o ss[i]
        BY <2>3
      <4> HIDE DEF f, step
      <4>4. f[i] = f[i - 1] \o ss[i]
        BY <4>2, <4>3
      <4> QED
        BY <3>2, <4>4
    <3> QED
      BY <3>1, <3>2
  <2>5. f = Rule(f)
    <3> HIDE DEF n
    <3>1. \A i \in 1 .. n : f[i] = Rule(f)[i]
      BY <2>4
    <3> HIDE DEF f
    <3>2. DOMAIN f = 1 .. n /\ f = [i \in 1 .. n |-> f[i]]
      BY DEF f
    <3> QED
      BY <3>1, <3>2
  <2>6. flat = Rule(flat)
    <3>1. \E h : h = Rule(h)
      BY <2>5
    <3> QED
      BY <3>1
  <2> HIDE DEF flat, f
  <2>7. \A i \in 1 .. n : flat[i] = IF i = 1 THEN ss[i] ELSE flat[i - 1] \o ss[i]
    <3>1. \A i \in 1 .. n : flat[i] = Rule(flat)[i]
      <4> HIDE DEF Rule
      <4> QED
        BY <2>6
    <3> QED
      BY <1>1, <3>1
  <2> DEFINE S == {m \in Nat : m \in 1 .. n => flat[m] \in Seq(D)}
  <2> HIDE DEF n
  <2>8. S = Nat
    <3>1. 0 \in S
      OBVIOUS
    <3>2. ASSUME NEW m \in S
          PROVE  m + 1 \in S
      <4>1. m + 1 \in Nat
        OBVIOUS
      <4>2. ASSUME m + 1 \in 1 .. n
            PROVE  flat[m + 1] \in Seq(D)
        <5>1. CASE m = 0
          BY <1>1, <2>7, <4>2, <5>1
        <5>2. CASE m # 0
          <6>1. m \in 1 .. n
            BY <1>1, <4>2, <5>2
          <6>2. flat[m] \in Seq(D)
            BY <6>1
          <6>3. flat[m + 1] = flat[m] \o ss[m + 1]
            <7> HIDE DEF S
            <7>1. m + 1 # 1 /\ (m + 1) - 1 = m
              BY <6>1
            <7> QED
              BY <2>7, <4>2, <7>1
          <6> QED
            BY <1>1, <4>2, <6>2, <6>3, ConcatProperties
        <5> QED
          BY <5>1, <5>2
      <4> QED
        BY <4>1, <4>2
    <3>3. S \in SUBSET Nat
      OBVIOUS
    <3> HIDE DEF S
    <3> QED
      BY <3>1, <3>2, <3>3, NatsBySuccessor
  <2>9. flat[n] \in Seq(D)
    <3>1. n \in S /\ n \in 1 .. n
      <4> HIDE DEF S
      <4> QED
        BY <1>1, <1>3, <2>8
    <3> QED
      BY <3>1
  <2>10. FlattenSeq(ss) = flat[n]
    BY <1>3 DEF FlattenSeq, flat, n
  <2> QED
    BY <2>9, <2>10
<1> QED
  BY <1>2, <1>3

-----------------------------------------------------------------------------
(* What files lead to. *)

\* Whatever a scenario's transitions lead to, it has.
Closed(sc) ==
  /\ sc.initial \in DOMAIN sc.states
  /\ \A n \in DOMAIN sc.states :
       LET st == sc.states[n]
       IN  /\ IsSeq(st.enter) /\ IsSeq(st.on)
           /\ \A i \in DOMAIN st.enter : ValidGoto(sc, st.enter[i].goto)
           /\ \A i \in DOMAIN st.on : ValidGoto(sc, st.on[i].goto)

\* And its actions their targets.
Targeted(sc) ==
  \A n \in DOMAIN sc.states : \A i \in DOMAIN sc.states[n].enter :
    sc.states[n].enter[i].target # None

LEMMA MergedSeqs ==
  ASSUME NEW files \in Files
  PROVE  /\ IsSeq(Merge(files).scenarios) /\ IsSeq(Merge(files).endpoints)
         /\ \A i \in DOMAIN Merge(files).scenarios :
              \E j \in DOMAIN files : Merge(files).scenarios[i] \in ToSet(files[j].scenarios)
<1> DEFINE n == Len(files)
           D == UNION {ToSet(files[i].scenarios) : i \in 1 .. n}
           E == UNION {ToSet(files[i].endpoints) : i \in 1 .. n}
           ds == [i \in 1 .. n |-> files[i].scenarios]
           es == [i \in 1 .. n |-> files[i].endpoints]
<1>1. /\ IsSeq(files) /\ \A i \in DOMAIN files :
           IsSeq(files[i].endpoints) /\ IsSeq(files[i].scenarios)
  BY FilesAssumption DEF AreFiles
<1>2. n \in Nat /\ DOMAIN files = 1 .. n
  BY <1>1, IsSeqFacts
<1>3. \A i \in 1 .. n : ds[i] \in Seq(D) /\ es[i] \in Seq(E)
  <2> SUFFICES ASSUME NEW i \in 1 .. n
               PROVE  files[i].scenarios \in Seq(D) /\ files[i].endpoints \in Seq(E)
    OBVIOUS
  <2>1. /\ files[i].scenarios \in Seq(ToSet(files[i].scenarios))
        /\ files[i].endpoints \in Seq(ToSet(files[i].endpoints))
    BY <1>1, <1>2 DEF IsSeq
  <2>2. ToSet(files[i].scenarios) \subseteq D /\ ToSet(files[i].endpoints) \subseteq E
    OBVIOUS
  <2> HIDE DEF D, E
  <2> QED
    BY <2>1, <2>2, SeqMonotonic
<1>4. ds \in Seq(Seq(D)) /\ es \in Seq(Seq(E))
  <2> HIDE DEF D, E, n
  <2>1. ds \in [1 .. n -> Seq(D)] /\ es \in [1 .. n -> Seq(E)]
    BY <1>3
  <2> HIDE DEF ds, es
  <2> QED
    BY <1>2, <2>1, SeqDef
<1>5. Merge(files).scenarios = FlattenSeq(ds) /\ Merge(files).endpoints = FlattenSeq(es)
  BY <1>2 DEF Merge
<1>6. FlattenSeq(ds) \in Seq(D) /\ FlattenSeq(es) \in Seq(E)
  <2> HIDE DEF D, E, ds, es
  <2> QED
    BY <1>4, FlattenedSeq
<1>7. \A d \in D : \E j \in DOMAIN files : d \in ToSet(files[j].scenarios)
  BY <1>2
<1> HIDE DEF D, E, ds, es, n
<1>8. IsSeq(FlattenSeq(ds)) /\ IsSeq(FlattenSeq(es))
  BY <1>6, SeqIsSeq
<1>9. \A i \in DOMAIN FlattenSeq(ds) : FlattenSeq(ds)[i] \in D
  BY <1>6, LenProperties
<1> QED
  BY <1>5, <1>7, <1>8, <1>9

\* Without a null in a list of states or actions.
WholeState(st) == IsState(st) /\ \A i \in DOMAIN st.enter : IsAction(st.enter[i])

Whole(s) ==
  /\ IsScenario(s)
  /\ \A n \in DOMAIN s.states : s.states[n] = None \/ WholeState(s.states[n])

\* A load that does not panic has met no null in a list.
LEMMA LoadedWhole ==
  ASSUME NEW files \in Files, Loads(files)
  PROVE  \A i \in DOMAIN Merge(files).scenarios : Whole(Merge(files).scenarios[i])
<1>1. /\ IsSeq(files)
      /\ \A j \in DOMAIN files : \A s \in ToSet(files[j].scenarios) :
           s = None \/ IsScenario(s)
  BY FilesAssumption DEF AreFiles, ToSet
<1>2. /\ Len(files) \in Nat /\ DOMAIN files = 1 .. Len(files)
  BY <1>1, IsSeqFacts
<1>3. /\ \A j \in DOMAIN files : Reads(files, j)
      /\ Reads(files, Len(files))
  BY <1>2 DEF Loads, Decodes, Reads
<1>4. ASSUME NEW j \in DOMAIN files, NEW s \in ToSet(files[j].scenarios)
      PROVE  Whole(s)
  <2>1. None \notin ToSet(files[j].endpoints) \cup ToSet(files[j].scenarios)
    BY <1>3 DEF Loads, Panics
  <2>2. \A n \in DOMAIN s.states : ~NullInState(s.states[n])
    BY <1>3 DEF Loads, Panics
  <2>3. IsScenario(s)
    BY <1>1, <2>1
  <2>4. ASSUME NEW n \in DOMAIN s.states, s.states[n] # None
        PROVE  WholeState(s.states[n])
    <3>1. IsState(s.states[n])
      BY <2>3, <2>4 DEF IsScenario
    <3>2. \A i \in DOMAIN s.states[n].enter : s.states[n].enter[i] # None
      BY <2>2, <2>4 DEF NullInState, ToSet
    <3> QED
      BY <3>1, <3>2 DEF WholeState, IsState
  <2> QED
    BY <2>3, <2>4 DEF Whole
<1> QED
  BY <1>4, MergedSeqs

\* What validation makes sure of.
LEMMA ValidClosed ==
  ASSUME NEW c, NEW s, Whole(s), ValidScenario(c, s)
  PROVE  /\ Closed(s)
         /\ \A n \in DOMAIN s.states :
              /\ WholeState(s.states[n])
              /\ \A i \in DOMAIN s.states[n].enter :
                   s.states[n].enter[i].target \in DOMAIN c.targets
<1>1. \A n \in DOMAIN s.states : s.states[n] # None /\ WholeState(s.states[n])
  BY DEF ValidScenario, Whole
<1> QED
  BY <1>1 DEF ValidScenario, ValidAction, ValidRule, WholeState, IsState, Closed

\* What compiling a state changes.
LEMMA CompiledState ==
  ASSUME NEW c, NEW st, WholeState(st)
  PROVE  LET new == CompileState(c, st)
         IN  /\ new.on = st.on /\ IsSeq(new.enter)
             /\ DOMAIN new.enter = DOMAIN st.enter
             /\ \A i \in DOMAIN st.enter :
                  /\ new.enter[i].goto = st.enter[i].goto
                  /\ new.enter[i].target = c.targets[st.enter[i].target]
<1> DEFINE new == CompileState(c, st)
           a(i) == [st.enter[i] EXCEPT !.target = c.targets[@]]
<1>1. /\ st = [enter |-> st.enter, on |-> st.on]
      /\ Len(st.enter) \in Nat /\ DOMAIN st.enter = 1 .. Len(st.enter)
  BY IsSeqFacts DEF WholeState, IsState
<1>2. new = [enter |-> [i \in DOMAIN st.enter |-> a(i)], on |-> st.on]
  BY <1>1 DEF CompileState
<1>3. ASSUME NEW i \in DOMAIN st.enter
      PROVE  a(i).goto = st.enter[i].goto /\ a(i).target = c.targets[st.enter[i].target]
  <2>1. IsAction(st.enter[i])
    BY DEF WholeState
  <2> QED
    BY <2>1 DEF IsAction
<1> HIDE DEF new, a
<1>4. new.on = st.on /\ new.enter = [i \in DOMAIN st.enter |-> a(i)]
  BY <1>2
<1>5. new.enter \in Seq({a(i) : i \in DOMAIN st.enter})
  BY <1>1, <1>4, SeqDef
<1>6. IsSeq(new.enter)
  BY <1>5, SeqIsSeq
<1> QED
  BY <1>3, <1>4, <1>6 DEF new

LEMMA CompiledConfig ==
  ASSUME NEW files \in Files, Loads(files)
  PROVE  LET c == Merge(files)
             p == Compile(c)
         IN  /\ p.limits = c.limits /\ p.targets = c.targets
             /\ p.header = c.header /\ p.endpoints = c.endpoints
             /\ DOMAIN p.scenarios = DOMAIN c.scenarios /\ IsSeq(p.scenarios)
             /\ \A i \in DOMAIN c.scenarios :
                  /\ p.scenarios[i].initial = c.scenarios[i].initial
                  /\ p.scenarios[i].states =
                       [n \in DOMAIN c.scenarios[i].states |->
                          CompileState(c, c.scenarios[i].states[n])]
<1> DEFINE c == Merge(files)
           p == Compile(c)
           s(i) == [c.scenarios[i] EXCEPT !.states =
                      [n \in DOMAIN @ |-> CompileState(c, @[n])]]
<1>1. c = [header |-> c.header, limits |-> c.limits, targets |-> c.targets,
           endpoints |-> c.endpoints, scenarios |-> c.scenarios]
  BY DEF Merge
<1>2. IsSeq(c.scenarios) /\ \A i \in DOMAIN c.scenarios : IsScenario(c.scenarios[i])
  BY MergedSeqs, LoadedWhole DEF Whole
<1> HIDE DEF c
<1>3. p = [header |-> c.header, limits |-> c.limits, targets |-> c.targets,
           endpoints |-> c.endpoints, scenarios |-> [i \in DOMAIN c.scenarios |-> s(i)]]
  BY <1>1 DEF Compile
<1>4. ASSUME NEW i \in DOMAIN c.scenarios
      PROVE  /\ s(i).initial = c.scenarios[i].initial
             /\ s(i).states = [n \in DOMAIN c.scenarios[i].states |->
                                 CompileState(c, c.scenarios[i].states[n])]
  BY <1>2 DEF IsScenario
<1> HIDE DEF s, p
<1>5. p.scenarios = [i \in DOMAIN c.scenarios |-> s(i)]
  BY <1>3
<1>6. IsSeq(p.scenarios)
  <2>1. Len(c.scenarios) \in Nat /\ DOMAIN c.scenarios = 1 .. Len(c.scenarios)
    BY <1>2, IsSeqFacts
  <2>2. p.scenarios \in Seq({s(i) : i \in DOMAIN c.scenarios})
    BY <1>5, <2>1, SeqDef
  <2> QED
    BY <2>2, SeqIsSeq
<1>7. /\ p.limits = c.limits /\ p.targets = c.targets /\ p.header = c.header
      /\ p.endpoints = c.endpoints
  BY <1>3
<1> QED
  BY <1>4, <1>5, <1>6, <1>7 DEF c, p

LEMMA MergedTargets ==
  ASSUME NEW files \in Files
  PROVE  LET c == Merge(files)
         IN  /\ DOMAIN c.limits = DOMAIN files[1].limits
             /\ "pending" \in DOMAIN c.limits
             /\ \A l \in DOMAIN c.limits :
                  c.limits[l] \in Int /\ (c.limits[l] >= 0 => c.limits[l] >= 1)
<1> DEFINE given == files[1].limits
<1>1. /\ "pending" \in DOMAIN given
      /\ \A l \in DOMAIN given : given[l] \in Int
  BY FilesAssumption DEF AreFiles
<1>2. Merge(files).limits = [l \in DOMAIN given |-> Defaulted(given[l])]
  BY DEF Merge
<1>3. DefaultLimit \in Int /\ DefaultLimit >= 1
  <2>1. HardMaxPending \in Nat \ {0} /\ DefaultLimit \in 1 .. HardMaxPending
    BY LoadingAssumption, Zenon
  <2> QED
    BY <2>1
<1>4. \A m \in Int : Defaulted(m) \in Int /\ (Defaulted(m) >= 0 => Defaulted(m) >= 1)
  BY <1>3 DEF Defaulted
<1> HIDE DEF given
<1> QED
  BY <1>1, <1>2, <1>4 DEF given

\* What there is of a snapshot once its files were valid.
LEMMA SnapshotFacts ==
  ASSUME NEW p \in Snapshots
  PROVE  /\ IsSeq(p.scenarios) /\ IsSeq(p.endpoints)
         /\ \A i \in DOMAIN p.scenarios : p.scenarios[i] \in Scenarios
         /\ \A l \in DOMAIN p.limits : p.limits[l] >= 1
         /\ p.limits.pending <= HardMaxPending
         /\ \A t \in DOMAIN p.targets : p.targets[t].attempts >= 1
<1>1. PICK files \in Files : Loads(files) /\ p = Compile(Merge(files))
  BY DEF Snapshots
<1> DEFINE c == Merge(files)
<1>2. /\ p.limits = c.limits /\ p.targets = c.targets /\ p.endpoints = c.endpoints
      /\ IsSeq(p.scenarios)
  BY <1>1, CompiledConfig
<1>3. IsSeq(c.endpoints)
  BY MergedSeqs
<1>4. /\ "pending" \in DOMAIN c.limits
      /\ \A l \in DOMAIN c.limits : c.limits[l] \in Int /\ (c.limits[l] >= 0 => c.limits[l] >= 1)
  BY MergedTargets
<1>5. /\ \A t \in DOMAIN c.targets : ValidTarget(c.targets[t])
      /\ ValidLimits(c.limits)
  BY <1>1 DEF Loads, Valid
<1>6. \A i \in DOMAIN p.scenarios : p.scenarios[i] \in Scenarios
  BY DEF Scenarios, ToSet
<1> HIDE DEF c
<1> QED
  BY <1>2, <1>3, <1>4, <1>5, <1>6 DEF ValidLimits, ValidTarget

LEMMA ScenarioFacts ==
  ASSUME NEW sc \in Scenarios
  PROVE  Closed(sc) /\ Targeted(sc)
<1>1. PICK p \in Snapshots : sc \in ToSet(p.scenarios)
  BY DEF Scenarios
<1>2. PICK files \in Files : Loads(files) /\ p = Compile(Merge(files))
  BY DEF Snapshots
<1>3. PICK i \in DOMAIN p.scenarios : sc = p.scenarios[i]
  BY <1>1 DEF ToSet
<1> DEFINE c == Merge(files)
           s == c.scenarios[i]
<1>4. /\ i \in DOMAIN c.scenarios /\ sc.initial = s.initial
      /\ sc.states = [n \in DOMAIN s.states |-> CompileState(c, s.states[n])]
  BY <1>2, <1>3, CompiledConfig
<1>5. Whole(s) /\ ValidScenario(c, s)
  BY <1>2, <1>4, LoadedWhole DEF Loads, Valid
<1>6. \A t \in DOMAIN c.targets : c.targets[t] # None
  BY <1>2 DEF Loads, Valid, ValidTarget
<1> HIDE DEF c, s
<1>7. /\ Closed(s)
      /\ \A n \in DOMAIN s.states :
           /\ WholeState(s.states[n])
           /\ \A j \in DOMAIN s.states[n].enter :
                s.states[n].enter[j].target \in DOMAIN c.targets
  BY <1>5, ValidClosed
<1>8. ASSUME NEW n \in DOMAIN s.states
      PROVE  LET st == s.states[n]
                 new == sc.states[n]
             IN  /\ new.on = st.on /\ IsSeq(new.enter)
                 /\ DOMAIN new.enter = DOMAIN st.enter
                 /\ \A j \in DOMAIN st.enter :
                      /\ new.enter[j].goto = st.enter[j].goto
                      /\ new.enter[j].target = c.targets[st.enter[j].target]
  <2>1. sc.states[n] = CompileState(c, s.states[n]) /\ WholeState(s.states[n])
    BY <1>4, <1>7
  <2> QED
    BY <2>1, CompiledState
<1>9. DOMAIN sc.states = DOMAIN s.states
  BY <1>4
<1>10. Closed(sc)
  <2>1. \A g : ValidGoto(s, g) <=> ValidGoto(sc, g)
    BY <1>9 DEF ValidGoto
  <2>2. sc.initial \in DOMAIN sc.states
    BY <1>4, <1>7, <1>9 DEF Closed
  <2>3. ASSUME NEW n \in DOMAIN sc.states
        PROVE  LET st == sc.states[n]
               IN  /\ IsSeq(st.enter) /\ IsSeq(st.on)
                   /\ \A j \in DOMAIN st.enter : ValidGoto(sc, st.enter[j].goto)
                   /\ \A j \in DOMAIN st.on : ValidGoto(sc, st.on[j].goto)
    <3>1. n \in DOMAIN s.states
      BY <1>9
    <3>2. /\ IsSeq(s.states[n].on)
          /\ \A j \in DOMAIN s.states[n].enter : ValidGoto(s, s.states[n].enter[j].goto)
          /\ \A j \in DOMAIN s.states[n].on : ValidGoto(s, s.states[n].on[j].goto)
      BY <1>7, <3>1 DEF Closed
    <3>3. /\ sc.states[n].on = s.states[n].on /\ IsSeq(sc.states[n].enter)
          /\ DOMAIN sc.states[n].enter = DOMAIN s.states[n].enter
          /\ \A j \in DOMAIN s.states[n].enter :
               sc.states[n].enter[j].goto = s.states[n].enter[j].goto
      BY <1>8, <3>1
    <3> QED
      BY <2>1, <3>2, <3>3
  <2> QED
    BY <2>2, <2>3 DEF Closed
<1>11. Targeted(sc)
  BY <1>6, <1>7, <1>8, <1>9 DEF Targeted
<1> QED
  BY <1>10, <1>11

\* The search follows the gotos of a state, and they lead to states.
LEMMA GotosInside ==
  ASSUME NEW sc, Closed(sc), NEW n \in DOMAIN sc.states
  PROVE  /\ GotosOf(sc.states[n]) \in Seq(DOMAIN sc.states)
         /\ IsSeq(GotosOf(sc.states[n]))
<1> DEFINE st == sc.states[n]
           N == DOMAIN sc.states
           D == N \cup {Empty}
<1>1. /\ IsSeq(st.enter) /\ IsSeq(st.on)
      /\ \A i \in DOMAIN st.enter : st.enter[i].goto \in D
      /\ \A i \in DOMAIN st.on : st.on[i].goto \in D
  BY DEF Closed, ValidGoto
<1> HIDE DEF D, st
<1>2. EnterGotos(st) \in Seq(D) /\ RuleGotos(st) \in Seq(D)
  <2>1. /\ Len(st.enter) \in Nat /\ DOMAIN st.enter = 1 .. Len(st.enter)
        /\ Len(st.on) \in Nat /\ DOMAIN st.on = 1 .. Len(st.on)
    BY <1>1, IsSeqFacts
  <2>2. /\ EnterGotos(st) \in [1 .. Len(st.enter) -> D]
        /\ RuleGotos(st) \in [1 .. Len(st.on) -> D]
    BY <1>1, <2>1 DEF EnterGotos, RuleGotos
  <2> QED
    BY <2>1, <2>2, SeqDef
<1>3. EnterGotos(st) \o RuleGotos(st) \in Seq(D)
  BY <1>2, ConcatProperties
<1>4. /\ GotosOf(st) \in Seq(D)
      /\ ToSet(GotosOf(st)) = ToSet(EnterGotos(st) \o RuleGotos(st)) \ {Empty}
  BY <1>3, WithoutOf DEF GotosOf
<1>5. IsSeq(GotosOf(st))
  BY <1>4, SeqIsSeq
<1>6. \A i \in DOMAIN GotosOf(st) : GotosOf(st)[i] \in N
  <2>1. \A i \in DOMAIN GotosOf(st) : GotosOf(st)[i] \in D
    BY <1>4, LenProperties
  <2>2. \A i \in DOMAIN GotosOf(st) : GotosOf(st)[i] # Empty
    BY <1>4 DEF ToSet
  <2> QED
    BY <2>1, <2>2 DEF D
<1> QED
  BY <1>5, <1>6, IsSeqFacts DEF st

-----------------------------------------------------------------------------
(* Loads. *)

Configs == {Merge(f) : f \in {g \in Files : Loads(g)}}

Unreachable(s) == {<<s.id, n>> : n \in DOMAIN s.states \ Reachable(s)}

\* m scenarios have been searched and warned about.
Walked(m) ==
  /\ m \in 0 .. Len(cfg.scenarios)
  /\ IsSeq(todo) /\ Len(todo) = Len(cfg.scenarios) - m
  /\ \A i \in 1 .. Len(todo) : todo[i] = cfg.scenarios[m + i]
  /\ warned = UNION {Unreachable(cfg.scenarios[i]) : i \in 1 .. m}

\* The search of a scenario has met reachable states only, and what a visited
\* state leads to is visited or queued.
Search(sc) ==
  /\ queue \in Seq(Reachable(sc)) /\ visited \subseteq Reachable(sc)
  /\ sc.initial \in visited \cup ToSet(queue)
  /\ \A n \in visited : ToSet(GotosOf(sc.states[n])) \subseteq visited \cup ToSet(queue)

LoadInv ==
  /\ stage \in {"idle", "walking", "rejected", "accepted", "panicked"}
  /\ stage \in {"walking", "accepted"} => cfg \in Configs
  /\ warned # {} => cfg \in Configs
  /\ stage # "walking" => todo = <<>>
  /\ todo = <<>> => queue = <<>> /\ visited = {}
  /\ todo # <<>> => Search(Head(todo))
  /\ stage \in {"walking", "accepted"} =>
       \E m \in 0 .. Len(cfg.scenarios) : Walked(m)

LEMMA ConfigFacts ==
  ASSUME NEW c \in Configs
  PROVE  /\ Compile(c) \in Snapshots /\ c # None
         /\ IsSeq(c.scenarios) /\ \A i \in DOMAIN c.scenarios : Closed(c.scenarios[i])
<1>1. PICK files \in Files : Loads(files) /\ c = Merge(files)
  BY DEF Configs
<1>2. Compile(c) \in Snapshots
  BY <1>1 DEF Snapshots
<1>3. IsSeq(c.scenarios) /\ \A i \in DOMAIN c.scenarios : Whole(c.scenarios[i])
  BY <1>1, MergedSeqs, LoadedWhole
<1>4. \A i \in DOMAIN c.scenarios : ValidScenario(c, c.scenarios[i])
  BY <1>1 DEF Loads, Valid
<1>5. \A i \in DOMAIN c.scenarios : Closed(c.scenarios[i])
  BY <1>3, <1>4, ValidClosed
<1>6. c # None
  BY <1>1, FilesAssumption
<1> QED
  BY <1>2, <1>3, <1>5, <1>6

\* Taking the head of a queue and appending to it.
LEMMA QueueFacts ==
  ASSUME NEW D, NEW q \in Seq(D), q # <<>>, NEW r \in Seq(D)
  PROVE  /\ Tail(q) \o r \in Seq(D) /\ Head(q) \in D
         /\ ToSet(q) = {Head(q)} \cup ToSet(Tail(q))
         /\ ToSet(Tail(q) \o r) = ToSet(Tail(q)) \cup ToSet(r)
<1>1. /\ Head(q) = q[1] /\ Head(q) \in D /\ Tail(q) \in Seq(D)
      /\ Len(Tail(q)) = Len(q) - 1 /\ Len(q) \in Nat /\ Len(q) > 0
      /\ \A i \in 1 .. Len(Tail(q)) : Tail(q)[i] = q[i + 1]
  BY HeadTailProperties, LenProperties, EmptySeq
<1> DEFINE t == Tail(q)
           u == t \o r
<1>2. /\ u \in Seq(D) /\ Len(u) = Len(t) + Len(r)
      /\ \A i \in 1 .. Len(t) + Len(r) : u[i] = IF i <= Len(t) THEN t[i] ELSE r[i - Len(t)]
  BY <1>1, ConcatProperties
<1>3. /\ DOMAIN q = 1 .. Len(q) /\ DOMAIN t = 1 .. Len(t) /\ DOMAIN r = 1 .. Len(r)
      /\ DOMAIN u = 1 .. Len(u) /\ Len(t) \in Nat /\ Len(r) \in Nat
  BY <1>1, <1>2, LenProperties
<1> HIDE DEF t, u
<1>4. ToSet(q) = {Head(q)} \cup ToSet(t)
  <2>1. ASSUME NEW i \in 1 .. Len(q)
        PROVE  q[i] \in {Head(q)} \cup ToSet(t)
    <3>1. CASE i = 1
      BY <1>1, <3>1
    <3>2. CASE i # 1
      <4>1. i - 1 \in 1 .. Len(t) /\ t[i - 1] = q[i]
        BY <1>1, <3>2 DEF t
      <4> QED
        BY <1>3, <4>1 DEF ToSet
    <3> QED
      BY <3>1, <3>2
  <2>2. ASSUME NEW i \in 1 .. Len(t)
        PROVE  t[i] \in ToSet(q)
    <3>1. i + 1 \in 1 .. Len(q) /\ t[i] = q[i + 1]
      BY <1>1 DEF t
    <3> QED
      BY <1>3, <3>1 DEF ToSet
  <2>3. Head(q) \in ToSet(q)
    BY <1>1, <1>3 DEF ToSet
  <2> QED
    BY <1>3, <2>1, <2>2, <2>3 DEF ToSet
<1>5. ToSet(u) = ToSet(t) \cup ToSet(r)
  <2>1. ASSUME NEW i \in 1 .. Len(u)
        PROVE  u[i] \in ToSet(t) \cup ToSet(r)
    <3>1. CASE i <= Len(t)
      <4>1. i \in 1 .. Len(t) /\ u[i] = t[i]
        BY <1>2, <1>3, <3>1
      <4> QED
        BY <1>3, <4>1 DEF ToSet
    <3>2. CASE ~(i <= Len(t))
      <4>1. i - Len(t) \in 1 .. Len(r) /\ u[i] = r[i - Len(t)]
        BY <1>2, <1>3, <3>2
      <4> QED
        BY <1>3, <4>1 DEF ToSet
    <3> QED
      BY <3>1, <3>2
  <2>2. \A i \in 1 .. Len(t) : t[i] \in ToSet(u)
    BY <1>2, <1>3 DEF ToSet
  <2>3. ASSUME NEW i \in 1 .. Len(r)
        PROVE  r[i] \in ToSet(u)
    <3> DEFINE j == Len(t) + i
    <3>1. j \in 1 .. Len(u) /\ ~(j <= Len(t)) /\ j - Len(t) = i
      BY <1>2, <1>3
    <3> HIDE DEF j
    <3>2. u[j] = r[i]
      BY <1>2, <3>1
    <3> QED
      BY <1>3, <3>1, <3>2 DEF ToSet
  <2> QED
    BY <1>3, <2>1, <2>2, <2>3 DEF ToSet
<1> QED
  BY <1>1, <1>2, <1>4, <1>5 DEF t, u

\* What a reachable state leads to is reachable.
LEMMA ReachableOnwards ==
  ASSUME NEW sc, Closed(sc)
  PROVE  /\ Reachable(sc) \subseteq DOMAIN sc.states /\ sc.initial \in Reachable(sc)
         /\ \A n \in Reachable(sc) :
              /\ GotosOf(sc.states[n]) \in Seq(Reachable(sc))
              /\ ToSet(GotosOf(sc.states[n])) \subseteq Reachable(sc)
<1>1. Reachable(sc) \subseteq DOMAIN sc.states /\ sc.initial \in Reachable(sc)
  BY DEF Reachable, Closed
<1>2. ASSUME NEW n \in Reachable(sc)
      PROVE  \A i \in DOMAIN GotosOf(sc.states[n]) : GotosOf(sc.states[n])[i] \in Reachable(sc)
  <2>1. \A i \in DOMAIN GotosOf(sc.states[n]) : GotosOf(sc.states[n])[i] \in DOMAIN sc.states
    BY <1>1, GotosInside, LenProperties
  <2> QED
    BY <2>1 DEF Reachable
<1>3. \A n \in Reachable(sc) : IsSeq(GotosOf(sc.states[n]))
  BY <1>1, GotosInside
<1>4. \A n \in Reachable(sc) : GotosOf(sc.states[n]) \in Seq(Reachable(sc))
  BY <1>2, <1>3, IsSeqFacts
<1> QED
  BY <1>1, <1>2, <1>4 DEF ToSet

\* A search that has ended has visited what is reachable.
LEMMA SearchExact ==
  ASSUME NEW sc, Closed(sc), Search(sc), queue = <<>>
  PROVE  visited = Reachable(sc)
<1>1. ToSet(queue) = {}
  BY EmptySeq DEF ToSet
<1>2. visited \in SUBSET DOMAIN sc.states /\ sc.initial \in visited
  BY <1>1, ReachableOnwards DEF Search
<1>3. \A n \in visited : \A i \in DOMAIN GotosOf(sc.states[n]) :
        GotosOf(sc.states[n])[i] \in visited
  BY <1>1 DEF Search, ToSet
<1>4. Reachable(sc) \subseteq visited
  BY <1>2, <1>3 DEF Reachable
<1> QED
  BY <1>4 DEF Search

\* The search begins with the initial state of the first scenario.
LEMMA SearchStarts ==
  ASSUME NEW scenarios, IsSeq(scenarios), Start(scenarios),
         \A i \in DOMAIN scenarios : Closed(scenarios[i])
  PROVE  /\ todo' = <<>> => queue' = <<>> /\ visited' = {}
         /\ todo' # <<>> => Search(Head(todo))'
<1>1. todo' = scenarios /\ visited' = {}
  BY DEF Start
<1>2. CASE scenarios = <<>>
  BY <1>1, <1>2 DEF Start
<1>3. CASE scenarios # <<>>
  <2> DEFINE sc == Head(scenarios)
             init == sc.initial
  <2>1. queue' = <<init>>
    BY <1>3 DEF Start
  <2>2. Closed(sc)
    <3>1. scenarios \in Seq(ToSet(scenarios))
      BY DEF IsSeq
    <3>2. Len(scenarios) \in Nat /\ Len(scenarios) # 0
          /\ DOMAIN scenarios = 1 .. Len(scenarios) /\ sc = scenarios[1]
      BY <1>3, <3>1, EmptySeq, HeadTailProperties, LenProperties
    <3> HIDE DEF sc
    <3> QED
      BY <3>2
  <2> HIDE DEF sc
  <2>3. init \in Reachable(sc)
    BY <2>2, ReachableOnwards
  <2> HIDE DEF init
  <2>4. queue' \in Seq(Reachable(sc)) /\ init \in ToSet(queue')
    BY <2>1, <2>3 DEF ToSet
  <2>5. /\ queue' \in Seq(Reachable(sc)) /\ visited' \subseteq Reachable(sc)
        /\ sc.initial \in visited' \cup ToSet(queue')
        /\ \A n \in visited' : ToSet(GotosOf(sc.states[n])) \subseteq visited' \cup ToSet(queue')
    BY <1>1, <2>3, <2>4 DEF init
  <2> QED
    BY <1>1, <1>3, <2>5 DEF Search, sc
<1> QED
  BY <1>2, <1>3

LEMMA LoadBegins ==
  ASSUME NEW files \in Files, BeginLoad(files)
  PROVE  LoadInv'
<1>1. CASE Loads(files)
  <2> DEFINE c == Merge(files)
  <2>1. /\ stage' = "walking" /\ cfg' = c /\ warned' = {} /\ Start(c.scenarios)
    BY <1>1 DEF BeginLoad
  <2>2. c \in Configs
    BY <1>1 DEF Configs
  <2> HIDE DEF c
  <2>3. IsSeq(c.scenarios) /\ \A i \in DOMAIN c.scenarios : Closed(c.scenarios[i])
    BY <2>2, ConfigFacts
  <2>4. /\ todo' = <<>> => queue' = <<>> /\ visited' = {}
        /\ todo' # <<>> => Search(Head(todo))'
    BY <2>1, <2>3, SearchStarts
  <2>5. Walked(0)'
    <3>1. todo' = c.scenarios /\ Len(c.scenarios) \in Nat
      BY <2>1, <2>3, IsSeqFacts DEF Start
    <3> QED
      BY <2>1, <2>3, <3>1 DEF Walked
  <2>6. 0 \in 0 .. Len(cfg'.scenarios)
    BY <2>1, <2>3, IsSeqFacts
  <2> QED
    BY <2>1, <2>2, <2>4, <2>5, <2>6 DEF LoadInv
<1>2. CASE ~Loads(files)
  <2>1. /\ stage' \in {"rejected", "panicked"} /\ warned' = {} /\ todo' = <<>>
        /\ queue' = <<>> /\ visited' = {}
    BY <1>2 DEF BeginLoad
  <2> QED
    BY <2>1 DEF LoadInv
<1> QED
  BY <1>1, <1>2

\* What is left to search are scenarios of the config.
LEMMA TodoClosed ==
  ASSUME LoadInv, todo # <<>>
  PROVE  /\ stage = "walking" /\ cfg \in Configs /\ IsSeq(todo)
         /\ Len(todo) \in Nat \ {0} /\ DOMAIN todo = 1 .. Len(todo) /\ Head(todo) = todo[1]
         /\ \A i \in DOMAIN todo : Closed(todo[i])
<1>1. stage = "walking" /\ cfg \in Configs
  BY DEF LoadInv
<1>2. PICK m \in 0 .. Len(cfg.scenarios) : Walked(m)
  BY <1>1 DEF LoadInv
<1>3. /\ Len(cfg.scenarios) \in Nat /\ DOMAIN cfg.scenarios = 1 .. Len(cfg.scenarios)
      /\ \A i \in DOMAIN cfg.scenarios : Closed(cfg.scenarios[i])
  BY <1>1, ConfigFacts, IsSeqFacts
<1>4. IsSeq(todo) /\ Len(todo) = Len(cfg.scenarios) - m
  BY <1>2 DEF Walked
<1>5. /\ Len(todo) \in Nat \ {0} /\ DOMAIN todo = 1 .. Len(todo) /\ Head(todo) = todo[1]
  <2>1. todo \in Seq(ToSet(todo))
    BY <1>4 DEF IsSeq
  <2> QED
    BY <2>1, EmptySeq, LenProperties, HeadTailProperties
<1>6. \A i \in 1 .. Len(todo) : todo[i] = cfg.scenarios[m + i] /\ m + i \in DOMAIN cfg.scenarios
  BY <1>2, <1>3, <1>4, <1>5 DEF Walked
<1> QED
  BY <1>1, <1>3, <1>4, <1>5, <1>6

LEMMA WalkStep ==
  ASSUME LoadInv, WalkState
  PROVE  LoadInv'
<1>1. stage = "walking" /\ queue # <<>> /\ todo # <<>>
  BY DEF WalkState, LoadInv
<1> DEFINE sc == Head(todo)
           n == Head(queue)
           D == Reachable(sc)
           gotos == GotosOf(sc.states[n])
           next == Without(gotos, visited \cup {n})
           new == IF n \in visited THEN <<>> ELSE next
<1>2. Closed(sc)
  BY <1>1, TodoClosed
<1>3. Search(sc)
  BY <1>1 DEF LoadInv
<1> HIDE DEF sc
<1>4. /\ D \subseteq DOMAIN sc.states
      /\ \A x \in D : /\ GotosOf(sc.states[x]) \in Seq(D)
                      /\ ToSet(GotosOf(sc.states[x])) \subseteq D
  BY <1>2, ReachableOnwards
<1>5. queue \in Seq(D) /\ visited \subseteq D
  BY <1>3 DEF Search
<1> HIDE DEF D
<1>6. n \in D /\ gotos \in Seq(D)
  BY <1>1, <1>4, <1>5, QueueFacts, EmptySeq
<1>7. next \in Seq(D) /\ ToSet(next) = ToSet(gotos) \ (visited \cup {n})
  <2> HIDE DEF gotos, n
  <2> QED
    BY <1>6, WithoutOf
<1>8. /\ queue' = Tail(queue) \o new /\ visited' = visited \cup {n}
      /\ UNCHANGED <<stage, cfg, todo, warned>>
  <2>1. n \in DOMAIN Head(todo).states
    BY <1>4, <1>6 DEF sc
  <2> QED
    BY <2>1 DEF WalkState, Rest, Successors, sc
<1>9. new \in Seq(D) /\ (n \notin visited => ToSet(new) = ToSet(gotos) \ (visited \cup {n}))
  <2> HIDE DEF next, n, gotos
  <2> QED
    BY <1>7, EmptySeq
<1>10. /\ queue' \in Seq(D)
       /\ ToSet(queue) = {n} \cup ToSet(Tail(queue))
       /\ ToSet(queue') = ToSet(Tail(queue)) \cup ToSet(new)
  <2> HIDE DEF new
  <2> QED
    BY <1>1, <1>5, <1>8, <1>9, QueueFacts
<1>11. visited' \subseteq D
  BY <1>5, <1>6, <1>8
<1>12. visited \cup ToSet(queue) \subseteq visited' \cup ToSet(queue')
  <2> HIDE DEF n, new
  <2> QED
    BY <1>8, <1>10
<1>13. ASSUME NEW x \in visited'
       PROVE  ToSet(GotosOf(sc.states[x])) \subseteq visited' \cup ToSet(queue')
  <2>1. CASE x \in visited
    BY <1>3, <1>12, <2>1 DEF Search
  <2>2. CASE x \notin visited
    <3>1. x = n
      BY <1>8, <2>2
    <3>2. ToSet(gotos) \subseteq visited' \cup ToSet(queue')
      <4> HIDE DEF new, gotos, n
      <4> QED
        BY <1>8, <1>9, <1>10, <2>2, <3>1
    <3> QED
      BY <3>1, <3>2
  <2> QED
    BY <2>1, <2>2
<1>14. Search(sc)'
  BY <1>3, <1>8, <1>10, <1>11, <1>12, <1>13 DEF Search, D, sc
<1> HIDE DEF n, new, D
<1>15. UNCHANGED <<stage, cfg, todo, warned>>
  BY <1>8
<1>16. /\ stage' \in {"idle", "walking", "rejected", "accepted", "panicked"}
       /\ stage' \in {"walking", "accepted"} => cfg' \in Configs
       /\ warned' # {} => cfg' \in Configs
       /\ stage' # "walking" => todo' = <<>>
       /\ stage' \in {"walking", "accepted"} =>
            \E m \in 0 .. Len(cfg'.scenarios) : Walked(m)'
  <2>1. \A m : Walked(m)' <=> Walked(m)
    BY <1>15 DEF Walked
  <2> QED
    BY <1>15, <2>1 DEF LoadInv
<1> QED
  BY <1>1, <1>14, <1>15, <1>16 DEF LoadInv, sc

LEMMA WalkedStep ==
  ASSUME LoadInv, WalkedScenario
  PROVE  LoadInv'
<1> DEFINE sc == Head(todo)
<1>1. /\ stage = "walking" /\ queue = <<>> /\ todo # <<>>
      /\ warned' = warned \cup {<<sc.id, n>> : n \in DOMAIN sc.states \ visited}
      /\ Start(Tail(todo)) /\ UNCHANGED <<stage, cfg>>
  BY DEF WalkedScenario
<1>2. /\ cfg \in Configs /\ IsSeq(todo) /\ Len(todo) \in Nat \ {0}
      /\ DOMAIN todo = 1 .. Len(todo) /\ sc = todo[1]
      /\ \A i \in DOMAIN todo : Closed(todo[i])
  BY <1>1, TodoClosed
<1>3. PICK m \in 0 .. Len(cfg.scenarios) : Walked(m)
  BY <1>1 DEF LoadInv
<1>4. visited = Reachable(sc)
  <2>1. Closed(sc) /\ Search(sc)
    BY <1>1, <1>2 DEF LoadInv
  <2> HIDE DEF sc
  <2> QED
    BY <1>1, <2>1, SearchExact
<1>5. /\ m \in Nat /\ Len(cfg.scenarios) \in Nat /\ Len(todo) = Len(cfg.scenarios) - m
      /\ \A i \in 1 .. Len(todo) : todo[i] = cfg.scenarios[m + i]
      /\ warned = UNION {Unreachable(cfg.scenarios[i]) : i \in 1 .. m}
  BY <1>2, <1>3, ConfigFacts, IsSeqFacts DEF Walked
<1> DEFINE t == Tail(todo)
<1>6. /\ IsSeq(t) /\ Len(t) = Len(todo) - 1 /\ DOMAIN t = 1 .. Len(t)
      /\ \A i \in 1 .. Len(t) : t[i] = todo[i + 1]
  <2>1. todo \in Seq(ToSet(todo))
    BY <1>2 DEF IsSeq
  <2>2. /\ t \in Seq(ToSet(todo)) /\ Len(t) = Len(todo) - 1
        /\ \A i \in 1 .. Len(t) : t[i] = todo[i + 1]
    BY <1>1, <2>1, HeadTailProperties
  <2> HIDE DEF t
  <2> QED
    BY <2>2, SeqIsSeq, LenProperties
<1>7. todo' = t
  BY <1>1 DEF Start
<1> HIDE DEF t, sc
<1>8. \A i \in DOMAIN t : Closed(t[i])
  BY <1>2, <1>6
<1>9. /\ todo' = <<>> => queue' = <<>> /\ visited' = {}
      /\ todo' # <<>> => Search(Head(todo))'
  <2>1. Start(t)
    BY <1>1 DEF t
  <2> QED
    BY <1>6, <1>8, <2>1, SearchStarts
<1>10. m + 1 \in 0 .. Len(cfg.scenarios) /\ sc = cfg.scenarios[m + 1]
  BY <1>2, <1>5
<1>11. warned' = UNION {Unreachable(cfg.scenarios[i]) : i \in 1 .. m + 1}
  <2>1. warned' = warned \cup Unreachable(cfg.scenarios[m + 1])
    BY <1>1, <1>4, <1>10 DEF Unreachable
  <2>2. 1 .. m + 1 = 1 .. m \cup {m + 1}
    BY <1>5
  <2> QED
    BY <1>5, <2>1, <2>2
<1>12. \A i \in 1 .. Len(t) : t[i] = cfg.scenarios[m + 1 + i]
  <2> SUFFICES ASSUME NEW i \in 1 .. Len(t)
               PROVE  t[i] = cfg.scenarios[m + 1 + i]
    OBVIOUS
  <2>1. i + 1 \in 1 .. Len(todo) /\ m + (i + 1) = m + 1 + i
    BY <1>2, <1>5, <1>6
  <2>2. t[i] = todo[i + 1]
    BY <1>6
  <2> QED
    BY <1>5, <2>1, <2>2
<1>13. Walked(m + 1)'
  <2>1. Len(t) = Len(cfg.scenarios) - (m + 1)
    BY <1>2, <1>5, <1>6
  <2>2. cfg' = cfg
    BY <1>1
  <2> QED
    BY <1>6, <1>7, <1>10, <1>11, <1>12, <2>1, <2>2 DEF Walked
<1> QED
  BY <1>1, <1>2, <1>9, <1>10, <1>13 DEF LoadInv

LEMMA EndStep ==
  ASSUME LoadInv, EndLoad
  PROVE  LoadInv' /\ (stage' = "accepted" => cfg \in Configs)
<1>1. /\ stage = "walking" /\ todo = <<>> /\ stage' \in {"accepted", "rejected"}
      /\ UNCHANGED <<cfg, todo, queue, visited, warned>>
  BY DEF EndLoad
<1>2. \A m : Walked(m)' <=> Walked(m)
  BY <1>1 DEF Walked
<1> QED
  BY <1>1, <1>2 DEF LoadInv

LEMMA LoadUnchanged ==
  ASSUME LoadInv, UNCHANGED loadVars
  PROVE  LoadInv'
<1>1. UNCHANGED <<stage, cfg, todo, queue, visited, warned>>
  BY DEF loadVars
<1>2. /\ \A m : Walked(m)' <=> Walked(m)
      /\ Search(Head(todo))' <=> Search(Head(todo))
  BY <1>1 DEF Walked, Search
<1> QED
  BY <1>1, <1>2 DEF LoadInv

\* Warnings name exactly the states that cannot be reached.
LEMMA LoadHolds == LoadInv => LoadTypeOK /\ WarningsExact
<1> SUFFICES ASSUME LoadInv PROVE LoadTypeOK /\ WarningsExact
  OBVIOUS
<1>1. LoadTypeOK
  <2>1. warned # {} => cfg # None
    BY ConfigFacts DEF LoadInv
  <2>2. CASE todo = <<>>
    BY <2>1, <2>2 DEF LoadInv, LoadTypeOK
  <2>3. CASE todo # <<>>
    <3>1. Closed(Head(todo)) /\ Search(Head(todo))
      BY <2>3, TodoClosed DEF LoadInv
    <3>2. /\ queue \in Seq(Reachable(Head(todo))) /\ visited \subseteq Reachable(Head(todo))
          /\ Reachable(Head(todo)) \subseteq DOMAIN Head(todo).states
      BY <3>1, ReachableOnwards DEF Search
    <3>3. \A i \in DOMAIN queue : queue[i] \in DOMAIN Head(todo).states
      BY <3>2, LenProperties
    <3> QED
      BY <2>1, <3>2, <3>3 DEF LoadInv, LoadTypeOK
  <2> QED
    BY <2>2, <2>3
<1>2. WarningsExact
  <2> SUFFICES ASSUME stage = "accepted"
               PROVE  warned = UNION {Unreachable(cfg.scenarios[i]) : i \in DOMAIN cfg.scenarios}
    BY DEF WarningsExact, Unreachable
  <2>1. PICK m \in 0 .. Len(cfg.scenarios) : Walked(m)
    BY DEF LoadInv
  <2>2. todo = <<>> /\ Len(todo) = Len(cfg.scenarios) - m /\ cfg \in Configs
    BY <2>1 DEF LoadInv, Walked
  <2>3. DOMAIN cfg.scenarios = 1 .. Len(cfg.scenarios) /\ Len(cfg.scenarios) \in Nat
    BY <2>2, ConfigFacts, IsSeqFacts
  <2>4. m = Len(cfg.scenarios)
    BY <2>2, <2>3, EmptySeq
  <2> QED
    BY <2>1, <2>3, <2>4 DEF Walked
<1> QED
  BY <1>1, <1>2

-----------------------------------------------------------------------------
(* Sessions, and who takes a request. *)

LEMMA SessionFacts ==
  /\ \A s \in Sessions :
       /\ s = NewSession(s.scenario, s.key, s.state) /\ s # None
       /\ s.key \in SessionKeys
       /\ s.scenario \in Scenarios /\ s.state \in DOMAIN s.scenario.states
  /\ \A sc \in Scenarios : \A k \in SessionKeys : \A n \in DOMAIN sc.states :
       NewSession(sc, k, n) \in Sessions
<1>1. ASSUME NEW s \in Sessions
      PROVE  /\ s = NewSession(s.scenario, s.key, s.state) /\ s # None
             /\ s.key \in SessionKeys
             /\ s.scenario \in Scenarios /\ s.state \in DOMAIN s.scenario.states
  <2>1. PICK sc \in Scenarios : \E k \in SessionKeys : \E n \in DOMAIN sc.states :
               s = NewSession(sc, k, n)
    BY DEF Sessions
  <2>2. s # None
    BY FilesAssumption
  <2> QED
    BY <2>1, <2>2 DEF NewSession
<1>2. \A sc \in Scenarios : \A k \in SessionKeys : \A n \in DOMAIN sc.states :
        NewSession(sc, k, n) \in Sessions
  BY DEF Sessions
<1> QED
  BY <1>1, <1>2

\* A session that moves along a goto of its scenario.
LEMMA SessionMoves ==
  ASSUME NEW s \in Sessions, NEW n \in DOMAIN s.scenario.states
  PROVE  /\ [s EXCEPT !.state = n] \in Sessions
         /\ [s EXCEPT !.state = n].scenario = s.scenario
<1>1. /\ s = NewSession(s.scenario, s.key, s.state)
      /\ s.key \in SessionKeys /\ s.scenario \in Scenarios
  BY SessionFacts
<1>2. /\ [s EXCEPT !.state = n] = NewSession(s.scenario, s.key, n)
      /\ [s EXCEPT !.state = n].scenario = s.scenario
  BY <1>1 DEF NewSession
<1> QED
  BY <1>1, <1>2, SessionFacts

LEMMA TakerFacts ==
  ASSUME NEW rules, IsSeq(rules), NEW r
  PROVE  /\ Taker(rules, r) # 0 => Taker(rules, r) \in DOMAIN rules
         /\ Taker(rules, r) = 0 => \A i \in DOMAIN rules : ~Match(rules[i].when, r)
<1> DEFINE I == {i \in 1 .. Len(rules) : Match(rules[i].when, r)}
<1>1. Len(rules) \in Nat /\ DOMAIN rules = 1 .. Len(rules)
  BY IsSeqFacts
<1>2. Taker(rules, r) = IF I # {} THEN Min(I) ELSE 0
  BY DEF Taker, SelectInSeq
<1>3. I \in SUBSET Nat /\ I \subseteq DOMAIN rules /\ 0 \notin I
  BY <1>1
<1>4. I # {} => Min(I) \in I
  <2> HIDE DEF I
  <2> QED
    BY <1>3, MinOfNats
<1>5. I = {} => \A i \in DOMAIN rules : ~Match(rules[i].when, r)
  BY <1>1
<1> HIDE DEF I
<1> QED
  BY <1>2, <1>3, <1>4, <1>5

Leads(sc, store, r) == Extract(sc, r) \in SessionKeys /\ store[Extract(sc, r)] # None

Led(c, store, r) == {i \in 1 .. Len(c.scenarios) : Leads(c.scenarios[i], store, r)}

Pinned(store, r) == {j \in SessionKeys : store[j] # None /\ Leads(store[j].scenario, store, r)}

LEMMA FindSessionIs ==
  ASSUME NEW c \in Snapshots, NEW store, NEW r
  PROVE  /\ Led(c, store, r) # {} =>
              \E i \in Led(c, store, r) :
                FindSession(c, store, r) = {Extract(c.scenarios[i], r)}
         /\ Led(c, store, r) = {} =>
              FindSession(c, store, r)
                = {Extract(store[k].scenario, r) : k \in Pinned(store, r)}
<1> DEFINE I == Led(c, store, r)
           found == IF I # {} THEN Min(I) ELSE 0
<1>1. FindSession(c, store, r) =
        IF found # 0 THEN {Extract(c.scenarios[found], r)}
        ELSE {Extract(store[k].scenario, r) : k \in Pinned(store, r)}
  BY DEF FindSession, SelectInSeq, Led, Leads, Pinned
<1>2. I \in SUBSET Nat /\ 0 \notin I
  <2>1. Len(c.scenarios) \in Nat
    BY SnapshotFacts, IsSeqFacts
  <2> QED
    BY <2>1 DEF Led
<1>3. I # {} => Min(I) \in I
  <2> HIDE DEF I
  <2> QED
    BY <1>2, MinOfNats
<1> HIDE DEF I
<1>4. CASE I # {}
  <2>1. found = Min(I) /\ found # 0
    BY <1>2, <1>3, <1>4
  <2> HIDE DEF found
  <2> QED
    BY <1>1, <1>3, <1>4, <2>1 DEF I
<1>5. CASE I = {}
  BY <1>1, <1>5 DEF I
<1> QED
  BY <1>4, <1>5

\* A session that was found lives.
LEMMA FoundLives ==
  ASSUME NEW c \in Snapshots, NEW store, NEW r, NEW k \in FindSession(c, store, r)
  PROVE  k \in SessionKeys /\ store[k] # None
<1>1. CASE Led(c, store, r) # {}
  BY <1>1, FindSessionIs DEF Led, Leads
<1>2. CASE Led(c, store, r) = {}
  BY <1>2, FindSessionIs DEF Pinned, Leads
<1> QED
  BY <1>1, <1>2

\* With no session found, one started for a scenario's key is the one found.
LEMMA StartedIsFound ==
  ASSUME NEW c \in Snapshots, NEW store, NEW r, FindSession(c, store, r) = {},
         NEW i \in DOMAIN c.scenarios, NEW k \in SessionKeys, k = Extract(c.scenarios[i], r),
         NEW new, new[k] # None, \A j \in SessionKeys \ {k} : new[j] = store[j]
  PROVE  FindSession(c, new, r) = {k}
<1>1. Led(c, store, r) = {}
  BY FindSessionIs
<1>2. DOMAIN c.scenarios = 1 .. Len(c.scenarios)
  BY SnapshotFacts, IsSeqFacts
<1>3. i \in Led(c, new, r)
  BY <1>2 DEF Led, Leads
<1>4. Led(c, new, r) # {}
  BY <1>3
<1>5. PICK j \in Led(c, new, r) : FindSession(c, new, r) = {Extract(c.scenarios[j], r)}
  BY <1>4, FindSessionIs
<1>6. Extract(c.scenarios[j], r) = k
  BY <1>1, <1>5 DEF Led, Leads
<1> QED
  BY <1>5, <1>6

-----------------------------------------------------------------------------
(* Requests. *)

Labels == {"idle", "find", "create", "session", "endpoints", "miss"}

Store == [SessionKeys -> Sessions \cup {None}]

\* What a request holds of the rest of the server.
CallTyped ==
  /\ snap \in Snapshots \cup {None}
  /\ sessions \in Store /\ known \in Store
  /\ pc \in Labels
  /\ pc # "idle" => mine \in Snapshots /\ answer = None
  /\ mySession \in SessionKeys \cup {Empty}
  /\ mySession # Empty => pc \in {"session", "endpoints", "miss"} /\ Mine \in Sessions
  /\ pc = "session" => mySession # Empty
  /\ orphan # None => mySession # Empty

\* What is known of a request that no scenario, and no endpoint, has taken.
Rejected ==
  pc \in {"endpoints", "miss"} =>
    /\ Header \in {Empty, ScenarioID}
    /\ mySession = Empty => FindSession(mine, known, req) = {}
    /\ mySession # Empty =>
         /\ seen \in DOMAIN Mine.scenario.states
         /\ Taker(Mine.scenario.states[seen].on, req) = 0
    /\ pc = "miss" => Taker(mine.endpoints, req) = 0

CallInv == CallTyped /\ Rejected /\ AnswersHold

\* What a miss says is true.
LEMMA ReasonsTrue ==
  ASSUME CallTyped, Rejected, pc = "miss", orphan = None
  PROVE  \A i \in DOMAIN Reasons : Reasons[i] # NoReason
<1> DEFINE rules == IF InSession /\ Explained # <<>> /\ seen \in DOMAIN Head(Explained).states
                      THEN Head(Explained).states[seen].on ELSE <<>>
           room  == IF Len(rules) < MaxCandidates THEN MaxCandidates - Len(rules) ELSE 0
           shown == SubSeq(mine.endpoints, 1,
                           IF room < Len(mine.endpoints) THEN room ELSE Len(mine.endpoints))
           F(x) == Explain(x.when, req) # NoReason
<1>1. mine \in Snapshots /\ IsSeq(mine.endpoints)
  BY SnapshotFacts DEF CallTyped
<1>2. \A i \in DOMAIN mine.endpoints : F(mine.endpoints[i])
  BY <1>1, TakerFacts DEF Rejected, Match
<1>3. IsSeq(rules) /\ \A i \in DOMAIN rules : F(rules[i])
  <2>1. CASE InSession
    <3>1. Mine \in Sessions /\ mySession # Empty
      BY <2>1 DEF CallTyped, InSession
    <3> DEFINE sc == Mine.scenario
    <3>2. /\ sc \in Scenarios /\ seen \in DOMAIN sc.states
          /\ Taker(sc.states[seen].on, req) = 0
      BY <3>1, SessionFacts DEF Rejected
    <3>3. Explained = <<sc>>
      BY DEF Explained
    <3> HIDE DEF sc
    <3>4. rules = sc.states[seen].on
      BY <2>1, <3>2, <3>3
    <3>5. IsSeq(sc.states[seen].on)
      BY <3>2, ScenarioFacts DEF Closed
    <3> HIDE DEF rules
    <3> QED
      BY <3>2, <3>4, <3>5, TakerFacts DEF Match
  <2>2. CASE ~InSession
    <3>1. rules = <<>>
      BY <2>2
    <3> HIDE DEF rules
    <3> QED
      BY <3>1 DEF IsSeq
  <2> QED
    BY <2>1, <2>2
<1> HIDE DEF rules
<1> DEFINE D == {x \in ToSet(rules) \cup ToSet(mine.endpoints) : F(x)}
<1>4. rules \in Seq(D) /\ mine.endpoints \in Seq(D)
  <2>1. \A i \in DOMAIN rules : rules[i] \in D
    BY <1>3 DEF ToSet
  <2>2. \A i \in DOMAIN mine.endpoints : mine.endpoints[i] \in D
    BY <1>2 DEF ToSet
  <2> HIDE DEF D
  <2> QED
    BY <1>1, <1>3, <2>1, <2>2, IsSeqFacts
<1>5. shown \in Seq(D)
  <2> DEFINE n == Len(mine.endpoints)
             m == IF room < n THEN room ELSE n
  <2>1. Len(rules) \in Nat /\ n \in Nat /\ DOMAIN mine.endpoints = 1 .. n
        /\ \A i \in 1 .. n : mine.endpoints[i] \in D
    <3> HIDE DEF D
    <3> QED
      BY <1>4, LenProperties
  <2>2. MaxCandidates \in Nat
    BY PublicServerAssumption, Zenon
  <2>3. m \in Int /\ m <= n
    <3> HIDE DEF n
    <3> QED
      BY <2>1, <2>2
  <2>4. \A i \in 1 .. m : mine.endpoints[i] \in D
    <3> HIDE DEF n, m, D
    <3> QED
      BY <2>1, <2>3
  <2>5. SubSeq(mine.endpoints, 1, m) \in Seq(D)
    <3> HIDE DEF m, D
    <3> QED
      BY <1>4, <2>3, <2>4, SubSeqProperties
  <2> QED
    BY <2>5
<1>6. \A i \in DOMAIN (rules \o shown) : F((rules \o shown)[i])
  <2> HIDE DEF D, shown, F
  <2>1. rules \o shown \in Seq(D)
    BY <1>4, <1>5, ConcatProperties
  <2>2. \A i \in DOMAIN (rules \o shown) : (rules \o shown)[i] \in D
    BY <2>1, LenProperties
  <2> QED
    BY <2>2 DEF D
<1>7. Reasons = [i \in DOMAIN (rules \o shown) |-> Explain((rules \o shown)[i].when, req)]
  BY DEF Reasons, rules
<1> HIDE DEF shown
<1> QED
  BY <1>6, <1>7

\* The advice is a scenario of the snapshot, and a state of it that would take
\* the request.
LEMMA AdviceFacts ==
  ASSUME mine \in Snapshots, Advice # None
  PROVE  /\ \E i \in DOMAIN mine.scenarios : Advice.scenario = mine.scenarios[i]
         /\ Advice.key = Extract(Advice.scenario, req)
         /\ Advice.state \in DOMAIN Advice.scenario.states
         /\ Taker(Advice.scenario.states[Advice.state].on, req) # 0
<1> DEFINE scs == mine.scenarios
           n == Len(scs)
           Takes(sc, state) == state \in DOMAIN sc.states /\ MatchesState(sc.states[state], req)
           I == {i \in 1 .. n : MatchesState(scs[i].states[scs[i].initial], req)}
           J(sc) == {j \in 1 .. Len(StateOrder) : Takes(sc, StateOrder[j])}
           starting == IF I # {} THEN Min(I) ELSE 0
           taking(sc) == IF J(sc) # {} THEN Min(J(sc)) ELSE 0
           K == {i \in 1 .. n : taking(scs[i]) # 0}
           other == IF K # {} THEN Min(K) ELSE 0
           advise(sc, state) == [scenario |-> sc, state |-> state, key |-> Extract(sc, req)]
<1>1. Advice = IF starting # 0 THEN advise(scs[starting], scs[starting].initial)
               ELSE IF other # 0 THEN advise(scs[other], StateOrder[taking(scs[other])])
               ELSE None
  BY DEF Advice, SelectInSeq
<1>2. n \in Nat /\ DOMAIN scs = 1 .. n /\ \A i \in 1 .. n : scs[i] \in Scenarios
  BY SnapshotFacts, IsSeqFacts
<1>3. \A sc : J(sc) \in SUBSET Nat
  <2>1. Len(StateOrder) \in Nat
    BY FilesAssumption, IsSeqFacts
  <2> QED
    BY <2>1
<1>4. I \in SUBSET Nat /\ K \in SUBSET Nat
  <2> HIDE DEF n, scs, taking
  <2> QED
    BY <1>2
<1>5. \A sc : taking(sc) # 0 => Takes(sc, StateOrder[taking(sc)])
  <2> SUFFICES ASSUME NEW sc, taking(sc) # 0
               PROVE  Takes(sc, StateOrder[taking(sc)])
    OBVIOUS
  <2> HIDE DEF Takes
  <2>1. J(sc) # {} /\ taking(sc) = Min(J(sc))
    OBVIOUS
  <2>2. taking(sc) \in J(sc)
    <3> HIDE DEF J
    <3> QED
      BY <1>3, <2>1, MinOfNats
  <2> HIDE DEF taking
  <2> QED
    BY <2>2
<1> HIDE DEF taking
<1>6. starting # 0 => starting \in I
  <2> HIDE DEF I
  <2> QED
    BY <1>4, MinOfNats
<1>7. other # 0 => other \in K
  <2> HIDE DEF K
  <2> QED
    BY <1>4, MinOfNats
<1> HIDE DEF starting, other
<1> DEFINE Sound(a) ==
             /\ \E i \in DOMAIN scs : a.scenario = scs[i]
             /\ a.key = Extract(a.scenario, req)
             /\ a.state \in DOMAIN a.scenario.states
             /\ MatchesState(a.scenario.states[a.state], req)
<1>8. \A i \in 1 .. n : \A state : Takes(scs[i], state) => Sound(advise(scs[i], state))
  <2> HIDE DEF scs, n
  <2> QED
    BY <1>2
<1>9. CASE starting # 0
  <2>1. starting \in 1 .. n /\ Takes(scs[starting], scs[starting].initial)
    <3>1. starting \in I /\ starting \in 1 .. n
      BY <1>6, <1>9
    <3>2. Closed(scs[starting])
      BY <1>2, <3>1, ScenarioFacts
    <3> HIDE DEF n, scs
    <3> QED
      BY <3>1, <3>2 DEF Closed
  <2>2. Advice = advise(scs[starting], scs[starting].initial)
    BY <1>1, <1>9
  <2>3. Sound(Advice)
    <3> HIDE DEF Sound, advise, Takes, n, scs
    <3> QED
      BY <1>8, <2>1, <2>2
  <2> QED
    BY <2>3 DEF MatchesState
<1>10. CASE starting = 0
  <2>1. other # 0 /\ Advice = advise(scs[other], StateOrder[taking(scs[other])])
    <3> HIDE DEF advise
    <3> QED
      BY <1>1, <1>10
  <2>2. other \in 1 .. n /\ taking(scs[other]) # 0
    <3> HIDE DEF n, scs
    <3> QED
      BY <1>7, <2>1
  <2>3. Sound(Advice)
    <3> HIDE DEF Sound, advise, Takes, n, scs
    <3> QED
      BY <1>5, <1>8, <2>1, <2>2
  <2> QED
    BY <2>3 DEF MatchesState
<1> QED
  BY <1>9, <1>10

\* What AdviceWorks says of the answer.
Works(a) ==
  LET s == NewSession(a.scenario, a.key, a.state)
  IN  a.key \in SessionKeys =>
        /\ FindSession(mine, [known EXCEPT ![a.key] = s], req) = {a.key}
        /\ Taker(Rules(s), req) # 0

LEMMA AdviceTrue ==
  ASSUME CallTyped, Rejected, pc = "miss", mySession = Empty, Advice # None
  PROVE  Works(Advice)
<1> DEFINE a == Advice
           s == NewSession(a.scenario, a.key, a.state)
<1> SUFFICES ASSUME a.key \in SessionKeys
             PROVE  /\ FindSession(mine, [known EXCEPT ![a.key] = s], req) = {a.key}
                    /\ Taker(Rules(s), req) # 0
  BY DEF Works
<1>1. mine \in Snapshots /\ known \in [SessionKeys -> Sessions \cup {None}]
      /\ FindSession(mine, known, req) = {}
  BY DEF CallTyped, Rejected, Store
<1>2. PICK i \in DOMAIN mine.scenarios : a.scenario = mine.scenarios[i]
  BY <1>1, AdviceFacts
<1>3. /\ a.key = Extract(a.scenario, req) /\ a.state \in DOMAIN a.scenario.states
      /\ Taker(a.scenario.states[a.state].on, req) # 0
  BY <1>1, AdviceFacts
<1>4. a.scenario \in Scenarios
  BY <1>1, <1>2, SnapshotFacts
<1>5. s \in Sessions
  BY <1>3, <1>4, SessionFacts
<1>6. Rules(s) = a.scenario.states[a.state].on
  BY DEF Rules, NewSession
<1> HIDE DEF a, s
<1>7. a.key = Extract(mine.scenarios[i], req)
  BY <1>2, <1>3
<1> DEFINE k == a.key
<1>8. k \in SessionKeys /\ k = Extract(mine.scenarios[i], req)
  BY <1>7
<1> HIDE DEF k
<1>9. FindSession(mine, [known EXCEPT ![k] = s], req) = {k}
  <2> DEFINE new == [known EXCEPT ![k] = s]
  <2>1. new[k] # None /\ \A j \in SessionKeys \ {k} : new[j] = known[j]
    BY <1>1, <1>5, <1>8, SessionFacts
  <2> HIDE DEF new
  <2>2. FindSession(mine, new, req) = {k}
    BY <1>1, <1>8, <2>1, StartedIsFound
  <2> QED
    BY <2>2 DEF new
<1>10. Taker(Rules(s), req) # 0
  BY <1>3, <1>6
<1> QED
  BY <1>9, <1>10, Zenon DEF k

-----------------------------------------------------------------------------
(* The steps. *)

\* A step that leaves the request alone, but for the state of its session, or
\* for where it is.
LEMMA CallUnchanged ==
  ASSUME CallInv, UNCHANGED <<pc, req, mine, mySession, seen, known, answer>>,
         snap' \in Snapshots \cup {None}, sessions' \in Store,
         orphan' # None => mySession # Empty,
         mySession # Empty => Mine' \in Sessions /\ Mine'.scenario = Mine.scenario
  PROVE  CallInv'
<1>1. CallTyped'
  BY DEF CallInv, CallTyped
<1>2. ScenarioID' = ScenarioID /\ Header' = Header
  BY DEF ScenarioID, InSession, Header
<1>3. Rejected'
  BY <1>2 DEF CallInv, Rejected
<1>4. AnswersHold'
  BY <1>2 DEF CallInv, AnswersHold, HeaderHonoured, CandidatesRejected, AdviceWorks
<1> QED
  BY <1>1, <1>3, <1>4 DEF CallInv

LEMMA OthersStep ==
  ASSUME CallInv, OthersStart \/ OthersDelete \/ OthersMove
  PROVE  CallInv'
<1>1. /\ UNCHANGED <<pc, req, mine, mySession, seen, known, answer, snap>>
      /\ snap \in Snapshots \cup {None}
  BY DEF OthersStart, OthersDelete, OthersMove, callVars, CallInv, CallTyped
<1>2. /\ sessions \in Store /\ (orphan # None => mySession # Empty)
      /\ mySession # Empty => Mine \in Sessions
      /\ mySession \in SessionKeys \cup {Empty}
  BY DEF CallInv, CallTyped
<1>3. CASE OthersStart
  <2>1. /\ snap # None /\ orphan' = orphan
        /\ \E k \in SessionKeys \ Live, i \in DOMAIN snap.scenarios :
             \E n \in DOMAIN snap.scenarios[i].states :
               sessions' = [sessions EXCEPT ![k] = NewSession(snap.scenarios[i], k, n)]
    BY <1>3 DEF OthersStart, callVars
  <2>2. PICK k \in SessionKeys \ Live, i \in DOMAIN snap.scenarios :
          \E n \in DOMAIN snap.scenarios[i].states :
            sessions' = [sessions EXCEPT ![k] = NewSession(snap.scenarios[i], k, n)]
    BY <2>1
  <2>3. PICK s \in Sessions : sessions' = [sessions EXCEPT ![k] = s]
    BY <1>1, <2>1, <2>2, SnapshotFacts, SessionFacts
  <2>4. sessions' \in Store
    BY <1>2, <2>3 DEF Store
  <2>5. mySession # Empty => Mine' = Mine
    <3> SUFFICES ASSUME mySession # Empty PROVE Mine' = Mine
      OBVIOUS
    <3>1. CASE orphan = None
      <4>1. Mine = sessions[mySession] /\ sessions[mySession] # None
        BY <1>2, <3>1, SessionFacts DEF Mine
      <4>2. mySession # k
        BY <1>2, <2>2, <4>1 DEF Live
      <4> QED
        BY <1>1, <1>2, <2>1, <2>3, <3>1, <4>2 DEF Mine, Store
    <3>2. CASE orphan # None
      BY <2>1, <3>2 DEF Mine
    <3> QED
      BY <3>1, <3>2
  <2> QED
    BY <1>1, <1>2, <2>1, <2>4, <2>5, CallUnchanged
<1>4. CASE OthersDelete
  <2>1. PICK k \in Live :
          /\ sessions' = [sessions EXCEPT ![k] = None]
          /\ orphan' = IF k = mySession /\ orphan = None THEN sessions[k] ELSE orphan
    BY <1>4 DEF OthersDelete
  <2>2. k \in SessionKeys /\ sessions[k] # None /\ k # Empty
    BY <2>1, PublicServerAssumption, Zenon DEF Live
  <2>3. sessions' \in Store
    BY <1>2, <2>1 DEF Store
  <2>4. mySession # Empty => Mine' = Mine
    BY <1>1, <1>2, <2>1, <2>2 DEF Mine, Store
  <2>5. orphan' # None => mySession # Empty
    BY <1>2, <2>1, <2>2
  <2> QED
    BY <1>1, <1>2, <2>3, <2>4, <2>5, CallUnchanged
<1>5. CASE OthersMove
  <2> DEFINE gotos(k) == GotosOf(sessions[k].scenario.states[sessions[k].state])
  <2>1. orphan' = orphan
    BY <1>5 DEF OthersMove, callVars
  <2>2. PICK k \in Live : \E i \in DOMAIN gotos(k) :
               sessions' = [sessions EXCEPT ![k].state = gotos(k)[i]]
    BY <1>5 DEF OthersMove
  <2>3. sessions[k] \in Sessions /\ k \in SessionKeys
    BY <1>2 DEF Live, Store
  <2>4. PICK n \in DOMAIN sessions[k].scenario.states :
               sessions' = [sessions EXCEPT ![k] = [sessions[k] EXCEPT !.state = n]]
    <3>1. Closed(sessions[k].scenario) /\ sessions[k].state \in DOMAIN sessions[k].scenario.states
      BY <2>3, SessionFacts, ScenarioFacts
    <3>2. gotos(k) \in Seq(DOMAIN sessions[k].scenario.states)
      BY <3>1, GotosInside
    <3> HIDE DEF gotos
    <3>3. \A i \in DOMAIN gotos(k) : gotos(k)[i] \in DOMAIN sessions[k].scenario.states
      BY <3>2, LenProperties
    <3> QED
      BY <2>2, <3>3
  <2> DEFINE s == [sessions[k] EXCEPT !.state = n]
  <2>5. s \in Sessions /\ s.scenario = sessions[k].scenario
    BY <2>3, SessionMoves
  <2> HIDE DEF s
  <2>6. sessions' = [sessions EXCEPT ![k] = s]
    BY <2>4 DEF s
  <2>7. sessions' \in Store
    BY <1>2, <2>5, <2>6 DEF Store
  <2>8. mySession # Empty => Mine' \in Sessions /\ Mine'.scenario = Mine.scenario
    <3>1. CASE orphan = None /\ mySession = k
      BY <1>1, <1>2, <2>1, <2>3, <2>5, <2>6, <3>1 DEF Mine, Store
    <3>2. CASE orphan = None /\ mySession # k
      BY <1>1, <1>2, <2>1, <2>3, <2>6, <3>2 DEF Mine, Store
    <3>3. CASE orphan # None
      BY <1>2, <2>1, <3>3 DEF Mine
    <3> QED
      BY <3>1, <3>2, <3>3
  <2> QED
    BY <1>1, <1>2, <2>1, <2>7, <2>8, CallUnchanged
<1> QED
  BY <1>3, <1>4, <1>5

\* An answer ends the request.
LEMMA Replied ==
  ASSUME CallInv, NEW a, Reply(a), snap' = snap, sessions' \in Store,
         a.by \in {"rule", "endpoint", "miss"} => Header \in {Empty, a.scenario},
         a.by = "miss" /\ ~a.deleted => \A i \in DOMAIN a.reasons : a.reasons[i] # NoReason,
         a.by = "miss" /\ a.advice # None => Works(a.advice)
  PROVE  CallInv'
<1>1. /\ answer' = a /\ pc' = "idle" /\ mySession' = Empty /\ orphan' = None
      /\ UNCHANGED <<req, mine, known>>
  BY DEF Reply
<1>2. CallTyped'
  BY <1>1 DEF CallInv, CallTyped, Labels
<1>3. Rejected'
  BY <1>1 DEF Rejected
<1>4. AnswersHold'
  <2>1. HeaderHonoured'
    BY <1>1 DEF HeaderHonoured, Header
  <2>2. CandidatesRejected'
    BY <1>1 DEF CandidatesRejected
  <2>3. AdviceWorks'
    BY <1>1 DEF AdviceWorks, Works
  <2> QED
    BY <2>1, <2>2, <2>3 DEF AnswersHold
<1> QED
  BY <1>2, <1>3, <1>4 DEF CallInv

LEMMA ErrorReplied ==
  ASSUME CallInv, NEW status, Reply(Error(status)), snap' = snap, sessions' = sessions
  PROVE  CallInv'
<1> DEFINE a == Error(status)
<1>1. a.by = "error"
  BY DEF Error
<1>2. sessions' \in Store /\ Reply(a)
  BY DEF CallInv, CallTyped
<1> HIDE DEF a
<1> QED
  BY <1>1, <1>2, Replied

\* While a request is handled there is no answer to be wrong about.
LEMMA Unanswered ==
  ASSUME answer' = None
  PROVE  AnswersHold'
  BY DEF AnswersHold, HeaderHonoured, CandidatesRejected, AdviceWorks

LEMMA ArriveStep ==
  ASSUME CallInv, NEW r \in Requests, Arrive(r)
  PROVE  CallInv'
<1>1. /\ snap # None /\ pc = "idle" /\ pc' = "find" /\ mine' = snap /\ answer' = None
      /\ UNCHANGED <<snap, sessions, mySession, orphan, seen, known>>
  BY DEF Arrive
<1>2. mySession = Empty
  BY <1>1 DEF CallInv, CallTyped
<1>3. CallTyped'
  BY <1>1, <1>2 DEF CallInv, CallTyped, Labels
<1>4. Rejected'
  BY <1>1 DEF Rejected
<1> QED
  BY <1>1, <1>3, <1>4, Unanswered DEF CallInv

LEMMA FindStep ==
  ASSUME CallInv, Find
  PROVE  CallInv'
<1> DEFINE found == FindSession(mine, sessions, req)
<1>1. /\ pc = "find" /\ known' = sessions /\ snap' = snap
      /\ UNCHANGED <<req, mine, orphan, answer, sessions, seen>>
      /\ IF found # {} THEN pc' = "session" /\ mySession' \in found
         ELSE /\ pc' = IF Header = Empty THEN "endpoints" ELSE "create"
              /\ mySession' = mySession
  BY DEF Find, Goto, Quietly
<1>2. /\ mySession = Empty /\ orphan = None /\ mine \in Snapshots /\ answer = None
      /\ sessions \in Store /\ snap \in Snapshots \cup {None}
  BY <1>1 DEF CallInv, CallTyped
<1> HIDE DEF found
<1>3. CASE found # {}
  <2>1. pc' = "session" /\ mySession' \in found
    BY <1>1, <1>3
  <2>2. mySession' \in SessionKeys /\ sessions[mySession'] # None
    BY <1>2, <2>1, FoundLives DEF found
  <2>3. mySession' # Empty
    BY <2>2, PublicServerAssumption, Zenon
  <2>4. Mine' \in Sessions
    BY <1>1, <1>2, <2>2 DEF Mine, Store
  <2>5. CallTyped'
    BY <1>1, <1>2, <2>1, <2>2, <2>3, <2>4 DEF CallTyped, Labels
  <2>6. Rejected'
    BY <2>1 DEF Rejected
  <2> QED
    BY <1>1, <1>2, <2>5, <2>6, Unanswered DEF CallInv
<1>4. CASE found = {}
  <2>1. /\ pc' = IF Header = Empty THEN "endpoints" ELSE "create"
        /\ mySession' = Empty
    BY <1>1, <1>2, <1>4
  <2>2. CallTyped'
    BY <1>1, <1>2, <2>1 DEF CallTyped, Labels
  <2>3. Rejected'
    BY <1>1, <1>4, <2>1 DEF Rejected, Header, found
  <2> QED
    BY <1>1, <1>2, <2>2, <2>3, Unanswered DEF CallInv
<1> QED
  BY <1>3, <1>4

LEMMA NamedFacts ==
  ASSUME mine \in Snapshots, Named # 0
  PROVE  NamedScenario \in Scenarios
<1> DEFINE I == {i \in 1 .. Len(mine.scenarios) : mine.scenarios[i].id = Header}
<1>1. Named = IF I # {} THEN Min(I) ELSE 0
  BY DEF Named, SelectInSeq
<1>2. /\ Len(mine.scenarios) \in Nat /\ DOMAIN mine.scenarios = 1 .. Len(mine.scenarios)
      /\ \A i \in DOMAIN mine.scenarios : mine.scenarios[i] \in Scenarios
  BY SnapshotFacts, IsSeqFacts
<1>3. I \in SUBSET Nat /\ I \subseteq DOMAIN mine.scenarios
  BY <1>2
<1> HIDE DEF I
<1>4. Named \in I
  BY <1>1, <1>3, MinOfNats
<1> QED
  BY <1>2, <1>3, <1>4 DEF NamedScenario

LEMMA CreateStep ==
  ASSUME CallInv, Create
  PROVE  CallInv'
<1> DEFINE k == NamedKey
           new == NewSession(NamedScenario, k, NamedScenario.initial)
<1>1. /\ pc = "create" /\ Named # 0 /\ pc' = "session" /\ snap' = snap
      /\ k \in Live \/ k \in SessionKeys
      /\ sessions' = IF k \in Live THEN sessions ELSE [sessions EXCEPT ![k] = new]
      /\ mySession' = k
      /\ UNCHANGED <<req, mine, orphan, answer, seen, known>>
  BY DEF Create, Goto, Quietly
<1>2. /\ mySession = Empty /\ orphan = None /\ mine \in Snapshots /\ answer = None
      /\ sessions \in Store /\ known \in Store /\ snap \in Snapshots \cup {None}
  BY <1>1 DEF CallInv, CallTyped
<1>3. k \in SessionKeys
  BY <1>1 DEF Live
<1>4. k # Empty
  BY <1>3, PublicServerAssumption, Zenon
<1>5. new \in Sessions
  <2>1. NamedScenario \in Scenarios
    BY <1>1, <1>2, NamedFacts
  <2>2. NamedScenario.initial \in DOMAIN NamedScenario.states
    BY <2>1, ScenarioFacts DEF Closed
  <2> QED
    BY <1>3, <2>1, <2>2, SessionFacts
<1> HIDE DEF k, new
<1>6. sessions' \in Store /\ sessions'[k] \in Sessions
  BY <1>1, <1>2, <1>3, <1>5 DEF Store, Live
<1>7. Mine' \in Sessions
  BY <1>1, <1>2, <1>6 DEF Mine
<1>8. CallTyped'
  BY <1>1, <1>2, <1>3, <1>4, <1>6, <1>7 DEF CallTyped, Labels
<1>9. Rejected'
  BY <1>1 DEF Rejected
<1> QED
  BY <1>1, <1>2, <1>8, <1>9, Unanswered DEF CallInv

\* The session of a request.
LEMMA MineFacts ==
  ASSUME CallInv, pc = "session"
  PROVE  /\ mySession \in SessionKeys /\ Mine \in Sessions /\ Mine.scenario \in Scenarios
         /\ Mine.state \in DOMAIN Mine.scenario.states /\ IsSeq(Rules(Mine))
         /\ \A i \in DOMAIN Rules(Mine) :
              Rules(Mine)[i].goto # Empty => Rules(Mine)[i].goto \in DOMAIN Mine.scenario.states
<1>1. mySession \in SessionKeys /\ Mine \in Sessions
  BY DEF CallInv, CallTyped
<1>2. Mine.scenario \in Scenarios /\ Mine.state \in DOMAIN Mine.scenario.states
  BY <1>1, SessionFacts
<1>3. Closed(Mine.scenario)
  BY <1>2, ScenarioFacts
<1>4. /\ IsSeq(Rules(Mine))
      /\ \A i \in DOMAIN Rules(Mine) : ValidGoto(Mine.scenario, Rules(Mine)[i].goto)
  BY <1>2, <1>3 DEF Closed, Rules
<1> QED
  BY <1>1, <1>2, <1>4 DEF ValidGoto

LEMMA HandleInSessionStep ==
  ASSUME CallInv, HandleInSession
  PROVE  CallInv'
<1> DEFINE j == Taker(Rules(Mine), req)
           rule == Rules(Mine)[j]
           a == [by |-> "rule", status |-> Written(rule.reply), scenario |-> Mine.scenario.id]
<1>1. /\ pc = "session" /\ ~Conflict /\ j # 0 /\ Reply(a) /\ snap' = snap
      /\ sessions' = IF orphan # None \/ rule.goto = Empty THEN sessions
                     ELSE [sessions EXCEPT ![mySession].state = rule.goto]
  BY DEF HandleInSession, Quietly
<1>2. /\ mySession \in SessionKeys /\ Mine \in Sessions /\ IsSeq(Rules(Mine))
      /\ \A i \in DOMAIN Rules(Mine) :
           Rules(Mine)[i].goto # Empty => Rules(Mine)[i].goto \in DOMAIN Mine.scenario.states
  BY <1>1, MineFacts
<1>3. j \in DOMAIN Rules(Mine)
  BY <1>1, <1>2, TakerFacts
<1>4. rule.goto # Empty => rule.goto \in DOMAIN Mine.scenario.states
  BY <1>2, <1>3
<1>5. a.by = "rule" /\ a.scenario = Mine.scenario.id
  OBVIOUS
<1> HIDE DEF j, a, rule
<1>6. sessions' \in Store
  <2>1. sessions \in Store
    BY DEF CallInv, CallTyped
  <2>2. CASE orphan # None \/ rule.goto = Empty
    BY <1>1, <2>1, <2>2
  <2>3. CASE ~(orphan # None \/ rule.goto = Empty)
    <3> DEFINE s == [Mine EXCEPT !.state = rule.goto]
    <3>1. Mine = sessions[mySession]
      BY <2>3 DEF Mine
    <3>2. s \in Sessions
      BY <1>2, <1>4, <2>3, SessionMoves
    <3>3. sessions' = [sessions EXCEPT ![mySession] = s]
      BY <1>1, <2>3, <3>1
    <3> HIDE DEF s
    <3> QED
      BY <2>1, <3>2, <3>3 DEF Store
  <2> QED
    BY <2>2, <2>3
<1>7. Header \in {Empty, a.scenario}
  BY <1>1, <1>5 DEF Conflict
<1> QED
  BY <1>1, <1>5, <1>6, <1>7, Replied

LEMMA FallThroughStep ==
  ASSUME CallInv, FallThrough
  PROVE  CallInv'
<1>1. /\ pc = "session" /\ ~Conflict /\ Taker(Rules(Mine), req) = 0 /\ seen' = Mine.state
      /\ pc' = "endpoints"
      /\ UNCHANGED <<req, mine, orphan, answer, sessions, mySession, known, snap>>
  BY DEF FallThrough, Goto, Quietly
<1>2. Mine' = Mine /\ Header' = Header /\ Mine.state \in DOMAIN Mine.scenario.states
  BY <1>1, MineFacts DEF Mine, Header
<1>3. CallTyped'
  BY <1>1, <1>2 DEF CallInv, CallTyped, Labels
<1>4. Rejected'
  <2>1. mySession' # Empty /\ ScenarioID' = Mine.scenario.id
    BY <1>1, <1>2 DEF CallInv, CallTyped, ScenarioID, InSession
  <2>2. Header' \in {Empty, ScenarioID'}
    BY <1>1, <1>2, <2>1 DEF Conflict
  <2>3. /\ seen' \in DOMAIN Mine'.scenario.states
        /\ Taker(Mine'.scenario.states[seen'].on, req') = 0
    BY <1>1, <1>2 DEF Rules
  <2> QED
    BY <1>1, <2>1, <2>2, <2>3 DEF Rejected
<1>5. answer' = None
  BY <1>1 DEF CallInv, CallTyped
<1> QED
  BY <1>3, <1>4, <1>5, Unanswered DEF CallInv

LEMMA HandleEndpointStep ==
  ASSUME CallInv, HandleEndpoint
  PROVE  CallInv'
<1> DEFINE a == [by |-> "endpoint", scenario |-> ScenarioID,
                 status |-> Written(mine.endpoints[Taker(mine.endpoints, req)].reply)]
<1>1. pc = "endpoints" /\ Reply(a) /\ snap' = snap /\ sessions' = sessions
  BY DEF HandleEndpoint, Quietly
<1>2. a.by = "endpoint" /\ a.scenario = ScenarioID
  OBVIOUS
<1> HIDE DEF a
<1>3. sessions' \in Store /\ Header \in {Empty, a.scenario}
  BY <1>1, <1>2 DEF CallInv, CallTyped, Rejected
<1> QED
  BY <1>1, <1>2, <1>3, Replied

LEMMA NoEndpointStep ==
  ASSUME CallInv, NoEndpoint
  PROVE  CallInv'
<1>1. /\ pc = "endpoints" /\ pc' = "miss" /\ Taker(mine.endpoints, req) = 0
      /\ UNCHANGED <<req, mine, orphan, answer, sessions, mySession, seen, known, snap>>
  BY DEF NoEndpoint, Goto, Quietly
<1>2. Mine' = Mine /\ Header' = Header /\ ScenarioID' = ScenarioID
  BY <1>1 DEF Mine, Header, ScenarioID, InSession
<1>3. CallTyped'
  BY <1>1, <1>2 DEF CallInv, CallTyped, Labels
<1>4. Rejected'
  BY <1>1, <1>2 DEF CallInv, Rejected
<1>5. answer' = None
  BY <1>1 DEF CallInv, CallTyped
<1> QED
  BY <1>3, <1>4, <1>5, Unanswered DEF CallInv

LEMMA MissReplyStep ==
  ASSUME CallInv, Miss
  PROVE  CallInv'
<1> DEFINE a == [by |-> "miss", status |-> 404, scenario |-> ScenarioID,
                 reasons |-> Reasons, deleted |-> orphan # None,
                 advice |-> IF InSession THEN None ELSE Advice]
<1>1. pc = "miss" /\ Reply(a) /\ snap' = snap /\ sessions' = sessions
  BY DEF Miss
<1>2. /\ a.scenario = ScenarioID /\ a.reasons = Reasons
      /\ (~a.deleted => orphan = None)
      /\ (a.advice # None => mySession = Empty /\ Advice # None /\ a.advice = Advice)
  BY DEF InSession
<1> HIDE DEF a
<1>3. CallTyped /\ Rejected
  BY DEF CallInv
<1>4. sessions' \in Store /\ Header \in {Empty, a.scenario}
  BY <1>1, <1>2, <1>3 DEF CallTyped, Rejected
<1>5. ~a.deleted => \A i \in DOMAIN a.reasons : a.reasons[i] # NoReason
  BY <1>1, <1>2, <1>3, ReasonsTrue
<1>6. a.advice # None => Works(a.advice)
  BY <1>1, <1>2, <1>3, AdviceTrue
<1> QED
  BY <1>1, <1>4, <1>5, <1>6, Replied

LEMMA ServeStep ==
  ASSUME CallInv, Serve
  PROVE  CallInv'
<1>1. ASSUME NEW r \in Requests, Arrive(r) PROVE CallInv'
  BY <1>1, ArriveStep
<1>2. CASE TooLarge
  <2>1. Reply(Error(413)) /\ snap' = snap /\ sessions' = sessions
    BY <1>2 DEF TooLarge, Quietly
  <2> QED
    BY <2>1, ErrorReplied
<1>3. CASE CreateFails
  <2>1. /\ Reply(Error(404)) \/ Reply(Error(422)) \/ Reply(Error(429))
        /\ snap' = snap /\ sessions' = sessions
    BY <1>3 DEF CreateFails, Quietly
  <2> QED
    BY <2>1, ErrorReplied
<1>4. CASE HeaderConflict
  <2>1. Reply(Error(409)) /\ snap' = snap /\ sessions' = sessions
    BY <1>4 DEF HeaderConflict, Quietly
  <2> QED
    BY <2>1, ErrorReplied
<1>5. CASE TemplateFails
  <2>1. Reply(Error(500)) /\ snap' = snap /\ sessions' = sessions
    BY <1>5 DEF TemplateFails, Quietly
  <2> QED
    BY <2>1, ErrorReplied
<1> QED
  BY <1>1, <1>2, <1>3, <1>4, <1>5, FindStep, CreateStep, HandleInSessionStep,
     FallThroughStep, HandleEndpointStep, NoEndpointStep, MissReplyStep DEF Serve

\* Loads and requests share the snapshot and nothing else.
ServerInv == LoadInv /\ CallInv

LEMMA ServerInit == Init => ServerInv
<1> SUFFICES ASSUME Init PROVE ServerInv
  OBVIOUS
<1>1. LoadInv
  BY DEF Init, LoadInit, LoadInv
<1>2. CallTyped
  BY DEF Init, CallTyped, Labels, Store, NoSessions
<1>3. Rejected
  BY DEF Init, Rejected
<1>4. AnswersHold
  BY DEF Init, AnswersHold, HeaderHonoured, CandidatesRejected, AdviceWorks
<1> QED
  BY <1>1, <1>2, <1>3, <1>4 DEF ServerInv, CallInv

\* A new snapshot changes nothing for the request at work, which keeps its own.
LEMMA CallAside ==
  ASSUME CallInv, UNCHANGED <<sessions, callVars, answer>>,
         snap' \in Snapshots \cup {None}
  PROVE  CallInv'
<1>1. UNCHANGED <<pc, req, mine, mySession, orphan, seen, known, answer, sessions>>
  BY DEF callVars
<1>2. Mine' = Mine
  BY <1>1 DEF Mine
<1>3. /\ sessions \in Store /\ (orphan # None => mySession # Empty)
      /\ mySession # Empty => Mine \in Sessions
  BY DEF CallInv, CallTyped
<1> QED
  BY <1>1, <1>2, <1>3, CallUnchanged

LEMMA ServerStep ==
  ASSUME ServerInv, [Next]_vars
  PROVE  ServerInv'
<1>1. LoadInv /\ CallInv /\ snap \in Snapshots \cup {None}
  BY DEF ServerInv, CallInv, CallTyped
<1>2. CASE LoadGoesOn
  <2>1. /\ LoadStep /\ snap' = IF stage' = "accepted" THEN Compile(cfg) ELSE snap
        /\ UNCHANGED <<sessions, callVars, answer>>
    BY <1>2 DEF LoadGoesOn
  <2>2. LoadInv' /\ (stage' = "accepted" => cfg \in Configs)
    <3>1. CASE WalkState
      BY <1>1, <3>1, WalkStep DEF WalkState
    <3>2. CASE WalkedScenario
      BY <1>1, <3>2, WalkedStep DEF WalkedScenario
    <3>3. CASE EndLoad
      BY <1>1, <3>3, EndStep
    <3> QED
      BY <2>1, <3>1, <3>2, <3>3 DEF LoadStep
  <2>3. snap' \in Snapshots \cup {None}
    BY <1>1, <2>1, <2>2, ConfigFacts
  <2> QED
    BY <1>1, <2>1, <2>2, <2>3, CallAside DEF ServerInv
<1>3. CASE Load
  <2>1. /\ \E files \in Files : BeginLoad(files)
        /\ UNCHANGED <<snap, sessions, callVars, answer>>
    BY <1>3 DEF Load, Files
  <2> QED
    BY <1>1, <2>1, LoadBegins, CallAside DEF ServerInv
<1>4. CASE Serve
  <2>1. UNCHANGED loadVars
    <3>1. CASE \E r \in Requests : Arrive(r)
      BY <3>1 DEF Arrive
    <3>2. CASE TooLarge \/ Find \/ CreateFails \/ Create \/ HeaderConflict
      BY <3>2 DEF TooLarge, Find, CreateFails, Create, HeaderConflict, Quietly
    <3>3. CASE HandleInSession \/ TemplateFails \/ FallThrough
      BY <3>3 DEF HandleInSession, TemplateFails, FallThrough, Quietly
    <3>4. CASE HandleEndpoint \/ NoEndpoint \/ Miss
      BY <3>4 DEF HandleEndpoint, NoEndpoint, Miss, Quietly
    <3> QED
      BY <1>4, <3>1, <3>2, <3>3, <3>4 DEF Serve
  <2> QED
    BY <1>1, <1>4, <2>1, LoadUnchanged, ServeStep DEF ServerInv
<1>5. CASE OthersStart \/ OthersDelete \/ OthersMove
  <2>1. UNCHANGED loadVars
    BY <1>5 DEF OthersStart, OthersDelete, OthersMove
  <2> QED
    BY <1>1, <1>5, <2>1, LoadUnchanged, OthersStep DEF ServerInv
<1>6. CASE ClearMisses
  BY <1>1, <1>6, LoadUnchanged, CallAside DEF ClearMisses, ServerInv
<1>7. CASE UNCHANGED vars
  BY <1>1, <1>7, LoadUnchanged, CallAside DEF vars, ServerInv
<1>8. CASE Recover
  <2>1. LoadInv'
    BY <1>1, <1>8 DEF Recover, LoadInv
  <2> QED
    BY <1>1, <1>8, <2>1, CallAside DEF Recover, ServerInv
<1> QED
  BY <1>2, <1>3, <1>4, <1>5, <1>6, <1>7, <1>8 DEF Next

\* The inductive invariant of loads and requests (config/validate.go, server.go).
THEOREM ServerInvariant == Spec => []ServerInv
<1>1. ServerInv /\ [Next]_vars => ServerInv'
  BY ServerStep
<1> QED
  BY <1>1, ServerInit, PTL DEF Spec

LEMMA MissInvariant == Spec => []MissInv
<1>1. MissInv /\ [Next]_vars => MissInv'
  BY MissStep
<1> QED
  BY <1>1, MissInit, PTL DEF Spec

LEMMA Usable == ServerInv /\ MissInv => ConfigUsable
<1> SUFFICES ASSUME ServerInv, MissInv PROVE ConfigUsable
  OBVIOUS
<1>1. LoadInv /\ CallTyped
  BY DEF ServerInv, CallInv
<1>2. TypeOK
  <2>1. pc = "session" => Mine # None
    BY <1>1, SessionFacts DEF CallTyped
  <2> QED
    BY <1>1, <2>1, LoadHolds DEF TypeOK, CallTyped, Labels, MissInv
<1>3. WarningsExact
  BY <1>1, LoadHolds
<1>4. SessionsRunnable
  <2> SUFFICES ASSUME NEW k \in Live
               PROVE  LET s == sessions[k]
                      IN  /\ s.state \in DOMAIN s.scenario.states
                          /\ \A i \in DOMAIN s.scenario.states[s.state].enter :
                               s.scenario.states[s.state].enter[i].target # None
    BY DEF SessionsRunnable
  <2>1. sessions[k] \in Sessions
    BY <1>1 DEF CallTyped, Store, Live
  <2>2. /\ sessions[k].scenario \in Scenarios
        /\ sessions[k].state \in DOMAIN sessions[k].scenario.states
    BY <2>1, SessionFacts
  <2>3. Targeted(sessions[k].scenario)
    BY <2>2, ScenarioFacts
  <2> QED
    BY <2>2, <2>3 DEF Targeted
<1>5. LimitsUsable
  BY <1>1, SnapshotFacts DEF LimitsUsable, CallTyped
<1> QED
  BY <1>2, <1>3, <1>4, <1>5 DEF ConfigUsable

\* However files are edited and loaded, those with a null in a list included, on
\* which a load panics and leaves no config, and whatever clients do meanwhile: no
\* session is in a state its scenario lacks or has an action without a target, no
\* snapshot has a limit that stops the app, and the states a load warns about are
\* those that nothing leads to (validate.go:219, validate.go:257, load.go:130).
THEOREM ConfigUsableHolds == Spec => []ConfigUsable
  BY ServerInvariant, MissInvariant, Usable, PTL

\* However loads and the calls of others fall between the steps of a request: a
\* scenario header is honoured, no 404 lists a rule or an endpoint that takes the
\* request, and starting the session it advises helps (engine.go:117,
\* server.go:161, server.go:213).
THEOREM AnswersHoldHolds == Spec => []AnswersHold
<1>1. ServerInv => AnswersHold
  BY DEF ServerInv, CallInv
<1> QED
  BY <1>1, ServerInvariant, PTL
=============================================================================
