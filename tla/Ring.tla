-------------------------------- MODULE Ring --------------------------------
(***************************************************************************)
(* The ring buffer of DeliveryLog (src/internal/webhook/log.go) and of the *)
(* 404 log (src/internal/misslog/misslog.go): next is the slot written     *)
(* next, count the slots in use.                                           *)
(***************************************************************************)
EXTENDS Integers

CONSTANTS
  Size,    \* slots
  NoEntry  \* nil

Slot == 0 .. Size - 1

EmptyRing == [slot |-> [i \in Slot |-> NoEntry], next |-> 0, count |-> 0]

\* BUG: the write index runs one slot ahead while the ring fills up.
PushSkewed(r, x) ==
  [slot  |-> [r.slot EXCEPT ![r.next] = x],
   next  |-> (r.next + IF r.count + 1 = Size THEN 2 ELSE 1) % Size,
   count |-> IF r.count < Size THEN r.count + 1 ELSE r.count]

\* BUG: the write index does not wrap around.
PushUnwrapped(r, x) ==
  [slot  |-> [r.slot EXCEPT ![r.next % Size] = x],
   next  |-> r.next + 1,
   count |-> IF r.count < Size THEN r.count + 1 ELSE r.count]

\* The second half of Add: x takes the slot of the oldest entry.
Push(r, x) ==
  [slot  |-> [r.slot EXCEPT ![r.next] = x],
   next  |-> (r.next + 1) % Size,
   count |-> IF r.count < Size THEN r.count + 1 ELSE r.count]

\* The i-th newest entry, from 0.
Nth(r, i) == r.slot[(r.next - 1 - i + 2 * Size) % Size]

\* The loop of Page and List: the entries in use, newest first.
NewestFirst(r) == [i \in 1 .. r.count |-> Nth(r, i - 1)]

Entries(r) == {r.slot[i] : i \in Slot} \ {NoEntry}
=============================================================================
