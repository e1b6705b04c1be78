----------------------------- MODULE RecentLog ------------------------------
(***************************************************************************)
(* What a reader of the journal or of the 404 log may rely on: a list,     *)
(* newest first, of the last Size entries since it was cleared.  An entry  *)
(* may be amended while it is listed; it keeps its id and its place.       *)
(***************************************************************************)
EXTENDS Integers, Sequences

CONSTANT Size       \* how many entries are kept

VARIABLE recent

Keep(s) == SubSeq(s, 1, IF Len(s) < Size THEN Len(s) ELSE Size)

\* A new entry is listed first; the oldest may drop out.
Prepend ==
  /\ recent' # <<>>
  /\ \A i \in DOMAIN recent : recent[i].id # Head(recent').id
  /\ recent' = Keep(<<Head(recent')>> \o recent)

Amend(i) ==
  /\ recent' = [recent EXCEPT ![i] = recent'[i]]
  /\ recent'[i].id = recent[i].id

Forget == recent' = <<>>

RecentInit == recent = <<>>

RecentNext == Prepend \/ Forget \/ \E i \in DOMAIN recent : Amend(i)

RecentSpec == RecentInit /\ [][RecentNext]_recent
=============================================================================
