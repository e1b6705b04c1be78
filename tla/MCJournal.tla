----------------------------- MODULE MCJournal ------------------------------
(* Small instances of Journal for TLC. *)
EXTENDS Journal

\* Of a delivery whose record has left the journal nothing matters any more but
\* that it was scheduled, and what a duplicate of it must look like: a replay
\* under way works from a copy.
RecordView(d) ==
  IF d \in byID
  THEN <<rec[d], state[d], d \in taken, d \in sending, tries[d], d \in dropped>>
  ELSE <<state[d] = "none", rec[d].header, rec[d].body>>

\* Of that copy a replay uses the id, the session, the header id and the body; what
\* it made matters while it waits.
ReplayView(c) ==
  LET r == replay[c]
  IN  <<r.source.id, r.source.session, r.source.header, r.source.body, r.mode,
        IF pc[c] = "waiting" THEN r.made ELSE NoDelivery>>

View ==
  <<ring, byID, [d \in Delivery |-> RecordView(d)], pc, walk,
    [c \in Client |-> ReplayView(c)], stayed>>
=============================================================================
