---------------------------- MODULE MCDispatcher ----------------------------
(* Small instances of Dispatcher for TLC. *)
EXTENDS Dispatcher, TLC

\* Workers are interchangeable, and so are callers: nothing names one.
Symmetry == Permutations(Worker) \cup Permutations(Caller)

-----------------------------------------------------------------------------
(* Times as the code compares them.  No guard or property depends on the date, *)
(* only on differences, so states that differ by a shift of the wall clock, or *)
(* in fields of deliveries nobody will look at again, count as one.            *)

\* Something still refers to d.
Alive(d) ==
  \/ d \in fresh \cup heap \cup pending \cup running \cup due
  \/ \E e \in Executor : at[e] = d
  \/ BeingCanceled(d)

DeliveryView(d) ==
  <<d \in canceled, journal[d],
    IF Alive(d) THEN <<sess[d], event[d], d \in hook, order[d], fireAt[d] - now,
                      attempts[d]>>
                ELSE <<>> >>

\* Session time counted from the session's own present.  A call that is giving
\* its session back uses nothing but the session.
CallView(c) ==
  LET k == call[c]
      present == now + offset[k.s]
  IN  CASE pc[c] = "release" -> NewCall("none", k.s, 0, {})
        [] Drives(c) /\ k.op = "advance" ->
             [k EXCEPT !.target = @ - present, !.late = {d \in @ : Alive(d)},
                       !.prev = IF k.fired = 0 THEN 0 ELSE @ - present]
        [] Drives(c) /\ k.op = "deliver" -> [k EXCEPT !.target = 0]
        [] OTHER -> k

View ==
  <<now < MaxNow, [s \in Session |-> offset[s] > 0], ownerVars, queueVars,
    last, fresh,
    [d \in 1 .. last |-> DeliveryView(d)], run, due,
    IF run = "hand" THEN <<scanned - now, wait>> ELSE <<>>,
    IF run = "sleep" THEN <<scanned + wait - now, timer - now>> ELSE <<>>,
    wake, stop, execVars,
    [c \in Caller |-> CallView(c)], calls>>
=============================================================================
