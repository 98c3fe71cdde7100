----------------------------- MODULE ProjectedView -----------------------------
(***************************************************************************)
(* What a projection of the event log promises: a view that follows the    *)
(* log one event at a time.  Truth gives the content the view should have  *)
(* after a prefix of the log; mark is how far the view is known to have    *)
(* got, and while the next event is applied some slots already show it.    *)
(*                                                                         *)
(* The promise is void from the moment a rebuild discards the view until   *)
(* the mark is back at the start: for good, when that rebuild is given up. *)
(***************************************************************************)
EXTENDS Naturals, Sequences

CONSTANTS
    Truth(_),  \* the content of the view after a prefix of the log
    Slots      \* the keys of the view

VARIABLES log, mark, view, void

vars == <<log, mark, view, void>>

Prefix(n) == SubSeq(log, 1, n)

\* The event at n is the next one that changes anything.
Following(n) ==
    /\ n \in mark + 1..Len(log)
    /\ \A m \in mark + 1..n - 1 : Truth(Prefix(m)) = Truth(Prefix(mark))

Init ==
    /\ log = << >>
    /\ mark = 0
    /\ view = Truth(<< >>)
    /\ void = FALSE

Extend ==
    /\ Len(log') = Len(log) + 1
    /\ SubSeq(log', 1, Len(log)) = log
    /\ UNCHANGED <<mark, view, void>>

\* One slot takes the value it has after the next event.
Show ==
    /\ ~void
    /\ UNCHANGED <<log, mark, void>>
    /\ \E n \in 1..Len(log), h \in Slots :
          /\ view' = [view EXCEPT ![h] = view'[h]]
          /\ Following(n)
          /\ view'[h] = Truth(Prefix(n))[h]

\* The mark passes an event that shows in whole, or that changes nothing.
Commit ==
    /\ ~void
    /\ UNCHANGED <<log, view, void>>
    /\ Following(mark')
    /\ Truth(Prefix(mark')) \in {view, Truth(Prefix(mark))}

Discard ==
    /\ void' = TRUE
    /\ UNCHANGED log

StartOver ==
    /\ void
    /\ void' = FALSE
    /\ mark' = 0
    /\ view' = Truth(<< >>)
    /\ UNCHANGED log

Next == Extend \/ Show \/ Commit \/ Discard \/ StartOver

Spec == Init /\ [][Next]_vars

=============================================================================
