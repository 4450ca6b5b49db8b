------------------------------ MODULE FifoQueue ------------------------------
(***************************************************************************)
(* What the callers of soj_queue.c rely on: one first-in first-out line    *)
(* that producers extend until it is closed, and consumers that ask for an *)
(* element and sooner or later get the oldest one.  Nothing is said of     *)
(* locks, condition variables or sleeping threads.                         *)
(***************************************************************************)
EXTENDS Sequences

CONSTANTS Poppers,   \* threads that may ask for an element
          Data       \* what may be put in the line

VARIABLES line,      \* the elements, oldest first
          closed,    \* no further element is accepted
          asking     \* the poppers that wait for an element

avars == <<line, closed, asking>>

AInit == line = << >> /\ closed = FALSE /\ asking = {}

Put(d) == /\ ~closed
          /\ line' = Append(line, d)
          /\ UNCHANGED <<closed, asking>>

Ask(t) == /\ t \notin asking
          /\ asking' = asking \cup {t}
          /\ UNCHANGED <<line, closed>>

Deliver(t) == /\ t \in asking
              /\ line # << >>
              /\ line' = Tail(line)
              /\ asking' = asking \ {t}
              /\ UNCHANGED closed

\* A consumer that asked with a deadline gives up.
GiveUp(t) == /\ t \in asking
             /\ asking' = asking \ {t}
             /\ UNCHANGED <<line, closed>>

Close == closed' = TRUE /\ UNCHANGED <<line, asking>>

DeliverSome == \E t \in Poppers : Deliver(t)

ANext == \/ \E d \in Data : Put(d)
         \/ \E t \in Poppers : Ask(t) \/ GiveUp(t)
         \/ DeliverSome
         \/ Close

ASafe == AInit /\ [][ANext]_avars

\* As long as somebody asks and something is there, something is delivered.
ASpec == ASafe /\ WF_avars(DeliverSome)
=============================================================================
