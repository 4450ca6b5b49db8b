----------------------------- MODULE ThreadQueue -----------------------------
(***************************************************************************)
(* The inter-thread queue of soj_queue.c: a linked list guarded by a mutex *)
(* and a condition variable.  Every action is one critical section of the  *)
(* code, so the mutex itself needs no state; pthread_cond_wait splits      *)
(* tq_pop into the part before it sleeps and the part after it is woken.   *)
(*                                                                         *)
(* In the program the work queue is pushed to by every mining thread and   *)
(* popped by the workio thread, which freezes it when it ends; the stratum *)
(* thread's queue carries the pool's url.  tq_free has no caller, so `stop'*)
(* never becomes true and is left out.                                     *)
(***************************************************************************)
EXTENDS Naturals, Sequences, FiniteSets

CONSTANTS Poppers,       \* threads that call tq_pop
          TimedPoppers,  \* those of them that pass a deadline (abstime)
          Data,          \* payload pointers, NULL (the shutdown pill) included
          MaxPushes      \* bound on accepted pushes

ASSUME PoppersAssumption == IsFiniteSet(Poppers) /\ TimedPoppers \subseteq Poppers
ASSUME MaxPushesAssumption == MaxPushes \in Nat

VARIABLES q,          \* tq->q, oldest entry first
          frozen,     \* tq->frozen
          popper,     \* where each popper is: outside, asleep or woken
          accepted,   \* history: every payload tq_push returned true for
          delivered   \* history: every payload tq_pop took off the list

vars == <<q, frozen, popper, accepted, delivered>>

PopperState == {"outside", "entered", "asleep", "woken"}

Asleep == {t \in Poppers : popper[t] = "asleep"}
Woken  == {t \in Poppers : popper[t] = "woken"}
-----------------------------------------------------------------------------
(* tq_new *)
Init == /\ q = << >>
        /\ frozen = FALSE
        /\ popper = [t \in Poppers |-> "outside"]
        /\ accepted = << >>
        /\ delivered = << >>

(* pthread_cond_signal: wakes one sleeper if there is one. *)
Signal == IF Asleep = {}
          THEN UNCHANGED popper
          ELSE \E t \in Asleep : popper' = [popper EXCEPT ![t] = "woken"]

(* Mutants of tq_push: list_add instead of list_add_tail; a signal only    *)
(* when the list was empty; a frozen queue that still takes the entry.     *)
PushAccepted_AtHead(d) == /\ ~frozen
                          /\ Len(accepted) < MaxPushes
                          /\ q' = <<d>> \o q
                          /\ accepted' = Append(accepted, d)
                          /\ Signal
                          /\ UNCHANGED <<frozen, delivered>>

PushAccepted_SignalIfEmpty(d) == /\ ~frozen
                                 /\ Len(accepted) < MaxPushes
                                 /\ q' = Append(q, d)
                                 /\ accepted' = Append(accepted, d)
                                 /\ IF q = << >> THEN Signal ELSE UNCHANGED popper
                                 /\ UNCHANGED <<frozen, delivered>>

PushRefused_Queued == /\ frozen
                      /\ Len(accepted) < MaxPushes
                      /\ \E d \in Data : q' = Append(q, d) /\ accepted' = Append(accepted, d)
                      /\ Signal
                      /\ UNCHANGED <<frozen, delivered>>

(* tq_push: a frozen queue refuses the entry; the signal is sent either way. *)
PushAccepted(d) == /\ ~frozen
                   /\ Len(accepted) < MaxPushes
                   /\ q' = Append(q, d)
                   /\ accepted' = Append(accepted, d)
                   /\ Signal
                   /\ UNCHANGED <<frozen, delivered>>

PushRefused == /\ frozen
               /\ Signal
               /\ UNCHANGED <<q, frozen, accepted, delivered>>

(* tq_freeze *)
Freeze == /\ frozen' = TRUE
          /\ Signal
          /\ UNCHANGED <<q, accepted, delivered>>

(* A thread calls tq_pop. *)
Enter(t) == /\ popper[t] = "outside"
            /\ popper' = [popper EXCEPT ![t] = "entered"]
            /\ UNCHANGED <<q, frozen, accepted, delivered>>

(* Mutant of tq_pop: `if' instead of `while', so that a woken thread takes *)
(* the list head itself off an empty list.                                 *)
Take_NoRecheck(t) == /\ popper[t] = "woken" \/ (popper[t] = "entered" /\ q # << >>)
                     /\ q' = IF q = << >> THEN q ELSE Tail(q)
                     /\ delivered' = Append(delivered,
                                           IF q = << >> THEN "listhead" ELSE Head(q))
                     /\ popper' = [popper EXCEPT ![t] = "outside"]
                     /\ UNCHANGED <<frozen, accepted>>

(* tq_pop holds the mutex: it takes the head, or sleeps on an empty list. *)
Take(t) == /\ popper[t] \in {"entered", "woken"}
           /\ q # << >>
           /\ q' = Tail(q)
           /\ delivered' = Append(delivered, Head(q))
           /\ popper' = [popper EXCEPT ![t] = "outside"]
           /\ UNCHANGED <<frozen, accepted>>

Sleep(t) == /\ popper[t] \in {"entered", "woken"}
            /\ q = << >>
            /\ popper' = [popper EXCEPT ![t] = "asleep"]
            /\ UNCHANGED <<q, frozen, accepted, delivered>>

(* pthread_cond_wait may return without a signal; the loop tests again. *)
SpuriousWakeup(t) == /\ popper[t] = "asleep"
                     /\ popper' = [popper EXCEPT ![t] = "woken"]
                     /\ UNCHANGED <<q, frozen, accepted, delivered>>

(* pthread_cond_timedwait reports the deadline: tq_pop returns NULL. *)
Timeout(t) == /\ t \in TimedPoppers
              /\ popper[t] = "asleep"
              /\ popper' = [popper EXCEPT ![t] = "outside"]
              /\ UNCHANGED <<q, frozen, accepted, delivered>>

Next == \/ \E d \in Data : PushAccepted(d)
        \/ PushRefused
        \/ Freeze
        \/ \E t \in Poppers : \/ Enter(t)
                              \/ Take(t)
                              \/ Sleep(t)
                              \/ SpuriousWakeup(t)
                              \/ Timeout(t)

Spec == Init /\ [][Next]_vars

(* A thread that is inside tq_pop and not asleep runs on: the mutex is     *)
(* never held across a blocking call.                                      *)
Fairness == \A t \in Poppers : WF_vars(Take(t)) /\ WF_vars(Sleep(t))

FairSpec == Spec /\ Fairness
-----------------------------------------------------------------------------
(* Every variable holds a value of the kind the C declaration gives it.    *)
TypeOK == /\ q \in Seq(Data)
          /\ frozen \in BOOLEAN
          /\ popper \in [Poppers -> PopperState]
          /\ accepted \in Seq(Data)
          /\ delivered \in Seq(Data)

(* What went in comes out once, in order: the payloads tq_pop handed out   *)
(* followed by those still queued are exactly the accepted ones, whatever  *)
(* the poppers' interleaving and however often the queue was frozen.       *)
Fifo == accepted = delivered \o q

(* No lost wake-up: tq_push signals one thread per entry, so while threads *)
(* sleep on the queue there is a woken thread for every entry; a signal    *)
(* that went to a thread which then found the list empty was not needed.   *)
NoLostWakeup == Asleep # {} => Len(q) <= Cardinality(Woken)

(* The queue is a FIFO line: an abstract consumer asks from its call of    *)
(* tq_pop until it returns.                                                *)
Line == INSTANCE FifoQueue WITH line <- q, closed <- frozen,
            asking <- {t \in Poppers : popper[t] # "outside"}

(* soj_queue.c implements the line of FifoQueue, delivery included.        *)
ImplementsLine == Line!ASpec
=============================================================================
