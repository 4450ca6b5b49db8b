-------------------------- MODULE ThreadQueueProofs --------------------------
(***************************************************************************)
(* Proofs about soj_queue.c for every number of poppers and pushes.        *)
(***************************************************************************)
EXTENDS ThreadQueue, FiniteSetTheorems, SequenceTheorems, TLAPS

(* Every step of the queue keeps the types of its fields. *)
THEOREM TypeCorrect == Spec => []TypeOK
<1>1. Init => TypeOK
  <2>1. << >> \in Seq(Data)
    OBVIOUS
  <2> QED
    BY <2>1 DEF Init, TypeOK, PopperState
<1>2. TypeOK /\ [Next]_vars => TypeOK'
  <2> SUFFICES ASSUME TypeOK, [Next]_vars PROVE TypeOK'
    OBVIOUS
  <2> USE DEF TypeOK, PopperState
  <2>s. Signal => popper' \in [Poppers -> PopperState]
    BY DEF Signal, Asleep
  <2>1. ASSUME NEW d \in Data, PushAccepted(d) PROVE TypeOK'
    BY <2>1, <2>s DEF PushAccepted
  <2>2. CASE PushRefused
    BY <2>2, <2>s DEF PushRefused
  <2>3. CASE Freeze
    BY <2>3, <2>s DEF Freeze
  <2>4. ASSUME NEW t \in Poppers, Enter(t) PROVE TypeOK'
    BY <2>4 DEF Enter
  <2>5. ASSUME NEW t \in Poppers, Take(t) PROVE TypeOK'
    BY <2>5 DEF Take
  <2>6. ASSUME NEW t \in Poppers, Sleep(t) PROVE TypeOK'
    BY <2>6 DEF Sleep
  <2>7. ASSUME NEW t \in Poppers, SpuriousWakeup(t) PROVE TypeOK'
    BY <2>7 DEF SpuriousWakeup
  <2>8. ASSUME NEW t \in Poppers, Timeout(t) PROVE TypeOK'
    BY <2>8 DEF Timeout
  <2>9. CASE UNCHANGED vars
    BY <2>9 DEF vars
  <2> QED
    BY <2>1, <2>2, <2>3, <2>4, <2>5, <2>6, <2>7, <2>8, <2>9 DEF Next
<1> QED
  BY <1>1, <1>2, PTL DEF Spec
-----------------------------------------------------------------------------
(* Moving the head of a sequence to the end of the one before it leaves    *)
(* their concatenation as it is: what tq_pop does to Fifo.                 *)
LEMMA MoveHead ==
  ASSUME NEW S, NEW d \in Seq(S), NEW s \in Seq(S), s # << >>
  PROVE  Append(d, Head(s)) \o Tail(s) = d \o s
<1>1. Head(s) \in S /\ Tail(s) \in Seq(S) /\ s = <<Head(s)>> \o Tail(s)
  BY HeadTailProperties, ConcatProperties
<1>2. Append(d, Head(s)) = d \o <<Head(s)>>
  BY <1>1, AppendIsConcat
<1>3. <<Head(s)>> \in Seq(S)
  BY <1>1
<1> QED
  BY <1>1, <1>2, <1>3, ConcatAssociative

(* Adding to the end of the second sequence adds to the end of both. *)
LEMMA AppendSecond ==
  ASSUME NEW S, NEW d \in Seq(S), NEW s \in Seq(S), NEW e \in S
  PROVE  Append(d \o s, e) = d \o Append(s, e)
<1>1. <<e>> \in Seq(S)
  OBVIOUS
<1>2. d \o s \in Seq(S)
  BY ConcatProperties
<1>3. Append(d \o s, e) = (d \o s) \o <<e>>
  BY <1>2, AppendIsConcat
<1>4. Append(s, e) = s \o <<e>>
  BY AppendIsConcat
<1>5. (d \o s) \o <<e>> = d \o (s \o <<e>>)
  BY <1>1, ConcatAssociative
<1> QED
  BY <1>3, <1>4, <1>5

(* No payload is lost, duplicated or overtaken between tq_push and tq_pop. *)
THEOREM FifoOrder == Spec => []Fifo
<1>1. Init => Fifo
  <2>1. << >> \o << >> = << >>
    OBVIOUS
  <2> QED
    BY <2>1 DEF Init, Fifo
<1>2. TypeOK /\ Fifo /\ [Next]_vars => Fifo'
  <2> SUFFICES ASSUME TypeOK, Fifo, [Next]_vars PROVE Fifo'
    OBVIOUS
  <2> USE DEF Fifo
  <2>1. ASSUME NEW d \in Data, PushAccepted(d) PROVE Fifo'
    <3>1. q \in Seq(Data) /\ delivered \in Seq(Data)
      BY DEF TypeOK
    <3>2. Append(delivered \o q, d) = delivered \o Append(q, d)
      BY <3>1, AppendSecond
    <3> QED
      BY <2>1, <3>2 DEF PushAccepted
  <2>2. CASE PushRefused
    BY <2>2 DEF PushRefused
  <2>3. CASE Freeze
    BY <2>3 DEF Freeze
  <2>4. ASSUME NEW t \in Poppers, Take(t) PROVE Fifo'
    BY <2>4, MoveHead DEF Take, TypeOK
  <2>5. ASSUME NEW t \in Poppers,
               Enter(t) \/ Sleep(t) \/ SpuriousWakeup(t) \/ Timeout(t)
        PROVE  Fifo'
    BY <2>5 DEF Enter, Sleep, SpuriousWakeup, Timeout
  <2>6. CASE UNCHANGED vars
    BY <2>6 DEF vars
  <2> QED
    BY <2>1, <2>2, <2>3, <2>4, <2>5, <2>6 DEF Next
<1> QED
  BY <1>1, <1>2, TypeCorrect, PTL DEF Spec
-----------------------------------------------------------------------------
(* The sleepers and the woken threads are disjoint finite sets. *)
LEMMA SetsFinite ==
  /\ IsFiniteSet(Woken) /\ IsFiniteSet(Woken')
  /\ Cardinality(Woken) \in Nat /\ Cardinality(Woken') \in Nat
<1>1. Woken \subseteq Poppers /\ Woken' \subseteq Poppers
  BY DEF Woken
<1> QED
  BY <1>1, PoppersAssumption, FS_Subset, FS_CardinalityType

(* pthread_cond_signal wakes exactly one sleeper when there is one. *)
LEMMA SignalWakesOne ==
  ASSUME TypeOK, Signal
  PROVE  \/ Asleep = {} /\ Asleep' = {}
         \/ Asleep # {} /\ Cardinality(Woken') = Cardinality(Woken) + 1
<1>1. CASE Asleep = {}
  BY <1>1 DEF Signal, Asleep
<1>2. CASE Asleep # {}
  <2>1. PICK t \in Asleep : popper' = [popper EXCEPT ![t] = "woken"]
    BY <1>2 DEF Signal
  <2>2. t \notin Woken /\ Woken' = Woken \cup {t}
    BY <2>1 DEF Asleep, Woken, TypeOK
  <2> QED
    BY <1>2, <2>2, SetsFinite, FS_AddElement
<1> QED
  BY <1>1, <1>2

(* A thread sleeps on the queue only while a woken one answers for every   *)
(* entry: one signal per tq_push is enough for any number of poppers.      *)
THEOREM WakeupsSuffice == Spec => []NoLostWakeup
<1>1. Init => NoLostWakeup
  BY DEF Init, NoLostWakeup, Asleep
<1>2. TypeOK /\ NoLostWakeup /\ [Next]_vars => NoLostWakeup'
  <2> SUFFICES ASSUME TypeOK, NoLostWakeup, [Next]_vars PROVE NoLostWakeup'
    OBVIOUS
  <2>l. Len(q) \in Nat
    BY DEF TypeOK
  <2> USE SetsFinite, <2>l DEF NoLostWakeup
  <2>1. ASSUME NEW d \in Data, PushAccepted(d) PROVE NoLostWakeup'
    <3>1. Len(q') = Len(q) + 1
      BY <2>1 DEF PushAccepted, TypeOK
    <3>2. CASE Asleep = {} /\ Asleep' = {}
      BY <3>2
    <3>3. CASE Asleep # {} /\ Cardinality(Woken') = Cardinality(Woken) + 1
      BY <3>1, <3>3
    <3> QED
      BY <2>1, <3>2, <3>3, SignalWakesOne DEF PushAccepted
  <2>2. CASE PushRefused \/ Freeze
    <3>1. q' = q /\ Signal
      BY <2>2 DEF PushRefused, Freeze
    <3>2. CASE Asleep = {} /\ Asleep' = {}
      BY <3>2
    <3>3. CASE Asleep # {} /\ Cardinality(Woken') = Cardinality(Woken) + 1
      BY <3>1, <3>3
    <3> QED
      BY <3>1, <3>2, <3>3, SignalWakesOne
  <2>3. ASSUME NEW t \in Poppers, Enter(t) PROVE NoLostWakeup'
    <3>1. Asleep' = Asleep /\ Woken' = Woken /\ q' = q
      BY <2>3 DEF Enter, Asleep, Woken, TypeOK
    <3> QED
      BY <3>1
  <2>4. ASSUME NEW t \in Poppers, Take(t) PROVE NoLostWakeup'
    <3>1. Len(q') = Len(q) - 1 /\ Asleep' = Asleep
      BY <2>4 DEF Take, Asleep, TypeOK
    <3>2. CASE popper[t] = "woken"
      <4>1. t \in Woken /\ Woken' = Woken \ {t}
        BY <2>4, <3>2 DEF Take, Woken, TypeOK
      <4>2. Cardinality(Woken') = Cardinality(Woken) - 1
        BY <4>1, FS_RemoveElement
      <4> QED
        BY <3>1, <4>2
    <3>3. CASE popper[t] # "woken"
      <4>1. Woken' = Woken
        BY <2>4, <3>3 DEF Take, Woken, TypeOK
      <4> QED
        BY <3>1, <4>1
    <3> QED
      BY <3>2, <3>3
  <2>5. ASSUME NEW t \in Poppers, Sleep(t) PROVE NoLostWakeup'
    <3>1. Len(q') = 0
      BY <2>5 DEF Sleep
    <3> QED
      BY <3>1
  <2>6. ASSUME NEW t \in Poppers, SpuriousWakeup(t) PROVE NoLostWakeup'
    <3>1. q' = q /\ Asleep # {} /\ t \notin Woken /\ Woken' = Woken \cup {t}
      BY <2>6 DEF SpuriousWakeup, Asleep, Woken, TypeOK
    <3>2. Cardinality(Woken') = Cardinality(Woken) + 1
      BY <3>1, FS_AddElement
    <3> QED
      BY <3>1, <3>2
  <2>7. ASSUME NEW t \in Poppers, Timeout(t) PROVE NoLostWakeup'
    <3>1. q' = q /\ Asleep # {} /\ Woken' = Woken
      BY <2>7 DEF Timeout, Asleep, Woken, TypeOK
    <3> QED
      BY <3>1
  <2>8. CASE UNCHANGED vars
    BY <2>8 DEF vars, Asleep, Woken
  <2> QED
    BY <2>1, <2>2, <2>3, <2>4, <2>5, <2>6, <2>7, <2>8 DEF Next
<1> QED
  BY <1>1, <1>2, TypeCorrect, PTL DEF Spec
-----------------------------------------------------------------------------
(* The poppers of the abstract line: those inside tq_pop. *)
Inside == {t \in Poppers : popper[t] # "outside"}

(* Waking or putting to sleep a popper is invisible to the line. *)
LEMMA SignalInvisible ==
  ASSUME TypeOK, Signal
  PROVE  Inside' = Inside
<1>1. CASE Asleep = {}
  BY <1>1 DEF Signal, Inside
<1>2. CASE Asleep # {}
  <2>1. PICK t \in Asleep : popper' = [popper EXCEPT ![t] = "woken"]
    BY <1>2 DEF Signal
  <2> QED
    BY <2>1 DEF Asleep, Inside, TypeOK
<1> QED
  BY <1>1, <1>2

(* Every step of soj_queue.c is a step of the first-in first-out line, or  *)
(* one its callers cannot see (the safety part of ImplementsLine).         *)
THEOREM LineRefinement == Spec => Line!ASafe
<1>1. Init => Line!AInit
  BY DEF Init, Line!AInit
<1>2. TypeOK /\ [Next]_vars => [Line!ANext]_(Line!avars)
  <2> SUFFICES ASSUME TypeOK, [Next]_vars PROVE Line!ANext \/ UNCHANGED Line!avars
    OBVIOUS
  <2> USE DEF Inside, Line!avars
  <2>1. ASSUME NEW d \in Data, PushAccepted(d) PROVE Line!Put(d)
    BY <2>1, SignalInvisible DEF PushAccepted, Line!Put
  <2>2. CASE PushRefused
    BY <2>2, SignalInvisible DEF PushRefused
  <2>3. CASE Freeze
    <3>1. Line!Close
      BY <2>3, SignalInvisible DEF Freeze, Line!Close
    <3> QED
      BY <3>1 DEF Line!ANext
  <2>4. ASSUME NEW t \in Poppers, Enter(t) PROVE Line!Ask(t)
    BY <2>4 DEF Enter, Line!Ask, TypeOK
  <2>5. ASSUME NEW t \in Poppers, Take(t) PROVE Line!Deliver(t)
    BY <2>5 DEF Take, Line!Deliver, TypeOK
  <2>6. ASSUME NEW t \in Poppers, Sleep(t) \/ SpuriousWakeup(t)
        PROVE  UNCHANGED Line!avars
    BY <2>6 DEF Sleep, SpuriousWakeup, TypeOK
  <2>7. ASSUME NEW t \in Poppers, Timeout(t) PROVE Line!GiveUp(t)
    BY <2>7 DEF Timeout, Line!GiveUp, TypeOK
  <2>8. CASE UNCHANGED vars
    BY <2>8 DEF vars
  <2> QED
    BY <2>1, <2>2, <2>3, <2>4, <2>5, <2>6, <2>7, <2>8
    DEF Next, Line!ANext, Line!DeliverSome
<1> QED
  BY <1>1, <1>2, TypeCorrect, PTL DEF Spec, Line!ASafe
=============================================================================
