--------------------------- MODULE ShareAccounts ----------------------------
(***************************************************************************)
(* The counting of shares (soj.c): a miner queues a share for the workio   *)
(* thread and only then enters it in the statistics, the workio thread     *)
(* sends it or drops it, the pool may answer, and the stratum thread       *)
(* counts the answer and, on a reset, empties the ring of statistics       *)
(* without stats_lock.                                                     *)
(***************************************************************************)
EXTENDS Naturals, FiniteSets

CONSTANTS Finders,      \* the mining threads
          RingSize,     \* s_stats_size (256)
          MaxShares     \* bound: shares found

ASSUME AccountAssumption == /\ RingSize \in Nat \ {0} /\ MaxShares \in Nat
                            /\ IsFiniteSet(Finders)

VARIABLES stage,        \* stage[m]: where miner m is in submit_solution
          share,        \* share[m]: the share it is handling
          found,        \* shares found so far
          queued, onWire, \* shares at the workio thread and at the pool
          submitted, accepted, rejected, \* the three share counters
          ring, s_get_ptr, s_put_ptr,
          overlap       \* history: the ring was emptied during an entry

avars == <<stage, share, found, queued, onWire, submitted, accepted, rejected,
           ring, s_get_ptr, s_put_ptr, overlap>>

AInit == /\ stage = [m \in Finders |-> "scan"] /\ share = [m \in Finders |-> 0]
         /\ found = 0 /\ queued = {} /\ onWire = {}
         /\ submitted = 0 /\ accepted = 0 /\ rejected = 0
         /\ ring = [p \in 0..(RingSize - 1) |-> <<0, 0>>]
         /\ s_get_ptr = 0 /\ s_put_ptr = 0 /\ overlap = FALSE

(* stats_lock is held by the miner that is storing an entry.               *)
StatsFree == \A m \in Finders : stage[m] # "store"

(* submit_work queues the share; update_submit_stats has yet to run.       *)
QueueShare(m) == /\ stage[m] = "scan" /\ found < MaxShares
                 /\ found' = found + 1
                 /\ share' = [share EXCEPT ![m] = found + 1]
                 /\ queued' = queued \cup {found + 1}
                 /\ stage' = [stage EXCEPT ![m] = "queued"]
                 /\ UNCHANGED <<onWire, submitted, accepted, rejected, ring, s_get_ptr, s_put_ptr, overlap>>

(* The push is refused: the share is lost and not counted.                 *)
RefuseShare(m) == /\ stage[m] = "scan" /\ found < MaxShares
                  /\ found' = found + 1
                  /\ UNCHANGED <<stage, share, queued, onWire, submitted, accepted, rejected,
                                 ring, s_get_ptr, s_put_ptr, overlap>>

Incr(p) == (p + 1) % RingSize

CountShare_NoLock(m) == /\ stage[m] = "queued"
                 /\ submitted' = submitted + 1
                 /\ ring' = [ring EXCEPT ![s_put_ptr] = <<share[m], @[2]>>]
                 /\ stage' = [stage EXCEPT ![m] = "store"]
                 /\ UNCHANGED <<share, found, queued, onWire, accepted, rejected, s_get_ptr, s_put_ptr, overlap>>

(* update_submit_stats, up to the first field of the entry ...             *)
CountShare(m) == /\ stage[m] = "queued" /\ StatsFree
                 /\ submitted' = submitted + 1
                 /\ ring' = [ring EXCEPT ![s_put_ptr] = <<share[m], @[2]>>]
                 /\ stage' = [stage EXCEPT ![m] = "store"]
                 /\ UNCHANGED <<share, found, queued, onWire, accepted, rejected, s_get_ptr, s_put_ptr, overlap>>

(* ... and the other fields, each stored where s_put_ptr points by then.   *)
StoreShare(m) == /\ stage[m] = "store"
                 /\ ring' = [ring EXCEPT ![s_put_ptr] = <<@[1], share[m]>>]
                 /\ s_put_ptr' = Incr(s_put_ptr)
                 /\ stage' = [stage EXCEPT ![m] = "scan"]
                 /\ UNCHANGED <<share, found, queued, onWire, submitted, accepted, rejected, s_get_ptr, overlap>>

SendShare_Again(s) == /\ s \in queued
                /\ queued' = queued /\ onWire' = onWire \cup {s}
                /\ UNCHANGED <<stage, share, found, submitted, accepted, rejected, ring, s_get_ptr, s_put_ptr, overlap>>

(* The workio thread sends a share, or drops it: stale, suspended, or the  *)
(* line cannot be sent.                                                    *)
SendShare(s) == /\ s \in queued
                /\ queued' = queued \ {s} /\ onWire' = onWire \cup {s}
                /\ UNCHANGED <<stage, share, found, submitted, accepted, rejected, ring, s_get_ptr, s_put_ptr, overlap>>

DropShare(s) == /\ s \in queued
                /\ queued' = queued \ {s}
                /\ UNCHANGED <<stage, share, found, onWire, submitted, accepted, rejected, ring, s_get_ptr, s_put_ptr, overlap>>

(* share_result: the pool's answer to a share is counted under stats_lock. *)
ShareResult(s, result) == /\ s \in onWire /\ StatsFree
                          /\ onWire' = onWire \ {s}
                          /\ accepted' = IF result THEN accepted + 1 ELSE accepted
                          /\ rejected' = IF result THEN rejected ELSE rejected + 1
                          /\ UNCHANGED <<stage, share, found, queued, submitted, ring, s_get_ptr, s_put_ptr, overlap>>

(* The reset block of stratum_thread; the pool forgets what it was sent.   *)
ResetRing == /\ onWire' = {}
             /\ IF s_get_ptr # s_put_ptr
                THEN /\ s_get_ptr' = 0 /\ s_put_ptr' = 0
                     /\ overlap' = (overlap \/ ~StatsFree)
                ELSE UNCHANGED <<s_get_ptr, s_put_ptr, overlap>>
             /\ UNCHANGED <<stage, share, found, queued, submitted, accepted, rejected, ring>>

ANext == \/ \E m \in Finders : \/ QueueShare(m) \/ RefuseShare(m)
                               \/ CountShare(m) \/ StoreShare(m)
         \/ \E s \in 1..MaxShares : \/ SendShare(s) \/ DropShare(s)
                                    \/ ShareResult(s, TRUE) \/ ShareResult(s, FALSE)
         \/ ResetRing

AccountSpec == AInit /\ [][ANext]_avars

-----------------------------------------------------------------------------
(* Shares queued and not yet counted. *)
Uncounted == {m \in Finders : stage[m] = "queued"}

(* The pool's answers never exceed the shares submitted, although a share  *)
(* may be answered before its miner has counted it: every answer belongs   *)
(* to a share that is counted or is about to be.                           *)
AnswersCovered == accepted + rejected + Cardinality(onWire) + Cardinality(queued)
                     <= submitted + Cardinality(Uncounted)

(* The statistics of two shares are not mixed in one entry of the ring,    *)
(* except when the stratum thread has emptied it during a store.           *)
EntriesWhole == overlap \/ \A p \in 0..(RingSize - 1) :
                              \/ ring[p][1] = ring[p][2]
                              \/ p = s_put_ptr /\ ~StatsFree
=============================================================================
