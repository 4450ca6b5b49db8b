----------------------------- MODULE RateWindow -----------------------------
(***************************************************************************)
(* The hash rates of the statistics line (civiclight_stats.c): every       *)
(* interval the statistics thread looks back through a ring of samples for *)
(* the oldest one inside each window, then adds a sample of its own.  The  *)
(* clock is taken to be monotone; a rate is kept as the pair <<hashes,     *)
(* seconds>> it is the quotient of, <<0, 0>> for none.                     *)
(***************************************************************************)
EXTENDS Integers, Sequences

CONSTANTS Samples,      \* CIVICLIGHT_STATS_SAMPLES (92)
          Interval,     \* CIVICLIGHT_STATS_INTERVAL (10)
          Sleeps,       \* seconds between two looks; at least the interval
          Windows,      \* the windows, in seconds (60, 300, 900)
          Batches,      \* hashes done between two looks
          MaxLooks      \* bound: looks of the thread

\* The ring spans the longest window (92 samples 10 seconds apart for 900 seconds).
ASSUME RateAssumption == /\ Samples \in Nat \ {0} /\ Interval \in Nat \ {0} /\ MaxLooks \in Nat
                         /\ \A s \in Sleeps : s \in Nat /\ s >= Interval
                         /\ \A w \in Windows : w \in Nat /\ w < (Samples + 1) * Interval
                         /\ \A n \in Batches : n \in Nat

VARIABLES clock, hashes,
          samples, rate_sample_next, rate_sample_count,
          rates,        \* rates[w]: rate shown for window w
          taken         \* history: all samples ever taken, the oldest first

hvars == <<clock, hashes, samples, rate_sample_next, rate_sample_count, rates, taken>>

Sample(t, h) == [at |-> t, hashes |-> h]

HInit == /\ clock = 0 /\ hashes = 0
         /\ samples = [i \in 0..(Samples - 1) |-> Sample(0, 0)]
         /\ rate_sample_next = 1 % Samples /\ rate_sample_count = 1
         /\ rates = [w \in Windows |-> <<0, 0>>]
         /\ taken = <<Sample(0, 0)>>

(* civiclight_stats_add_hashes. *)
AddHashes(n) == /\ hashes < MaxLooks
                /\ hashes' = hashes + n
                /\ UNCHANGED <<clock, samples, rate_sample_next, rate_sample_count, rates, taken>>

Aged_Next(age) == samples[(rate_sample_next + Samples - age + 1) % Samples]

(* The sample taken age looks ago. *)
Aged(age) == samples[(rate_sample_next + Samples - age) % Samples]

(* How far back the window reaches: the scan stops at the first sample     *)
(* that is too old.                                                        *)
Reach(now, w) == CHOOSE a \in 0..rate_sample_count :
                   /\ \A b \in 1..a : Aged(b).at >= now - w
                   /\ a < rate_sample_count => Aged(a + 1).at < now - w

WindowRate(now, w) ==
    LET a == Reach(now, w) IN
    IF a = 0 THEN <<0, 0>>
    ELSE IF now > Aged(a).at THEN <<hashes - Aged(a).hashes, now - Aged(a).at>>
    ELSE <<0, 0>>

(* One round of the statistics thread. *)
Look(s) == LET now == clock + s IN
           /\ Len(taken) <= MaxLooks
           /\ clock' = now
           /\ rates' = [w \in Windows |-> WindowRate(now, w)]
           /\ samples' = [samples EXCEPT ![rate_sample_next] = Sample(now, hashes)]
           /\ rate_sample_next' = (rate_sample_next + 1) % Samples
           /\ rate_sample_count' = IF rate_sample_count < Samples
                                   THEN rate_sample_count + 1 ELSE rate_sample_count
           /\ taken' = Append(taken, Sample(now, hashes))
           /\ UNCHANGED hashes

HNext == (\E n \in Batches : AddHashes(n)) \/ (\E s \in Sleeps : Look(s))

RateSpec == HInit /\ [][HNext]_hvars

-----------------------------------------------------------------------------
(* Of a history of samples: those the look at its end may use, and the     *)
(* average since the oldest of them.                                       *)
Inside(history, w) == {i \in 1..(Len(history) - 1) :
                          history[i].at >= history[Len(history)].at - w}

Average(history, w) ==
    IF Inside(history, w) = {} THEN <<0, 0>>
    ELSE LET o == history[CHOOSE i \in Inside(history, w) : \A k \in Inside(history, w) : i <= k]
             n == history[Len(history)]
         IN  <<n.hashes - o.hashes, n.at - o.at>>

(* A displayed rate is the average since the oldest sample inside its      *)
(* window, out of all samples ever taken: the ring is long enough for the  *)
(* longest window, before and after it wraps, and no slot is read that     *)
(* holds another sample than the scan takes it for.                        *)
RateExact == Len(taken) > 1 => \A w \in Windows : rates[w] = Average(taken, w)
=============================================================================
