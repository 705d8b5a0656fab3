------------------------------ MODULE FutureMap ------------------------------
(***************************************************************************)
(* FutureMap of overlap_utils.py: the circular buffer through which one    *)
(* forward pass hands its results (the current token and the length of     *)
(* each request) to a later one, before the scheduler has seen them.       *)
(*                                                                         *)
(* Every row of every launched batch gets a number; a batch holds the      *)
(* slots of its rows until it is launched again.  The buffer is right if   *)
(* no slot is stored to while an earlier row still needs it, provided its  *)
(* users keep no row for more than a lap (the last guard of Launch).       *)
(***************************************************************************)
EXTENDS Integers

CONSTANTS
    MaxRunning, \* max_running_requests
    MaxChunks   \* max_num_chunks, 0 without chunked prefill

ASSUME FutureAssumption == MaxRunning \in Nat \ {0} /\ MaxChunks \in Nat

VARIABLES
    futureCt,   \* FutureMap.future_ct
    launched,   \* history: how many rows have been launched
    live        \* the rows whose stored values are still to be read

vars == <<futureCt, launched, live>>

FutureLimit == MaxRunning * (3 + MaxChunks)

FutureBufferLen == FutureLimit + 2 * MaxRunning

(* alloc_future_indices(bs): a batch is not split at the end of the lap.   *)
AllocFutureIndices(ct, bs) == [i \in 1..bs |-> ct + i]

(* Mutated form: a new lap starts when the next batch might not fit.       *)
AdvanceFutureCtEarly(ct, bs) == IF ct + bs + MaxRunning > FutureLimit THEN 0 ELSE ct + bs

AdvanceFutureCt(ct, bs) == (ct + bs) % FutureLimit

Init == futureCt = 0 /\ launched = 0 /\ live = {}

(* run_batch: a batch of bs rows reads the slots of the rows it launches   *)
(* again, which are not in kept, and stores to new ones.                   *)
Launch(bs, kept) ==
    /\ kept \subseteq live
    /\ \A row \in kept : launched + bs - row.num < FutureLimit
    /\ live' = kept \cup
          {[num |-> launched + i, slot |-> AllocFutureIndices(futureCt, bs)[i]] : i \in 1..bs}
    /\ launched' = launched + bs
    /\ futureCt' = AdvanceFutureCt(futureCt, bs)

(* filter_batch: rows of finished and retracted requests are dropped.      *)
Filter(kept) ==
    /\ kept \subseteq live
    /\ live' = kept
    /\ UNCHANGED <<futureCt, launched>>

Next == \E kept \in SUBSET live :
            \/ Filter(kept)
            \/ \E bs \in 1..MaxRunning : Launch(bs, kept)

Spec == Init /\ [][Next]_vars

(* No two rows that are still to be read share a slot, so that each reads  *)
(* what was stored for it, and every slot is inside the buffer: the lap    *)
(* may end in the middle of a batch, whose rows then use the slots beyond  *)
(* future_limit (alloc_future_indices, store_to_map).                      *)
SlotsDistinct ==
    \A a \in live :
        /\ a.slot \in 1..(FutureBufferLen - 1)
        /\ \A b \in live : a.slot = b.slot => a = b
=============================================================================
