--------------------------- MODULE FutureMapProofs ---------------------------
(***************************************************************************)
(* The circular buffer of the overlapped scheduler is large enough, for    *)
(* every number of running requests and of prefill chunks.                 *)
(***************************************************************************)
EXTENDS FutureMap, TLAPS

(* A row's slot is its number modulo the lap: it lies at most two laps     *)
(* behind the counter, two only for a row whose batch ended a lap and used *)
(* the slots beyond future_limit.                                          *)
SlotOf(row) ==
    \E k \in 0..2 : row.slot = row.num - (launched - futureCt) + k * FutureLimit

(* The inductive invariant: SlotsDistinct alone does not say which slots   *)
(* the next batch will get.                                                *)
SlotsFollowNumbers ==
    /\ futureCt \in 0..(FutureLimit - 1)
    /\ launched \in Nat
    /\ live \subseteq [num : Int, slot : Int]
    /\ \A row \in live :
          /\ row.num <= launched
          /\ launched - row.num < FutureLimit
          /\ row.slot \in 1..(FutureLimit + MaxRunning - 1)
          /\ SlotOf(row)

(* future_limit holds three batches, whatever the number of chunks.        *)
LEMMA LimitBounds ==
    /\ MaxRunning \in Nat /\ MaxRunning >= 1
    /\ FutureLimit \in Nat /\ FutureLimit >= 3 * MaxRunning
<1>1. MaxRunning \in Nat /\ MaxRunning >= 1 /\ MaxChunks \in Nat
  BY FutureAssumption
<1>2. MaxRunning * MaxChunks \in Nat
  BY <1>1
<1>3. MaxRunning * (3 + MaxChunks) = 3 * MaxRunning + MaxRunning * MaxChunks
  BY <1>1
<1> QED
  BY <1>1, <1>2, <1>3 DEF FutureLimit

(* alloc_future_indices: the counter wraps at most once per batch.         *)
LEMMA AdvanceWraps ==
    ASSUME NEW ct \in 0..(FutureLimit - 1), NEW bs \in 1..MaxRunning
    PROVE  AdvanceFutureCt(ct, bs) = IF ct + bs < FutureLimit THEN ct + bs
                                     ELSE ct + bs - FutureLimit
<1>1. /\ ct + bs \in Nat /\ FutureLimit \in Nat
      /\ FutureLimit >= 1 /\ ct + bs < 2 * FutureLimit
  BY LimitBounds
<1>2. PICK n \in Nat : n = ct + bs
  BY <1>1
<1>3. PICK m \in Nat : m = FutureLimit
  BY <1>1
<1>4. m >= 1 /\ n < 2 * m
  BY <1>1, <1>2, <1>3
<1>5. n % m = IF n < m THEN n ELSE n - m
  BY <1>4
<1>6. AdvanceFutureCt(ct, bs) = n % m
  BY <1>2, <1>3, Zenon DEF AdvanceFutureCt
<1> QED
  BY <1>1, <1>2, <1>3, <1>5, <1>6

(* A launch gives its rows numbers and slots that keep the invariant, and  *)
(* moves the rows it keeps at most one lap further back.                   *)
LEMMA LaunchKeeps ==
    ASSUME SlotsFollowNumbers, NEW bs \in 1..MaxRunning, NEW kept \in SUBSET live,
           Launch(bs, kept)
    PROVE  SlotsFollowNumbers'
<1> DEFINE L == FutureLimit
           M == MaxRunning
<1>1. /\ M \in Nat /\ M >= 1 /\ L \in Nat /\ L >= 3 * M
      /\ futureCt \in Nat /\ futureCt < L /\ launched \in Nat /\ bs \in Nat /\ 1 <= bs /\ bs <= M
  BY LimitBounds DEF SlotsFollowNumbers
<1>2. /\ futureCt' = IF futureCt + bs < L THEN futureCt + bs ELSE futureCt + bs - L
      /\ launched' = launched + bs
  BY AdvanceWraps DEF Launch, SlotsFollowNumbers
<1>3. L' = L /\ M' = M
  BY DEF FutureLimit
<1>4. ASSUME NEW row \in kept
      PROVE  /\ row \in [num : Int, slot : Int]
             /\ row.num <= launched' /\ launched' - row.num < L
             /\ row.slot \in 1..(L + M - 1)
             /\ \E k \in 0..2 : row.slot = row.num - (launched' - futureCt') + k * L
  <2>1. row \in live /\ row \in [num : Int, slot : Int] /\ row.num <= launched
        /\ row.slot \in 1..(L + M - 1) /\ SlotOf(row) /\ launched + bs - row.num < L
    BY <1>4 DEF SlotsFollowNumbers, Launch
  <2>2. PICK k \in 0..2 : row.slot = row.num - (launched - futureCt) + k * L
    BY <2>1 DEF SlotOf
  <2> HIDE DEF L, M
  <2>3. CASE futureCt + bs < L
    BY <1>1, <1>2, <2>1, <2>2, <2>3
  <2>4. CASE ~(futureCt + bs < L)
    <3>1. k = 0 \/ k = 1 \/ k = 2
      BY <2>2
    <3>2. CASE k = 0
      <4>1. row.slot = row.num - (launched' - futureCt') + 1 * L
        BY <1>1, <1>2, <2>1, <2>2, <2>4, <3>2
      <4> QED  BY <1>1, <1>2, <2>1, <4>1
    <3>3. CASE k = 1
      <4>1. row.slot = row.num - (launched' - futureCt') + 2 * L
        BY <1>1, <1>2, <2>1, <2>2, <2>4, <3>3
      <4> QED  BY <1>1, <1>2, <2>1, <4>1
    <3>4. CASE k = 2
      BY <1>1, <2>1, <2>2, <2>4, <3>4
    <3> QED  BY <3>1, <3>2, <3>3, <3>4
  <2> QED  BY <2>3, <2>4
<1>5. ASSUME NEW i \in 1..bs
      PROVE  LET row == [num |-> launched + i, slot |-> AllocFutureIndices(futureCt, bs)[i]]
             IN  /\ row \in [num : Int, slot : Int]
                 /\ row.num <= launched' /\ launched' - row.num < L
                 /\ row.slot \in 1..(L + M - 1)
                 /\ \E k \in 0..2 : row.slot = row.num - (launched' - futureCt') + k * L
  <2>1. AllocFutureIndices(futureCt, bs)[i] = futureCt + i
    BY DEF AllocFutureIndices
  <2> HIDE DEF L, M
  <2>2. CASE futureCt + bs < L
    <3>1. futureCt + i = launched + i - (launched' - futureCt') + 0 * L
      BY <1>1, <1>2, <2>2
    <3> QED  BY <1>1, <1>2, <2>1, <2>2, <3>1
  <2>3. CASE ~(futureCt + bs < L)
    <3>1. futureCt + i = launched + i - (launched' - futureCt') + 1 * L
      BY <1>1, <1>2, <2>3
    <3> QED  BY <1>1, <1>2, <2>1, <2>3, <3>1
  <2> QED  BY <2>2, <2>3
<1>6. \A row \in live' :
         \/ row \in kept
         \/ \E i \in 1..bs :
              row = [num |-> launched + i, slot |-> AllocFutureIndices(futureCt, bs)[i]]
  BY DEF Launch
<1>7. \A row \in live' :
         /\ row \in [num : Int, slot : Int]
         /\ row.num <= launched' /\ launched' - row.num < L
         /\ row.slot \in 1..(L + M - 1)
         /\ \E k \in 0..2 : row.slot = row.num - (launched' - futureCt') + k * L
  <2> HIDE DEF L, M
  <2> QED  BY <1>4, <1>5, <1>6, ZenonT(60)
<1>8. futureCt' \in 0..(L - 1) /\ launched' \in Nat
  <2> HIDE DEF L, M
  <2> QED  BY <1>1, <1>2
<1> QED
  BY <1>3, <1>7, <1>8, Zenon DEF SlotsFollowNumbers, SlotOf

(* filter_batch only drops rows.                                           *)
LEMMA FilterKeeps ==
    ASSUME SlotsFollowNumbers, NEW kept \in SUBSET live, Filter(kept)
    PROVE  SlotsFollowNumbers'
<1>1. live' \subseteq live /\ futureCt' = futureCt /\ launched' = launched
  BY DEF Filter
<1> QED
  BY <1>1, Zenon DEF SlotsFollowNumbers, SlotOf, FutureLimit

(* Two rows in one slot are a whole number of laps apart, which is more    *)
(* than any two live rows are.                                             *)
LEMMA FollowingIsDistinct == SlotsFollowNumbers => SlotsDistinct
<1> SUFFICES ASSUME SlotsFollowNumbers, NEW a \in live
             PROVE  /\ a.slot \in 1..(FutureBufferLen - 1)
                    /\ \A b \in live : a.slot = b.slot => a = b
  BY DEF SlotsDistinct
<1> DEFINE L == FutureLimit
<1>1. /\ MaxRunning \in Nat /\ MaxRunning >= 1 /\ L \in Nat /\ L >= 1
      /\ futureCt \in Nat /\ launched \in Nat
  BY LimitBounds DEF SlotsFollowNumbers
<1>2. \A row \in live : /\ row \in [num : Int, slot : Int]
                        /\ row.num <= launched /\ launched - row.num < L
                        /\ row.slot \in 1..(L + MaxRunning - 1)
                        /\ SlotOf(row)
  BY DEF SlotsFollowNumbers
<1>3. a.slot \in 1..(FutureBufferLen - 1)
  BY <1>1, <1>2 DEF FutureBufferLen
<1>4. ASSUME NEW b \in live, a.slot = b.slot
      PROVE  a = b
  <2>1. PICK k \in 0..2 : a.slot = a.num - (launched - futureCt) + k * L
    BY <1>2 DEF SlotOf
  <2>2. PICK j \in 0..2 : b.slot = b.num - (launched - futureCt) + j * L
    BY <1>2 DEF SlotOf
  <2> HIDE DEF L
  <2>3. /\ a.num \in Int /\ b.num \in Int /\ a.slot \in Int
        /\ a.num - b.num < L /\ b.num - a.num < L
    BY <1>1, <1>2
  <2>4. a.num - b.num = j * L - k * L
    BY <1>1, <2>1, <2>2, <2>3, <1>4
  <2>5. (k = 0 \/ k = 1 \/ k = 2) /\ (j = 0 \/ j = 1 \/ j = 2)
    BY <2>1, <2>2
  <2>6. a.num = b.num
    BY <1>1, <2>3, <2>4, <2>5
  <2> QED
    BY <1>2, <1>4, <2>6
<1> QED
  BY <1>3, <1>4

(* Whatever the scheduler launches and drops, within a lap: no stored      *)
(* result is overwritten before it is read, and no index leaves the        *)
(* buffer (FutureMap.alloc_future_indices, store_to_map, resolve_future).  *)
THEOREM FutureMapCorrect == Spec => []SlotsDistinct
<1>1. Init => SlotsFollowNumbers
  <2> SUFFICES ASSUME Init PROVE SlotsFollowNumbers
    OBVIOUS
  <2>1. FutureLimit \in Nat /\ FutureLimit >= 1
    BY LimitBounds
  <2> QED
    BY <2>1 DEF Init, SlotsFollowNumbers
<1>2. SlotsFollowNumbers /\ [Next]_vars => SlotsFollowNumbers'
  <2> SUFFICES ASSUME SlotsFollowNumbers, [Next]_vars PROVE SlotsFollowNumbers'
    OBVIOUS
  <2>1. ASSUME NEW kept \in SUBSET live, Filter(kept) PROVE SlotsFollowNumbers'
    BY <2>1, FilterKeeps
  <2>2. ASSUME NEW kept \in SUBSET live, NEW bs \in 1..MaxRunning, Launch(bs, kept)
        PROVE  SlotsFollowNumbers'
    BY <2>2, LaunchKeeps
  <2>3. CASE UNCHANGED vars
    BY <2>3, Zenon DEF vars, SlotsFollowNumbers, SlotOf, FutureLimit
  <2> QED
    BY <2>1, <2>2, <2>3 DEF Next
<1> QED
  BY <1>1, <1>2, FollowingIsDistinct, PTL DEF Spec
=============================================================================
