------------------------ MODULE DFlashPipelineProofs ------------------------
(***************************************************************************)
(* TLAPS proofs about DFlashPipeline, for every set of requests, block     *)
(* size, length limit and streaming interval.                              *)
(***************************************************************************)
EXTENDS DFlashPipeline, SequenceTheorems, FiniteSetTheorems, TLAPS

(* A function on 1..n is a sequence of length n.                           *)
LEMMA FunctionIsSeq ==
    ASSUME NEW S, NEW n \in Nat, NEW f \in [1..n -> S]
    PROVE  f \in Seq(S) /\ Len(f) = n /\ DOMAIN f = 1..n
<1>1. f \in Seq(S)
    BY SeqDef
<1>2. DOMAIN f = 1..n /\ DOMAIN f = 1..Len(f) /\ Len(f) \in Nat
    BY <1>1, LenProperties
<1> QED BY <1>1, <1>2

(* What padding and extending a token-aligned list returns                 *)
(* (_pad_token_aligned_metadata and the extend calls after it): the old    *)
(* entries, padding, and the new entry at the end.                         *)
LEMMA TokenAlignedEntries ==
    ASSUME NEW values, NEW p, NEW c, NEW fill, NEW last
    PROVE  LET n == TokenAlignedLen(values, p, c)
               new == AppendTokenAligned(values, p, c, fill, last)
           IN  /\ DOMAIN new = 1..n
               /\ \A i \in 1..n : new[i] = IF i <= Len(values) THEN values[i]
                                           ELSE IF i = n THEN last ELSE fill
    BY DEF AppendTokenAligned

(* Its length and its type.                                                *)
LEMMA TokenAlignedType ==
    ASSUME NEW S, NEW values \in Seq(S), NEW p \in Nat, NEW c \in Nat,
           NEW fill \in S, NEW last \in S
    PROVE  /\ AppendTokenAligned(values, p, c, fill, last) \in Seq(S)
           /\ Len(AppendTokenAligned(values, p, c, fill, last))
                = TokenAlignedLen(values, p, c)
<1> DEFINE n == TokenAlignedLen(values, p, c)
           new == AppendTokenAligned(values, p, c, fill, last)
<1>1. n \in Nat
    BY LenProperties DEF TokenAlignedLen
<1>2. new \in [1..n -> S]
    BY <1>1, ElementOfSeq, LenProperties DEF AppendTokenAligned
<1> HIDE DEF n, new
<1>3. new \in Seq(S) /\ Len(new) = n
    BY <1>1, <1>2, FunctionIsSeq
<1> QED BY <1>3 DEF n, new

(* Filtering a batch yields a list of its members (filter_batch).          *)
LEMMA FilterBatchType ==
    ASSUME NEW batch \in Seq(Req), NEW keep, NEW t \in FilterBatch(batch, keep)
    PROVE  /\ t \in Seq(Req)
           /\ \A k \in DOMAIN t : \E i \in DOMAIN batch : t[k] = batch[i]
<1> DEFINE pos == {i \in DOMAIN batch : batch[i] \in keep}
           n == Cardinality(pos)
<1>1. n \in Nat
    <2>1. DOMAIN batch = 1..Len(batch) /\ Len(batch) \in Nat
        BY LenProperties
    <2>2. IsFiniteSet(1..Len(batch)) /\ pos \in SUBSET (1..Len(batch))
        BY <2>1, FS_Interval
    <2> HIDE DEF pos
    <2>3. IsFiniteSet(pos)
        BY <2>2, FS_Subset, Zenon
    <2> QED BY <2>3, FS_CardinalityType
<1>2. PICK f \in [1..n -> pos] : t = [k \in 1..n |-> batch[f[k]]]
    BY Zenon DEF FilterBatch
<1>3. \A k \in 1..n : f[k] \in DOMAIN batch /\ batch[f[k]] \in Req
    BY <1>2, ElementOfSeq, LenProperties
<1> HIDE DEF n, pos
<1>4. t \in [1..n -> Req] /\ DOMAIN t = 1..n
    BY <1>2, <1>3
<1>5. t \in Seq(Req)
    BY <1>1, <1>4, FunctionIsSeq
<1> QED BY <1>2, <1>3, <1>4, <1>5

(* The slices of a queue that prefill and retraction take.                 *)
LEMMA QueueSlices ==
    ASSUME NEW q \in Seq(Req), NEW n \in 0..Len(q)
    PROVE  /\ SubSeq(q, 1, n) \in Seq(Req)
           /\ SubSeq(q, n + 1, Len(q)) \in Seq(Req)
           /\ Reverse(SubSeq(q, n + 1, Len(q))) \in Seq(Req)
           /\ Range(SubSeq(q, n + 1, Len(q))) \subseteq Req
<1> DEFINE t == SubSeq(q, n + 1, Len(q))
<1>1. SubSeq(q, 1, n) \in Seq(Req) /\ t \in Seq(Req)
    BY LenProperties
<1> HIDE DEF t
<1>2. Len(t) \in Nat /\ \A i \in 1..Len(t) : t[i] \in Req
    BY <1>1, LenProperties, ElementOfSeq
<1>3. Reverse(t) \in [1..Len(t) -> Req]
    BY <1>2 DEF Reverse
<1>4. Reverse(t) \in Seq(Req)
    BY <1>2, <1>3, FunctionIsSeq
<1>5. Range(t) \subseteq Req
    BY <1>1, <1>2, LenProperties DEF Range
<1> QED BY <1>1, <1>4, <1>5 DEF t

(* The metadata of one verify step is well typed.                          *)
LEMMA OutcomeMetadata ==
    ASSUME NEW r \in Req, NEW o \in VerifyOutcome, NEW a \in Int
    PROVE  /\ RejectedChunk(r, o, a) \in Seq(RejectedEntry)
           /\ ReplayEntry(r, o, a) \in ReplayBlock
           /\ o.app \in Nat \ {0} /\ o.acc \in 0..(B - 1) /\ o.app \in 1..B
           /\ o.fin \in BOOLEAN
<1> USE PipelineAssumption
<1>1. /\ o.app \in Nat \ {0} /\ o.acc \in 0..(B - 1) /\ o.app \in 1..B
      /\ o.fin \in BOOLEAN
    BY DEF VerifyOutcome
<1>2. ReplayEntry(r, o, a) \in ReplayBlock
    BY <1>1 DEF ReplayEntry, ReplayBlock, DraftedLen
<1>3. RejectedChunk(r, o, a) \in Seq(RejectedEntry)
    <2> DEFINE n == B - 1 - o.acc
               c == [i \in 1..n |-> [req |-> r, anchor |-> a, offset |-> o.acc + i]]
    <2>1. n \in Nat /\ c \in [1..n -> RejectedEntry]
        BY <1>1 DEF RejectedEntry
    <2>2. RejectedChunk(r, o, a) = c \/ RejectedChunk(r, o, a) = <<>>
        BY DEF RejectedChunk
    <2> HIDE DEF n, c
    <2>3. c \in Seq(RejectedEntry)
        BY <2>1, FunctionIsSeq
    <2> QED BY <2>2, <2>3, EmptySeq, Zenon
<1> QED BY <1>1, <1>2, <1>3

(* One verify step keeps the request fields well typed.                    *)
LEMMA VerifyBatchType ==
    ASSUME TypeOK, NEW S, NEW o \in [S -> VerifyOutcome], VerifyBatch(S, o)
    PROVE  /\ outLen' \in [Req -> Nat]
           /\ done' \in [Req -> BOOLEAN]
           /\ mask' \in [Req -> Seq(BOOLEAN)]
           /\ rej' \in [Req -> Seq(Seq(RejectedEntry))]
           /\ rep' \in [Req -> Seq(Seq(ReplayBlock))]
           /\ blocks' \in [Req -> SUBSET Block]
<1> USE PipelineAssumption
<1>1. \A r \in Req : r \in S => /\ o[r] \in VerifyOutcome
                                /\ o[r].app \in Nat \ {0} /\ o[r].acc \in 0..(B - 1)
                                /\ o[r].app \in 1..B /\ o[r].fin \in BOOLEAN
    BY DEF VerifyOutcome
<1>2. outLen' \in [Req -> Nat]
    BY <1>1 DEF TypeOK, VerifyBatch
<1>3. done' \in [Req -> BOOLEAN]
    BY <1>1 DEF TypeOK, VerifyBatch
<1>4. blocks' \in [Req -> SUBSET Block]
    <2>1. \A r \in Req : r \in S =>
            [start |-> outLen[r], acc |-> o[r].acc, app |-> o[r].app] \in Block
        BY <1>1 DEF TypeOK, Block
    <2> QED BY <2>1 DEF TypeOK, VerifyBatch
<1>5. ASSUME NEW r \in Req, r \in S
      PROVE  /\ outLen'[r] = outLen[r] + o[r].app
             /\ outLen'[r] - o[r].app = outLen[r] /\ outLen[r] \in Nat
             /\ outLen'[r] - o[r].app - 1 \in Int
    BY <1>1, <1>5 DEF TypeOK, VerifyBatch
<1>6. mask' \in [Req -> Seq(BOOLEAN)]
    <2>1. ASSUME NEW r \in Req, r \in S
          PROVE  AppendRejectMask(mask[r], outLen'[r], o[r].app) \in Seq(BOOLEAN)
        <3>1. mask[r] \in Seq(BOOLEAN)
            BY DEF TypeOK
        <3>2. AppendTokenAligned(mask[r], outLen'[r] - o[r].app, o[r].app, FALSE, TRUE)
                \in Seq(BOOLEAN)
            BY <1>1, <1>5, <2>1, <3>1, TokenAlignedType, Zenon
        <3> QED BY <3>1, <3>2, Zenon DEF AppendRejectMask
    <2> QED BY <2>1 DEF TypeOK, VerifyBatch
<1>7. rej' \in [Req -> Seq(Seq(RejectedEntry))]
    <2>1. ASSUME NEW r \in Req, r \in S, NEW c \in Seq(RejectedEntry)
          PROVE  AppendRejectedDraft(rej[r], outLen'[r], o[r].app, c) \in Seq(Seq(RejectedEntry))
        <3>1. rej[r] \in Seq(Seq(RejectedEntry)) /\ <<>> \in Seq(RejectedEntry)
            BY EmptySeq DEF TypeOK
        <3>2. AppendTokenAligned(rej[r], outLen'[r] - o[r].app, o[r].app, <<>>, c)
                \in Seq(Seq(RejectedEntry))
            BY <1>1, <1>5, <2>1, <3>1, TokenAlignedType, Zenon
        <3> QED BY <3>1, <3>2 DEF AppendRejectedDraft
    <2>2. \A r \in Req : r \in S =>
            RejectedChunk(r, o[r], outLen'[r] - o[r].app - 1) \in Seq(RejectedEntry)
        BY <1>1, <1>5, OutcomeMetadata
    <2> QED BY <2>1, <2>2 DEF TypeOK, VerifyBatch
<1>8. rep' \in [Req -> Seq(Seq(ReplayBlock))]
    <2>1. ASSUME NEW r \in Req, r \in S, NEW e \in ReplayBlock
          PROVE  AppendReplayBlock(rep[r], outLen'[r], o[r].app, e) \in Seq(Seq(ReplayBlock))
        <3>1. rep[r] \in Seq(Seq(ReplayBlock)) /\ <<>> \in Seq(ReplayBlock)
                /\ <<e>> \in Seq(ReplayBlock)
            BY EmptySeq DEF TypeOK
        <3>2. AppendTokenAligned(rep[r], outLen'[r] - o[r].app, o[r].app, <<>>, <<e>>)
                \in Seq(Seq(ReplayBlock))
            BY <1>1, <1>5, <2>1, <3>1, TokenAlignedType, Zenon
        <3> QED BY <3>1, <3>2 DEF AppendReplayBlock
    <2>2. \A r \in Req : r \in S =>
            ReplayEntry(r, o[r], outLen'[r] - o[r].app - 1) \in ReplayBlock
        BY <1>1, <1>5, OutcomeMetadata
    <2> QED BY <2>1, <2>2 DEF TypeOK, VerifyBatch
<1> QED BY <1>2, <1>3, <1>4, <1>6, <1>7, <1>8

(* Sending a batch keeps the delivery fields well typed.                   *)
LEMMA StreamOutputType ==
    ASSUME TypeOK, NEW batch, StreamOutput(batch),
           outLen' \in [Req -> Nat], done' \in [Req -> BOOLEAN]
    PROVE  finOut' \in [Req -> BOOLEAN] /\ sendOff' \in [Req -> Nat]
    BY Zenon DEF TypeOK, StreamOutput

(* Every step preserves the type invariant.                                *)
LEMMA TypeStep == TypeOK /\ [Next]_vars => TypeOK'
<1> SUFFICES ASSUME TypeOK, [Next]_vars PROVE TypeOK'
    OBVIOUS
<1> USE PipelineAssumption
<1>1. ASSUME NEW r \in Req, Submit(r) PROVE TypeOK'
    BY <1>1 DEF Submit, TypeOK, recvVars, histVars
<1>2. ASSUME PrefillStep PROVE TypeOK'
    <2>1. PICK n \in 1..Len(waiting), stop \in SUBSET Req : Prefill(n, stop)
        BY <1>2 DEF PrefillStep
    <2>2. n \in 0..Len(waiting) /\ waiting \in Seq(Req) /\ running \in Seq(Req)
        BY LenProperties DEF TypeOK
    <2> DEFINE batch == SubSeq(waiting, 1, n)
    <2>3. waiting' \in Seq(Req) /\ batch \in Seq(Req)
        BY <2>1, <2>2, QueueSlices DEF Prefill
    <2>4. running' \in Seq(Req)
        <3>1. PICK stay \in FilterBatch(batch, Unfinished') : running' = running \o stay
            BY <2>1 DEF Prefill
        <3> HIDE DEF batch
        <3>2. stay \in Seq(Req)
            BY <2>3, FilterBatchType
        <3> QED BY <2>2, <3>1, <3>2, ConcatProperties
    <2>5. outLen' \in [Req -> Nat] /\ done' \in [Req -> BOOLEAN]
        <3> HIDE DEF batch
        <3>a. outLen' = [r \in Req |-> IF r \in Range(batch) THEN outLen[r] + 1 ELSE outLen[r]]
            BY <2>1, Zenon DEF Prefill, batch
        <3>1. outLen' \in [Req -> Nat]
            BY <3>a, SMTT(30) DEF TypeOK
        <3>2. done' \in [Req -> BOOLEAN]
            BY <2>1, Zenon DEF Prefill, TypeOK
        <3> QED BY <3>1, <3>2
    <2>6. StreamOutput(batch) /\ UNCHANGED <<mask, rej, rep, recvVars, blocks, retracted>>
        BY <2>1 DEF Prefill
    <2>7. finOut' \in [Req -> BOOLEAN] /\ sendOff' \in [Req -> Nat]
        BY <2>5, <2>6, StreamOutputType
    <2> HIDE DEF batch
    <2> QED BY <2>3, <2>4, <2>5, <2>6, <2>7, Zenon DEF TypeOK, recvVars
<1>3. ASSUME DecodeStep PROVE TypeOK'
    <2>0. PICK keep \in 1..Len(running) :
            \E o \in [Range(SubSeq(running, 1, keep)) -> VerifyOutcome] : Decode(keep, o)
        BY <1>3 DEF DecodeStep, Survivors
    <2>1. PICK o \in [Range(SubSeq(running, 1, keep)) -> VerifyOutcome] : Decode(keep, o)
        BY <2>0
    <2>2. keep \in 0..Len(running) /\ waiting \in Seq(Req) /\ running \in Seq(Req)
        BY LenProperties DEF TypeOK
    <2> DEFINE batch == SubSeq(running, 1, keep)
               back == SubSeq(running, keep + 1, Len(running))
    <2>3. batch \in Seq(Req) /\ Reverse(back) \in Seq(Req) /\ Range(back) \subseteq Req
        BY <2>2, QueueSlices
    <2>4. /\ waiting' = waiting \o Reverse(back)
          /\ retracted' = retracted \cup Range(back)
          /\ VerifyBatch(Range(batch), o)
          /\ running' \in FilterBatch(batch, Unfinished')
          /\ UNCHANGED recvVars
          /\ StreamOutput(batch)
        BY <2>1 DEF Decode
    <2> HIDE DEF batch, back
    <2>5. waiting' \in Seq(Req)
        BY <2>2, <2>3, <2>4, ConcatProperties
    <2>6. running' \in Seq(Req)
        BY <2>3, <2>4, FilterBatchType
    <2>7. retracted' \subseteq Req
        BY <2>3, <2>4 DEF TypeOK
    <2>8. o \in [Range(batch) -> VerifyOutcome]
        BY DEF batch
    <2>9. /\ outLen' \in [Req -> Nat]
          /\ done' \in [Req -> BOOLEAN]
          /\ mask' \in [Req -> Seq(BOOLEAN)]
          /\ rej' \in [Req -> Seq(Seq(RejectedEntry))]
          /\ rep' \in [Req -> Seq(Seq(ReplayBlock))]
          /\ blocks' \in [Req -> SUBSET Block]
        BY <2>4, <2>8, VerifyBatchType
    <2>10. finOut' \in [Req -> BOOLEAN] /\ sendOff' \in [Req -> Nat]
        BY <2>4, <2>9, StreamOutputType, Zenon
    <2>11. tokUp' \in BOOLEAN
        BY <2>4 DEF recvVars, TypeOK
    <2> QED BY <2>5, <2>6, <2>7, <2>9, <2>10, <2>11, Zenon DEF TypeOK
<1>4. ASSUME HandleBatchOutput PROVE TypeOK'
    <2>1. tokUp' \in BOOLEAN
        BY <1>4, Zenon DEF HandleBatchOutput, TypeOK
    <2>2. UNCHANGED <<schedVars, histVars>>
        BY <1>4 DEF HandleBatchOutput
    <2> QED BY <2>1, <2>2 DEF TypeOK, schedVars, histVars
<1>5. ASSUME NEW r \in Req, Generate(r) PROVE TypeOK'
    BY <1>5, Zenon DEF Generate, TypeOK, schedVars, histVars
<1>6. ASSUME UNCHANGED vars PROVE TypeOK'
    BY <1>6 DEF TypeOK, vars, schedVars, recvVars, histVars
<1> QED BY <1>1, <1>2, <1>3, <1>4, <1>5, <1>6 DEF Next, Idle

(* Type correctness of the pipeline, for every instance.                   *)
THEOREM TypeCorrect == Spec => []TypeOK
<1>1. Init => TypeOK
    BY EmptySeq DEF Init, TypeOK
<1> QED BY <1>1, TypeStep, PTL DEF Spec
-----------------------------------------------------------------------------
(* k is the mask m extended to n entries, of which only the last is set.   *)
MaskGrowth(m, k, n) ==
    /\ DOMAIN k = 1..n
    /\ Len(m) <= n
    /\ \A i \in 1..Len(m) : k[i] <=> m[i]
    /\ \A i \in (Len(m) + 1)..n : k[i] <=> i = n

(* What one verify step does to the reject mask of a request of its batch. *)
LEMMA MaskAfterVerify ==
    ASSUME TypeOK, NEW S, NEW o \in [S -> VerifyOutcome], VerifyBatch(S, o),
           NEW r \in Req, r \in S, Len(mask[r]) <= outLen[r]
    PROVE  /\ MaskGrowth(mask[r], mask'[r], outLen'[r])
           /\ outLen'[r] = outLen[r] + o[r].app
           /\ outLen[r] \in Nat /\ o[r].app \in Nat \ {0}
           /\ mask'[r] \in Seq(BOOLEAN)
           /\ Len(mask'[r]) = outLen'[r]
           /\ DOMAIN mask'[r] = 1..outLen'[r]
           /\ \A i \in 1..outLen'[r] :
                mask'[r][i] = IF i <= Len(mask[r]) THEN mask[r][i] ELSE i = outLen'[r]
<1>1. outLen[r] \in Nat /\ mask[r] \in Seq(BOOLEAN) /\ Len(mask[r]) \in Nat
    BY LenProperties DEF TypeOK
<1>2. o[r].app \in Nat \ {0}
    BY DEF VerifyOutcome
<1>3. outLen'[r] = outLen[r] + o[r].app
    BY DEF VerifyBatch
<1>4. mask'[r] = AppendTokenAligned(mask[r], outLen[r], o[r].app, FALSE, TRUE)
    <2>1. mask'[r] = AppendRejectMask(mask[r], outLen'[r], o[r].app)
        BY DEF VerifyBatch
    <2>2. outLen'[r] - o[r].app = outLen[r] /\ ~(o[r].app <= 0)
        BY <1>1, <1>2, <1>3
    <2> QED BY <2>1, <2>2, Zenon DEF AppendRejectMask
<1> DEFINE n == TokenAlignedLen(mask[r], outLen[r], o[r].app)
<1>5. n = outLen'[r]
    BY <1>1, <1>2, <1>3 DEF TokenAlignedLen
<1>6. /\ mask'[r] \in Seq(BOOLEAN) /\ Len(mask'[r]) = n
      /\ \A i \in 1..n : mask'[r][i] = IF i <= Len(mask[r]) THEN mask[r][i]
                                        ELSE IF i = n THEN TRUE ELSE FALSE
    <2>1. FALSE \in BOOLEAN /\ TRUE \in BOOLEAN /\ o[r].app \in Nat
        BY <1>2
    <2> DEFINE new == AppendTokenAligned(mask[r], outLen[r], o[r].app, FALSE, TRUE)
    <2>2. new \in Seq(BOOLEAN)
        BY <1>1, <2>1, TokenAlignedType, Zenon
    <2>3. DOMAIN new = 1..n
        BY DEF AppendTokenAligned
    <2>4. \A i \in 1..n : new[i] = IF i <= Len(mask[r]) THEN mask[r][i]
                                  ELSE IF i = n THEN TRUE ELSE FALSE
        BY DEF AppendTokenAligned
    <2>5. n \in Nat
        BY <1>1, <1>2, <1>3, <1>5
    <2> HIDE DEF n, new
    <2>6. Len(new) = n
        BY <2>2, <2>3, <2>5, LenProperties
    <2> QED BY <1>4, <2>2, <2>4, <2>6, Zenon DEF new
<1> HIDE DEF n
<1>7. DOMAIN mask'[r] = 1..outLen'[r]
    BY <1>5, <1>6, LenProperties
<1>8. \A i \in 1..outLen'[r] :
        mask'[r][i] = IF i <= Len(mask[r]) THEN mask[r][i] ELSE i = outLen'[r]
    BY <1>5, <1>6, Zenon
<1>9. MaskGrowth(mask[r], mask'[r], outLen'[r])
    <2>1. outLen'[r] \in Nat /\ Len(mask[r]) < outLen'[r]
        BY <1>1, <1>2, <1>3
    <2>2. \A i \in 1..Len(mask[r]) : mask'[r][i] <=> mask[r][i]
        BY <1>1, <1>8, <2>1
    <2>3. ASSUME NEW i \in (Len(mask[r]) + 1)..outLen'[r]
          PROVE  mask'[r][i] <=> i = outLen'[r]
        <3>1. i \in 1..outLen'[r] /\ ~(i <= Len(mask[r]))
            BY <1>1, <2>1
        <3> QED BY <1>8, <3>1, Zenon
    <2> QED BY <1>1, <1>7, <2>1, <2>2, <2>3 DEF MaskGrowth
<1> QED BY <1>1, <1>2, <1>3, <1>5, <1>6, <1>7, <1>8, <1>9

(* A verify step keeps the mask aligned with the blocks.                   *)
LEMMA MaskAlignedVerify ==
    ASSUME TypeOK, MaskAligned, NEW S, NEW o \in [S -> VerifyOutcome], VerifyBatch(S, o)
    PROVE  MaskAligned'
<1> SUFFICES ASSUME NEW r \in Req
             PROVE  /\ Len(mask'[r]) <= outLen'[r]
                    /\ \A i \in DOMAIN mask'[r] :
                         mask'[r][i] <=> \E b \in blocks'[r] : End(b) = i
                    /\ \A b \in blocks'[r] : End(b) <= Len(mask'[r])
    BY DEF MaskAligned, End
<1>1. /\ Len(mask[r]) <= outLen[r]
      /\ \A i \in DOMAIN mask[r] : mask[r][i] <=> \E b \in blocks[r] : End(b) = i
      /\ \A b \in blocks[r] : End(b) <= Len(mask[r])
      /\ mask[r] \in Seq(BOOLEAN) /\ Len(mask[r]) \in Nat
      /\ DOMAIN mask[r] = 1..Len(mask[r])
      /\ outLen[r] \in Nat
    BY LenProperties DEF MaskAligned, TypeOK
<1>2. CASE r \notin S
    <2>1. outLen'[r] = outLen[r] /\ mask'[r] = mask[r] /\ blocks'[r] = blocks[r]
        BY <1>2 DEF VerifyBatch
    <2> QED BY <1>1, <2>1, SMTT(30)
<1>3. CASE r \in S
    <2> DEFINE new == [start |-> outLen[r], acc |-> o[r].acc, app |-> o[r].app]
               n == outLen'[r]
    <2>1. blocks'[r] = blocks[r] \cup {new}
        BY <1>3, SMTT(90) DEF VerifyBatch
    <2>2. /\ n = outLen[r] + o[r].app /\ o[r].app \in Nat \ {0}
          /\ Len(mask'[r]) = n /\ DOMAIN mask'[r] = 1..n
          /\ \A i \in 1..n :
                mask'[r][i] = IF i <= Len(mask[r]) THEN mask[r][i] ELSE i = n
        BY <1>1, <1>3, MaskAfterVerify, SMTT(60)
    <2>3. End(new) = n
        BY <2>2 DEF End
    <2> HIDE DEF new, n
    <2>4. n \in Nat /\ Len(mask[r]) < n
        BY <1>1, <2>2
    <2>5. ASSUME NEW i \in 1..n
          PROVE  mask'[r][i] <=> \E b \in blocks'[r] : End(b) = i
        <3>1. CASE i <= Len(mask[r])
            <4>1. mask'[r][i] = mask[r][i] /\ i \in DOMAIN mask[r] /\ i # n
                BY <1>1, <2>2, <2>4, <3>1
            <4> QED BY <1>1, <2>1, <2>3, <4>1
        <3>2. CASE ~(i <= Len(mask[r]))
            <4>1. mask'[r][i] = (i = n)
                BY <2>2, <3>2
            <4>2. \A b \in blocks[r] : End(b) # i
                BY <1>1, <3>2
            <4> QED BY <2>1, <2>3, <4>1, <4>2, Zenon
        <3> QED BY <3>1, <3>2
    <2>6. \A b \in blocks'[r] : End(b) <= n
        <3>1. \A b \in blocks[r] : End(b) \in Int /\ End(b) <= Len(mask[r])
            BY <1>1 DEF End, TypeOK, Block
        <3> QED BY <1>1, <2>1, <2>3, <2>4, <3>1
    <2>7. Len(mask'[r]) <= outLen'[r]
        BY <2>2, <2>4 DEF n
    <2> QED BY <2>2, <2>5, <2>6, <2>7, SMTT(30)
<1> QED BY <1>2, <1>3

(* Every step preserves the alignment of the mask.                         *)
LEMMA MaskStep == TypeOK /\ MaskAligned /\ [Next]_vars => MaskAligned'
<1> SUFFICES ASSUME TypeOK, MaskAligned, [Next]_vars PROVE MaskAligned'
    OBVIOUS
<1>1. ASSUME NEW r \in Req, Submit(r) PROVE MaskAligned'
    BY <1>1 DEF Submit, MaskAligned, End, histVars
<1>2. ASSUME PrefillStep PROVE MaskAligned'
    <2>1. PICK n \in 1..Len(waiting), stop \in SUBSET Req : Prefill(n, stop)
        BY <1>2 DEF PrefillStep
    <2> DEFINE S == Range(SubSeq(waiting, 1, n))
    <2>2. outLen' = [r \in Req |-> IF r \in S THEN outLen[r] + 1 ELSE outLen[r]]
        BY <2>1, Zenon DEF Prefill
    <2>3. UNCHANGED <<mask, blocks>>
        BY <2>1 DEF Prefill
    <2> HIDE DEF S
    <2>4. \A r \in Req : outLen[r] \in Nat /\ outLen'[r] \in Nat /\ outLen[r] <= outLen'[r]
                        /\ Len(mask[r]) \in Nat
        BY <2>2, LenProperties DEF TypeOK
    <2> QED BY <2>3, <2>4 DEF MaskAligned, End
<1>3. ASSUME DecodeStep PROVE MaskAligned'
    <2>1. PICK keep \in 1..Len(running) :
            \E o \in [Range(SubSeq(running, 1, keep)) -> VerifyOutcome] : Decode(keep, o)
        BY <1>3 DEF DecodeStep, Survivors
    <2>2. PICK o \in [Range(SubSeq(running, 1, keep)) -> VerifyOutcome] :
            VerifyBatch(Range(SubSeq(running, 1, keep)), o)
        BY <2>1 DEF Decode
    <2> QED BY <2>2, MaskAlignedVerify
<1>4. ASSUME UNCHANGED <<schedVars, histVars>> PROVE MaskAligned'
    BY <1>4 DEF MaskAligned, End, schedVars, histVars
<1>5. ASSUME HandleBatchOutput \/ (\E r \in Req : Generate(r)) \/ UNCHANGED vars
      PROVE  UNCHANGED <<schedVars, histVars>>
    BY <1>5 DEF HandleBatchOutput, Generate, vars
<1> QED BY <1>1, <1>2, <1>3, <1>4, <1>5 DEF Next, Idle

(* The reject mask marks exactly the ends of the verify steps, for every   *)
(* number of requests, block size, length limit and schedule of prefills,  *)
(* decodes and retractions.                                                *)
THEOREM MaskCorrect == Spec => []MaskAligned
<1>1. Init => MaskAligned
    BY EmptySeq, SMTT(30) DEF Init, MaskAligned
<1> QED BY <1>1, TypeCorrect, MaskStep, PTL DEF Spec
-----------------------------------------------------------------------------
(* RejectedAtItsBlock is inductive once the list of rejected suffixes is   *)
(* known not to outrun the mask, and running requests to have a token.     *)
RejectedInv ==
    /\ RejectedAtItsBlock
    /\ \A r \in Req : Len(rej[r]) <= Len(mask[r])
    /\ \A i \in DOMAIN running : outLen[running[i]] >= 1

(* What RejectedAtItsBlock says of one stored suffix.                      *)
WellPlaced(r, m, chunk, i) ==
    chunk # <<>> =>
        /\ i \in DOMAIN m /\ m[i]
        /\ chunk[1].anchor >= 0
        /\ chunk[1].anchor + chunk[1].offset = i - 1
        /\ \A j \in DOMAIN chunk :
              chunk[j] = [req |-> r, anchor |-> chunk[1].anchor,
                          offset |-> chunk[1].offset + j - 1]
        /\ chunk[Len(chunk)].offset = B - 1
        /\ \A p \in (chunk[1].anchor + 2)..(i - 1) : ~m[p]

(* An old suffix stays well placed when the mask grows behind it.          *)
LEMMA OldSuffix ==
    ASSUME NEW r \in Req, NEW m \in Seq(BOOLEAN), NEW n \in Nat, NEW k,
           MaskGrowth(m, k, n),
           NEW chunk \in Seq(RejectedEntry), NEW i \in Nat,
           WellPlaced(r, m, chunk, i)
    PROVE  WellPlaced(r, k, chunk, i)
<1> SUFFICES ASSUME chunk # <<>> PROVE WellPlaced(r, k, chunk, i)
    BY DEF WellPlaced
<1>1. DOMAIN m = 1..Len(m) /\ Len(m) \in Nat
    BY LenProperties, SMTT(30)
<1>2. i \in 1..Len(m) /\ m[i] /\ chunk[1].anchor \in Int /\ chunk[1].anchor >= 0
    <2>1. Len(chunk) \in Nat \ {0}
        BY EmptySeq
    <2>2. chunk[1] \in RejectedEntry
        BY <2>1, ElementOfSeq
    <2> QED BY <1>1, <2>2 DEF WellPlaced, RejectedEntry
<1>3. i \in DOMAIN k /\ k[i]
    BY <1>1, <1>2 DEF MaskGrowth
<1>4. ASSUME NEW p \in (chunk[1].anchor + 2)..(i - 1) PROVE ~k[p]
    <2>1. p \in 1..Len(m)
        BY <1>1, <1>2
    <2>2. ~m[p]
        BY DEF WellPlaced
    <2> QED BY <1>1, <2>1, <2>2 DEF MaskGrowth
<1> QED BY <1>3, <1>4 DEF WellPlaced

(* The shape of a non-empty rejected suffix (verify, the offsets and       *)
(* token ids after the accepted prefix).                                   *)
LEMMA SuffixShape ==
    ASSUME NEW r \in Req, NEW o \in VerifyOutcome, o.app <= o.acc + 1, NEW a \in Int,
           RejectedChunk(r, o, a) # <<>>
    PROVE  LET c == RejectedChunk(r, o, a)
           IN  /\ o.app = o.acc + 1
               /\ c[1].anchor = a /\ c[1].offset = o.acc + 1
               /\ c[Len(c)].offset = B - 1
               /\ \A j \in DOMAIN c : c[j] = [req |-> r, anchor |-> a,
                                              offset |-> o.acc + 1 + j - 1]
<1> USE PipelineAssumption
<1> DEFINE c == RejectedChunk(r, o, a)
           k == B - 1 - o.acc
<1>1. o.app \in 1..B /\ o.acc \in 0..(B - 1)
    BY DEF VerifyOutcome
<1>2. o.app = o.acc + 1 /\ o.acc < B - 1
    BY <1>1 DEF RejectedChunk, ReachedRejectionPoint
<1>3. c = [i \in 1..k |-> [req |-> r, anchor |-> a, offset |-> o.acc + i]]
    BY <1>1, <1>2 DEF RejectedChunk, ReachedRejectionPoint
<1> HIDE DEF c
<1>4. k \in Nat \ {0} /\ k = B - 1 - o.acc
    BY <1>1, <1>2
<1> HIDE DEF k
<1>5. c \in [1..k -> RejectedEntry]
    BY <1>1, <1>3, <1>4 DEF RejectedEntry
<1>6. Len(c) = k /\ DOMAIN c = 1..k
    BY <1>4, <1>5, FunctionIsSeq
<1>7. \A j \in 1..k : c[j] = [req |-> r, anchor |-> a, offset |-> o.acc + j]
    BY <1>3
<1>8. c[1].anchor = a /\ c[1].offset = o.acc + 1
    <2>1. 1 \in 1..k
        BY <1>4
    <2>2. c[1] = [req |-> r, anchor |-> a, offset |-> o.acc + 1]
        BY <1>7, <2>1, Zenon
    <2> QED BY <2>2
<1>9. c[k].offset = B - 1
    <2>1. k \in 1..k /\ o.acc + k = B - 1
        BY <1>1, <1>4
    <2>2. c[k] = [req |-> r, anchor |-> a, offset |-> o.acc + k]
        BY <1>7, <2>1, Zenon
    <2> QED BY <2>1, <2>2
<1>10. \A j \in 1..k : o.acc + 1 + j - 1 = o.acc + j
    BY <1>1, <1>4
<1> QED BY <1>2, <1>6, <1>7, <1>8, <1>9, <1>10 DEF c

(* The suffix a verify step stores at the last token it appended.          *)
LEMMA NewSuffix ==
    ASSUME NEW r \in Req, NEW o \in VerifyOutcome, o.app <= o.acc + 1,
           NEW len \in Nat, len >= 1, NEW m, NEW n \in Nat,
           n = len + o.app, DOMAIN m = 1..n, m[n],
           \A p \in (len + 1)..(n - 1) : ~m[p]
    PROVE  WellPlaced(r, m, RejectedChunk(r, o, n - o.app - 1), n)
<1> DEFINE c == RejectedChunk(r, o, n - o.app - 1)
<1> SUFFICES ASSUME c # <<>> PROVE WellPlaced(r, m, c, n)
    BY Zenon DEF WellPlaced
<1>1. o.app \in 1..B /\ o.acc \in 0..(B - 1) /\ n - o.app - 1 = len - 1
    BY PipelineAssumption DEF VerifyOutcome
<1>2. /\ o.app = o.acc + 1
      /\ c[1].anchor = len - 1 /\ c[1].offset = o.acc + 1
      /\ c[Len(c)].offset = B - 1
      /\ \A j \in DOMAIN c : c[j] = [req |-> r, anchor |-> len - 1,
                                     offset |-> o.acc + 1 + j - 1]
    <2>1. len - 1 \in Int
        OBVIOUS
    <2>2. c = RejectedChunk(r, o, len - 1)
        BY <1>1
    <2> HIDE DEF c
    <2>3. RejectedChunk(r, o, len - 1) # <<>>
        BY <2>2
    <2> QED BY <2>1, <2>2, <2>3, SuffixShape
<1> HIDE DEF c
<1>3. c[1].anchor >= 0 /\ c[1].anchor + c[1].offset = n - 1
    <2>1. len - 1 >= 0 /\ len - 1 + (o.acc + 1) = n - 1
        <3>1. o.app = o.acc + 1
            BY <1>2
        <3> QED BY <1>1, <3>1, PipelineAssumption
    <2> QED BY <1>2, <2>1
<1>4. \A p \in (c[1].anchor + 2)..(n - 1) : ~m[p]
    <2>1. c[1].anchor + 2 = len + 1
        BY <1>2
    <2> QED BY <2>1
<1>5. n \in DOMAIN m /\ m[n]
    <2>1. n \in 1..n
        BY <1>1, PipelineAssumption, SMTT(30)
    <2> QED BY <2>1
<1> QED BY <1>2, <1>3, <1>4, <1>5, SMTT(30) DEF WellPlaced

(* A verify step keeps every stored suffix well placed.                    *)
LEMMA RejectedVerify ==
    ASSUME TypeOK, MaskAligned, RejectedInv,
           NEW S, NEW o \in [S -> VerifyOutcome], VerifyBatch(S, o),
           \A q \in S : o[q].app <= o[q].acc + 1,
           \A q \in S : outLen[q] >= 1,
           NEW r \in Req
    PROVE  /\ \A i \in DOMAIN rej'[r] : WellPlaced(r, mask'[r], rej'[r][i], i)
           /\ Len(rej'[r]) <= Len(mask'[r])
<1>1. /\ \A i \in DOMAIN rej[r] : WellPlaced(r, mask[r], rej[r][i], i)
      /\ Len(rej[r]) <= Len(mask[r]) /\ Len(mask[r]) <= outLen[r]
    BY Zenon DEF RejectedInv, RejectedAtItsBlock, WellPlaced, MaskAligned
<1>2. /\ rej[r] \in Seq(Seq(RejectedEntry)) /\ mask[r] \in Seq(BOOLEAN)
      /\ outLen[r] \in Nat
      /\ Len(rej[r]) \in Nat /\ DOMAIN rej[r] = 1..Len(rej[r])
      /\ Len(mask[r]) \in Nat /\ DOMAIN mask[r] = 1..Len(mask[r])
    BY LenProperties DEF TypeOK
<1>3. CASE r \notin S
    <2>1. rej'[r] = rej[r] /\ mask'[r] = mask[r]
        BY <1>3, Zenon DEF VerifyBatch
    <2> QED BY <1>1, <2>1, SMTT(30)
<1>4. CASE r \in S
    <2> DEFINE n == outLen'[r]
               m == mask'[r]
               c == RejectedChunk(r, o[r], n - o[r].app - 1)
    <2>1. /\ n = outLen[r] + o[r].app /\ o[r].app \in Nat \ {0}
          /\ Len(m) = n /\ DOMAIN m = 1..n /\ MaskGrowth(mask[r], m, n)
        BY <1>1, <1>4, MaskAfterVerify, SMTT(90)
    <2>2. rej'[r] = AppendRejectedDraft(rej[r], n, o[r].app, c)
        BY <1>4, Zenon DEF VerifyBatch
    <2>3. o[r] \in VerifyOutcome /\ o[r].app <= o[r].acc + 1 /\ outLen[r] >= 1
        BY <1>4, SMTT(30)
    <2> HIDE DEF n, m
    <2>4. n \in Nat /\ Len(mask[r]) < n /\ n - o[r].app = outLen[r]
        BY <1>1, <1>2, <2>1, SMTT(90)
    <2>5. m[n] /\ \A p \in (outLen[r] + 1)..(n - 1) : ~m[p]
        <3>1. n \in (Len(mask[r]) + 1)..n
            BY <1>2, <2>4
        <3>2. \A p \in (outLen[r] + 1)..(n - 1) : p \in (Len(mask[r]) + 1)..n /\ p # n
            BY <1>1, <1>2, <2>4
        <3> QED BY <2>1, <3>1, <3>2 DEF MaskGrowth
    <2>6. WellPlaced(r, m, c, n)
        BY <1>2, <2>1, <2>3, <2>4, <2>5, NewSuffix, Zenon
    <2> HIDE DEF c
    <2>7. ASSUME NEW i \in 1..Len(rej[r]) PROVE WellPlaced(r, m, rej[r][i], i)
        <3>1. rej[r][i] \in Seq(RejectedEntry) /\ i \in Nat
            BY <1>2, ElementOfSeq
        <3>2. WellPlaced(r, mask[r], rej[r][i], i)
            BY <1>1, <1>2
        <3> QED BY <1>2, <2>1, <2>4, <3>1, <3>2, OldSuffix, SMTT(30)
    <2>8. CASE c = <<>>
        <3>1. rej'[r] = rej[r]
            BY <2>2, <2>8 DEF AppendRejectedDraft
        <3>2. Len(rej'[r]) <= Len(m)
            BY <1>1, <1>2, <2>1, <2>4, <3>1, SMTT(90)
        <3> QED BY <1>2, <2>7, <3>1, <3>2, Zenon DEF m
    <2>9. CASE c # <<>>
        <3> DEFINE len == TokenAlignedLen(rej[r], outLen[r], o[r].app)
                   new == AppendTokenAligned(rej[r], outLen[r], o[r].app, <<>>, c)
        <3>1. rej'[r] = new
            BY <2>1, <2>2, <2>4, <2>9, SMTT(30) DEF AppendRejectedDraft
        <3>2. len = n
            BY <1>1, <1>2, <2>1, SMTT(90) DEF TokenAlignedLen
        <3>3. /\ DOMAIN new = 1..len
              /\ \A i \in 1..len : new[i] = IF i <= Len(rej[r]) THEN rej[r][i]
                                            ELSE IF i = len THEN c ELSE <<>>
            BY TokenAlignedEntries, SMTT(60)
        <3>4. rej'[r] \in Seq(Seq(RejectedEntry))
            BY VerifyBatchType
        <3> HIDE DEF len, new
        <3>5. Len(rej'[r]) = n
            BY <2>4, <3>1, <3>2, <3>3, <3>4, LenProperties, SMTT(30)
        <3>6. ASSUME NEW i \in 1..n PROVE WellPlaced(r, m, rej'[r][i], i)
            <4>1. WellPlaced(r, m, <<>>, i)
                BY DEF WellPlaced
            <4>2. rej'[r][i] = IF i <= Len(rej[r]) THEN rej[r][i]
                               ELSE IF i = n THEN c ELSE <<>>
                BY <3>1, <3>2, <3>3
            <4>3. CASE i <= Len(rej[r])
                <5>1. i \in 1..Len(rej[r])
                    BY <1>2, <2>4, <4>3
                <5> QED BY <2>7, <4>2, <5>1
            <4>4. CASE ~(i <= Len(rej[r])) /\ i = n
                BY <2>6, <4>2, <4>4
            <4>5. CASE ~(i <= Len(rej[r])) /\ i # n
                BY <4>1, <4>2, <4>5
            <4> QED BY <4>3, <4>4, <4>5
        <3> QED BY <2>1, <2>4, <3>1, <3>2, <3>3, <3>5, <3>6, SMTT(90) DEF m
    <2> QED BY <2>8, <2>9, SMTT(30)
<1> QED BY <1>3, <1>4

(* Every request of the batch that a verify step runs on has a token: the  *)
(* one its prefill sampled (process_batch_result_prefill).                 *)
LEMMA BatchHasToken ==
    ASSUME TypeOK, RejectedInv, NEW keep \in 1..Len(running)
    PROVE  /\ SubSeq(running, 1, keep) \in Seq(Req)
           /\ Range(SubSeq(running, 1, keep)) \subseteq Req
           /\ \A q \in Range(SubSeq(running, 1, keep)) : outLen[q] >= 1
<1> DEFINE batch == SubSeq(running, 1, keep)
<1>1. running \in Seq(Req) /\ Len(running) \in Nat /\ DOMAIN running = 1..Len(running)
    BY LenProperties DEF TypeOK
<1>2. batch \in Seq(Req) /\ DOMAIN batch = 1..keep
      /\ \A i \in 1..keep : batch[i] = running[i] /\ i \in DOMAIN running
    BY <1>1
<1> HIDE DEF batch
<1>3. ASSUME NEW q \in Range(batch) PROVE q \in Req /\ outLen[q] >= 1
    <2>1. PICK i \in 1..keep : q = batch[i]
        BY <1>2 DEF Range
    <2>2. q = running[i] /\ i \in 1..Len(running)
        BY <1>1, <1>2, <2>1
    <2> QED BY <1>1, <2>2, ElementOfSeq DEF RejectedInv
<1> QED BY <1>2, <1>3 DEF batch

(* A step that leaves the lists alone preserves what RejectedInv says of   *)
(* them.                                                                   *)
LEMMA RejectedUnchanged ==
    ASSUME RejectedInv, rej' = rej, mask' = mask
    PROVE  RejectedAtItsBlock' /\ \A r \in Req : Len(rej'[r]) <= Len(mask'[r])
<1>1. RejectedAtItsBlock'
    <2>1. \A r \in Req : \A i \in DOMAIN rej[r] : WellPlaced(r, mask[r], rej[r][i], i)
        BY Zenon DEF RejectedInv, RejectedAtItsBlock, WellPlaced
    <2>2. \A r \in Req : \A i \in DOMAIN rej'[r] : WellPlaced(r, mask'[r], rej'[r][i], i)
        BY <2>1, Zenon
    <2> QED BY <2>2, Zenon DEF RejectedAtItsBlock, WellPlaced
<1>2. \A r \in Req : Len(rej'[r]) <= Len(mask'[r])
    BY Zenon DEF RejectedInv
<1> QED BY <1>1, <1>2

(* Every step preserves RejectedInv.                                       *)
LEMMA RejectedStep ==
    TypeOK /\ TypeOK' /\ MaskAligned /\ RejectedInv /\ [Next]_vars => RejectedInv'
<1> SUFFICES ASSUME TypeOK, TypeOK', MaskAligned, RejectedInv, [Next]_vars
             PROVE  RejectedInv'
    BY SMTT(30)
<1>1. ASSUME NEW r \in Req, Submit(r) PROVE RejectedInv'
    <2>1. rej' = rej /\ mask' = mask
        BY <1>1 DEF Submit
    <2>2. running' = running /\ outLen' = outLen
        BY <1>1 DEF Submit
    <2>3. \A i \in DOMAIN running' : outLen'[running'[i]] >= 1
        BY <2>2, Zenon DEF RejectedInv
    <2> QED BY <2>1, <2>3, RejectedUnchanged, Zenon DEF RejectedInv
<1>2. ASSUME PrefillStep PROVE RejectedInv'
    <2>1. PICK n \in 1..Len(waiting), stop \in SUBSET Req : Prefill(n, stop)
        BY <1>2 DEF PrefillStep
    <2> DEFINE batch == SubSeq(waiting, 1, n)
    <2>2. outLen' = [r \in Req |-> IF r \in Range(batch) THEN outLen[r] + 1 ELSE outLen[r]]
        BY <2>1, Zenon DEF Prefill
    <2>3. UNCHANGED <<mask, rej>>
        BY <2>1 DEF Prefill
    <2>4. PICK stay \in FilterBatch(batch, Unfinished') : running' = running \o stay
        BY <2>1 DEF Prefill
    <2>5. n \in 0..Len(waiting) /\ waiting \in Seq(Req) /\ running \in Seq(Req)
        BY LenProperties DEF TypeOK
    <2>6. batch \in Seq(Req)
        BY <2>5, QueueSlices
    <2> HIDE DEF batch
    <2>7. /\ stay \in Seq(Req)
          /\ \A k \in DOMAIN stay : \E i \in DOMAIN batch : stay[k] = batch[i]
        BY <2>6, FilterBatchType
    <2>8. ASSUME NEW i \in DOMAIN running' PROVE outLen'[running'[i]] >= 1
        <3>1. /\ Len(running) \in Nat /\ DOMAIN running = 1..Len(running)
              /\ Len(stay) \in Nat /\ DOMAIN stay = 1..Len(stay)
              /\ i \in 1..(Len(running) + Len(stay))
            BY <2>4, <2>5, <2>7, LenProperties, ConcatProperties, SMTT(30)
        <3>2. CASE i <= Len(running)
            <4>1. running'[i] = running[i] /\ i \in DOMAIN running /\ running[i] \in Req
                BY <2>4, <2>5, <2>7, <3>1, <3>2, ConcatProperties, ElementOfSeq, SMTT(30)
            <4>2. outLen[running[i]] >= 1
                BY <4>1, SMTT(30) DEF RejectedInv
            <4>3. outLen[running[i]] \in Nat
                BY <4>1 DEF TypeOK
            <4> QED BY <2>2, <4>1, <4>2, <4>3, SMTT(30)
        <3>3. CASE i > Len(running)
            <4>1. i - Len(running) \in DOMAIN stay /\ running'[i] = stay[i - Len(running)]
                BY <2>4, <2>5, <2>7, <3>1, <3>3, ConcatProperties, SMTT(30)
            <4>2. PICK j \in DOMAIN batch : running'[i] = batch[j]
                BY <2>7, <4>1, SMTT(30)
            <4>3. batch[j] \in Req /\ batch[j] \in Range(batch)
                BY <2>6, LenProperties, ElementOfSeq, SMTT(30) DEF Range
            <4>4. outLen[batch[j]] \in Nat
                BY <4>3, SMTT(30) DEF TypeOK
            <4> QED BY <2>2, <4>2, <4>3, <4>4, SMTT(30)
        <3> QED BY <3>1, <3>2, <3>3
    <2>9. rej' = rej /\ mask' = mask
        BY <2>3
    <2> QED BY <2>8, <2>9, RejectedUnchanged, Zenon DEF RejectedInv
<1>3. ASSUME DecodeStep PROVE RejectedInv'
    <2>1. PICK keep \in 1..Len(running) :
            \E o \in [Range(SubSeq(running, 1, keep)) -> VerifyOutcome] :
                (\A r \in DOMAIN o : PossibleOutcome(r, o[r])) /\ Decode(keep, o)
        BY <1>3 DEF DecodeStep, Survivors
    <2> DEFINE batch == SubSeq(running, 1, keep)
               S == Range(batch)
    <2>2. PICK o \in [S -> VerifyOutcome] :
                (\A r \in DOMAIN o : PossibleOutcome(r, o[r])) /\ Decode(keep, o)
        BY <2>1
    <2>3. VerifyBatch(S, o) /\ running' \in FilterBatch(batch, Unfinished')
        BY <2>2 DEF Decode
    <2>4. batch \in Seq(Req) /\ S \subseteq Req /\ \A q \in S : outLen[q] >= 1
        BY BatchHasToken
    <2>5. \A q \in S : o[q].app <= o[q].acc + 1
        BY <2>2, SMTT(30) DEF PossibleOutcome
    <2> HIDE DEF S
    <2>6. ASSUME NEW r \in Req
          PROVE  /\ \A i \in DOMAIN rej'[r] : WellPlaced(r, mask'[r], rej'[r][i], i)
                 /\ Len(rej'[r]) <= Len(mask'[r])
        BY <2>3, <2>4, <2>5, RejectedVerify, Zenon
    <2>7. ASSUME NEW k \in DOMAIN running' PROVE outLen'[running'[k]] >= 1
        <3> HIDE DEF batch
        <3>1. PICK i \in DOMAIN batch : running'[k] = batch[i]
            BY <2>3, <2>4, FilterBatchType
        <3>2. batch[i] \in S /\ batch[i] \in Req
            BY <2>4 DEF S, Range
        <3>3. outLen[batch[i]] \in Nat /\ outLen[batch[i]] >= 1
            BY <2>4, <3>2 DEF TypeOK
        <3>4. o[batch[i]].app \in Nat
            BY <3>2, PipelineAssumption, SMTT(30) DEF VerifyOutcome
        <3>5. outLen'[batch[i]] = outLen[batch[i]] + o[batch[i]].app
            BY <2>3, <3>2, Zenon DEF VerifyBatch
        <3> QED BY <3>1, <3>3, <3>4, <3>5, SMTT(30)
    <2>8. RejectedAtItsBlock'
        BY <2>6, Zenon DEF RejectedAtItsBlock, WellPlaced
    <2> QED BY <2>6, <2>7, <2>8, Zenon DEF RejectedInv
<1>4. ASSUME UNCHANGED schedVars PROVE RejectedInv'
    <2>1. rej' = rej /\ mask' = mask /\ running' = running /\ outLen' = outLen
        BY <1>4 DEF schedVars
    <2>2. \A i \in DOMAIN running' : outLen'[running'[i]] >= 1
        BY <2>1, Zenon DEF RejectedInv
    <2> QED BY <2>1, <2>2, RejectedUnchanged, Zenon DEF RejectedInv
<1>5. ASSUME HandleBatchOutput \/ (\E r \in Req : Generate(r)) \/ UNCHANGED vars
      PROVE  UNCHANGED schedVars
    BY <1>5 DEF HandleBatchOutput, Generate, vars
<1> QED BY <1>1, <1>2, <1>3, <1>4, <1>5, SMTT(30) DEF Next, Idle

(* Every rejected suffix the scheduler stores belongs to the block that    *)
(* ended where it is stored, for every block size and every schedule of    *)
(* prefills, decodes and retractions (append_dflash_rejected_draft_metadata). *)
THEOREM RejectedCorrect == Spec => []RejectedAtItsBlock
<1>1. Init => RejectedInv
    BY EmptySeq, SMTT(90) DEF Init, RejectedInv, RejectedAtItsBlock
<1>2. RejectedInv => RejectedAtItsBlock
    BY Zenon DEF RejectedInv
<1> QED BY <1>1, <1>2, TypeCorrect, MaskCorrect, RejectedStep, PTL DEF Spec
=============================================================================
