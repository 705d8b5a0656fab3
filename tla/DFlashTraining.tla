--------------------------- MODULE DFlashTraining ---------------------------
(***************************************************************************)
(* DFlashPipeline followed by the trainer: whatever sample the rollout     *)
(* delivers, through retractions, early stops and sliced output batches,   *)
(* the plans of OPDPlan are made from it.  The trainer keeps no state of   *)
(* its own between samples, so its properties are properties of every      *)
(* delivered sample.                                                       *)
(***************************************************************************)
EXTENDS DFlashPipeline

CONSTANTS
    PromptLen,  \* prompt tokens of a sample
    Strides,    \* values of response_anchor_stride
    Limits      \* values of rejected_draft_max_tokens_per_sample

INSTANCE OPDPlan

ASSUME TrainingAssumption ==
    B > 1 /\ PromptLen \in Nat \ {0} /\ Strides \subseteq Nat \ {0} /\ Limits \subseteq Nat \ {0}

(* _prepare_composed_dflash_inputs: a delivered sample, alone in its batch *)
(* or beside a longer one.                                                 *)
SampleOf(r, padding) ==
    [prompt |-> PromptLen, len |-> Len(result[r].ids),
     width |-> PromptLen + Len(result[r].ids) + padding,
     marks |-> result[r].marks, rej |-> result[r].rej, rep |-> result[r].rep]

Samples == {SampleOf(r, padding) : r \in {q \in Req : Collected(q)}, padding \in 0..1}

FirstOnly(s) == [s EXCEPT !.rej = FirstTokens(s.rej)]

OpdPlan(s, stride) == WithRejectedAnchors(s, Placed(s, Segments(s, stride)))
-----------------------------------------------------------------------------
(* Properties.                                                             *)

RowsExact(s, plan) ==
    /\ \A p, q \in Positions(s, plan) : Row(plan, p) = Row(plan, q) => p = q
    /\ \A p \in Positions(s, plan) : Row(plan, p) \in (s.prompt - 1)..(ValidLen(s) - 2)

(* No response row is scattered to twice, so that log_probs_by_seq is well *)
(* defined, and every row predicts a response token, with any stride and   *)
(* for every draw of the random plan; that plan trains as many tokens as   *)
(* the one it replaces, and its ValueError cannot be raised.               *)
RowsScatteredOnce ==
    \A s \in Samples, stride \in Strides :
        LET segs == Segments(s, stride)
            size(plan) == Cardinality(Positions(s, plan))
        IN  /\ RowsExact(s, OpdPlan(s, stride))
            /\ Total(Lengths(segs)) <= s.len
            /\ \A draw \in RandomDraws(s, segs) :
                  LET plan == Placed(s, RandomSegments(draw.lens, draw.gaps))
                  IN  RowsExact(s, plan) /\ size(plan) = size(Placed(s, segs))

(* The rejected-draft loss is divided by the number of drafts it sums: the *)
(* engine's count, made from the raw metadata, is the number collected     *)
(* from either plan, and both passes collect the same drafts               *)
(* (_compute_extra_global_batch_info, _collect_rejected_draft_log_probs).  *)
RejectedCountExact ==
    \A s \in Samples : \A t \in {s, FirstOnly(s)} : \A stride \in Strides, limit \in Limits :
        LET one == CollectedItems(t, OpdPlan(t, stride), limit)
        IN  /\ Cardinality(one) = RejectedTokenCount(t.rej, limit)
            /\ one = CollectedItems(t, RejectedPlan(t, limit), limit)

(* The exact TV plan accepts every delivered sample: none of the checks of *)
(* _build_tv_position_plan fails, also after a retraction, when marks and  *)
(* rejected drafts no longer agree.                                        *)
TVAccepts == \A s \in Samples : ~TVError(s, OpdPlan(s, 1))

(* The block count that every rank adds to the global one before the pass  *)
(* (_count_dflash_tv_blocks) is the number of blocks the plan makes.       *)
TVCountExact ==
    \A s \in Samples, firstOnly \in BOOLEAN :
        CountTVBlocks(s) = Cardinality(TVBlocks(s, OpdPlan(s, 1), firstOnly))

(* The positions of a block that was verified in the rollout.              *)
RolloutBlock(b) ==
    [anchor |-> PromptLen + b.start - 1,
     offsets |-> IF b.app = b.acc + 1 THEN 1..(B - 1) ELSE 1..b.app]

(* For a request that was never retracted, the TV plan is the rollout: its *)
(* blocks are the verified ones with exactly the drafted positions that    *)
(* the response and the rejected suffix decide (_build_tv_position_plan).  *)
(* The first is the exception: its plan starts at the last prompt token,   *)
(* where nothing was drafted, and it has a block of its own only when one  *)
(* of its drafts was rejected.                                             *)
TVBlocksExact ==
    \A r \in Req \ retracted : Collected(r) =>
        LET planned == TVBlocks(SampleOf(r, 0), OpdPlan(SampleOf(r, 0), 1), FALSE)
            verified == {RolloutBlock(b) : b \in blocks[r]}
        IN  /\ {blk \in planned : blk.anchor >= PromptLen} \subseteq verified
            /\ {blk \in verified : blk.anchor > PromptLen} \subseteq planned

RejectedBlocks(s) == {s.rej[i].anchor : i \in DOMAIN s.rej}

CountedRejected(s) == {s.rep[k].anchor : k \in {j \in DOMAIN s.rep : ReplayCounts(s.rep[j]).first = 1}}

CutAtLastDraft(r) == \E b \in blocks[r] : b.acc = B - 1 /\ b.app = B - 1

=============================================================================
