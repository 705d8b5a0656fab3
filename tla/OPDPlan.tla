------------------------------- MODULE OPDPlan -------------------------------
(***************************************************************************)
(* How the composed DFLASH student turns a rollout sample into training    *)
(* positions (dflash_student.py and the FSDP engine): which draft blocks   *)
(* are run again, which of their positions enter a loss, and the counts    *)
(* the losses are divided by.                                              *)
(*                                                                         *)
(* A sample s has a prompt length, a response length len, the reject       *)
(* indices marks, the rejected drafts rej, the replay blocks rep and the   *)
(* width of the padded batch.  Response positions are 0-based, as in the   *)
(* code; token ids are never negative, so their tests are left out.        *)
(***************************************************************************)
EXTENDS Integers, Sequences, FiniteSets
LOCAL INSTANCE FiniteSetsExt

CONSTANT B  \* block size: the anchor and B - 1 predicted tokens

ValidLen(s) == s.prompt + s.len

FullAnchor(s, anchor) == IF anchor < 0 THEN s.prompt - 1 ELSE s.prompt + anchor

Ascending(S) ==
    [k \in 1..Cardinality(S) |-> CHOOSE x \in S : Cardinality({y \in S : y < x}) = k - 1]

AnchorsOf(plan) == {plan[k].anchor : k \in DOMAIN plan}
-----------------------------------------------------------------------------
(* _build_opd_anchor_plan: a segment runs from one reject to the next; the *)
(* last response token closes the last one.                                *)

(* Mutated form: a segment starts at the previous token's successor.       *)
SegmentBoundsShifted(s) ==
    LET rejects == s.marks \cap 0..(s.len - 1)
        ends == Ascending(IF rejects = {} THEN {} ELSE rejects \cup {s.len - 1})
    IN  [k \in DOMAIN ends |->
            [anchor |-> IF k = 1 THEN -1 ELSE ends[k - 1] - 1, boundary |-> ends[k]]]

SegmentBounds(s) ==
    LET rejects == s.marks \cap 0..(s.len - 1)
        ends == Ascending(IF rejects = {} THEN {} ELSE rejects \cup {s.len - 1})
    IN  [k \in DOMAIN ends |->
            [anchor |-> IF k = 1 THEN -1 ELSE ends[k - 1], boundary |-> ends[k]]]

(* response_anchor_stride: every stride-th segment, and the last.          *)
Strided(pairs, stride) ==
    LET kept == Ascending({k \in DOMAIN pairs : (k - 1) % stride = 0 \/ k = Len(pairs)})
    IN  [i \in DOMAIN kept |-> pairs[kept[i]]]

AnchorFits(s, anchor) == FullAnchor(s, anchor) \in 0..(s.width - 2)

(* Mutated form: the anchor is not counted in the block.                   *)
SegmentsOfBlock(s, stride) ==
    LET pairs == Strided(SegmentBounds(s), stride)
    IN  SelectSeq([k \in DOMAIN pairs |->
                      [anchor |-> pairs[k].anchor,
                       len |-> Min({pairs[k].boundary - pairs[k].anchor, B})]],
                  LAMBDA seg : seg.len > 0 /\ AnchorFits(s, seg.anchor))

(* A block predicts at most B - 1 tokens after its anchor.                 *)
Segments(s, stride) ==
    LET pairs == Strided(SegmentBounds(s), stride)
    IN  SelectSeq([k \in DOMAIN pairs |->
                      [anchor |-> pairs[k].anchor,
                       len |-> Min({pairs[k].boundary - pairs[k].anchor, B - 1})]],
                  LAMBDA seg : seg.len > 0 /\ AnchorFits(s, seg.anchor))

Total(lens) ==
    LET upTo[i \in 0..Len(lens)] == IF i = 0 THEN 0 ELSE upTo[i - 1] + lens[i]
    IN  upTo[Len(lens)]

Lengths(segs) == [k \in DOMAIN segs |-> segs[k].len]

(* _build_random_response_anchor_plan: the segments in the shuffled order  *)
(* lens, with gaps[k] free tokens before the k-th.                         *)
RandomSegments(lens, gaps) ==
    [k \in DOMAIN lens |->
        [anchor |-> Total(SubSeq(lens, 1, k - 1)) + Total(SubSeq(gaps, 1, k)) - 1, len |-> lens[k]]]

(* Everything the generator may draw: a permutation of the segments, and   *)
(* where the tokens outside the segments fall.                             *)
RandomDraws(s, segs) ==
    LET n == Len(segs)
        spare == s.len - Total(Lengths(segs))
        perms == {f \in [1..n -> 1..n] : \A i, j \in 1..n : f[i] = f[j] => i = j}
        gaps == {g \in [1..(n + 1) -> 0..spare] : Total(g) = spare}
    IN  {[lens |-> [k \in 1..n |-> segs[f[k]].len], gaps |-> g] : f \in perms, g \in gaps}

(* The response blocks of a sample, in sequence coordinates.               *)
Placed(s, segs) ==
    LET fit == SelectSeq(segs, LAMBDA seg : AnchorFits(s, seg.anchor))
    IN  [k \in DOMAIN fit |-> [anchor |-> FullAnchor(s, fit[k].anchor), len |-> fit[k].len]]

(* The items of rej with an offset inside a block and an anchor before     *)
(* end.                                                                    *)
Usable(s, end) ==
    {i \in DOMAIN s.rej :
        s.rej[i].offset \in 1..(B - 1) /\ FullAnchor(s, s.rej[i].anchor) \in 0..(end - 1)}

(* Blocks without response positions, one for each anchor of items that    *)
(* is not known, in the order of the items.                                *)
BlocksFor(s, items, known) ==
    LET full(i) == FullAnchor(s, s.rej[i].anchor)
        fresh == Ascending({i \in items :
                    full(i) \notin known /\ \A j \in items : full(j) = full(i) => j >= i})
    IN  [k \in DOMAIN fresh |-> [anchor |-> full(fresh[k]), len |-> 0]]

(* Mutated form: no block is added for a rejected draft.                   *)
WithRejectedAnchorsNone(s, plan) == plan

(* The second half of _build_opd_anchor_plan: a block for each anchor of a *)
(* rejected draft that has none yet.                                       *)
WithRejectedAnchors(s, plan) ==
    plan \o BlocksFor(s, Usable(s, Min({ValidLen(s), s.width})), AnchorsOf(plan))

(* The positions of a plan that _forward_opd trains on: the offsets of the *)
(* blocks whose label is inside the sample; Row is where the log-prob of a *)
(* position is scattered to.                                               *)
Positions(s, plan) ==
    {pos \in [block : DOMAIN plan, offset : 1..(B - 1)] :
        /\ pos.offset <= plan[pos.block].len
        /\ plan[pos.block].anchor + pos.offset < ValidLen(s)}

Row(plan, pos) == plan[pos.block].anchor + pos.offset - 1
-----------------------------------------------------------------------------
(* The rejected-draft loss of _forward_opd.                                *)

(* _filter_dflash_rejected_draft_first_tokens: the item of least offset of *)
(* every anchor, in the order of the items.                                *)
FirstTokens(rej) ==
    LET beats(j, i) == rej[j].anchor = rej[i].anchor
                       /\ (rej[j].offset < rej[i].offset \/ (rej[j].offset = rej[i].offset /\ j < i))
        kept == Ascending({i \in DOMAIN rej :
                              rej[i].offset > 0 /\ \A j \in DOMAIN rej : ~beats(j, i)})
    IN  [k \in DOMAIN kept |-> rej[kept[k]]]

FirstOf(items, limit) == {i \in items : Cardinality({j \in items : j <= i}) <= limit}

(* _build_rejected_draft_anchor_plan: the blocks of a pass of their own,   *)
(* for the first limit usable items.                                       *)
RejectedPlan(s, limit) ==
    BlocksFor(s, FirstOf(Usable(s, Min({ValidLen(s), s.width})), limit), {})

(* _collect_rejected_draft_log_probs: the items that find their block in   *)
(* the plan, up to limit of them.                                          *)
CollectedItems(s, plan, limit) ==
    FirstOf({i \in Usable(s, ValidLen(s)) : FullAnchor(s, s.rej[i].anchor) \in AnchorsOf(plan)},
            limit)

(* Mutated form: the limit per sample is not applied.                      *)
RejectedTokenCountAll(rej, limit) == Len(rej)

(* _count_dflash_rejected_draft_tokens: what the loss is divided by.       *)
RejectedTokenCount(rej, limit) == Min({Len(rej), limit})
-----------------------------------------------------------------------------
(* The exact TV loss: _build_tv_position_plan and _count_dflash_tv_blocks. *)

RejectedOffsets(s, full) ==
    {s.rej[i].offset : i \in {j \in DOMAIN s.rej : FullAnchor(s, s.rej[j].anchor) = full}}

(* The offsets of a block that enter the loss: rejected metadata replaces  *)
(* the response from the first rejected offset on.                         *)
TVOffsets(s, blk, firstOnly) ==
    LET rejected == RejectedOffsets(s, blk.anchor)
    IN  IF rejected = {} THEN 1..blk.len
        ELSE 1..Min(rejected) \cup (IF firstOnly THEN {} ELSE rejected)

TVBlocks(s, plan, firstOnly) ==
    {blk \in {[anchor |-> plan[k].anchor, offsets |-> TVOffsets(s, plan[k], firstOnly)] :
                  k \in DOMAIN plan} : blk.offsets # {}}

(* The ValueErrors.  Two items of one position always conflict here: they  *)
(* would come from two blocks, whose drafts need not agree.                *)
TVItemError(s) ==
    \E i \in DOMAIN s.rej :
        \/ FullAnchor(s, s.rej[i].anchor) \notin 0..(ValidLen(s) - 1)
        \/ s.rej[i].offset \notin 1..(B - 1)
        \/ \E j \in DOMAIN s.rej \ {i} :
              s.rej[j].anchor = s.rej[i].anchor /\ s.rej[j].offset = s.rej[i].offset

TVSuffixError(s, full) ==
    LET rejected == RejectedOffsets(s, full)
    IN  \/ rejected # Min(rejected)..Max(rejected)
        \/ full + Min(rejected) - 1 >= ValidLen(s)

TVBlockError(s, blk) ==
    LET rejected == RejectedOffsets(s, blk.anchor)
    IN  \E o \in TVOffsets(s, blk, FALSE) :
            /\ ~(o \in rejected /\ o > Min(rejected))
            /\ blk.anchor + o - 1 >= ValidLen(s)

TVError(s, plan) ==
    LET anchors == {FullAnchor(s, s.rej[i].anchor) : i \in DOMAIN s.rej}
    IN  \/ TVItemError(s)
        \/ \E full \in anchors : TVSuffixError(s, full)
        \/ \E k \in DOMAIN plan : TVBlockError(s, plan[k])
        \/ \E i, j \in DOMAIN plan : i # j /\ plan[i].anchor = plan[j].anchor
        \/ ~(anchors \subseteq AnchorsOf(plan))

(* Mutated form: only the segments of the response are counted.            *)
CountTVBlocksResponse(s) == Len(SegmentBounds(s))

CountTVBlocks(s) ==
    Cardinality({SegmentBounds(s)[k].anchor : k \in DOMAIN SegmentBounds(s)} \cup
                {s.rej[i].anchor : i \in {j \in DOMAIN s.rej :
                    s.rej[j].offset > 0 /\ s.rej[j].anchor \in -1..(s.len - 1)}})
-----------------------------------------------------------------------------
(* Replay statistics: ReplayDistributionTracker and the mismatch pass.     *)

(* replay_block_counts; update_rollout skips a block without drafts, and   *)
(* raises when more is accepted than drafted.                              *)
ReplayCountError(e) == e.drafted > 0 /\ e.accepted > e.drafted

ReplayCounts(e) ==
    LET rejected == IF e.accepted < e.drafted THEN 1 ELSE 0
    IN  [accepted |-> Max({e.accepted, 0}), first |-> rejected,
         suffix |-> Max({e.drafted - e.accepted - rejected, 0})]


(* _build_replay_dis_anchor_plan: the blocks that are drafted again.       *)
ReplayPlan(s) ==
    LET kept == SelectSeq(s.rep, LAMBDA e :
                    e.drafted > 0 /\ FullAnchor(s, e.anchor) \in 0..(Min({ValidLen(s), s.width}) - 1))
        clamp(e) == [e EXCEPT !.drafted = Min({@, B - 1}),
                              !.accepted = Max({0, Min({@, e.drafted, B - 1})})]
    IN  [k \in DOMAIN kept |-> clamp(kept[k])]
=============================================================================
