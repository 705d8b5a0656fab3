--------------------------- MODULE DFlashMetadata ---------------------------
(***************************************************************************)
(* The pure list algorithms of DFLASH's per-request "customized info": how *)
(* the scheduler stores one entry per response token, how a flat list is   *)
(* recovered at the receiver, and how verl aligns the reject mask to the   *)
(* response.                                                               *)
(*                                                                         *)
(* A list is a 1-based sequence here; the metadata itself (anchor indices, *)
(* offsets, reject indices) keeps the 0-based numbers of the code.  A key  *)
(* that customized_info does not hold is the empty list: every append      *)
(* below that creates a key also leaves it non-empty.                      *)
(***************************************************************************)
EXTENDS Integers, Sequences

(* values.extend(pad up to prefixLen); values.extend(fill, count times);   *)
(* values[-1] = last: the shape all three append functions share.          *)
TokenAlignedLen(values, prefixLen, count) ==
    (IF Len(values) < prefixLen THEN prefixLen ELSE Len(values)) + count

(* Mutated form: the list is not padded up to the response position.       *)
AppendTokenAlignedNoPad(values, prefixLen, count, fill, last) ==
    values \o [i \in 1..count |-> IF i = count THEN last ELSE fill]

AppendTokenAligned(values, prefixLen, count, fill, last) ==
    [i \in 1..TokenAlignedLen(values, prefixLen, count) |->
        IF i <= Len(values) THEN values[i]
        ELSE IF i = TokenAlignedLen(values, prefixLen, count) THEN last
        ELSE fill]

(* append_dflash_reject_token_mask, called after the count tokens were     *)
(* appended to the outLen response tokens (output_ids_already_updated).    *)
AppendRejectMask(mask, outLen, count) ==
    IF count <= 0 THEN mask
    ELSE AppendTokenAligned(mask, outLen - count, count, FALSE, TRUE)

(* append_dflash_rejected_draft_metadata: the four parallel keys move      *)
(* together, so a chunk is one list of [anchor, offset] entries.           *)
AppendRejectedDraft(rej, outLen, count, chunk) ==
    IF chunk = <<>> \/ count <= 0 THEN rej
    ELSE AppendTokenAligned(rej, outLen - count, count, <<>>, chunk)

(* append_dflash_replay_block_metadata: one [anchor, accepted, drafted]    *)
(* entry per verified block that drafted anything.                         *)
AppendReplayBlock(rep, outLen, count, entry) ==
    IF count <= 0 \/ entry.drafted <= 0 THEN rep
    ELSE AppendTokenAligned(rep, outLen - count, count, <<>>, <<entry>>)

(* _flatten_dflash_rejected_draft_chunk: concatenate the non-None items.   *)
FlattenChunk(chunk) ==
    LET upTo[i \in 0..Len(chunk)] == IF i = 0 THEN <<>> ELSE upTo[i - 1] \o chunk[i]
    IN  upTo[Len(chunk)]

(* Mutated form: every mask is taken to lack the prefill token.            *)
AlignRejectMaskShift(raw, responseLen) ==
    [i \in 1..responseLen |-> i > 1 /\ i - 1 <= Len(raw) /\ raw[i - 1]]

(* align_dflash_reject_token_mask: a mask of the response's length is      *)
(* taken as it is; any other is shifted by one, cut and padded.            *)
AlignRejectMask(raw, responseLen) ==
    IF Len(raw) = responseLen THEN raw
    ELSE [i \in 1..responseLen |-> i > 1 /\ i - 1 <= Len(raw) /\ raw[i - 1]]

(* The 0-based indices of the marked response tokens.                      *)
RejectIndices(mask) == {i - 1 : i \in {j \in DOMAIN mask : mask[j]}}
=============================================================================
