--------------------------- MODULE DFlashPipeline ---------------------------
(***************************************************************************)
(* One SGLang scheduler running DFLASH speculative decoding (spec v1, no   *)
(* overlap), the token and metadata batches it streams, the tokenizer      *)
(* manager that reassembles them per request, and the verl rollout server  *)
(* that turns a finished request into OPD training metadata.               *)
(*                                                                         *)
(* A response token is its 1-based position, so output_ids is a length.    *)
(* Which drafts are accepted, where a request stops and when memory runs   *)
(* short are nondeterministic.                                             *)
(***************************************************************************)
EXTENDS DFlashMetadata, FiniteSets, Functions

CONSTANTS
    Req,            \* the requests
    B,              \* block size: the current token and B - 1 drafted ones
    MaxNew,         \* sampling_params.max_new_tokens
    ForceInterval,  \* DEFAULT_FORCE_STREAM_INTERVAL
    ReplayReqs      \* the requests with custom_params["use_replay_dis"]

ASSUME PipelineAssumption ==
    /\ B \in Nat \ {0}
    /\ MaxNew \in Nat \ {0}
    /\ ForceInterval \in Nat \ {0}
    /\ ReplayReqs \subseteq Req

VARIABLES
    waiting,    \* Scheduler.waiting_queue
    running,    \* Scheduler.running_batch.reqs
    outLen,     \* len(req.output_ids)
    done,       \* req.finished()
    finOut,     \* req.finished_output
    sendOff,    \* req.send_token_offset
    mask,       \* req.customized_info["dflash_reject_token_mask"]
    rej,        \* req.customized_info["dflash_rejected_draft_*"]
    rep,        \* req.customized_info["dflash_replay_block_*"]
    chan,       \* output batches on their way to the tokenizer manager
    recv,       \* TokenizerManager.rid_to_state[rid]
    outbox,     \* ReqState.out_list: the final output of a request
    result,     \* the TokenOutput.extra_fields verl hands to the trainer
    tokUp,      \* the server's process tree is alive
    blocks,     \* history: the verify steps of each request
    retracted   \* history: the requests retracted at least once

schedVars == <<waiting, running, outLen, done, finOut, sendOff, mask, rej, rep>>
recvVars == <<recv, outbox, result, tokUp>>
histVars == <<blocks, retracted>>
vars == <<schedVars, chan, recvVars, histVars>>

NoOutput == [none |-> TRUE]
NewState == [ids |-> <<>>, mask |-> <<>>, rej |-> <<>>, rep |-> <<>>, live |-> TRUE]

Init ==
    /\ waiting = <<>>
    /\ running = <<>>
    /\ outLen = [r \in Req |-> 0]
    /\ done = [r \in Req |-> FALSE]
    /\ finOut = [r \in Req |-> FALSE]
    /\ sendOff = [r \in Req |-> 0]
    /\ mask = [r \in Req |-> <<>>]
    /\ rej = [r \in Req |-> <<>>]
    /\ rep = [r \in Req |-> <<>>]
    /\ chan = <<>>
    /\ recv = [r \in Req |-> NewState]
    /\ outbox = [r \in Req |-> NoOutput]
    /\ result = [r \in Req |-> NoOutput]
    /\ tokUp = TRUE
    /\ blocks = [r \in Req |-> {}]
    /\ retracted = {}
-----------------------------------------------------------------------------
(* stream_output_generation.                                               *)

(* Mutated form: a finished request is not flushed.                        *)
ShouldOutputInterval(r, n, fin) == n % ForceInterval = 0

(* A request with stream = False, as verl sends them, is sent when it is   *)
(* finished and whenever it has a multiple of ForceInterval tokens.        *)
ShouldOutput(r, n, fin) == IF fin THEN ~finOut[r] ELSE n % ForceInterval = 0

(* Mutated form: metadata is sent from the token after the offset on.      *)
ColumnSkipsOne(rids, info) ==
    LET holders == SelectSeq(rids, LAMBDA r : info[r] # <<>>)
    IN  [i \in 1..Len(holders) |->
            SubSeq(info[holders[i]], sendOff[holders[i]] + 2, Len(info[holders[i]]))]

(* The slices of one customized_info key: a request without the key adds   *)
(* no element to the list.                                                 *)
Column(rids, info) ==
    LET holders == SelectSeq(rids, LAMBDA r : info[r] # <<>>)
    IN  [i \in 1..Len(holders) |->
            SubSeq(info[holders[i]], sendOff[holders[i]] + 1, Len(info[holders[i]]))]

Keys == {"mask", "rej", "rep"}

StreamOutput(batch) ==
    LET rids == SelectSeq(batch, LAMBDA r : ShouldOutput(r, outLen'[r], done'[r]))
        sent == Range(rids)
        msg == [rids |-> rids,
                fin  |-> [i \in 1..Len(rids) |-> done'[rids[i]]],
                ids  |-> [i \in 1..Len(rids) |->
                            [j \in 1..(outLen'[rids[i]] - sendOff[rids[i]]) |->
                                sendOff[rids[i]] + j]],
                mask |-> Column(rids, mask'),
                rej  |-> Column(rids, rej'),
                rep  |-> Column(rids, rep')]
    IN  /\ finOut' = [r \in Req |-> finOut[r] \/ (r \in sent /\ done'[r])]
        /\ sendOff' = [r \in Req |-> IF r \in sent THEN outLen'[r] ELSE sendOff[r]]
        /\ chan' = IF rids = <<>> THEN chan ELSE Append(chan, msg)
-----------------------------------------------------------------------------
(* Mutated form: finished requests stay in the batch.                      *)
FilterBatchKeepsAll(batch, keep) == {batch}

(* filter_batch: the members of batch that are in keep, in batch order (a  *)
(* set of one sequence; SelectSeq in a form the provers can expand).       *)
FilterBatch(batch, keep) ==
    LET pos == {i \in DOMAIN batch : batch[i] \in keep}
        n == Cardinality(pos)
    IN  {[k \in 1..n |-> batch[f[k]]] :
            f \in {g \in [1..n -> pos] : \A j, k \in 1..n : j < k => g[j] < g[k]}}

Unfinished == {r \in Req : ~done[r]}

(* handle_generate_request: a request joins the waiting queue.             *)
Submit(r) ==
    /\ tokUp
    /\ outLen[r] = 0
    /\ r \notin Range(waiting) \cup Range(running)
    /\ ~done[r]
    /\ waiting' = Append(waiting, r)
    /\ UNCHANGED <<running, outLen, done, finOut, sendOff, mask, rej, rep,
                   chan, recvVars, histVars>>

(* A prefill batch takes the first n waiting requests.  Prefill samples    *)
(* one token per request, for a retracted request too; the unfinished ones *)
(* join the running batch.  stop: the requests whose token ends them.      *)
Prefill(n, stop) ==
    LET batch == SubSeq(waiting, 1, n)
        S == Range(batch)
    IN  /\ tokUp
        /\ waiting' = SubSeq(waiting, n + 1, Len(waiting))
        /\ outLen' = [r \in Req |-> IF r \in S THEN outLen[r] + 1 ELSE outLen[r]]
        /\ done' = [r \in Req |->
                        done[r] \/ (r \in S /\ (r \in stop \/ outLen[r] + 1 >= MaxNew))]
        /\ \E stay \in FilterBatch(batch, Unfinished') : running' = running \o stay
        /\ UNCHANGED <<mask, rej, rep, recvVars, blocks, retracted>>
        /\ StreamOutput(batch)
-----------------------------------------------------------------------------
(* Mutated form: a verify step may append no token.                        *)
VerifyOutcomeEmpty == [acc : 0..(B - 1), app : 0..B, fin : BOOLEAN]

(* DFlashVerifyInput.verify, seen from one request: acc drafted tokens     *)
(* match the target, app tokens are appended before the request stops or   *)
(* the block (acc drafts and the bonus token) ends.                        *)
VerifyOutcome == [acc : 0..(B - 1), app : 1..B, fin : BOOLEAN]

PossibleOutcome(r, o) ==
    /\ o.app <= o.acc + 1
    /\ o.app <= o.acc => o.fin
    /\ outLen[r] + o.app <= MaxNew
    /\ outLen[r] + o.app = MaxNew => o.fin

ReachedRejectionPoint(o) == o.app >= o.acc + 1

DraftedLen(o) ==
    IF ReachedRejectionPoint(o) \/ (o.acc >= B - 1 /\ o.app >= B - 1)
    THEN B - 1
    ELSE o.app - 1

(* Mutated form: the rejected suffix is recorded although the request      *)
(* stopped inside the accepted prefix.                                     *)
RejectedChunkAlways(r, o, anchor) ==
    [i \in 1..(B - 1 - o.acc) |-> [req |-> r, anchor |-> anchor, offset |-> o.acc + i]]

(* The rejected suffix of a block, in 0-based response coordinates.        *)
RejectedChunk(r, o, anchor) ==
    IF ReachedRejectionPoint(o) /\ o.acc < B - 1
    THEN [i \in 1..(B - 1 - o.acc) |-> [req |-> r, anchor |-> anchor, offset |-> o.acc + i]]
    ELSE <<>>

(* Mutated form: the bonus token counts as an accepted draft.              *)
ReplayEntryBonus(r, o, anchor) ==
    [req |-> r, anchor |-> anchor, accepted |-> o.app, drafted |-> DraftedLen(o)]

ReplayEntry(r, o, anchor) ==
    [req |-> r, anchor |-> anchor, accepted |-> o.app - 1, drafted |-> DraftedLen(o)]

(* The verify loop's effect on every request of the batch S.               *)
VerifyBatch(S, o) ==
    LET anchor(r) == outLen'[r] - o[r].app - 1
    IN  /\ outLen' = [r \in Req |-> IF r \in S THEN outLen[r] + o[r].app ELSE outLen[r]]
        /\ done' = [r \in Req |-> done[r] \/ (r \in S /\ o[r].fin)]
        /\ mask' = [r \in Req |->
                IF r \in S THEN AppendRejectMask(mask[r], outLen'[r], o[r].app) ELSE mask[r]]
        /\ rej' = [r \in Req |->
                IF r \in S
                THEN AppendRejectedDraft(rej[r], outLen'[r], o[r].app,
                                         RejectedChunk(r, o[r], anchor(r)))
                ELSE rej[r]]
        /\ rep' = [r \in Req |->
                IF r \in S \cap ReplayReqs
                THEN AppendReplayBlock(rep[r], outLen'[r], o[r].app,
                                       ReplayEntry(r, o[r], anchor(r)))
                ELSE rep[r]]
        /\ blocks' = [r \in Req |->
                IF r \in S
                THEN blocks[r] \cup {[start |-> outLen[r], acc |-> o[r].acc, app |-> o[r].app]}
                ELSE blocks[r]]

(* How many requests survive retract_decode: with speculative decoding     *)
(* requests are retracted from the back, and one always stays.             *)
Survivors(n) == 1..n

Reverse(s) == [i \in 1..Len(s) |-> s[Len(s) + 1 - i]]

(* update_running_batch and the decode step that follows: keep requests    *)
(* stay, the others are retracted and queued again, last one first.        *)
Decode(keep, o) ==
    LET batch == SubSeq(running, 1, keep)
        back == SubSeq(running, keep + 1, Len(running))
    IN  /\ tokUp
        /\ waiting' = waiting \o Reverse(back)
        /\ retracted' = retracted \cup Range(back)
        /\ VerifyBatch(Range(batch), o)
        /\ running' \in FilterBatch(batch, Unfinished')
        /\ UNCHANGED recvVars
        /\ StreamOutput(batch)
-----------------------------------------------------------------------------
(* TokenizerManager._handle_batch_output with update_customized_info_meta: *)
(* the value of a key is looked up by the position of the rid.             *)
Chunk(column, i) == IF column = <<>> THEN <<>> ELSE column[i]

Receive(st, msg, i) ==
    [ids  |-> st.ids \o msg.ids[i],
     mask |-> st.mask \o Chunk(msg.mask, i),
     rej  |-> st.rej \o FlattenChunk(Chunk(msg.rej, i)),
     rep  |-> st.rep \o FlattenChunk(Chunk(msg.rep, i)),
     live |-> ~msg.fin[i]]

(* value_by_req[recv_index] is out of range for some request: the handle   *)
(* loop's exception wrapper then kills the whole process tree.             *)
IndexError(msg) ==
    \E i \in DOMAIN msg.rids :
        /\ recv[msg.rids[i]].live
        /\ \E key \in Keys : msg[key] # <<>> /\ i > Len(msg[key])

HandleBatchOutput ==
    /\ tokUp
    /\ chan # <<>>
    /\ chan' = Tail(chan)
    /\ LET msg == Head(chan)
           index(r) == CHOOSE i \in DOMAIN msg.rids : msg.rids[i] = r
           handled == {r \in Range(msg.rids) : recv[r].live}
       IN  IF IndexError(msg)
           THEN tokUp' = FALSE /\ UNCHANGED <<recv, outbox>>
           ELSE /\ recv' = [r \in Req |->
                        IF r \in handled THEN Receive(recv[r], msg, index(r)) ELSE recv[r]]
                /\ outbox' = [r \in Req |->
                        IF r \in handled /\ msg.fin[index(r)] THEN recv'[r] ELSE outbox[r]]
                /\ UNCHANGED tokUp
    /\ UNCHANGED <<schedVars, result, histVars>>

(* SGLangHttpServer.generate, once the final output arrives.               *)
Generate(r) ==
    /\ tokUp
    /\ outbox[r] # NoOutput
    /\ result[r] = NoOutput
    /\ LET out == outbox[r]
       IN  result' = [result EXCEPT ![r] =
                [ids   |-> out.ids,
                 marks |-> IF out.mask = <<>> THEN {}
                           ELSE RejectIndices(AlignRejectMask(out.mask, Len(out.ids))),
                 rej   |-> out.rej,
                 rep   |-> out.rep]]
    /\ UNCHANGED <<schedVars, chan, recv, outbox, tokUp, histVars>>

(* Nothing is queued, running or in flight, or the server process is gone. *)
Idle ==
    /\ ~tokUp \/ (waiting = <<>> /\ running = <<>> /\ chan = <<>>)
    /\ UNCHANGED vars

PrefillStep ==
    \E n \in 1..Len(waiting), stop \in SUBSET Req :
        Prefill(n, stop)

DecodeStep ==
    /\ running # <<>>
    /\ \E keep \in Survivors(Len(running)) :
         \E o \in [Range(SubSeq(running, 1, keep)) -> VerifyOutcome] :
            /\ \A r \in DOMAIN o : PossibleOutcome(r, o[r])
            /\ Decode(keep, o)

SchedulerStep == PrefillStep \/ DecodeStep

Next ==
    \/ \E r \in Req : Submit(r)
    \/ PrefillStep
    \/ DecodeStep
    \/ HandleBatchOutput
    \/ \E r \in Req : Generate(r)
    \/ Idle

Spec == Init /\ [][Next]_vars

(* The scheduler's event loop and the tokenizer's handle loop keep running *)
(* and every awaiting coroutine is resumed.                                *)
FairSpec ==
    /\ Spec
    /\ WF_vars(SchedulerStep)
    /\ WF_vars(HandleBatchOutput)
    /\ \A r \in Req : WF_vars(Generate(r))
-----------------------------------------------------------------------------
(* Properties.                                                             *)

End(b) == b.start + b.app
Collected(r) == result[r] # NoOutput

RejectedEntry == [req : Req, anchor : Int, offset : Nat]
ReplayBlock == [req : Req, anchor : Int, accepted : Int, drafted : Int]
Block == [start : Nat, acc : 0..(B - 1), app : 1..B]

(* Every scheduler field holds a value of the type the code gives it.      *)
TypeOK ==
    /\ waiting \in Seq(Req)
    /\ running \in Seq(Req)
    /\ outLen \in [Req -> Nat]
    /\ done \in [Req -> BOOLEAN]
    /\ finOut \in [Req -> BOOLEAN]
    /\ sendOff \in [Req -> Nat]
    /\ mask \in [Req -> Seq(BOOLEAN)]
    /\ rej \in [Req -> Seq(Seq(RejectedEntry))]
    /\ rep \in [Req -> Seq(Seq(ReplayBlock))]
    /\ tokUp \in BOOLEAN
    /\ blocks \in [Req -> SUBSET Block]
    /\ retracted \subseteq Req

(* A queued request has not reached max_new_tokens, so the token its next  *)
(* prefill samples fits, and it is queued once; this is what keeps every   *)
(* response within max_new_tokens through retractions (check_finished).    *)
QueuedOnce ==
    LET queue == waiting \o running
    IN  /\ \A i, j \in DOMAIN queue : i # j => queue[i] # queue[j]
        /\ \A i \in DOMAIN queue : ~done[queue[i]] /\ outLen[queue[i]] < MaxNew
        /\ \A r \in Req : outLen[r] <= MaxNew /\ sendOff[r] <= outLen[r]

(* The reject mask of a request never runs past its response, and marks    *)
(* exactly the response tokens that ended a verify step, whatever prefills *)
(* and retractions came between (append_dflash_reject_token_mask).         *)
MaskAligned ==
    \A r \in Req :
        /\ Len(mask[r]) <= outLen[r]
        /\ \A i \in DOMAIN mask[r] : mask[r][i] <=> \E b \in blocks[r] : End(b) = i
        /\ \A b \in blocks[r] : End(b) <= Len(mask[r])

(* A rejected suffix is stored at the token that ended its block; that     *)
(* token is the one that replaced the first rejected draft, the suffix     *)
(* runs to the end of the drafted block, and no other block ended between  *)
(* its anchor and that token (append_dflash_rejected_draft_metadata).      *)
RejectedAtItsBlock ==
    \A r \in Req : \A i \in DOMAIN rej[r] :
        LET chunk == rej[r][i]
        IN  chunk # <<>> =>
              /\ i \in DOMAIN mask[r] /\ mask[r][i]
              /\ chunk[1].anchor >= 0
              /\ chunk[1].anchor + chunk[1].offset = i - 1
              /\ \A j \in DOMAIN chunk :
                    chunk[j] = [req |-> r, anchor |-> chunk[1].anchor,
                                offset |-> chunk[1].offset + j - 1]
              /\ chunk[Len(chunk)].offset = B - 1
              /\ \A p \in (chunk[1].anchor + 2)..(i - 1) : ~mask[r][p]

(* What verl receives for a request is its response, and the rejected      *)
(* suffixes of its own blocks, each exactly once and in order, however the *)
(* scheduler sliced them into batches (stream_output_generation and        *)
(* update_customized_info_meta).                                           *)
InOrder(r) ==
    LET n == Cardinality(blocks[r])
    IN  CHOOSE s \in [1..n -> blocks[r]] : \A j, k \in 1..n : j < k => s[j].start < s[k].start

TrueRejected(r) ==
    FlattenChunk([k \in 1..Cardinality(blocks[r]) |->
                    LET b == InOrder(r)[k]
                    IN  IF b.app = b.acc + 1
                        THEN [j \in 1..(B - 1 - b.acc) |->
                                [req |-> r, anchor |-> b.start - 1, offset |-> b.acc + j]]
                        ELSE <<>>])

DeliveredRejected ==
    \A r \in Req : Collected(r) =>
        /\ result[r].ids = [i \in 1..outLen[r] |-> i]
        /\ result[r].rej = TrueRejected(r)

(* Every request of an output batch finds its value in every key's list:   *)
(* the "flat per-request metadata" that the docstring of                   *)
(* append_dflash_rejected_draft_metadata promises to the tokenizer.        *)
ValueForEveryRequest == tokUp /\ chan # <<>> => ~IndexError(Head(chan))

(* The reject indices verl computes are the response indices of the tokens *)
(* that ended a verify step (align_dflash_reject_token_mask), for every    *)
(* request that was never retracted.                                       *)
MarksFor(r) ==
    Collected(r) => result[r].marks = {End(b) - 1 : b \in blocks[r]}

DeliveredMarks == \A r \in Req \ retracted : MarksFor(r)

(* The same for every request, as the docstring of                         *)
(* align_dflash_reject_token_mask states it.                               *)
DeliveredMarksAlways == \A r \in Req : MarksFor(r)

(* The replay blocks verl receives tile the response: each one starts at   *)
(* the token after the previous one's bonus, or later by the tokens that a *)
(* prefill after a retraction sampled, and never claims more accepted than *)
(* drafted tokens (append_dflash_replay_block_metadata raises otherwise).  *)
ReplayTiles ==
    \A r \in Req : Collected(r) =>
        LET bl == result[r].rep
        IN  /\ \A k \in DOMAIN bl : 0 <= bl[k].accepted /\ bl[k].accepted <= bl[k].drafted
            /\ \A k \in 1..(Len(bl) - 1) :
                  LET next == bl[k].anchor + bl[k].accepted + 1
                  IN  IF r \in retracted THEN bl[k + 1].anchor >= next
                      ELSE bl[k + 1].anchor = next

(* A submitted request is answered, and retraction never starves it,       *)
(* unless the server died of a batch whose members carry different keys.   *)
Answered == \A r \in Req : (r \in Range(waiting)) ~> (Collected(r) \/ ~tokUp)
=============================================================================
