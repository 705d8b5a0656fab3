---------------------------- MODULE DFlashOverlap ----------------------------
(***************************************************************************)
(* The scheduler with DFLASH spec v2: event_loop_overlap launches a batch  *)
(* before it processes the results of the one before, so every decision is *)
(* taken on request state that is one batch behind the device.             *)
(*                                                                         *)
(* Requests of the batch in flight may be merged, decoded again, retracted *)
(* or aborted before their results arrive.  The loop is one thread; phase  *)
(* says where it is.  A forward pass is one step: the worker waits for it  *)
(* (it copies the accepted lengths to the host).                           *)
(*                                                                         *)
(* A response token is its position in what the target would say, 0 is a   *)
(* token the target would not say.  Without a radix cache a request owns   *)
(* its pages, and only their number matters.                               *)
(***************************************************************************)
EXTENDS DFlashMetadata, FiniteSets, SequencesExt, FiniteSetsExt

CONSTANTS
    Req,            \* the requests
    PromptLen,      \* len(req.origin_input_ids)
    MaxNew,         \* sampling_params.max_new_tokens
    B,              \* block size
    P,              \* page size
    NPages,         \* pages in the pool
    MaxRunning,     \* max_running_requests
    MaxChunks,      \* max_num_chunks of the future map
    ForceInterval,  \* DEFAULT_FORCE_STREAM_INTERVAL
    SerialPrefill,  \* SGLANG_DISABLE_CONSECUTIVE_PREFILL_OVERLAP
    Abortable       \* the requests that may be aborted or time out

CeilDiv(n) == (n + P - 1) \div P

(* The most that is allocated to a request when its next decode is         *)
(* checked: two blocks beyond the length it had one decode before.         *)
LongestRow == PromptLen + MaxNew - 2 + 2 * B

(* The last conjunct says that a request fits when it runs alone.  The     *)
(* code's own limit on max_new_tokens leaves no room for the blocks.       *)
ASSUME OverlapAssumption ==
    /\ {PromptLen, MaxNew, B, P, NPages, MaxRunning, ForceInterval} \subseteq Nat \ {0}
    /\ SerialPrefill \in BOOLEAN
    /\ Abortable \subseteq Req
    /\ NPages >= CeilDiv(LongestRow) + 2 * CeilDiv(B)

VARIABLES
    phase,      \* where the event loop is
    waiting,    \* waiting_queue
    running,    \* running_batch: the rows of its requests
    full,       \* running_batch.batch_is_full
    cur,        \* cur_batch
    last,       \* last_batch
    queue,      \* result_queue
    futureCt,   \* future_map.future_ct
    launched,   \* history: the rows launched so far
    buf,        \* the future map's buffers: verified_id per slot
    free,       \* the number of free pages
    fault,      \* the exceptions and failed assertions met
    req,        \* the Req objects
    stopAt,     \* where the target's text has a stop token, 0 for nowhere
    got,        \* what was sent to the tokenizer manager, per request
    blocks,     \* history: the blocks appended to the response
    retracted   \* history: the requests retracted at least once

loopVars == <<phase, waiting, running, full, cur, last, queue>>
deviceVars == <<futureCt, launched, buf>>
reqVars == <<free, fault, req, got, blocks>>
vars == <<loopVars, deviceVars, reqVars, stopAt, retracted>>

NoBatch == [mode |-> "none", rows |-> <<>>]

NewReq == [out |-> <<>>, fin |-> "no", finLen |-> 0, finOut |-> FALSE, toFinish |-> FALSE,
           isRetracted |-> FALSE, hasRow |-> FALSE, committed |-> 0, allocated |-> 0,
           sendOff |-> 0, mask |-> <<>>, rej |-> <<>>]

(* A row of a batch: its request, its entry of seq_lens, and its number    *)
(* and slot in the future map, 0 before it is launched.  cur and last hold *)
(* the rows of a prefill batch; a decode batch is running_batch itself.    *)
LiveFutures ==
    {[num |-> row.num, slot |-> row.slot] :
        row \in {x \in ToSet(running \o last.rows \o cur.rows) : x.num # 0}}

Futures == INSTANCE FutureMap WITH futureCt <- futureCt, launched <- launched,
                                   live <- LiveFutures

Init ==
    /\ phase = "schedule"
    /\ waiting = <<>> /\ running = <<>> /\ full = FALSE
    /\ cur = NoBatch /\ last = NoBatch /\ queue = <<>>
    /\ futureCt = 0 /\ launched = 0
    /\ buf = [s \in 1..(Futures!FutureBufferLen - 1) |-> <<>>]
    /\ free = NPages
    /\ fault = {}
    /\ req = [r \in Req |-> NewReq]
    /\ stopAt = [r \in Req |-> -1]
    /\ got = [r \in Req |-> [ids |-> <<>>, mask |-> <<>>, rej |-> <<>>, end |-> "no"]]
    /\ blocks = [r \in Req |-> <<>>]
    /\ retracted = {}

Finished(r) == req[r].fin # "no"
Reqs(rows) == {rows[i].req : i \in DOMAIN rows}
SeqLen(r) == PromptLen + Len(req[r].out)
FaultIf(cond, what) == IF cond THEN {what} ELSE {}
-----------------------------------------------------------------------------
(* recv_requests: between two iterations of the loop.                      *)

(* handle_generate_request.  stopAt = -1: not submitted yet.               *)
Submit(r, stop) ==
    /\ phase = "schedule"
    /\ stopAt[r] = -1
    /\ stopAt' = [stopAt EXCEPT ![r] = stop]
    /\ waiting' = Append(waiting, r)
    /\ UNCHANGED <<phase, running, full, cur, last, queue, deviceVars, reqVars, retracted>>

(* abort_request: a queued request is dropped at once, a running one, or   *)
(* one of the batch in flight, finishes when its next result is processed. *)
(* The timeouts of waiting and of running requests do the same.            *)
AbortRequest(r) ==
    /\ phase = "schedule"
    /\ r \in Abortable
    /\ \/ /\ r \in ToSet(waiting)
          /\ waiting' = SelectSeq(waiting, LAMBDA q : q # r)
          /\ got' = [got EXCEPT ![r].end = "abort"]
          /\ UNCHANGED req
       \/ /\ r \in Reqs(running) \cup Reqs(last.rows)
          /\ ~Finished(r)
          /\ req' = [req EXCEPT ![r].toFinish = TRUE]
          /\ UNCHANGED <<waiting, got>>
    /\ UNCHANGED <<phase, running, full, cur, last, queue, deviceVars, free, fault, blocks,
                   stopAt, retracted>>
-----------------------------------------------------------------------------
(* get_next_batch_to_run.                                                  *)

Unfinished(rows) == SelectSeq(rows, LAMBDA row : ~Finished(row.req))

(* Mutated form: the future indices are concatenated in the other order.   *)
MergeBatchSwapped(a, b) ==
    [i \in 1..(Len(a) + Len(b)) |->
        [(a \o b)[i] EXCEPT !.num = (b \o a)[i].num, !.slot = (b \o a)[i].slot]]

MergeBatch(a, b) == a \o b

(* The last prefill batch joins the running batch, although its results    *)
(* are still in the queue.                                                 *)
Joining == Unfinished(last.rows)
Merged == MergeBatch(running, Joining)

(* batch_is_full belongs to the batch object: when the running batch was   *)
(* empty, the prefill batch takes its place.                               *)
FullAfterMerge ==
    /\ full
    /\ Len(Joining) = Len(last.rows)
    /\ running # <<>> \/ Joining = <<>>

(* Mutated form: the requests of the running batch do not count.           *)
NumAllocatableReqsAll(bs) == MaxRunning

NumAllocatableReqs(bs) == MaxRunning - bs

(* PrefillAdder.add_one_req for the first n waiting requests: each fits    *)
(* with all the tokens it may produce, after those before it.              *)
Fits(n) ==
    \A j \in 1..n :
        SeqLen(waiting[j]) + MaxNew - Len(req[waiting[j]].out)
          < P * (free - MapThenSumSet(LAMBDA i : CeilDiv(SeqLen(waiting[i])) + 1, 1..(j - 1)))
              - MaxNew * (j - 1)

(* How many requests are admitted.  With a running batch it may be fewer   *)
(* than fit, as the adder reserves what that batch may still produce.      *)
CanRun ==
    LET most == Max({0} \cup {n \in 0..Len(waiting) :
                                n <= NumAllocatableReqs(Len(Merged)) /\ Fits(n)})
    IN  IF FullAfterMerge THEN {0} ELSE IF Merged = <<>> THEN {most} ELSE 0..most

(* is_disable_overlap_for_batch: two prefill batches in a row.             *)
AfterSchedule(mode) ==
    CASE mode = "none" /\ last.mode = "none" -> "schedule"
      [] mode = "none" /\ last.mode # "none" -> "late"
      [] mode = "extend" /\ last.mode = "extend" /\ SerialPrefill -> "early"
      [] OTHER -> "run"

(* What the three outcomes share; the rows of last_batch have moved.       *)
Schedule(batch) ==
    /\ phase = "schedule"
    /\ phase' = AfterSchedule(batch.mode)
    /\ cur' = batch
    /\ last' = [last EXCEPT !.rows = <<>>]
    /\ UNCHANGED <<queue, deviceVars, got, blocks, stopAt>>

(* get_new_batch_prefill and prepare_for_extend.                           *)
ScheduleExtend(n) ==
    LET new == SubSeq(waiting, 1, n)
        need == MapThenSumSet(LAMBDA r : CeilDiv(SeqLen(r)), ToSet(new))
        rows == [i \in 1..n |-> [req |-> new[i], seq |-> SeqLen(new[i]), num |-> 0, slot |-> 0]]
        held == {r \in Req : req[r].hasRow}
    IN  /\ n \in CanRun \ {0}
        /\ Schedule([mode |-> "extend", rows |-> rows])
        /\ running' = Merged
        /\ full' = (n < Len(waiting))
        /\ waiting' = SubSeq(waiting, n + 1, Len(waiting))
        /\ free' = free - need
        /\ fault' = fault \cup FaultIf(need > free, "prefill out of memory")
                          \cup FaultIf(Cardinality(held) + n > MaxRunning, "out of rows")
        /\ req' = [r \in Req |->
                     IF r \in ToSet(new)
                     THEN [req[r] EXCEPT !.committed = SeqLen(r), !.allocated = SeqLen(r),
                                         !.hasRow = TRUE, !.isRetracted = FALSE]
                     ELSE req[r]]
        /\ UNCHANGED retracted

(* new_tokens_required_next_decode, in pages: two blocks per request.      *)
DecodePages(n) == 2 * n * CeilDiv(B)

(* Mutated form: the page that the committed part shares with the rest is  *)
(* freed with both.                                                        *)
PagesReleasedUnaligned(q) ==
    CeilDiv(q.committed) + CeilDiv(q.allocated) - q.committed \div P

(* release_kv_cache: the pages of the committed part, then those that lie  *)
(* beyond it.                                                              *)
PagesReleased(q) ==
    CeilDiv(q.committed)
      + IF P * CeilDiv(q.committed) < q.allocated
        THEN CeilDiv(q.allocated) - CeilDiv(q.committed) ELSE 0

PagesOf(rows) == MapThenSumSet(LAMBDA row : PagesReleased(req[row.req]), ToSet(rows))

(* retract_decode: requests leave from the back, at least one if there are *)
(* two, until the next decode fits; the first one stays.                   *)
Keep(rows) ==
    LET n == Len(rows)
        fits(k) == DecodePages(k) <= free + PagesOf(SubSeq(rows, k + 1, n))
    IN  IF fits(n) THEN n ELSE Max({1} \cup {k \in 1..(n - 1) : fits(k)})

(* Mutated form: one block after the request's own, lagging, length.       *)
NextKVLenLagging(q, seq) == IF q.allocated > q.committed + B THEN q.allocated ELSE q.committed + B

(* DFlashDraftInputV2.prepare_for_decode: the lengths come from the        *)
(* batch's seq_lens, not from the request, which may lag.                  *)
NextKVLen(q, seq) == IF q.allocated > seq + 2 * B THEN q.allocated ELSE seq + 2 * B

(* Mutated form: an emptied batch keeps its flag.                          *)
FullAfterUpdateKept(isFull, kept) == isFull /\ kept \in {0, Len(Merged)}

(* update_running_batch: a batch that shrank is not full.                  *)
FullAfterUpdate(isFull, kept) == isFull /\ kept = Len(Merged)

(* update_running_batch: the finished requests leave, requests are         *)
(* retracted when memory is short, and every other one gets its room.      *)
ScheduleDecode ==
    LET rows == Unfinished(Merged)
        kept == SubSeq(rows, 1, Keep(rows))
        back == SubSeq(rows, Keep(rows) + 1, Len(rows))
        avail == free + PagesOf(back)
        RowOf(r) == CHOOSE row \in ToSet(kept) : row.req = r
        Room(r) == NextKVLen(req[r], RowOf(r).seq)
        need == MapThenSumSet(LAMBDA r : CeilDiv(Room(r)) - CeilDiv(req[r].allocated), Reqs(kept))
    IN  /\ 0 \in CanRun
        /\ rows # <<>>
        /\ Schedule([mode |-> "decode", rows |-> <<>>])
        /\ running' = kept
        /\ full' = FullAfterUpdate(FullAfterMerge \/ waiting # <<>>, Len(kept))
        /\ waiting' = waiting \o Reverse([i \in DOMAIN back |-> back[i].req])
        /\ retracted' = retracted \cup Reqs(back)
        /\ free' = avail - need
        /\ fault' = fault \cup FaultIf(DecodePages(Len(kept)) > avail, "retraction is not enough")
                          \cup FaultIf(need > avail, "decode out of memory")
        /\ req' = [r \in Req |->
                     IF r \in Reqs(back)
                     THEN [req[r] EXCEPT !.isRetracted = TRUE, !.hasRow = FALSE,
                                         !.committed = 0, !.allocated = 0]
                     ELSE IF r \in Reqs(kept) THEN [req[r] EXCEPT !.allocated = Room(r)]
                     ELSE req[r]]

(* Nothing to run.                                                         *)
ScheduleNothing ==
    /\ 0 \in CanRun
    /\ Unfinished(Merged) = <<>>
    /\ Schedule(NoBatch)
    /\ running' = <<>>
    /\ full' = FullAfterUpdate(FullAfterMerge \/ waiting # <<>>, 0)
    /\ UNCHANGED <<waiting, free, fault, req, retracted>>
-----------------------------------------------------------------------------
(* run_batch.                                                              *)

(* The current token of a row: the response token after its KV entries.    *)
CurrentPos(row) == row.seq - PromptLen + 1

(* What one row of a forward pass commits.  A prefill samples one token; a *)
(* verify step starts from the verified_id in the row's slot of the future *)
(* map and accepts acc drafts before the target's own token.               *)
Committed(mode, row, acc) ==
    IF mode = "extend" THEN <<CurrentPos(row)>>
    ELSE IF buf[row.slot] = <<row.req, CurrentPos(row)>>
    THEN [j \in 1..(acc + 1) |-> CurrentPos(row) + j]
    ELSE [j \in 1..(acc + 1) |-> 0]

(* Mutated form: a decode batch keeps its future indices.                  *)
NextRowOldSlot(row, mode, i, acc) ==
    [req |-> row.req, num |-> launched + i,
     slot |-> IF mode = "extend" THEN futureCt + i ELSE row.slot,
     seq |-> IF mode = "extend" THEN row.seq ELSE row.seq + acc + 1]

(* Row i of a launched batch, as the next batch will find it.              *)
NextRow(row, mode, i, acc) ==
    [req |-> row.req, num |-> launched + i, slot |-> Futures!AllocFutureIndices(futureCt, i)[i],
     seq |-> IF mode = "extend" THEN row.seq ELSE row.seq + acc + 1]

(* alloc_future_indices, resolve_future, forward_batch_generation and      *)
(* store_to_map; the batch goes on with the new seq_lens and slots, and a  *)
(* copy of its requests into the result queue.  accs are the accepted      *)
(* drafts of each row.                                                     *)
RunBatch(accs) ==
    LET mode == cur.mode
        rows == IF mode = "extend" THEN cur.rows ELSE running
        n == Len(rows)
        toks == [i \in 1..n |-> Committed(mode, rows[i], accs[i])]
        next == [i \in 1..n |-> NextRow(rows[i], mode, i, accs[i])]
        stored == {i \in 1..n : next[i].slot \in DOMAIN buf}
        batch == [mode |-> mode, rows |-> IF mode = "extend" THEN next ELSE <<>>]
    IN  /\ phase = "run"
        /\ DOMAIN accs = 1..n
        /\ mode = "extend" => \A i \in 1..n : accs[i] = 0
        /\ running' = IF mode = "extend" THEN running ELSE next
        /\ futureCt' = Futures!AdvanceFutureCt(futureCt, n)
        /\ launched' = launched + n
        /\ buf' = [s \in DOMAIN buf |->
                     LET new == {i \in stored : next[i].slot = s}
                     IN  IF new = {} THEN buf[s] ELSE <<rows[Max(new)].req, Last(toks[Max(new)])>>]
        /\ queue' = Append(queue, [mode |-> mode,
                                   rows |-> [i \in 1..n |-> [req |-> rows[i].req, toks |-> toks[i]]]])
        /\ fault' = fault
              \cup FaultIf(\E i \in 1..n : mode = "decode"
                              /\ rows[i].seq + B > req[rows[i].req].allocated, "block beyond the row")
              \cup FaultIf(stored # 1..n, "slot beyond the buffer")
        /\ IF last.mode = "none"
           THEN phase' = "schedule" /\ last' = batch /\ cur' = NoBatch
           ELSE phase' = "late" /\ cur' = batch /\ UNCHANGED last
        /\ UNCHANGED <<waiting, full, free, req, got, blocks, stopAt, retracted>>
-----------------------------------------------------------------------------
(* process_batch_result, for one request of the batch.                     *)


(* check_finished: an abort, the length limit, then a stop token among the *)
(* new tokens.  An abort leaves finished_len unset.                        *)
CheckFinished(q, new, stop) ==
    LET n == Len(q.out)
        hits == {i \in (n - new + 1)..n : q.out[i] = stop /\ stop > 0}
    IN  IF q.toFinish THEN [q EXCEPT !.fin = "abort", !.toFinish = FALSE]
        ELSE IF n >= MaxNew THEN [q EXCEPT !.fin = "length", !.finLen = MaxNew]
        ELSE IF hits # {} THEN [q EXCEPT !.fin = "stop", !.finLen = Min(hits)]
        ELSE q

(* Mutated forms: the bonus token's KV entry is not counted; the new       *)
(* tokens are taken to be in output_ids already.                           *)
ResolveOverlapDrafts(q, toks) == [q EXCEPT !.committed = @ + Len(toks) - 1]
ResolveOverlapUpdated(q, toks) ==
    [q EXCEPT !.committed = @ + Len(toks), !.mask = AppendRejectMask(@, Len(q.out), Len(toks))]

(* _resolve_spec_overlap_token_ids: every request of the batch gets its    *)
(* committed length and metadata, before its output_ids are extended.      *)
ResolveOverlap(q, toks) ==
    LET n == Len(toks)
        chunk == [j \in 1..(B - n) |-> [anchor |-> Len(q.out) - 1, offset |-> n - 1 + j]]
    IN  [q EXCEPT !.committed = @ + n,
                  !.mask = AppendRejectMask(@, Len(q.out) + n, n),
                  !.rej = AppendRejectedDraft(@, Len(q.out) + n, n, chunk)]

(* A result may arrive after its request finished or was retracted.        *)
Skip(q) == q.fin # "no" \/ q.isRetracted

Apply(q, mode, toks, stop) ==
    LET p == IF mode = "decode" THEN ResolveOverlap(q, toks) ELSE q
    IN  IF Skip(q) THEN p ELSE CheckFinished([p EXCEPT !.out = @ \o toks], Len(toks), stop)

(* Mutated form: a finished request is sent with every later result.       *)
ShouldOutputAgain(q) == q.fin # "no" \/ Len(q.out) % ForceInterval = 0

ShouldOutput(q) == IF q.fin # "no" THEN ~q.finOut ELSE Len(q.out) % ForceInterval = 0

(* output_ids_through_stop.                                                *)
ThroughStop(q) == IF q.finLen = 0 THEN q.out ELSE SubSeq(q.out, 1, q.finLen)

(* stream_output_generation: the tokens and the metadata after the send    *)
(* offset; only the tokens are cut at the stop.                            *)
Sent(g, q) ==
    [ids  |-> g.ids \o SubSeq(ThroughStop(q), q.sendOff + 1, Len(ThroughStop(q))),
     mask |-> g.mask \o SubSeq(q.mask, q.sendOff + 1, Len(q.mask)),
     rej  |-> g.rej \o FlattenChunk(SubSeq(q.rej, q.sendOff + 1, Len(q.rej))),
     end  |-> q.fin]

(* popleft and process_batch_result.                                       *)
PopAndProcess ==
    LET res == Head(queue)
        toks(r) == (CHOOSE row \in ToSet(res.rows) : row.req = r).toks
        S == Reqs(res.rows)
        after == [r \in Req |-> IF r \in S THEN Apply(req[r], res.mode, toks(r), stopAt[r]) ELSE req[r]]
        ends == {r \in S : after[r].fin # "no" /\ ~Finished(r)}
        sent == {r \in S : ShouldOutput(after[r])}
    IN  /\ queue' = Tail(queue)
        /\ free' = free + MapThenSumSet(LAMBDA r : PagesReleased(after[r]), ends)
        /\ fault' = fault \cup FaultIf(\E r \in ends : ~req[r].hasRow, "released twice")
        /\ got' = [r \in Req |-> IF r \in sent THEN Sent(got[r], after[r]) ELSE got[r]]
        /\ req' = [r \in Req |->
                     [after[r] EXCEPT
                        !.hasRow = @ /\ r \notin ends,
                        !.sendOff = IF r \in sent THEN Len(ThroughStop(after[r])) ELSE @,
                        !.finOut = @ \/ (r \in sent /\ after[r].fin # "no")]]
        /\ blocks' = [r \in Req |->
                        IF r \in S /\ res.mode = "decode" /\ ~Skip(req[r])
                        THEN Append(blocks[r], [start |-> Len(req[r].out), n |-> Len(toks(r))])
                        ELSE blocks[r]]
        /\ UNCHANGED <<waiting, running, full, deviceVars, stopAt, retracted>>

(* Before the batch is launched, when overlap is disabled for it.          *)
ProcessEarly ==
    /\ phase = "early"
    /\ PopAndProcess
    /\ phase' = "run" /\ last' = NoBatch /\ UNCHANGED cur

(* After the batch is launched.                                            *)
ProcessLate ==
    /\ phase = "late"
    /\ PopAndProcess
    /\ phase' = "schedule" /\ last' = cur /\ cur' = NoBatch

(* A batch size.                                                           *)
Rows == 1..Cardinality(Req)

EventLoop ==
    \/ \E n \in Rows : ScheduleExtend(n)
    \/ ScheduleDecode
    \/ ScheduleNothing
    \/ \E n \in Rows : \E accs \in [1..n -> 0..(B - 1)] : RunBatch(accs)
    \/ ProcessEarly
    \/ ProcessLate

Next ==
    \/ \E r \in Req : AbortRequest(r) \/ \E stop \in 0..MaxNew : Submit(r, stop)
    \/ EventLoop

Spec == Init /\ [][Next]_vars

(* The event loop is a while loop: it keeps going.                         *)
FairSpec == Spec /\ WF_vars(EventLoop)
-----------------------------------------------------------------------------
(* Properties.                                                             *)

LaunchedRows == {row \in ToSet(running \o last.rows \o cur.rows) : row.num # 0}

(* Every response is the target's text from its beginning, whatever was    *)
(* merged, filtered, retracted and prefilled again while results were in   *)
(* flight: each verify step started from its own request's current token   *)
(* (future_map, DFlashDraftInputV2.filter_batch and merge_batch), and no   *)
(* result was applied twice or lost (process_batch_result_decode).         *)
OutputsExact == \A r \in Req : req[r].out = [i \in DOMAIN req[r].out |-> i]

(* The request's own state lags behind its row by exactly the results that *)
(* are still in the queue: this is what prepare_for_decode's note about    *)
(* lagging CPU state rests on, and why it must size by seq_lens.           *)
LagExact ==
    \A row \in LaunchedRows :
        LET q == req[row.req]
            inFlight(modes) ==
                MapThenSumSet(LAMBDA k : MapThenSumSet(LAMBDA x : Len(x.toks),
                                  {x \in ToSet(queue[k].rows) : x.req = row.req}),
                              {k \in DOMAIN queue : queue[k].mode \in modes})
        IN  q.fin = "no" =>
              /\ row.seq = PromptLen + Len(q.out) - 1 + inFlight({"extend", "decode"})
              /\ row.seq = q.committed + inFlight({"decode"})

(* No page is lost or freed twice, although a request is released while    *)
(* its committed length lags, and its length still grows afterwards        *)
(* (release_kv_cache, _resolve_spec_overlap_token_ids).                    *)
PoolExact ==
    free + MapThenSumSet(LAMBDA r : CeilDiv(req[r].allocated), {r \in Req : req[r].hasRow}) = NPages

(* The loop meets no exception and no failed assertion: every allocation   *)
(* succeeds after check_decode_mem and the adder let the batch through,    *)
(* a verify block stays inside its row, and a request's memory is released *)
(* once (pop_committed_kv_cache).                                          *)
NoFault == fault = {}


(* Nothing is sent for a request after its final output, although a result *)
(* computed for it may still be in flight (finished_output in              *)
(* stream_output_generation).                                              *)
FinalIsLast == [][\A r \in Req : got[r].end # "no" => got'[r] = got[r]]_vars

(* The delivered marks, aligned as verl does it.                           *)
Marks(r) == RejectIndices(AlignRejectMask(got[r].mask, Len(got[r].ids)))

BlockEnds(r) == {b.start + b.n - 1 : b \in ToSet(blocks[r])}

TrueRejected(r) ==
    FlattenChunk([k \in DOMAIN blocks[r] |->
        LET b == blocks[r][k]
        IN  [j \in 1..(B - b.n) |-> [anchor |-> b.start - 1, offset |-> b.n - 1 + j]]])

(* The metadata is that of the blocks that made the response, for requests *)
(* that were not retracted and whose response ends with a block            *)
(* (append_dflash_reject_token_mask and                                    *)
(* append_dflash_rejected_draft_metadata with output_ids_already_updated   *)
(* False), also when later results still add to the lists.                 *)
MetadataExact ==
    \A r \in Req \ retracted :
        got[r].end # "no" /\ Len(got[r].ids) = Len(req[r].out) =>
            Marks(r) = BlockEnds(r) /\ got[r].rej = TrueRejected(r)

(* append_dflash_reject_token_mask is documented to append "in             *)
(* response-token coordinates": a delivered mark is the end of a block of  *)
(* the response.                                                           *)
MarksInResponse == \A r \in Req : got[r].end # "no" => Marks(r) \subseteq BlockEnds(r)

(* The overlapped scheduler uses the future map as it is meant to be used: *)
(* no row is kept for a lap of the buffer, however prefills, decodes and   *)
(* retractions alternate.                                                  *)
UsesFutureMap == Futures!Spec

(* Every request is answered: neither batch_is_full nor retraction nor an  *)
(* abort leaves it in the queue or in a batch for ever.  The requests are  *)
(* finitely many and submitted once, so from some time on all those        *)
(* submitted have their final output.                                      *)
Served == <>[](\A r \in Req : stopAt[r] # -1 => got[r].end # "no")
=============================================================================
