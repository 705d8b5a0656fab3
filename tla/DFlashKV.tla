------------------------------ MODULE DFlashKV ------------------------------
(***************************************************************************)
(* The KV cache under DFLASH (spec v1): the page allocator, the radix tree *)
(* of cached prefixes, the rows of req_to_token, and the two caches (of    *)
(* the target and of the draft model) that share the slots.                *)
(*                                                                         *)
(* The scheduler is one thread; a forward batch is processed request by    *)
(* request, so pc and todo say where in its loop the scheduler is.         *)
(*                                                                         *)
(* The tokens of a request are fixed by Text (prompt, then what the target *)
(* would say, past the end of the response if a draft reaches there); how  *)
(* many drafts match, and where a request stops, is nondeterministic.  The *)
(* KV value of a token is the text up to that token: it depends on nothing *)
(* else.  A slot is a page and an offset; with P = 1 pages are slots.      *)
(***************************************************************************)
EXTENDS Integers, Sequences, FiniteSets, SequencesExt, FiniteSetsExt

CONSTANTS
    Req,        \* the requests
    Text,       \* their tokens
    PromptLen,  \* len(req.origin_input_ids)
    MaxNew,     \* sampling_params.max_new_tokens
    B,          \* block size
    P,          \* page size
    NPages,     \* pages in the pool
    RetractSteps \* SGLANG_RETRACT_DECODE_STEPS

CeilDiv(n) == (n + P - 1) \div P

(* The last conjuncts say that a request fits when it runs alone.          *)
ASSUME KVAssumption ==
    /\ PromptLen \in Nat \ {0} /\ MaxNew \in Nat \ {0} /\ B \in Nat \ {0}
    /\ P \in Nat \ {0} /\ NPages \in Nat \ {0} /\ RetractSteps \in Nat
    /\ Text \in [Req -> Seq(Nat)]
    /\ \A r \in Req : Len(Text[r]) >= PromptLen + MaxNew + B
    /\ NPages >= CeilDiv(PromptLen + MaxNew) + CeilDiv(B)
    /\ NPages * P > PromptLen + MaxNew

Page == 1..NPages
NoKV == <<>>

VARIABLES
    mem,        \* the allocator, the radix tree and the contents of the pages
    row,        \* req_to_token: the pages of a request, in order
    committed,  \* req.kv_committed_len
    protected,  \* req.cache_protected_len, the depth of req.last_node
    outLen,     \* len(req.output_ids)
    done,       \* req.finished()
    waiting,    \* Scheduler.waiting_queue
    running,    \* running_batch.reqs
    lens,       \* running_batch.seq_lens
    cur,        \* running_batch.spec_info.verified_id
    pc,         \* where the scheduler is
    batch,      \* the forward batch
    todo,       \* the requests of the batch still to be processed
    budget      \* PrefillAdder.rem_total_token_offset

reqVars == <<row, committed, protected, outLen, done>>
batchVars == <<running, lens, cur>>
vars == <<mem, reqVars, waiting, batchVars, pc, batch, todo, budget>>

Empty == [p \in Page |-> [o \in 0..(P - 1) |-> NoKV]]

(* free: allocator.free_pages; twice: a page entered the free list twice;  *)
(* tree, lock: page and lock_ref of every cached page-aligned prefix; tgt, *)
(* drf: the KV in every slot.                                              *)
Init ==
    /\ mem = [free |-> Page, twice |-> FALSE, tree |-> <<>>, lock |-> <<>>,
              tgt |-> Empty, drf |-> Empty]
    /\ row = [r \in Req |-> <<>>]
    /\ committed = [r \in Req |-> 0]
    /\ protected = [r \in Req |-> 0]
    /\ outLen = [r \in Req |-> 0]
    /\ done = [r \in Req |-> FALSE]
    /\ waiting = <<>> /\ running = <<>> /\ lens = <<>> /\ cur = <<>>
    /\ pc = "idle" /\ batch = <<>> /\ todo = <<>> /\ budget = 0
-----------------------------------------------------------------------------
(* The allocator.                                                          *)

Available(m) == Cardinality(m.free) * P

(* n pages of the free list.  Which ones does not matter, as a free page   *)
(* has no content: the lowest ones are taken.                              *)
Take(m, n) ==
    {q \in [1..n -> m.free] :
        /\ \A j, k \in 1..n : j < k => q[j] < q[k]
        /\ \A p \in m.free : (\E k \in 1..n : p < q[k]) => \E k \in 1..n : p = q[k]}

(* What a freed page holds may be overwritten by anyone.                   *)
Scrub(kv, pages) == [p \in Page |-> IF p \in pages THEN Empty[p] ELSE kv[p]]

Free(m, pages) ==
    [m EXCEPT !.free = @ \cup pages,
              !.twice = @ \/ pages \cap m.free # {},
              !.tgt = Scrub(@, pages),
              !.drf = Scrub(@, pages)]

(* Write val[i] to position i of a row, for every i in DOMAIN val.         *)
Store(kv, pages, val) ==
    [p \in Page |-> [o \in 0..(P - 1) |->
        LET at == {i \in DOMAIN val : pages[i \div P + 1] = p /\ i % P = o}
        IN  IF at = {} THEN kv[p][o] ELSE val[CHOOSE i \in at : TRUE]]]

(* _append_target_hidden_to_draft_kv: project the target's hidden states   *)
(* into the draft's cache, at the same slots.                              *)
AppendTargetHidden(kv, pages, hidden) == Store(kv, pages, hidden)

(* The KV of position i of request r.                                      *)
KV(r, i) == SubSeq(Text[r], 1, i + 1)
-----------------------------------------------------------------------------
(* The radix tree.  A key is a page-aligned prefix; the tree is closed     *)
(* under prefixes, and locking a node locks all its ancestors.             *)

Key(r, k) == SubSeq(Text[r], 1, k * P)

(* match_prefix: how many of the first n pages of r are cached.            *)
Matched(m, r, n) ==
    Max({k \in 0..n : \A j \in 1..k : Key(r, j) \in DOMAIN m.tree})

Path(r, k) == {Key(r, j) : j \in 1..k}

(* Mutants: a lock that is never taken, one that is never released.        *)
IncLockForgotten(m, path) == m
DecLockForgotten(m, path) == m

IncLock(m, path) ==
    [m EXCEPT !.lock = [k \in DOMAIN @ |-> IF k \in path THEN @[k] + 1 ELSE @[k]]]

DecLock(m, path) ==
    [m EXCEPT !.lock = [k \in DOMAIN @ |-> IF k \in path THEN @[k] - 1 ELSE @[k]]]

(* insert: the first n pages of r's row, of which the first ones are there *)
(* already.                                                                *)
Insert(m, r, pages, n) ==
    LET new == Path(r, n) \ DOMAIN m.tree
        page(k) == pages[Len(k) \div P]
    IN  [m EXCEPT
            !.tree = [k \in DOMAIN @ \cup new |-> IF k \in new THEN page(k) ELSE @[k]],
            !.lock = [k \in DOMAIN @ \cup new |-> IF k \in new THEN 0 ELSE @[k]]]

Evictable(m) == {k \in DOMAIN m.tree : m.lock[k] = 0}

Evict(m, keys) ==
    LET kept == DOMAIN m.tree \ keys
    IN  Free([m EXCEPT !.tree = [k \in kept |-> @[k]], !.lock = [k \in kept |-> @[k]]],
             {m.tree[k] : k \in keys})

(* evict_from_tree_cache: leaves are evicted until num tokens are freed or *)
(* no unlocked leaf is left.  Which ones is up to the eviction policy.     *)
EvictFor(m, num) ==
    IF Available(m) >= num THEN {m}
    ELSE {Evict(m, keys) : keys \in
            {E \in SUBSET Evictable(m) :
                /\ \A k \in E, c \in DOMAIN m.tree : IsPrefix(k, c) => c \in E
                /\ Cardinality(E) * P >= num \/ E = Evictable(m)}}

(* cache_finished_req and release_kv_cache: the committed pages go to the  *)
(* tree (insert) or to the free list, except those the tree already has;   *)
(* the unaligned tail goes to the free list; the path is unlocked.  In v1  *)
(* kv_allocated_len = kv_committed_len, so nothing is over-allocated.      *)
Release(m, r, insert) ==
    LET n == committed[r] \div P
        old == protected[r] \div P
        dup == IF insert THEN Matched(m, r, n) ELSE n
        tail == CeilDiv(committed[r])
        inTree == IF insert THEN Insert(m, r, row[r], n) ELSE m
        slice(a, b) == {row[r][k] : k \in (a + 1)..b}
    IN  DecLock(Free(Free(inTree, slice(old, dup)), slice(n, tail)), Path(r, old))

(* Mutant: duplicates of cached pages are not freed.                       *)
CacheUnfinishedKeepsDuplicates(m, r) ==
    LET n == committed[r] \div P
    IN  IncLock(DecLock(Insert(m, r, row[r], n), Path(r, protected[r] \div P)), Path(r, n))

(* cache_unfinished_req, after a prefill: the tree takes the aligned pages *)
(* or already has them, and the lock moves down to the end of them.        *)
CacheUnfinished(m, r) ==
    LET n == committed[r] \div P
        old == protected[r] \div P
        dup == {row[r][k] : k \in (old + 1)..Matched(m, r, n)}
        inTree == Free(Insert(m, r, row[r], n), dup)
    IN  IncLock(DecLock(inTree, Path(r, old)), Path(r, n))

(* Mutant: the row keeps the pages of the prefill.                         *)
Unredirected(m, r) == row[r]

(* The end of cache_unfinished_req: the row uses the tree's pages.         *)
Redirected(m, r) ==
    [k \in DOMAIN row[r] |->
        IF k <= committed[r] \div P THEN m.tree[Key(r, k)] ELSE row[r][k]]
-----------------------------------------------------------------------------
(* The scheduler.                                                          *)

SeqLen(r) == PromptLen + outLen[r]

(* The batch loop moves to its next request, or to the next phase.         *)
Advance(next) ==
    IF Len(todo) = 1
    THEN /\ pc' = next
         /\ batch' = IF next = "idle" THEN <<>> ELSE batch
         /\ todo' = batch'
    ELSE pc' = pc /\ todo' = Tail(todo) /\ UNCHANGED batch

(* recv_requests and handle_generate_request, between two iterations.      *)
Submit(r) ==
    /\ ~done[r] /\ outLen[r] = 0
    /\ r \notin ToSet(waiting) \cup ToSet(running)
    /\ pc = "idle"
    /\ waiting' = Append(waiting, r)
    /\ UNCHANGED <<mem, reqVars, batchVars, pc, batch, todo, budget>>

(* init_next_round_input and PrefillAdder.add_one_req: the next waiting    *)
(* request joins the prefill batch, on the longest cached prefix that      *)
(* leaves a token to compute, if the tokens it may need fit.               *)
Admit ==
    /\ pc \in {"idle", "admit"}
    /\ waiting # <<>>
    /\ LET r == Head(waiting)
           k == Matched(mem, r, (SeqLen(r) - 1) \div P)
           m == IncLock(mem, Path(r, k))
           extend == SeqLen(r) - k * P
       IN  /\ extend + MaxNew - outLen[r]
                < Available(m) + Cardinality(Evictable(m)) * P - budget
           /\ mem' = m
           /\ row' = [row EXCEPT ![r] = [j \in 1..k |-> mem.tree[Key(r, j)]]]
           /\ protected' = [protected EXCEPT ![r] = k * P]
           /\ budget' = budget + CeilDiv(extend) * P + MaxNew + P
           /\ batch' = IF pc = "idle" THEN <<r>> ELSE Append(batch, r)
    /\ waiting' = Tail(waiting)
    /\ pc' = "admit"
    /\ UNCHANGED <<committed, outLen, done, batchVars, todo>>

PageOverhead == IF P = 1 THEN 0 ELSE P

(* alloc_for_extend, first half: make room for the whole batch.            *)
StartExtend ==
    /\ pc = "admit"
    /\ LET need == MapThenSumSet(LAMBDA r : SeqLen(r) - protected[r] + PageOverhead,
                                 ToSet(batch))
       IN  mem' \in EvictFor(mem, need)
    /\ pc' = "extend" /\ todo' = batch /\ budget' = 0
    /\ UNCHANGED <<reqVars, waiting, batchVars, batch>>

(* Prefill of one request: allocate, run the target, and materialize the   *)
(* draft KV of the same tokens (_append_target_hidden_to_draft_kv).        *)
Extend ==
    /\ pc = "extend"
    /\ LET r == Head(todo)
           n == CeilDiv(SeqLen(r)) - Len(row[r])
           val == [i \in protected[r]..(SeqLen(r) - 1) |-> KV(r, i)]
       IN  \E new \in Take(mem, n) :
            LET pages == row[r] \o new
            IN  /\ row' = [row EXCEPT ![r] = pages]
                /\ mem' = [mem EXCEPT !.free = @ \ ToSet(new),
                                      !.tgt = Store(@, pages, val),
                                      !.drf = AppendTargetHidden(@, pages, val)]
                /\ committed' = [committed EXCEPT ![r] = SeqLen(r)]
    /\ Advance("presult")
    /\ UNCHANGED <<protected, outLen, done, waiting, batchVars, budget>>

(* process_batch_result_prefill for one request, and its merge into the    *)
(* running batch.                                                          *)
PrefillResult(stop) ==
    /\ pc = "presult"
    /\ LET r == Head(todo)
           fin == stop \/ outLen[r] + 1 >= MaxNew
       IN  /\ outLen' = [outLen EXCEPT ![r] = @ + 1]
           /\ done' = [done EXCEPT ![r] = fin]
           /\ IF fin
              THEN /\ mem' = Release(mem, r, TRUE)
                   /\ row' = [row EXCEPT ![r] = <<>>]
                   /\ UNCHANGED <<protected, batchVars>>
              ELSE /\ mem' = CacheUnfinished(mem, r)
                   /\ row' = [row EXCEPT ![r] = Redirected(mem', r)]
                   /\ protected' = [protected EXCEPT ![r] = (committed[r] \div P) * P]
                   /\ running' = Append(running, r)
                   /\ lens' = Append(lens, committed[r])
                   /\ cur' = Append(cur, <<r, SeqLen(r) + 1>>)
    /\ Advance("idle")
    /\ UNCHANGED <<committed, waiting, budget>>
-----------------------------------------------------------------------------
(* Mutant: one block for the whole batch.                                  *)
DecodeNeedOneBlock(bs) == CeilDiv(B) * P

(* new_tokens_required_next_decode.                                        *)
DecodeNeed(bs) == CeilDiv(B) * P * bs

StartDecode ==
    /\ pc = "idle"
    /\ running # <<>>
    /\ pc' = "check"
    /\ UNCHANGED <<mem, reqVars, waiting, batchVars, batch, todo, budget>>

(* update_running_batch with check_decode_mem: when the running batch fits *)
(* it is decoded, and prepare_for_verify makes room once more.             *)
CheckDecode ==
    /\ pc = "check"
    /\ \E m \in EvictFor(mem, DecodeNeed(Len(running))) :
        /\ Available(m) >= DecodeNeed(Len(running))
        /\ mem' \in EvictFor(m, Len(running) * (B + PageOverhead))
    /\ pc' = "alloc" /\ batch' = running /\ todo' = running
    /\ UNCHANGED <<reqVars, waiting, batchVars, budget>>

(* Mutant: the retracted request is not queued again.                      *)
RequeueLost(queue, r) == queue

(* _add_request_to_queue for every retracted request.                      *)
Requeue(queue, r) == Append(queue, r)

(* retract_decode: otherwise the last request is released and queued       *)
(* again, and memory is checked again; one request always stays.           *)
Retract ==
    /\ pc = "check"
    /\ Len(running) > 1
    /\ \E m \in EvictFor(mem, DecodeNeed(Len(running))) :
        /\ Available(m) < DecodeNeed(Len(running))
        /\ mem' \in EvictFor(Release(m, Last(running), FALSE),
                             (Len(running) - 1) * RetractSteps)
    /\ LET r == Last(running)
       IN  /\ row' = [row EXCEPT ![r] = <<>>]
           /\ committed' = [committed EXCEPT ![r] = 0]
           /\ waiting' = Requeue(waiting, r)
    /\ running' = Front(running) /\ lens' = Front(lens) /\ cur' = Front(cur)
    /\ UNCHANGED <<protected, outLen, done, pc, batch, todo, budget>>

IndexOf(r) == CHOOSE i \in DOMAIN running : running[i] = r

(* _prepare_for_speculative_decoding for one request: the draft block's    *)
(* slots come from the free list and are given back when the allocator is  *)
(* restored; prepare_for_verify takes the same ones.  The drafted KV in    *)
(* them is of no use to anyone.                                            *)
AllocBlock ==
    /\ pc = "alloc"
    /\ LET r == Head(todo)
           len == lens[IndexOf(r)]
           n == CeilDiv(len + B) - CeilDiv(len)
       IN  \E new \in Take(mem, n) :
            LET pages == SubSeq(row[r], 1, CeilDiv(len)) \o new
            IN  /\ row' = [row EXCEPT ![r] = pages]
                /\ mem' = [mem EXCEPT !.free = @ \ ToSet(new),
                                      !.drf = Store(@, pages,
                                                [i \in len..(len + B - 1) |-> NoKV])]
    /\ Advance("verify")
    /\ UNCHANGED <<committed, protected, outLen, done, waiting, batchVars, budget>>

(* Mutant: the whole block is kept.                                        *)
KeepSlotsAll(len, commit) == B

(* _compute_paged_keep_slots; without paging, the committed slots.         *)
KeepSlots(len, commit) ==
    IF P = 1 THEN commit
    ELSE LET aligned == CeilDiv(len + commit) * P
         IN  (IF aligned < len + B THEN aligned ELSE len + B) - len

(* The target's forward pass and verify, for one request: acc drafts match *)
(* the target, app tokens are appended.  The KV of a drafted token is      *)
(* right while all drafts before it are.                                   *)
Verify(acc, app, stop) ==
    /\ pc = "verify"
    /\ LET r == Head(todo)
           i == IndexOf(r)
           len == lens[i]
           fin == stop \/ outLen[r] + app >= MaxNew
           right(j) == cur[i] = <<r, len + 1>> /\ j <= len + acc
           seen == [j \in len..(len + B - 1) |-> IF right(j) THEN KV(r, j) ELSE NoKV]
           tgt == Store(mem.tgt, row[r], seen)
           hidden == [j \in len..(len + app - 1) |-> tgt[row[r][j \div P + 1]][j % P]]
           unused == {row[r][j \div P + 1] : j \in (len + KeepSlots(len, app))..(len + B - 1)}
       IN  /\ app <= acc + 1
           /\ app <= acc => fin
           /\ outLen[r] + app <= MaxNew
           /\ outLen' = [outLen EXCEPT ![r] = @ + app]
           /\ done' = [done EXCEPT ![r] = fin]
           /\ committed' = [committed EXCEPT ![r] = @ + app]
           /\ lens' = [lens EXCEPT ![i] = @ + app]
           /\ cur' = [cur EXCEPT ![i] = <<r, len + 1 + app>>]
           /\ row' = [row EXCEPT ![r] = SubSeq(@, 1, CeilDiv(len + app))]
           /\ mem' = Free([mem EXCEPT !.tgt = tgt,
                                      !.drf = AppendTargetHidden(@, row[r], hidden)],
                          unused)
    /\ Advance("dresult")
    /\ UNCHANGED <<protected, waiting, running, budget>>

(* Mutant: entries are dropped from the back.                              *)
FilterFromBack(tensor, i) == Front(tensor)

(* The batch tensors without their i-th entry: filter_batch and            *)
(* DFlashDraftInput.filter_batch.                                          *)
FilterOut(tensor, i) == RemoveAt(tensor, i)

(* process_batch_result_decode for one request; finished requests leave    *)
(* the batch.                                                              *)
DecodeResult ==
    /\ pc = "dresult"
    /\ LET r == Head(todo)
           i == IndexOf(r)
       IN  IF done[r]
           THEN /\ mem' = Release(mem, r, TRUE)
                /\ row' = [row EXCEPT ![r] = <<>>]
                /\ running' = RemoveAt(running, i)
                /\ lens' = RemoveAt(lens, i)
                /\ cur' = FilterOut(cur, i)
           ELSE UNCHANGED <<mem, row, batchVars>>
    /\ Advance("idle")
    /\ UNCHANGED <<committed, protected, outLen, done, waiting, budget>>

(* The event loop without work.                                            *)
Idle ==
    /\ pc = "idle" /\ waiting = <<>> /\ running = <<>>
    /\ UNCHANGED vars

SchedulerStep ==
    \/ Admit
    \/ StartExtend
    \/ Extend
    \/ \E stop \in BOOLEAN : PrefillResult(stop)
    \/ StartDecode
    \/ CheckDecode
    \/ Retract
    \/ AllocBlock
    \/ \E acc \in 0..(B - 1), app \in 1..B, stop \in BOOLEAN : Verify(acc, app, stop)
    \/ DecodeResult

Next == (\E r \in Req : Submit(r)) \/ SchedulerStep \/ Idle

Spec == Init /\ [][Next]_vars
FairSpec == Spec /\ WF_vars(SchedulerStep)
-----------------------------------------------------------------------------
(* Properties.                                                             *)

(* Every field of the scheduler and of the KV pool has its type.           *)
TypeOK ==
    /\ mem.free \subseteq Page
    /\ mem.twice \in BOOLEAN
    /\ DOMAIN mem.lock = DOMAIN mem.tree
    /\ \A k \in DOMAIN mem.tree : mem.tree[k] \in Page /\ mem.lock[k] \in Nat
    /\ row \in [Req -> Seq(Page)]
    /\ committed \in [Req -> 0..(PromptLen + MaxNew)]
    /\ protected \in [Req -> 0..(PromptLen + MaxNew)]
    /\ outLen \in [Req -> 0..MaxNew]
    /\ done \in [Req -> BOOLEAN]
    /\ {waiting, running, batch, todo} \subseteq Seq(Req)

Cached == {mem.tree[k] : k \in DOMAIN mem.tree}

(* The pages only request r uses.                                          *)
Owned(r) == {row[r][k] : k \in (protected[r] \div P + 1)..Len(row[r])}

(* No page leaks and none is used twice: every page is free, or cached     *)
(* under one prefix, or owned by one request, and none was freed twice,    *)
(* through prefills, verify steps that give drafted slots back, duplicate  *)
(* prefixes, retractions and evictions (the allocator's free, verify,      *)
(* cache_finished_req, cache_unfinished_req).                              *)
PagesPartitioned ==
    /\ ~mem.twice
    /\ mem.free \cup Cached \cup UNION {Owned(r) : r \in Req} = Page
    /\ mem.free \cap Cached = {}
    /\ \A j, k \in DOMAIN mem.tree : mem.tree[j] = mem.tree[k] => j = k
    /\ \A r \in Req : IsInjective(row[r]) /\ Owned(r) \cap (mem.free \cup Cached) = {}
    /\ \A r, q \in Req : r # q => Owned(r) \cap Owned(q) = {}

(* The requests whose rows the forward pass reads.                         *)
Active == ToSet(running) \cup (IF pc = "presult" THEN ToSet(todo) ELSE {})

Holds(kv, r, i) == kv[row[r][i \div P + 1]][i % P] = KV(r, i)

(* Every committed position of a running request, and every cached prefix, *)
(* holds the KV of its own token in the target's cache and in the draft's: *)
(* rejected drafts never reach it, and no prefix is shared before its      *)
(* draft KV is materialized (_append_target_hidden_to_draft_kv: "otherwise *)
(* another request could reuse target KV indices without having draft KV   *)
(* values").                                                               *)
KVFaithful ==
    /\ \A r \in Active : \A i \in 0..(committed[r] - 1) :
          Holds(mem.tgt, r, i) /\ Holds(mem.drf, r, i)
    /\ \A k \in DOMAIN mem.tree : \A o \in 0..(P - 1) :
          LET text == SubSeq(k, 1, Len(k) - P + o + 1)
          IN  mem.tgt[mem.tree[k]][o] = text /\ mem.drf[mem.tree[k]][o] = text

(* The requests that hold a lock in the tree.                              *)
Lockers ==
    ToSet(running) \cup (IF pc = "admit" THEN ToSet(batch) ELSE {})
                   \cup (IF pc = "extend" THEN ToSet(batch) ELSE {})
                   \cup (IF pc = "presult" THEN ToSet(todo) ELSE {})

(* The lock_ref of a cached prefix is the number of requests that run on   *)
(* it, and the first pages of those requests are the tree's: eviction      *)
(* never takes a page a request reads, and every lock is released once     *)
(* (inc_lock_ref, dec_lock_ref).                                           *)
LocksExact ==
    /\ \A k \in DOMAIN mem.tree :
          mem.lock[k] = Cardinality({r \in Lockers : k \in Path(r, protected[r] \div P)})
    /\ \A r \in Lockers : \A j \in 1..(protected[r] \div P) :
          Key(r, j) \in DOMAIN mem.tree /\ row[r][j] = mem.tree[Key(r, j)]

(* An allocation that the scheduler has budgeted for never fails: neither  *)
(* the prefill of an admitted request, nor the block of a request that     *)
(* check_decode_mem let through, nor the check itself when one request is  *)
(* left (the RuntimeErrors of alloc_token_slots, alloc_paged_token_slots_  *)
(* extend and the ValueError of retract_decode).                           *)
AllocationsFit ==
    /\ pc = "extend" =>
          LET r == Head(todo)
          IN  CeilDiv(SeqLen(r)) - Len(row[r]) <= Cardinality(mem.free)
    /\ pc = "alloc" =>
          LET len == lens[IndexOf(Head(todo))]
          IN  CeilDiv(len + B) - CeilDiv(len) <= Cardinality(mem.free)
    /\ pc = "check" /\ Len(running) = 1 =>
          \A m \in EvictFor(mem, DecodeNeed(1)) : Available(m) >= DecodeNeed(1)

(* The tensors of the running batch stay aligned with its requests: the    *)
(* i-th length and the i-th current token are those of the i-th request,   *)
(* whoever finished, was retracted or joined (filter_batch, merge_batch).  *)
BatchAligned ==
    /\ Len(lens) = Len(running) /\ Len(cur) = Len(running)
    /\ \A i \in DOMAIN running :
          LET r == running[i]
          IN  /\ lens[i] = committed[r] /\ lens[i] = SeqLen(r) - 1
              /\ cur[i] = <<r, SeqLen(r)>>

(* Every request that is queued finishes, however often it is retracted.   *)
Drains == \A r \in Req : (r \in ToSet(waiting)) ~> done[r]
=============================================================================
