----------------------------- MODULE DraftWindow -----------------------------
(***************************************************************************)
(* The compact draft cache of the DFLASH worker: the draft model attends   *)
(* to a window of the last committed tokens only, through a row of its own *)
(* that is rebuilt from the target's row, and whose positions are local to *)
(* the window.                                                             *)
(*                                                                         *)
(* One request at a time.  Draft and target share the allocator, and any   *)
(* free page may be the next (the order of the free list depends on the    *)
(* other requests).  A row is a sequence, so position i of the code is     *)
(* element i + 1; a slot is a page and an offset in it.                    *)
(***************************************************************************)
EXTENDS Integers, Sequences

CONSTANTS
    W,          \* draft_window_size
    P,          \* page size
    B,          \* block size
    MaxSeq,     \* the longest committed text
    Page        \* the pages of the pool

ASSUME WindowAssumption ==
    W \in Nat \ {0} /\ P \in Nat \ {0} /\ B \in Nat \ {0} /\ MaxSeq \in Nat

VARIABLES
    worker,     \* which worker the server was started with, spec v1 or v2
    phase,      \* what the worker does next
    seqLen,     \* batch.seq_lens: the committed tokens
    row,        \* the target's req_to_token row
    draftLen,   \* draft_input.draft_seq_lens
    draftRow,   \* the draft worker's req_to_token row
    kv          \* which position the draft KV of a slot is for, -1 for none

vars == <<worker, phase, seqLen, row, draftLen, draftRow, kv>>

(* Spec v2: the block is drafted in the slots it is verified in.           *)
Overlap == worker = "v2"

Slot == [page : Page, off : 0..(P - 1)]

Init ==
    /\ worker \in {"v1", "v2"}
    /\ phase = "prefill"
    /\ seqLen = 0
    /\ row = <<>>
    /\ draftLen = 0
    /\ draftRow = <<>>
    /\ kv = [s \in Slot |-> -1]

(* The first position of the page that position j is on.                   *)
PageStart(j) == j - (j % P)

FreePages == Page \ {row[i].page : i \in 1..Len(row)}

(* Mutated form: the window starts where it is asked to.                   *)
CompactLenUnaligned(n) == IF n < W THEN n ELSE W

(* _compute_compact_draft_seq_lens: the window, and what is before it on   *)
(* its first page.                                                         *)
CompactLen(n) ==
    LET visible == IF n < W THEN n ELSE W
    IN  IF P <= 1 THEN visible ELSE n - PageStart(n - visible)

(* alloc_extend, or alloc when a page is one slot: the slots after the     *)
(* last one of r, as far as its length leaves room on a page, then pages   *)
(* that are free, each for the next P positions.                           *)
Extensions(r, count) ==
    LET n == Len(r)
        fresh == {j \in n..(n + count - 1) : j % P = 0}
        pages == {f \in [fresh -> FreePages] : \A j, k \in fresh : f[j] = f[k] => j = k}
    IN  {[i \in 1..(n + count) |->
            IF i <= n THEN r[i]
            ELSE IF PageStart(i - 1) \in fresh
            THEN [page |-> f[PageStart(i - 1)], off |-> (i - 1) % P]
            ELSE [r[n] EXCEPT !.off = @ + i - n]] : f \in pages}

(* assign_req_to_token_pool: the first entries of the draft row; what was  *)
(* there beyond them stays.                                                *)
Assign(new) == new \o SubSeq(draftRow, Len(new) + 1, Len(draftRow))

(* Mutated form: the start of the segment is left out.                     *)
SuffixFromStart(r, n) == SubSeq(r, 1, CompactLen(n))

(* The window of the committed text: the suffix of the target's row.       *)
Suffix(r, n) == SubSeq(r, n - CompactLen(n) + 1, n)

(* _append_target_hidden_to_draft_kv: draft KV for the newly committed     *)
(* tokens and, without overlap, the window of the next block.              *)
Committed(r, n) ==
    /\ seqLen' = n
    /\ row' = r
    /\ kv' = [s \in Slot |->
                IF \E i \in (seqLen + 1)..n : r[i] = s
                THEN (CHOOSE i \in (seqLen + 1)..n : r[i] = s) - 1
                ELSE kv[s]]
    /\ IF Overlap THEN UNCHANGED <<draftLen, draftRow>>
       ELSE draftLen' = CompactLen(n) /\ draftRow' = Assign(Suffix(r, n))
    /\ UNCHANGED worker

Prefill(n) ==
    /\ phase = "prefill"
    /\ n <= MaxSeq
    /\ \E r \in Extensions(<<>>, n) : Committed(r, n)
    /\ phase' = "draft"

(* The draft forward writes its KV entries to the slots of the block.      *)
Drafted(slots) == kv' = [s \in Slot |-> IF s \in slots THEN -1 ELSE kv[s]]

(* _prepare_for_speculative_decoding: the block extends the draft row, in  *)
(* slots that are handed back to the allocator after the forward pass.     *)
DraftBlock ==
    /\ phase = "draft" /\ ~Overlap
    /\ seqLen < MaxSeq
    /\ \E ext \in Extensions(SubSeq(draftRow, 1, draftLen), B) :
          /\ draftRow' = Assign(ext)
          /\ Drafted({ext[i] : i \in (draftLen + 1)..(draftLen + B)})
    /\ phase' = "verify"
    /\ UNCHANGED <<worker, seqLen, row, draftLen>>

(* The entries that a row of the given length has and row has not.         *)
Missing(length) == IF length > Len(row) THEN length - Len(row) ELSE 0

(* The overlapped worker: the scheduler has extended the target's row to   *)
(* 2 * B beyond the committed text, the window is rebuilt, and the block   *)
(* is drafted in the slots it is verified in.                              *)
DraftBlockOverlap ==
    /\ phase = "draft" /\ Overlap
    /\ seqLen < MaxSeq
    /\ \E r \in Extensions(row, Missing(seqLen + 2 * B)) :
          LET block == SubSeq(r, seqLen + 1, seqLen + B)
          IN  /\ row' = r
              /\ draftLen' = CompactLen(seqLen)
              /\ draftRow' = Assign(Suffix(r, seqLen) \o block)
              /\ Drafted({block[i] : i \in 1..B})
    /\ phase' = "verify"
    /\ UNCHANGED <<worker, seqLen>>

(* The target verifies the block and c of its tokens are committed; pages  *)
(* that hold none of them are given back, with overlap they are kept.      *)
Verify(c) ==
    /\ phase = "verify"
    /\ seqLen + c <= MaxSeq
    /\ IF Overlap THEN Committed(row, seqLen + c)
       ELSE \E r \in Extensions(row, B) : Committed(SubSeq(r, 1, seqLen + c), seqLen + c)
    /\ phase' = "draft"

(* The request finishes and the next one gets its rows and slots; what is  *)
(* left in the slots is for no position of the next one.                   *)
Release ==
    /\ phase = "draft"
    /\ phase' = "prefill"
    /\ seqLen' = 0
    /\ row' = <<>>
    /\ draftLen' = 0
    /\ kv' = [s \in Slot |-> -1]
    /\ UNCHANGED <<worker, draftRow>>

Next ==
    \/ \E n \in 1..MaxSeq : Prefill(n)
    \/ DraftBlock
    \/ DraftBlockOverlap
    \/ \E c \in 1..B : Verify(c)
    \/ Release

Spec == Init /\ [][Next]_vars
-----------------------------------------------------------------------------
(* Properties.                                                             *)

(* The variables have their types, and the rows hold slots of the pool.    *)
TypeOK ==
    /\ worker \in {"v1", "v2"}
    /\ phase \in {"prefill", "draft", "verify"}
    /\ seqLen \in 0..MaxSeq
    /\ row \in Seq(Slot)
    /\ draftLen \in 0..seqLen
    /\ draftRow \in Seq(Slot)
    /\ kv \in [Slot -> -1..(MaxSeq - 1)]

(* The draft model attends to the last W committed tokens, or to all, and  *)
(* to fewer than P before them, and finds the KV entry of each at its      *)
(* place: neither the block it drafts nor the row of an earlier request    *)
(* replaces one (_compute_compact_draft_seq_lens, _gather_req_to_token).   *)
WindowExact ==
    phase = "verify" =>
        LET visible == IF seqLen < W THEN seqLen ELSE W
        IN  /\ draftLen \in visible..(visible + P - 1)
            /\ draftLen <= seqLen
            /\ \A j \in 0..(draftLen - 1) : kv[draftRow[j + 1]] = seqLen - draftLen + j

(* A backend that derives its page table from local token positions finds  *)
(* every token of the window and of the block in its slot: the comment of  *)
(* _compute_compact_draft_seq_lens, "the compact suffix must start on a    *)
(* page boundary".                                                         *)
LocalPages ==
    phase = "verify" =>
        \A j \in 0..(draftLen + B - 1) :
            draftRow[j + 1] = [page |-> draftRow[PageStart(j) + 1].page, off |-> j % P]
=============================================================================
