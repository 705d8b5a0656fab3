---------------------------- MODULE DFlashDecoder ---------------------------
(***************************************************************************)
(* DFLASH decoding of single requests under greedy verification: prefill   *)
(* samples a token of the target, the draft model fills a block of B       *)
(* tokens after the current one, one forward pass of the target predicts   *)
(* every position of the block, and verify commits the drafts that match   *)
(* and one bonus token.                                                    *)
(*                                                                         *)
(* The rows of a batch do not interact here (DFlashKV and DFlashPipeline   *)
(* model what they share), so an action is one row.  What the draft model  *)
(* proposes is arbitrary.                                                  *)
(***************************************************************************)
EXTENDS Integers, Sequences

CONSTANTS
    Req,        \* the requests
    Token,      \* the vocabulary
    Prompt,     \* their prompts
    Stop,       \* the tokens that end a response
    MaxNew,     \* sampling_params.max_new_tokens
    B,          \* block size: the current token and B - 1 drafted ones
    ContextLen, \* the longest text the target is run on
    Target(_)   \* argmax of the target's logits after a text

ASSUME DecoderAssumption ==
    /\ B \in Nat \ {0}
    /\ MaxNew \in Nat \ {0}
    /\ Stop \subseteq Token
    /\ ContextLen \in Nat
    /\ \A r \in Req :
          Prompt[r] \in Seq(Token) /\ Len(Prompt[r]) + MaxNew + B <= ContextLen
    /\ \A n \in 0..ContextLen : \A s \in [1..n -> Token] : Target(s) \in Token

VARIABLES
    out,    \* req.output_ids
    done,   \* req.finished()
    at,     \* where a request is: waiting, running or drafted
    cur,    \* draft_input.verified_id: the current token, while r has a row
    block   \* draft_tokens: the current token and the drafted ones

vars == <<out, done, at, cur, block>>

Init ==
    /\ out = [r \in Req |-> <<>>]
    /\ done = [r \in Req |-> FALSE]
    /\ at = [r \in Req |-> "waiting"]
    /\ cur = [r \in Req |-> <<>>]
    /\ block = [r \in Req |-> <<>>]

(* req.check_finished() after the i-th token of a response.                *)
CheckFinished(response, i) == i >= MaxNew \/ response[i] \in Stop

(* Mutant: the current token is only set when a row is created.            *)
ResultStale(r, new) ==
    LET fin == CheckFinished(new, Len(new))
    IN  /\ out' = [out EXCEPT ![r] = new]
        /\ done' = [done EXCEPT ![r] = fin]
        /\ at' = [at EXCEPT ![r] = IF fin THEN "waiting" ELSE "running"]
        /\ cur' = [cur EXCEPT ![r] = IF fin THEN <<>>
                                     ELSE IF @ = <<>> THEN <<new[Len(new)]>> ELSE @]

(* The end of a step that made new the response of r: the request leaves   *)
(* the running batch when finished, else the last token is the current one.*)
Result(r, new) ==
    LET fin == CheckFinished(new, Len(new))
    IN  /\ out' = [out EXCEPT ![r] = new]
        /\ done' = [done EXCEPT ![r] = fin]
        /\ at' = [at EXCEPT ![r] = IF fin THEN "waiting" ELSE "running"]
        /\ cur' = [cur EXCEPT ![r] = IF fin THEN <<>> ELSE <<new[Len(new)]>>]

(* The target's forward pass over a waiting request, new or retracted,     *)
(* predicts the token after its whole text.                                *)
Prefill(r) ==
    /\ at[r] = "waiting" /\ ~done[r]
    /\ Result(r, Append(out[r], Target(Prompt[r] \o out[r])))
    /\ UNCHANGED block

(* _prepare_for_speculative_decoding: the block starts with the current    *)
(* token.                                                                  *)
Draft(r) ==
    /\ at[r] = "running"
    /\ \E drafted \in [1..(B - 1) -> Token] :
          block' = [block EXCEPT ![r] = cur[r] \o drafted]
    /\ at' = [at EXCEPT ![r] = "drafted"]
    /\ UNCHANGED <<out, done, cur>>

(* The text whose KV is committed: everything before the current token.    *)
Committed(r) == Prompt[r] \o SubSeq(out[r], 1, Len(out[r]) - 1)

(* The logits of the verify pass: position j sees the block up to j.       *)
TargetPredict(r) ==
    [j \in 1..B |-> Target(Committed(r) \o SubSeq(block[r], 1, j))]

(* Mutant: a mismatch does not end the accepted prefix.                    *)
AcceptLenAnywhere(candidates, predict) ==
    CHOOSE n \in 0..(B - 1) :
        /\ n > 0 => candidates[n + 1] = predict[n]
        /\ \A k \in (n + 1)..(B - 1) : candidates[k + 1] # predict[k]

(* compute_dflash_accept_len_and_bonus: drafts are accepted while they     *)
(* match consecutively.                                                    *)
AcceptLen(candidates, predict) ==
    CHOOSE n \in 0..(B - 1) :
        /\ \A k \in 1..n : candidates[k + 1] = predict[k]
        /\ n < B - 1 => candidates[n + 2] # predict[n + 1]

(* Mutant: the tokens after a stop are appended as well.                   *)
AppendedAll(old, proposed) == Len(proposed)

(* verify's inner loop: how many of the proposed tokens are appended.      *)
Appended(old, proposed) ==
    LET fin(k) == CheckFinished(old \o proposed, Len(old) + k)
    IN  CHOOSE n \in 1..Len(proposed) :
            /\ \A k \in 1..(n - 1) : ~fin(k)
            /\ n < Len(proposed) => fin(n)

(* DFlashVerifyInput.verify, greedy.                                       *)
Verify(r) ==
    /\ at[r] = "drafted"
    /\ LET predict == TargetPredict(r)
           acc == AcceptLen(block[r], predict)
           proposed == Append(SubSeq(block[r], 2, acc + 1), predict[acc + 1])
           n == Appended(out[r], proposed)
           new == out[r] \o SubSeq(proposed, 1, n)
       IN  Result(r, new)
    /\ block' = [block EXCEPT ![r] = <<>>]

(* retract_decode and reset_for_retract: the text stays.                   *)
Retract(r) ==
    /\ at[r] = "running"
    /\ at' = [at EXCEPT ![r] = "waiting"]
    /\ cur' = [cur EXCEPT ![r] = <<>>]
    /\ UNCHANGED <<out, done, block>>

Step(r) == Prefill(r) \/ Draft(r) \/ Verify(r) \/ Retract(r)

Idle == (\A r \in Req : done[r]) /\ UNCHANGED vars

Next == (\E r \in Req : Step(r)) \/ Idle

Spec == Init /\ [][Next]_vars
-----------------------------------------------------------------------------
(* Properties.                                                             *)

(* Responses and blocks are sequences of tokens; a response never exceeds  *)
(* its limit, however many tokens one verify step proposes.                *)
TypeOK ==
    /\ DOMAIN out = Req
    /\ \A r \in Req : out[r] \in Seq(Token) /\ Len(out[r]) <= MaxNew
    /\ done \in [Req -> BOOLEAN]
    /\ at \in [Req -> {"waiting", "running", "drafted"}]
    /\ DOMAIN cur = Req /\ DOMAIN block = Req
    /\ \A r \in Req : cur[r] \in Seq(Token) /\ block[r] \in Seq(Token)
    /\ \A r \in Req : at[r] = "drafted" => Len(block[r]) = B

(* Speculation is lossless: whatever is drafted, every token of a response *)
(* is the one the target predicts after the prompt and the tokens before   *)
(* it (verify: accepted drafts and bonus token, also after a retraction).  *)
Lossless ==
    \A r \in Req : \A i \in 1..Len(out[r]) :
        out[r][i] = Target(Prompt[r] \o SubSeq(out[r], 1, i - 1))

(* The token a block starts with is the last of the response, the only one *)
(* whose KV is not committed yet (verified_id, prefill and verify).        *)
CurrentIsLast ==
    \A r \in Req :
        at[r] # "waiting" =>
            /\ ~done[r] /\ out[r] # <<>>
            /\ cur[r] = <<out[r][Len(out[r])]>>
            /\ at[r] = "drafted" => SubSeq(block[r], 1, 1) = cur[r]

Abstract == INSTANCE AutoDecoder WITH out <- out, done <- done

(* The decoder implements greedy decoding with the target alone, stopping  *)
(* where that would stop: verify and prefill extend a response as the      *)
(* target would, drafting and retraction are invisible.                    *)
ImplementsTarget == Abstract!Spec
=============================================================================
