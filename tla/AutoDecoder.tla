----------------------------- MODULE AutoDecoder ----------------------------
(***************************************************************************)
(* What a speculative decoder promises: the response of a request is the   *)
(* target model's own continuation of its prompt, one or more tokens at a  *)
(* time, up to the first token that finishes it.                           *)
(***************************************************************************)
EXTENDS Integers, Sequences

CONSTANTS
    Req,        \* the requests
    Prompt,     \* their prompts
    Stop,       \* the tokens that end a response
    MaxNew,     \* sampling_params.max_new_tokens
    Target(_)   \* the token the target model predicts after a text

VARIABLES out, done

Init ==
    /\ out = [r \in Req |-> <<>>]
    /\ done = [r \in Req |-> FALSE]

(* The i-th token of a response finishes it.                               *)
Finishes(response, i) == i >= MaxNew \/ response[i] \in Stop

(* new extends old by tokens of the target, and only its last token may    *)
(* finish the response.                                                    *)
Continues(prompt, old, new) ==
    /\ Len(new) > Len(old)
    /\ SubSeq(new, 1, Len(old)) = old
    /\ \A i \in (Len(old) + 1)..Len(new) :
          new[i] = Target(prompt \o SubSeq(new, 1, i - 1))
    /\ \A i \in (Len(old) + 1)..(Len(new) - 1) : ~Finishes(new, i)

Emit(r) ==
    /\ ~done[r]
    /\ Continues(Prompt[r], out[r], out'[r])
    /\ out' = [out EXCEPT ![r] = out'[r]]
    /\ done' = [done EXCEPT ![r] = Finishes(out'[r], Len(out'[r]))]

Next == \E r \in Req : Emit(r)

Spec == Init /\ [][Next]_<<out, done>>
=============================================================================
