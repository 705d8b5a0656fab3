------------------------- MODULE DFlashDecoderProofs ------------------------
(***************************************************************************)
(* Proofs about DFlashDecoder, for every number of requests, block size,   *)
(* limit, vocabulary, target model and draft model.                        *)
(***************************************************************************)
EXTENDS DFlashDecoder, SequenceTheorems, WellFoundedInduction, TLAPS

(* A non-empty set of natural numbers has a least element.                 *)
LEMMA LeastNatural ==
    ASSUME NEW T, T \subseteq Nat, T # {}
    PROVE  \E x \in T : \A y \in T : x <= y
<1> DEFINE R == OpToRel(<, Nat)
<1>1. IsWellFoundedOn(R, Nat)
  BY NatLessThanWellFounded
<1>2. \A x, y \in Nat : y < x => <<y, x>> \in R
  BY DEF OpToRel
<1> HIDE DEF R
<1>3. \E x \in T : \A y \in T : ~(<<y, x>> \in R)
  BY <1>1, WFMin
<1>4. PICK x \in T : \A y \in T : ~(<<y, x>> \in R)
  BY <1>3
<1>5. \A y \in T : ~(y < x)
  BY <1>2, <1>4, Zenon
<1>6. \A y \in T : x <= y
  BY <1>5
<1> QED
  BY <1>4, <1>6, Zenon

(* The target predicts a token after every text that fits its context.     *)
LEMMA TargetType ==
    ASSUME NEW s \in Seq(Token), Len(s) <= ContextLen
    PROVE  Target(s) \in Token
<1>1. s \in [1..Len(s) -> Token] /\ Len(s) \in Nat
  BY LenProperties
<1> QED
  BY <1>1, DecoderAssumption

(* The accepted prefix is the longest run of matching drafts.              *)
LEMMA AcceptLenIs ==
    ASSUME NEW c, NEW p
    PROVE  LET n == AcceptLen(c, p)
           IN  n \in 0..(B - 1) /\ \A k \in 1..n : c[k + 1] = p[k]
<1> DEFINE T == {n \in 0..(B - 1) : n < B - 1 => c[n + 2] # p[n + 1]}
<1>1. B - 1 \in T /\ T \subseteq Nat
  BY DecoderAssumption
<1>2. PICK n \in T : \A y \in T : n <= y
  BY <1>1, LeastNatural
<1>3. \A k \in 1..n : c[k + 1] = p[k]
  <2> SUFFICES ASSUME NEW k \in 1..n PROVE c[k + 1] = p[k]
    OBVIOUS
  <2>1. k - 1 \in 0..(B - 1) /\ k - 1 < B - 1 /\ ~(n <= k - 1)
    BY <1>2, DecoderAssumption
  <2>2. k - 1 \notin T
    BY <1>2, <2>1
  <2>3. c[(k - 1) + 2] = p[(k - 1) + 1]
    BY <2>1, <2>2
  <2>4. (k - 1) + 2 = k + 1 /\ (k - 1) + 1 = k
    BY <2>1, DecoderAssumption
  <2> QED
    BY <2>3, <2>4
<1>4. \E m \in 0..(B - 1) :
         /\ \A k \in 1..m : c[k + 1] = p[k]
         /\ m < B - 1 => c[m + 2] # p[m + 1]
  BY <1>2, <1>3
<1> QED
  BY <1>4 DEF AcceptLen

(* verify appends at least one token and none after the one that finishes. *)
LEMMA AppendedIs ==
    ASSUME NEW old, NEW proposed, Len(proposed) \in Nat, Len(proposed) > 0
    PROVE  LET n == Appended(old, proposed)
           IN  /\ n \in 1..Len(proposed)
               /\ \A k \in 1..(n - 1) :
                     ~CheckFinished(old \o proposed, Len(old) + k)
<1> DEFINE F(k) == CheckFinished(old \o proposed, Len(old) + k)
           T == {n \in 1..Len(proposed) : n < Len(proposed) => F(n)}
<1> HIDE DEF F
<1>1. Len(proposed) \in T /\ T \subseteq Nat
  OBVIOUS
<1>2. PICK n \in T : \A y \in T : n <= y
  BY <1>1, LeastNatural
<1>3. \A k \in 1..(n - 1) : ~F(k)
  BY <1>2
<1>4. \E m \in 1..Len(proposed) :
         (\A k \in 1..(m - 1) : ~F(k)) /\ (m < Len(proposed) => F(m))
  BY <1>2, <1>3
<1> QED
  BY <1>4 DEF Appended, F

(* Concatenation, position by position.                                    *)
LEMMA Cat ==
    ASSUME NEW s \in Seq(Token), NEW t \in Seq(Token)
    PROVE  /\ s \o t \in Seq(Token) /\ Len(s \o t) = Len(s) + Len(t)
           /\ \A i \in 1..Len(s) : (s \o t)[i] = s[i]
           /\ \A i \in 1..Len(t) : (s \o t)[Len(s) + i] = t[i]
<1>1. Len(s) \in Nat /\ Len(t) \in Nat
  BY LenProperties
<1>2. /\ s \o t \in Seq(Token) /\ Len(s \o t) = Len(s) + Len(t)
      /\ \A i \in 1..(Len(s) + Len(t)) :
            (s \o t)[i] = IF i <= Len(s) THEN s[i] ELSE t[i - Len(s)]
  BY ConcatProperties, Zenon
<1>3. \A i \in 1..Len(s) : (s \o t)[i] = s[i]
  BY <1>1, <1>2
<1>4. ASSUME NEW i \in 1..Len(t) PROVE (s \o t)[Len(s) + i] = t[i]
  <2>1. Len(s) + i \in 1..(Len(s) + Len(t)) /\ ~(Len(s) + i <= Len(s))
        /\ (Len(s) + i) - Len(s) = i
    BY <1>1
  <2>2. (s \o t)[Len(s) + i] = t[(Len(s) + i) - Len(s)]
    BY <1>2, <2>1, Zenon
  <2> QED
    BY <2>1, <2>2
<1> QED
  BY <1>2, <1>3, <1>4

(* Concatenation is associative.                                           *)
LEMMA Assoc ==
    ASSUME NEW s \in Seq(Token), NEW t \in Seq(Token), NEW u \in Seq(Token)
    PROVE  (s \o t) \o u = s \o (t \o u)
BY ConcatAssociative

(* A segment of a sequence, position by position.                          *)
LEMMA Segment ==
    ASSUME NEW s \in Seq(Token), NEW m \in Nat, NEW n \in Nat, m + n <= Len(s)
    PROVE  /\ SubSeq(s, m + 1, m + n) \in Seq(Token)
           /\ Len(SubSeq(s, m + 1, m + n)) = n
           /\ \A i \in 1..n : SubSeq(s, m + 1, m + n)[i] = s[m + i]
<1> DEFINE a == m + 1
           z == m + n
<1>1. Len(s) \in Nat
  BY LenProperties
<1>2. a \in Int /\ z \in Int /\ \A i \in a..z : i \in 1..Len(s)
  BY <1>1
<1>3. \A i \in a..z : s[i] \in Token
  BY <1>2, ElementOfSeq
<1> HIDE DEF a, z
<1>4. /\ SubSeq(s, a, z) \in Seq(Token)
      /\ Len(SubSeq(s, a, z)) = IF a <= z THEN z - a + 1 ELSE 0
      /\ \A i \in 1..(z - a + 1) : SubSeq(s, a, z)[i] = s[a + i - 1]
  BY <1>2, <1>3, SubSeqProperties
<1>5. z - a + 1 = n /\ (~(a <= z) => n = 0) /\ \A i \in 1..n : a + i - 1 = m + i
  BY DEF a, z
<1>6. Len(SubSeq(s, a, z)) = n /\ \A i \in 1..n : SubSeq(s, a, z)[i] = s[m + i]
  BY <1>4, <1>5
<1> QED
  BY <1>4, <1>6 DEF a, z

(* The first n entries of a sequence.                                      *)
LEMMA Prefix ==
    ASSUME NEW s \in Seq(Token), NEW n \in Nat, n <= Len(s)
    PROVE  /\ SubSeq(s, 1, n) \in Seq(Token)
           /\ Len(SubSeq(s, 1, n)) = n
           /\ \A i \in 1..n : SubSeq(s, 1, n)[i] = s[i]
<1>1. 0 \in Nat /\ 0 + n <= Len(s)
  BY LenProperties
<1>2. /\ SubSeq(s, 0 + 1, 0 + n) \in Seq(Token)
      /\ Len(SubSeq(s, 0 + 1, 0 + n)) = n
      /\ \A i \in 1..n : SubSeq(s, 0 + 1, 0 + n)[i] = s[0 + i]
  BY <1>1, Segment, Zenon
<1>3. 0 + 1 = 1 /\ 0 + n = n /\ \A i \in 1..n : 0 + i = i
  OBVIOUS
<1> QED
  BY <1>2, <1>3

(* What verify proposes for a block blk that starts with the last token of *)
(* the response old.                                                       *)
Proposal(prompt, old, blk, predict, acc, proposed) ==
    /\ prompt \in Seq(Token) /\ old \in Seq(Token)
    /\ Len(old) > 0 /\ Len(old) <= MaxNew
    /\ Len(prompt) + MaxNew + B <= ContextLen
    /\ blk \in Seq(Token) /\ Len(blk) = B /\ blk[1] = old[Len(old)]
    /\ \A j \in 1..B :
          predict[j] = Target((prompt \o SubSeq(old, 1, Len(old) - 1))
                                  \o SubSeq(blk, 1, j))
    /\ acc \in 0..(B - 1) /\ \A k \in 1..acc : blk[k + 1] = predict[k]
    /\ proposed = Append(SubSeq(blk, 2, acc + 1), predict[acc + 1])

(* The proposed tokens continue the response as the target alone would.    *)
LEMMA ProposedContinues ==
    ASSUME NEW prompt, NEW old, NEW blk, NEW predict, NEW acc, NEW proposed,
           Proposal(prompt, old, blk, predict, acc, proposed)
    PROVE  /\ proposed \in Seq(Token) /\ Len(proposed) = acc + 1
           /\ \A k \in 1..(acc + 1) :
                 proposed[k] = Target(prompt \o (old \o SubSeq(proposed, 1, k - 1)))
<1> USE DEF Proposal
<1> DEFINE front == SubSeq(old, 1, Len(old) - 1)
           com == prompt \o front
           drafts == SubSeq(blk, 2, acc + 1)
<1>1. /\ B \in Nat /\ B > 0 /\ MaxNew \in Nat /\ ContextLen \in Nat
      /\ Len(old) \in Nat /\ Len(prompt) \in Nat /\ acc \in Nat
      /\ \A i \in 1..Len(old) : old[i] \in Token
      /\ \A i \in 1..B : blk[i] \in Token
  BY DecoderAssumption, LenProperties, ElementOfSeq
<1>2. /\ front \in Seq(Token) /\ Len(front) = Len(old) - 1
      /\ \A i \in 1..(Len(old) - 1) : front[i] = old[i]
  <2>1. Len(old) - 1 \in Nat /\ Len(old) - 1 <= Len(old)
    BY <1>1
  <2> QED
    BY <2>1, Prefix, Zenon
<1>3. com \in Seq(Token) /\ Len(com) = Len(prompt) + (Len(old) - 1)
  <2>1. com \in Seq(Token) /\ Len(com) = Len(prompt) + Len(front)
    BY <1>2, Cat, Zenon
  <2> QED
    BY <2>1, <1>2, Zenon
<1>4. \A j \in 1..B :
         /\ SubSeq(blk, 1, j) \in Seq(Token) /\ Len(SubSeq(blk, 1, j)) = j
         /\ \A i \in 1..j : SubSeq(blk, 1, j)[i] = blk[i]
  <2>1. \A j \in 1..B : j \in Nat /\ j <= Len(blk)
    BY <1>1
  <2> QED
    BY <2>1, Prefix, Zenon
<1>5. \A j \in 1..B : predict[j] \in Token
                     /\ predict[j] = Target(com \o SubSeq(blk, 1, j))
  <2> SUFFICES ASSUME NEW j \in 1..B
               PROVE  predict[j] \in Token /\ predict[j] = Target(com \o SubSeq(blk, 1, j))
    OBVIOUS
  <2>1. com \o SubSeq(blk, 1, j) \in Seq(Token)
        /\ Len(com \o SubSeq(blk, 1, j)) = Len(com) + j
    <3>1. com \in Seq(Token) /\ SubSeq(blk, 1, j) \in Seq(Token)
      BY <1>3, <1>4, Zenon
    <3> HIDE DEF com
    <3>2. com \o SubSeq(blk, 1, j) \in Seq(Token)
          /\ Len(com \o SubSeq(blk, 1, j)) = Len(com) + Len(SubSeq(blk, 1, j))
      BY <3>1, Cat, Zenon
    <3>3. Len(SubSeq(blk, 1, j)) = j
      BY <1>4, Zenon
    <3> QED
      BY <3>2, <3>3, Zenon
  <2>2. Len(com \o SubSeq(blk, 1, j)) <= ContextLen
    BY <2>1, <1>1, <1>3
  <2>3. Target(com \o SubSeq(blk, 1, j)) \in Token
    BY <2>1, <2>2, TargetType
  <2> QED
    BY <2>3
<1>6. /\ drafts \in Seq(Token) /\ Len(drafts) = acc
      /\ \A i \in 1..acc : drafts[i] = blk[i + 1]
  <2>1. 1 \in Nat /\ 1 + acc <= Len(blk) /\ 1 + 1 = 2 /\ 1 + acc = acc + 1
        /\ \A i \in 1..acc : 1 + i = i + 1
    BY <1>1
  <2>2. /\ SubSeq(blk, 1 + 1, 1 + acc) \in Seq(Token)
        /\ Len(SubSeq(blk, 1 + 1, 1 + acc)) = acc
        /\ \A i \in 1..acc : SubSeq(blk, 1 + 1, 1 + acc)[i] = blk[1 + i]
    <3>1. blk \in Seq(Token) /\ acc \in Nat
      BY <1>1
    <3> HIDE DEF Proposal
    <3> QED
      BY <3>1, <2>1, Segment, Zenon
  <2> QED
    BY <2>1, <2>2
<1> HIDE DEF front, com, drafts
<1>7. /\ proposed \in Seq(Token) /\ Len(proposed) = acc + 1
      /\ \A i \in 1..acc : proposed[i] = blk[i + 1]
      /\ \A i \in 1..(acc + 1) : proposed[i] = predict[i] /\ proposed[i] \in Token
  <2>0. acc + 1 \in 1..B
    BY <1>1
  <2>1. predict[acc + 1] \in Token
    BY <2>0, <1>5, Zenon
  <2>2. proposed = Append(drafts, predict[acc + 1])
    BY DEF drafts
  <2>3. /\ proposed \in Seq(Token) /\ Len(proposed) = acc + 1
        /\ \A i \in 1..acc : proposed[i] = drafts[i]
        /\ proposed[acc + 1] = predict[acc + 1]
    <3>1. /\ Append(drafts, predict[acc + 1]) \in Seq(Token)
          /\ Len(Append(drafts, predict[acc + 1])) = Len(drafts) + 1
          /\ \A i \in 1..Len(drafts) : Append(drafts, predict[acc + 1])[i] = drafts[i]
          /\ Append(drafts, predict[acc + 1])[Len(drafts) + 1] = predict[acc + 1]
      BY <2>1, <1>6, AppendProperties
    <3> QED
      BY <3>1, <2>2, <1>6, Zenon
  <2>4. \A i \in 1..acc : proposed[i] = blk[i + 1] /\ blk[i + 1] = predict[i]
    BY <2>3, <1>6
  <2>5. \A i \in 1..(acc + 1) : i \in 1..acc \/ i = acc + 1
    BY <1>1
  <2>6. \A i \in 1..(acc + 1) : proposed[i] = predict[i]
    BY <2>3, <2>4, <2>5
  <2> QED
    BY <2>3, <2>4, <2>6, ElementOfSeq
<1>8. ASSUME NEW k \in 1..(acc + 1)
      PROVE  com \o SubSeq(blk, 1, k) = prompt \o (old \o SubSeq(proposed, 1, k - 1))
  <2> DEFINE b == SubSeq(blk, 1, k)
             q == SubSeq(proposed, 1, k - 1)
  <2>1. k \in 1..B /\ k \in Nat
    BY <1>1
  <2>2. b \in Seq(Token) /\ Len(b) = k /\ \A i \in 1..k : b[i] = blk[i]
    BY <1>4, <2>1
  <2>3. q \in Seq(Token) /\ Len(q) = k - 1 /\ \A i \in 1..(k - 1) : q[i] = proposed[i]
    <3>1. k - 1 \in Nat /\ k - 1 <= Len(proposed)
      BY <1>1, <1>7
    <3> QED
      BY <3>1, <1>7, Prefix, Zenon
  <2> HIDE DEF b, q
  <2>4. /\ front \o b \in Seq(Token) /\ Len(front \o b) = (Len(old) - 1) + k
        /\ \A i \in 1..(Len(old) - 1) : (front \o b)[i] = front[i]
        /\ \A i \in 1..k : (front \o b)[(Len(old) - 1) + i] = b[i]
    <3>1. /\ front \o b \in Seq(Token) /\ Len(front \o b) = Len(front) + Len(b)
          /\ \A i \in 1..Len(front) : (front \o b)[i] = front[i]
          /\ \A i \in 1..Len(b) : (front \o b)[Len(front) + i] = b[i]
      BY <1>2, <2>2, Cat, Zenon
    <3> QED
      BY <3>1, <1>2, <2>2, Zenon
  <2>5. /\ old \o q \in Seq(Token) /\ Len(old \o q) = Len(old) + (k - 1)
        /\ \A i \in 1..Len(old) : (old \o q)[i] = old[i]
        /\ \A i \in 1..(k - 1) : (old \o q)[Len(old) + i] = q[i]
    <3>1. /\ old \o q \in Seq(Token) /\ Len(old \o q) = Len(old) + Len(q)
          /\ \A i \in 1..Len(old) : (old \o q)[i] = old[i]
          /\ \A i \in 1..Len(q) : (old \o q)[Len(old) + i] = q[i]
      BY <2>3, Cat, Zenon
    <3> QED
      BY <3>1, <2>3, Zenon
  <2>6. ASSUME NEW i \in 1..Len(front \o b) PROVE (front \o b)[i] = (old \o q)[i]
    <3>0. i \in 1..((Len(old) - 1) + k)
      BY <2>4
    <3>1. CASE i <= Len(old) - 1
      <4>1. i \in 1..(Len(old) - 1) /\ i \in 1..Len(old)
        BY <3>0, <3>1, <1>1, <2>1
      <4> QED
        BY <4>1, <2>4, <2>5, <1>2, Zenon
    <3>2. CASE i = Len(old)
      <4>1. 1 \in 1..k /\ i = (Len(old) - 1) + 1 /\ i \in 1..Len(old)
        BY <3>2, <1>1, <2>1
      <4>2. (front \o b)[(Len(old) - 1) + 1] = b[1] /\ b[1] = blk[1]
        BY <4>1, <2>2, <2>4, Zenon
      <4>3. (old \o q)[i] = old[i]
        BY <4>1, <2>5, Zenon
      <4> QED
        BY <4>1, <4>2, <4>3, <3>2, Zenon
    <3>3. CASE i > Len(old)
      <4> DEFINE j == i - Len(old)
      <4>1. /\ j \in 1..(k - 1) /\ j \in 1..acc /\ j + 1 \in 1..k
            /\ i = (Len(old) - 1) + (j + 1) /\ i = Len(old) + j
        BY <3>0, <3>3, <1>1, <2>1
      <4> HIDE DEF j
      <4>2. (front \o b)[(Len(old) - 1) + (j + 1)] = b[j + 1]
        BY <4>1, <2>4, Zenon
      <4>3. (old \o q)[Len(old) + j] = q[j]
        BY <4>1, <2>5, Zenon
      <4>4. b[j + 1] = blk[j + 1] /\ q[j] = proposed[j] /\ proposed[j] = blk[j + 1]
        BY <4>1, <2>2, <2>3, <1>7, Zenon
      <4> QED
        BY <4>1, <4>2, <4>3, <4>4, Zenon
    <3>4. i <= Len(old) - 1 \/ i = Len(old) \/ i > Len(old)
      BY <3>0, <1>1
    <3> QED
      BY <3>1, <3>2, <3>3, <3>4, Zenon
  <2>7. front \o b = old \o q
    <3>1. Len(front \o b) = Len(old \o q)
      BY <2>4, <2>5, <1>1, <2>1
    <3>2. front \o b \in Seq(Token) /\ old \o q \in Seq(Token)
      BY <2>4, <2>5, Zenon
    <3>3. \A i \in 1..Len(front \o b) : (front \o b)[i] = (old \o q)[i]
      BY <2>6, Zenon
    <3> QED
      BY <3>1, <3>2, <3>3, SeqEqual, Zenon
  <2>8. com \o b = prompt \o (front \o b)
    <3>1. front \in Seq(Token) /\ b \in Seq(Token)
      BY <1>2, <2>2, Zenon
    <3>2. (prompt \o front) \o b = prompt \o (front \o b)
      BY <3>1, Assoc, ZenonT(60)
    <3> QED
      BY <3>2, Zenon DEF com
  <2> QED
    BY <2>7, <2>8, Zenon DEF b, q
<1>9. \A k \in 1..(acc + 1) :
         proposed[k] = Target(prompt \o (old \o SubSeq(proposed, 1, k - 1)))
  <2> SUFFICES ASSUME NEW k \in 1..(acc + 1)
               PROVE  proposed[k] = Target(prompt \o (old \o SubSeq(proposed, 1, k - 1)))
    OBVIOUS
  <2>1. k \in 1..B
    BY <1>1
  <2>2. proposed[k] = Target(com \o SubSeq(blk, 1, k))
    BY <1>5, <1>7, <2>1
  <2> QED
    BY <2>2, <1>8
<1> QED
  BY <1>7, <1>9

(* Appending to a response tokens the target predicts, up to the first one *)
(* that finishes it, is a continuation the target alone would produce.     *)
LEMMA AppendedContinues ==
    ASSUME NEW prompt \in Seq(Token), NEW old \in Seq(Token), Len(old) < MaxNew,
           NEW proposed \in Seq(Token), Len(proposed) > 0,
           \A k \in 1..Len(proposed) :
              proposed[k] = Target(prompt \o (old \o SubSeq(proposed, 1, k - 1))),
           NEW n \in 1..Len(proposed),
           \A k \in 1..(n - 1) : ~CheckFinished(old \o proposed, Len(old) + k),
           NEW new, new = old \o SubSeq(proposed, 1, n)
    PROVE  /\ new \in Seq(Token) /\ Len(new) \in 1..MaxNew
           /\ Abstract!Continues(prompt, old, new)
<1> DEFINE q == SubSeq(proposed, 1, n)
<1>1. /\ Len(old) \in Nat /\ Len(proposed) \in Nat /\ n \in Nat /\ n > 0
      /\ n <= Len(proposed) /\ MaxNew \in Nat
  BY DecoderAssumption, LenProperties
<1>2. q \in Seq(Token) /\ Len(q) = n /\ \A i \in 1..n : q[i] = proposed[i]
  BY <1>1, Prefix, Zenon
<1> HIDE DEF q
<1>3. /\ new \in Seq(Token) /\ Len(new) = Len(old) + n
      /\ \A i \in 1..Len(old) : new[i] = old[i]
      /\ \A i \in 1..n : new[Len(old) + i] = q[i]
  <2>1. new = old \o q
    BY DEF q
  <2>2. /\ old \o q \in Seq(Token) /\ Len(old \o q) = Len(old) + Len(q)
        /\ \A i \in 1..Len(old) : (old \o q)[i] = old[i]
        /\ \A i \in 1..Len(q) : (old \o q)[Len(old) + i] = q[i]
    BY <1>2, Cat, Zenon
  <2> QED
    BY <2>1, <2>2, <1>2, Zenon
<1>4. /\ old \o proposed \in Seq(Token)
      /\ \A i \in 1..Len(proposed) : (old \o proposed)[Len(old) + i] = proposed[i]
  BY Cat, Zenon
<1>5. \A k \in 1..(n - 1) : ~CheckFinished(new, Len(old) + k)
  <2> SUFFICES ASSUME NEW k \in 1..(n - 1) PROVE ~CheckFinished(new, Len(old) + k)
    OBVIOUS
  <2>1. k \in 1..n /\ k \in 1..Len(proposed)
    BY <1>1
  <2>2. new[Len(old) + k] = (old \o proposed)[Len(old) + k]
    BY <2>1, <1>2, <1>3, <1>4, Zenon
  <2> QED
    BY <2>2, Zenon DEF CheckFinished
<1>6. Len(new) \in 1..MaxNew
  <2>1. CASE n = 1
    BY <2>1, <1>1, <1>3
  <2>2. CASE n > 1
    <3>1. n - 1 \in 1..(n - 1) /\ Len(old) + (n - 1) \in Nat
      BY <2>2, <1>1
    <3>2. ~(Len(old) + (n - 1) >= MaxNew)
      BY <3>1, <1>5, Zenon DEF CheckFinished
    <3> QED
      BY <3>1, <3>2, <1>1, <1>3
  <2> QED
    BY <2>1, <2>2, <1>1
<1>7. SubSeq(new, 1, Len(old)) = old
  <2>1. Len(old) <= Len(new)
    BY <1>1, <1>3
  <2>2. /\ SubSeq(new, 1, Len(old)) \in Seq(Token)
        /\ Len(SubSeq(new, 1, Len(old))) = Len(old)
        /\ \A i \in 1..Len(old) : SubSeq(new, 1, Len(old))[i] = new[i]
    BY <2>1, <1>1, <1>3, Prefix, Zenon
  <2>3. \A i \in 1..Len(SubSeq(new, 1, Len(old))) : SubSeq(new, 1, Len(old))[i] = old[i]
    BY <2>2, <1>3, Zenon
  <2> QED
    BY <2>2, <2>3, SeqEqual, Zenon
<1>8. ASSUME NEW k \in 1..n
      PROVE  SubSeq(new, 1, Len(old) + (k - 1)) = old \o SubSeq(proposed, 1, k - 1)
  <2> DEFINE x == SubSeq(new, 1, Len(old) + (k - 1))
             y == SubSeq(proposed, 1, k - 1)
             m == Len(old) + (k - 1)
  <2>1. /\ k - 1 \in Nat /\ k - 1 <= Len(proposed)
        /\ m \in Nat /\ m <= Len(new)
    BY <1>1, <1>3
  <2>2. x \in Seq(Token) /\ Len(x) = m /\ \A i \in 1..m : x[i] = new[i]
    BY <2>1, <1>3, Prefix, Zenon
  <2>3. y \in Seq(Token) /\ Len(y) = k - 1 /\ \A i \in 1..(k - 1) : y[i] = proposed[i]
    BY <2>1, Prefix, Zenon
  <2>4. m = Len(old) + (k - 1)
    OBVIOUS
  <2> HIDE DEF x, y, m
  <2>5. /\ old \o y \in Seq(Token) /\ Len(old \o y) = Len(old) + Len(y)
        /\ \A i \in 1..Len(old) : (old \o y)[i] = old[i]
        /\ \A i \in 1..Len(y) : (old \o y)[Len(old) + i] = y[i]
    BY <2>3, Cat, Zenon
  <2>6. Len(x) = Len(old \o y)
    BY <2>2, <2>3, <2>4, <2>5, Zenon
  <2>7. ASSUME NEW i \in 1..Len(x) PROVE x[i] = (old \o y)[i]
    <3>0. i \in 1..m
      BY <2>2
    <3>1. CASE i <= Len(old)
      <4>1. i \in 1..Len(old)
        BY <3>0, <3>1, <2>1, <1>1
      <4> QED
        BY <4>1, <3>0, <2>2, <2>5, <1>3, Zenon
    <3>2. CASE i > Len(old)
      <4> DEFINE j == i - Len(old)
      <4>1. j \in 1..(k - 1) /\ j \in 1..n /\ i = Len(old) + j
        BY <3>0, <3>2, <2>1, <2>4, <1>1, SMTT(60)
      <4> HIDE DEF j
      <4>2. new[Len(old) + j] = q[j] /\ q[j] = proposed[j]
        BY <4>1, <1>2, <1>3, Zenon
      <4>3. (old \o y)[Len(old) + j] = y[j] /\ y[j] = proposed[j]
        BY <4>1, <2>3, <2>5, Zenon
      <4> QED
        BY <3>0, <4>1, <4>2, <4>3, <2>2, Zenon
    <3>3. i <= Len(old) \/ i > Len(old)
      BY <3>0, <2>1, <1>1
    <3> QED
      BY <3>1, <3>2, <3>3, Zenon
  <2>8. \A i \in 1..Len(x) : x[i] = (old \o y)[i]
    BY <2>7, Zenon
  <2> QED
    BY <2>2, <2>5, <2>6, <2>8, SeqEqual, Zenon DEF x, y
<1>9. ASSUME NEW i \in (Len(old) + 1)..Len(new)
      PROVE  new[i] = Target(prompt \o SubSeq(new, 1, i - 1))
  <2> DEFINE k == i - Len(old)
  <2>1. /\ k \in 1..n /\ k \in 1..Len(proposed) /\ i = Len(old) + k
        /\ i - 1 = Len(old) + (k - 1)
    BY <1>1, <1>3
  <2> HIDE DEF k
  <2>2. new[Len(old) + k] = q[k] /\ q[k] = proposed[k]
    BY <2>1, <1>2, <1>3, Zenon
  <2>3. SubSeq(new, 1, Len(old) + (k - 1)) = old \o SubSeq(proposed, 1, k - 1)
    BY <2>1, <1>8, Zenon
  <2>4. proposed[k] = Target(prompt \o (old \o SubSeq(proposed, 1, k - 1)))
    BY <2>1, Zenon
  <2> QED
    BY <2>1, <2>2, <2>3, <2>4, Zenon
<1>10. ASSUME NEW i \in (Len(old) + 1)..(Len(new) - 1)
       PROVE  ~Abstract!Finishes(new, i)
  <2> DEFINE k == i - Len(old)
  <2>1. k \in 1..(n - 1) /\ i = Len(old) + k
    BY <1>1, <1>3
  <2> HIDE DEF k
  <2> QED
    BY <2>1, <1>5, Zenon DEF CheckFinished, Abstract!Finishes
<1>11. Len(new) > Len(old)
  BY <1>1, <1>3
<1> QED
  BY <1>3, <1>6, <1>7, <1>9, <1>10, <1>11, Zenon DEF Abstract!Continues

-----------------------------------------------------------------------------
(* The inductive invariant.                                                *)

(* A request that is not finished has room for a token.                    *)
Unfinished == \A r \in Req : ~done[r] => Len(out[r]) < MaxNew

Inv == TypeOK /\ CurrentIsLast /\ Unfinished

(* Prefill, of a new or a retracted request, continues its response.       *)
LEMMA PrefillContinues ==
    ASSUME Inv, NEW r \in Req, Prefill(r)
    PROVE  \E new : /\ Result(r, new) /\ ~done[r]
                    /\ new \in Seq(Token) /\ Len(new) \in 1..MaxNew
                    /\ Abstract!Continues(Prompt[r], out[r], new)
<1> DEFINE prompt == Prompt[r]
           old == out[r]
           t == Target(prompt \o old)
           proposed == <<t>>
<1>1. /\ prompt \in Seq(Token) /\ old \in Seq(Token) /\ Len(old) < MaxNew
      /\ ~done[r] /\ Len(prompt) + MaxNew + B <= ContextLen
  BY DecoderAssumption, Zenon DEF Inv, TypeOK, Unfinished, Prefill
<1>2. Result(r, Append(old, t))
  BY DEF Prefill
<1> HIDE DEF prompt, old, t
<1>3. prompt \o old \in Seq(Token) /\ Len(prompt \o old) = Len(prompt) + Len(old)
  BY <1>1, Cat, Zenon
<1>4. Len(prompt \o old) <= ContextLen /\ Len(old) \in Nat
  <2>1. Len(prompt) \in Nat /\ Len(old) \in Nat
    BY <1>1, LenProperties
  <2> QED
    BY <2>1, <1>1, <1>3, DecoderAssumption
<1>5. t \in Token
  BY <1>3, <1>4, TargetType, Zenon DEF t
<1>6. /\ proposed \in Seq(Token) /\ Len(proposed) = 1 /\ proposed[1] = t
      /\ SubSeq(proposed, 1, 0) = <<>> /\ SubSeq(proposed, 1, 1) = proposed
  <2>1. proposed \in Seq(Token) /\ Len(proposed) = 1 /\ proposed[1] = t
    BY <1>5
  <2>2. SubSeq(proposed, 1, 0) = <<>>
    BY SubSeqEmpty
  <2>3. 1 \in Nat /\ 1 <= Len(proposed)
    BY <2>1
  <2> HIDE DEF proposed
  <2>4. /\ SubSeq(proposed, 1, 1) \in Seq(Token) /\ Len(SubSeq(proposed, 1, 1)) = 1
        /\ \A i \in 1..1 : SubSeq(proposed, 1, 1)[i] = proposed[i]
    BY <2>1, <2>3, Prefix, Zenon
  <2>5. SubSeq(proposed, 1, 1) = proposed
    BY <2>1, <2>4, SeqEqual, Zenon
  <2> QED
    BY <2>1, <2>2, <2>5, Zenon
<1>7. old \o <<>> = old /\ Append(old, t) = old \o SubSeq(proposed, 1, 1)
  <2>1. old \o <<>> = old
    BY <1>1, ConcatEmptySeq, Zenon
  <2>2. Append(old, t) = old \o <<t>>
    BY <1>1, <1>5, AppendIsConcat, Zenon
  <2> QED
    BY <2>1, <2>2, <1>6, Zenon
<1> HIDE DEF proposed
<1>8. \A k \in 1..Len(proposed) :
         proposed[k] = Target(prompt \o (old \o SubSeq(proposed, 1, k - 1)))
  <2> SUFFICES ASSUME NEW k \in 1..Len(proposed)
               PROVE  proposed[k] = Target(prompt \o (old \o SubSeq(proposed, 1, k - 1)))
    OBVIOUS
  <2>1. k = 1 /\ k - 1 = 0
    BY <1>6
  <2> QED
    BY <2>1, <1>6, <1>7, Zenon DEF t
<1>9. /\ 1 \in 1..Len(proposed) /\ Len(proposed) > 0
      /\ \A k \in 1..(1 - 1) : ~CheckFinished(old \o proposed, Len(old) + k)
  BY <1>6
<1>10. /\ Append(old, t) \in Seq(Token) /\ Len(Append(old, t)) \in 1..MaxNew
       /\ Abstract!Continues(prompt, old, Append(old, t))
  BY <1>1, <1>6, <1>7, <1>8, <1>9, AppendedContinues, Zenon
<1> QED
  BY <1>1, <1>2, <1>10, Zenon DEF prompt, old

(* Verify, whatever was drafted, continues the response.                   *)
LEMMA VerifyContinues ==
    ASSUME Inv, NEW r \in Req, Verify(r)
    PROVE  \E new : /\ Result(r, new) /\ ~done[r]
                    /\ new \in Seq(Token) /\ Len(new) \in 1..MaxNew
                    /\ Abstract!Continues(Prompt[r], out[r], new)
<1> DEFINE prompt == Prompt[r]
           old == out[r]
           blk == block[r]
           predict == TargetPredict(r)
           acc == AcceptLen(blk, predict)
           proposed == Append(SubSeq(blk, 2, acc + 1), predict[acc + 1])
           n == Appended(old, proposed)
           new == old \o SubSeq(proposed, 1, n)
<1>1. /\ prompt \in Seq(Token) /\ old \in Seq(Token)
      /\ blk \in Seq(Token) /\ Len(blk) = B
      /\ ~done[r] /\ Len(old) < MaxNew /\ old # <<>>
      /\ SubSeq(blk, 1, 1) = <<old[Len(old)]>>
      /\ Len(prompt) + MaxNew + B <= ContextLen
  <2>1. at[r] = "drafted" /\ at[r] # "waiting"
    BY DEF Verify
  <2> QED
    BY <2>1, DecoderAssumption, Zenon DEF Inv, TypeOK, CurrentIsLast, Unfinished
<1>2. Result(r, new)
  BY DEF Verify
<1>3. \A j \in 1..B :
         predict[j] = Target((prompt \o SubSeq(old, 1, Len(old) - 1))
                                 \o SubSeq(blk, 1, j))
  BY DEF TargetPredict, Committed
<1>4. acc \in 0..(B - 1) /\ \A k \in 1..acc : blk[k + 1] = predict[k]
  BY AcceptLenIs, Zenon
<1> HIDE DEF prompt, old, blk, predict, acc, proposed, n, new
<1>5. Len(old) > 0 /\ Len(old) <= MaxNew /\ Len(old) \in Nat
  BY <1>1, DecoderAssumption
<1>6. blk[1] = old[Len(old)]
  <2>1. 1 \in Nat /\ 1 <= Len(blk)
    BY <1>1, DecoderAssumption
  <2>2. SubSeq(blk, 1, 1)[1] = blk[1]
    <3>1. 1 \in 1..1
      OBVIOUS
    <3> QED
      BY <2>1, <3>1, <1>1, Prefix, Zenon
  <2>3. <<old[Len(old)]>>[1] = old[Len(old)]
    OBVIOUS
  <2> QED
    BY <2>2, <2>3, <1>1
<1>7. proposed = Append(SubSeq(blk, 2, acc + 1), predict[acc + 1])
  BY DEF proposed
<1>8. /\ proposed \in Seq(Token) /\ Len(proposed) = acc + 1
      /\ \A k \in 1..(acc + 1) :
            proposed[k] = Target(prompt \o (old \o SubSeq(proposed, 1, k - 1)))
  <2>1. Proposal(prompt, old, blk, predict, acc, proposed)
    BY <1>1, <1>3, <1>4, <1>5, <1>6, <1>7, Zenon DEF Proposal
  <2> QED
    BY <2>1, ProposedContinues
<1>9. Len(proposed) > 0 /\ Len(proposed) \in Nat
  BY <1>4, <1>8, DecoderAssumption
<1>10. n \in 1..Len(proposed)
       /\ \A k \in 1..(n - 1) : ~CheckFinished(old \o proposed, Len(old) + k)
  BY <1>9, AppendedIs, Zenon DEF n
<1>11. new = old \o SubSeq(proposed, 1, n)
  BY DEF new
<1>12. \A k \in 1..Len(proposed) :
          proposed[k] = Target(prompt \o (old \o SubSeq(proposed, 1, k - 1)))
  BY <1>8, Zenon
<1>13. /\ new \in Seq(Token) /\ Len(new) \in 1..MaxNew
       /\ Abstract!Continues(prompt, old, new)
  BY <1>1, <1>8, <1>9, <1>10, <1>11, <1>12, AppendedContinues, Zenon
<1> QED
  BY <1>1, <1>2, <1>13, Zenon DEF prompt, old

(* A result that continues the response keeps the invariant.               *)
LEMMA ResultInv ==
    ASSUME Inv, NEW r \in Req, NEW new \in Seq(Token), Len(new) \in 1..MaxNew,
           Result(r, new),
           block' = block \/ block' = [block EXCEPT ![r] = <<>>]
    PROVE  Inv'
<1> DEFINE fin == CheckFinished(new, Len(new))
<1>1. /\ out' = [out EXCEPT ![r] = new]
      /\ done' = [done EXCEPT ![r] = fin]
      /\ at' = [at EXCEPT ![r] = IF fin THEN "waiting" ELSE "running"]
      /\ cur' = [cur EXCEPT ![r] = IF fin THEN <<>> ELSE <<new[Len(new)]>>]
  BY DEF Result
<1>2. fin \in BOOLEAN /\ (~fin => Len(new) < MaxNew)
  BY DecoderAssumption DEF CheckFinished
<1>3. new[Len(new)] \in Token /\ <<new[Len(new)]>> \in Seq(Token) /\ new # <<>>
  BY DecoderAssumption
<1> HIDE DEF fin
<1>4. ASSUME NEW s \in Req, s # r
      PROVE  /\ out'[s] = out[s] /\ done'[s] = done[s] /\ at'[s] = at[s]
             /\ cur'[s] = cur[s] /\ block'[s] = block[s]
  BY <1>1, <1>4 DEF Inv, TypeOK
<1>5. /\ out'[r] = new /\ done'[r] = fin
      /\ at'[r] = (IF fin THEN "waiting" ELSE "running")
      /\ cur'[r] = (IF fin THEN <<>> ELSE <<new[Len(new)]>>)
      /\ block'[r] = block[r] \/ block'[r] = <<>>
  BY <1>1 DEF Inv, TypeOK
<1>6. TypeOK'
  <2>1. /\ DOMAIN out' = Req /\ DOMAIN cur' = Req /\ DOMAIN block' = Req
    BY <1>1 DEF Inv, TypeOK
  <2>2. done' \in [Req -> BOOLEAN] /\ at' \in [Req -> {"waiting", "running", "drafted"}]
    BY <1>1, <1>2 DEF Inv, TypeOK
  <2>3. ASSUME NEW s \in Req
        PROVE  /\ out'[s] \in Seq(Token) /\ Len(out'[s]) <= MaxNew
               /\ cur'[s] \in Seq(Token) /\ block'[s] \in Seq(Token)
               /\ at'[s] = "drafted" => Len(block'[s]) = B
    <3>1. CASE s = r
      <4>0. <<>> \in Seq(Token)
        BY EmptySeq, Zenon
      <4>1. at'[r] # "drafted" /\ cur'[r] \in Seq(Token)
        BY <4>0, <1>3, <1>5
      <4>2. block'[r] \in Seq(Token)
        BY <4>0, <1>5, Zenon DEF Inv, TypeOK
      <4>3. Len(new) <= MaxNew
        BY DecoderAssumption
      <4> QED
        BY <3>1, <4>1, <4>2, <4>3, <1>5, Zenon
    <3>2. CASE s # r
      BY <3>2, <1>4 DEF Inv, TypeOK
    <3> QED
      BY <3>1, <3>2
  <2> QED
    BY <2>1, <2>2, <2>3 DEF TypeOK
<1>7. CurrentIsLast'
  <2> SUFFICES ASSUME NEW s \in Req, at'[s] # "waiting"
               PROVE  /\ ~done'[s] /\ out'[s] # <<>>
                      /\ cur'[s] = <<out'[s][Len(out'[s])]>>
                      /\ at'[s] = "drafted" => SubSeq(block'[s], 1, 1) = cur'[s]
    BY DEF CurrentIsLast
  <2>1. CASE s = r
    <3>1. ~fin
      BY <2>1, <1>5
    <3> QED
      BY <3>1, <2>1, <1>3, <1>5
  <2>2. CASE s # r
    BY <2>2, <1>4 DEF Inv, CurrentIsLast
  <2> QED
    BY <2>1, <2>2
<1>8. Unfinished'
  <2> SUFFICES ASSUME NEW s \in Req, ~done'[s] PROVE Len(out'[s]) < MaxNew
    BY DEF Unfinished
  <2>1. CASE s = r
    BY <2>1, <1>2, <1>5
  <2>2. CASE s # r
    BY <2>2, <1>4 DEF Inv, Unfinished
  <2> QED
    BY <2>1, <2>2
<1> QED
  BY <1>6, <1>7, <1>8 DEF Inv

(* Drafting keeps the invariant: the block starts with the current token.  *)
LEMMA DraftInv ==
    ASSUME Inv, NEW r \in Req, Draft(r)
    PROVE  Inv'
<1>1. PICK drafted \in [1..(B - 1) -> Token] :
         block' = [block EXCEPT ![r] = cur[r] \o drafted]
  BY DEF Draft
<1>2. /\ at[r] = "running" /\ at' = [at EXCEPT ![r] = "drafted"]
      /\ out' = out /\ done' = done /\ cur' = cur
  BY DEF Draft
<1>3. /\ drafted \in Seq(Token) /\ Len(drafted) = B - 1
  BY DecoderAssumption
<1>4. /\ ~done[r] /\ out[r] # <<>> /\ cur[r] \in Seq(Token) /\ Len(cur[r]) = 1
      /\ cur[r] = <<out[r][Len(out[r])]>>
  <2>1. /\ ~done[r] /\ out[r] # <<>> /\ cur[r] \in Seq(Token)
        /\ cur[r] = <<out[r][Len(out[r])]>>
    BY <1>2 DEF Inv, TypeOK, CurrentIsLast
  <2>2. Len(<<out[r][Len(out[r])]>>) = 1
    OBVIOUS
  <2> QED
    BY <2>1, <2>2, Zenon
<1> DEFINE c == cur[r]
           b == c \o drafted
<1>5. b \in Seq(Token) /\ Len(b) = Len(c) + Len(drafted)
      /\ \A i \in 1..Len(c) : b[i] = c[i]
  BY <1>3, <1>4, Cat, Zenon
<1>6. Len(b) = B /\ 1 \in Nat /\ 1 <= Len(b)
  BY <1>3, <1>4, <1>5, DecoderAssumption
<1>7. SubSeq(b, 1, 1) = c
  <2> HIDE DEF b, c
  <2>1. /\ SubSeq(b, 1, 1) \in Seq(Token) /\ Len(SubSeq(b, 1, 1)) = 1
        /\ \A i \in 1..1 : SubSeq(b, 1, 1)[i] = b[i]
    BY <1>5, <1>6, Prefix, Zenon
  <2>2. c \in Seq(Token) /\ Len(c) = 1
    BY <1>4 DEF c
  <2>3. Len(SubSeq(b, 1, 1)) = Len(c)
        /\ \A i \in 1..Len(SubSeq(b, 1, 1)) : SubSeq(b, 1, 1)[i] = c[i]
    BY <2>1, <2>2, <1>5, Zenon
  <2> QED
    BY <2>1, <2>2, <2>3, SeqEqual, Zenon
<1>8. block'[r] = b /\ at'[r] = "drafted"
      /\ \A s \in Req : s # r => block'[s] = block[s] /\ at'[s] = at[s]
  BY <1>1, <1>2 DEF Inv, TypeOK
<1> HIDE DEF b
<1>9. TypeOK'
  <2>1. DOMAIN block' = Req /\ at' \in [Req -> {"waiting", "running", "drafted"}]
    BY <1>1, <1>2 DEF Inv, TypeOK
  <2>2. ASSUME NEW s \in Req
        PROVE  /\ block'[s] \in Seq(Token)
               /\ at'[s] = "drafted" => Len(block'[s]) = B
    BY <1>5, <1>6, <1>8 DEF Inv, TypeOK
  <2> QED
    BY <1>2, <2>1, <2>2 DEF Inv, TypeOK
<1>10. CurrentIsLast'
  <2> SUFFICES ASSUME NEW s \in Req, at'[s] # "waiting"
               PROVE  /\ ~done'[s] /\ out'[s] # <<>>
                      /\ cur'[s] = <<out'[s][Len(out'[s])]>>
                      /\ at'[s] = "drafted" => SubSeq(block'[s], 1, 1) = cur'[s]
    BY DEF CurrentIsLast
  <2>1. CASE s = r
    BY <2>1, <1>2, <1>4, <1>7, <1>8
  <2>2. CASE s # r
    BY <2>2, <1>2, <1>8 DEF Inv, CurrentIsLast
  <2> QED
    BY <2>1, <2>2
<1>11. Unfinished'
  BY <1>2 DEF Inv, Unfinished
<1> QED
  BY <1>9, <1>10, <1>11 DEF Inv

(* Retraction keeps the invariant: the text stays, the row is dropped.     *)
LEMMA RetractInv ==
    ASSUME Inv, NEW r \in Req, Retract(r)
    PROVE  Inv'
<1>1. /\ at' = [at EXCEPT ![r] = "waiting"] /\ cur' = [cur EXCEPT ![r] = <<>>]
      /\ out' = out /\ done' = done /\ block' = block
  BY DEF Retract
<1>2. /\ at'[r] = "waiting" /\ cur'[r] = <<>>
      /\ \A s \in Req : s # r => at'[s] = at[s] /\ cur'[s] = cur[s]
  BY <1>1 DEF Inv, TypeOK
<1>3. TypeOK'
  BY <1>1, <1>2 DEF Inv, TypeOK
<1>4. CurrentIsLast'
  BY <1>1, <1>2 DEF Inv, CurrentIsLast
<1>5. Unfinished'
  BY <1>1 DEF Inv, Unfinished
<1> QED
  BY <1>3, <1>4, <1>5 DEF Inv

(* Every step keeps the invariant.                                         *)
LEMMA InvStep == Inv /\ [Next]_vars => Inv'
<1> SUFFICES ASSUME Inv, [Next]_vars PROVE Inv'
  OBVIOUS
<1>1. ASSUME NEW r \in Req, Prefill(r) PROVE Inv'
  <2>1. block' = block
    BY <1>1 DEF Prefill
  <2> QED
    BY <1>1, <2>1, PrefillContinues, ResultInv
<1>2. ASSUME NEW r \in Req, Draft(r) PROVE Inv'
  BY <1>2, DraftInv
<1>3. ASSUME NEW r \in Req, Verify(r) PROVE Inv'
  <2>1. block' = [block EXCEPT ![r] = <<>>]
    BY <1>3 DEF Verify
  <2> QED
    BY <1>3, <2>1, VerifyContinues, ResultInv
<1>4. ASSUME NEW r \in Req, Retract(r) PROVE Inv'
  BY <1>4, RetractInv
<1>5. CASE UNCHANGED vars
  BY <1>5 DEF vars, Inv, TypeOK, CurrentIsLast, Unfinished
<1> QED
  BY <1>1, <1>2, <1>3, <1>4, <1>5 DEF Next, Step, Idle

(* The initial states satisfy the invariant.                               *)
LEMMA InvInit == Init => Inv
<1> SUFFICES ASSUME Init PROVE Inv
  OBVIOUS
<1>1. TypeOK
  BY DecoderAssumption DEF Init, TypeOK
<1>2. CurrentIsLast
  BY DEF Init, CurrentIsLast
<1>3. Unfinished
  BY DecoderAssumption DEF Init, Unfinished
<1> QED
  BY <1>1, <1>2, <1>3 DEF Inv

(* Responses, rows and blocks are well formed, and no verify step carries  *)
(* a response past max_new_tokens.                                         *)
THEOREM DecoderTypeCorrect == Spec => []TypeOK
<1>1. Inv => TypeOK
  BY DEF Inv
<1> QED
  BY <1>1, InvInit, InvStep, PTL DEF Spec

(* Every block starts with the last token of its response, across prefill, *)
(* verify and retraction.                                                  *)
THEOREM CurrentCorrect == Spec => []CurrentIsLast
<1>1. Inv => CurrentIsLast
  BY DEF Inv
<1> QED
  BY <1>1, InvInit, InvStep, PTL DEF Spec

(* Tokens of the target stay tokens of the target when a response is       *)
(* continued.                                                              *)
LEMMA LosslessContinued ==
    ASSUME NEW prompt, NEW old \in Seq(Token), NEW new \in Seq(Token),
           Abstract!Continues(prompt, old, new),
           \A i \in 1..Len(old) : old[i] = Target(prompt \o SubSeq(old, 1, i - 1))
    PROVE  \A i \in 1..Len(new) : new[i] = Target(prompt \o SubSeq(new, 1, i - 1))
<1>1. /\ Len(new) > Len(old) /\ SubSeq(new, 1, Len(old)) = old
      /\ \A i \in (Len(old) + 1)..Len(new) :
            new[i] = Target(prompt \o SubSeq(new, 1, i - 1))
  BY Zenon DEF Abstract!Continues
<1>2. Len(new) \in Nat /\ Len(old) \in Nat
  BY LenProperties
<1>3. \A i \in 1..Len(old) : old[i] = new[i]
  <2>1. Len(old) <= Len(new)
    BY <1>1, <1>2
  <2>2. \A i \in 1..Len(old) : SubSeq(new, 1, Len(old))[i] = new[i]
    BY <2>1, <1>2, Prefix, Zenon
  <2> QED
    BY <2>2, <1>1, Zenon
<1>4. ASSUME NEW i \in 1..Len(old)
      PROVE  new[i] = Target(prompt \o SubSeq(new, 1, i - 1))
  <2> DEFINE m == i - 1
  <2>1. m \in Nat /\ m <= Len(old) /\ m <= Len(new) /\ \A j \in 1..m : j \in 1..Len(old)
    BY <1>1, <1>2
  <2> HIDE DEF m
  <2>2. /\ SubSeq(old, 1, m) \in Seq(Token) /\ Len(SubSeq(old, 1, m)) = m
        /\ \A j \in 1..m : SubSeq(old, 1, m)[j] = old[j]
    BY <2>1, Prefix, Zenon
  <2>3. /\ SubSeq(new, 1, m) \in Seq(Token) /\ Len(SubSeq(new, 1, m)) = m
        /\ \A j \in 1..m : SubSeq(new, 1, m)[j] = new[j]
    BY <2>1, Prefix, Zenon
  <2>4. Len(SubSeq(old, 1, m)) = Len(SubSeq(new, 1, m))
        /\ \A j \in 1..Len(SubSeq(old, 1, m)) :
              SubSeq(old, 1, m)[j] = SubSeq(new, 1, m)[j]
    BY <2>1, <2>2, <2>3, <1>3, Zenon
  <2>5. SubSeq(old, 1, m) = SubSeq(new, 1, m)
    BY <2>2, <2>3, <2>4, SeqEqual, Zenon
  <2> QED
    BY <2>5, <1>3, Zenon DEF m
<1>5. \A i \in 1..Len(new) : i \in 1..Len(old) \/ i \in (Len(old) + 1)..Len(new)
  BY <1>1, <1>2
<1> QED
  BY <1>1, <1>4, <1>5, Zenon

(* Every step keeps the responses lossless.                                *)
LEMMA LosslessStep == Inv /\ Lossless /\ [Next]_vars => Lossless'
<1> SUFFICES ASSUME Inv, Lossless, [Next]_vars PROVE Lossless'
  OBVIOUS
<1>1. ASSUME NEW r \in Req, Prefill(r) \/ Verify(r) PROVE Lossless'
  <2>1. PICK new : /\ Result(r, new) /\ new \in Seq(Token)
                   /\ Abstract!Continues(Prompt[r], out[r], new)
    BY <1>1, PrefillContinues, VerifyContinues, Zenon
  <2>2. out'[r] = new /\ \A s \in Req : s # r => out'[s] = out[s]
    BY <2>1 DEF Result, Inv, TypeOK
  <2>3. out[r] \in Seq(Token)
    BY Zenon DEF Inv, TypeOK
  <2>4. \A i \in 1..Len(out[r]) : out[r][i] = Target(Prompt[r] \o SubSeq(out[r], 1, i - 1))
    BY Zenon DEF Lossless
  <2>5. \A i \in 1..Len(new) : new[i] = Target(Prompt[r] \o SubSeq(new, 1, i - 1))
    BY <2>1, <2>3, <2>4, LosslessContinued, Zenon
  <2>6. ASSUME NEW s \in Req
        PROVE  \A i \in 1..Len(out'[s]) :
                  out'[s][i] = Target(Prompt[s] \o SubSeq(out'[s], 1, i - 1))
    <3>1. CASE s = r
      BY <3>1, <2>2, <2>5, Zenon
    <3>2. CASE s # r
      BY <3>2, <2>2, Zenon DEF Lossless
    <3> QED
      BY <3>1, <3>2, Zenon
  <2> QED
    BY <2>6, Zenon DEF Lossless
<1>2. ASSUME out' = out PROVE Lossless'
  BY <1>2, Zenon DEF Lossless
<1>3. (\E r \in Req : Prefill(r) \/ Verify(r)) \/ out' = out
  BY DEF Next, Step, Idle, Draft, Retract, vars
<1> QED
  BY <1>1, <1>2, <1>3, Zenon

(* Speculation is lossless, for every target and every draft model.        *)
THEOREM LosslessCorrect == Spec => []Lossless
<1>1. Init => Lossless
  BY DEF Init, Lossless
<1> QED
  BY <1>1, InvInit, InvStep, LosslessStep, PTL DEF Spec

(* The decoder implements greedy decoding with the target alone: prefill   *)
(* and verify are steps of it, drafting and retraction stutter.            *)
THEOREM Refinement == Spec => ImplementsTarget
<1>1. Init => Abstract!Init
  BY DEF Init, Abstract!Init
<1>2. ASSUME Inv, [Next]_vars PROVE [Abstract!Next]_<<out, done>>
  <2>1. ASSUME NEW r \in Req, Prefill(r) \/ Verify(r) PROVE Abstract!Next
    <3>1. PICK new : /\ Result(r, new) /\ ~done[r] /\ new \in Seq(Token)
                     /\ Abstract!Continues(Prompt[r], out[r], new)
      BY <2>1, <1>2, PrefillContinues, VerifyContinues, Zenon
    <3>2. /\ out' = [out EXCEPT ![r] = new]
          /\ done' = [done EXCEPT ![r] = CheckFinished(new, Len(new))]
      BY <3>1, Zenon DEF Result
    <3>3. out'[r] = new
      BY <3>2, <1>2 DEF Inv, TypeOK
    <3>4. CheckFinished(new, Len(new)) = Abstract!Finishes(new, Len(new))
      BY Zenon DEF CheckFinished, Abstract!Finishes
    <3>5. Abstract!Emit(r)
      BY <3>1, <3>2, <3>3, <3>4, Zenon DEF Abstract!Emit
    <3> QED
      BY <3>5, Zenon DEF Abstract!Next
  <2>2. (\E r \in Req : Prefill(r) \/ Verify(r)) \/ (out' = out /\ done' = done)
    BY <1>2 DEF Next, Step, Idle, Draft, Retract, vars
  <2> QED
    BY <2>1, <2>2
<1> QED
  BY <1>1, <1>2, InvInit, InvStep, PTL DEF Spec, ImplementsTarget, Abstract!Spec
=============================================================================
