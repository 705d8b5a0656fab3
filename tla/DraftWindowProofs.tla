-------------------------- MODULE DraftWindowProofs --------------------------
(***************************************************************************)
(* The compact draft window is right for every window, page and block      *)
(* size, with and without overlap.                                         *)
(***************************************************************************)
EXTENDS DraftWindow, SequenceTheorems, TLAPS

(* Offsets in a page are unique (PageStart): the remainder of the code.    *)
LEMMA ModUnique ==
    ASSUME NEW m \in Nat \ {0}, NEW q \in Nat, NEW r \in 0..(m - 1), NEW n \in Nat, n = q * m + r
    PROVE  n % m = r
<1>1. n = m * (n \div m) + (n % m) /\ n \div m \in Nat /\ n % m \in 0..(m - 1)
  OBVIOUS
<1>2. PICK d \in Nat, e \in 0..(m - 1) : d = n \div m /\ e = n % m
  BY <1>1
<1>3. q * m + r = d * m + e
  BY <1>1, <1>2
<1>4. CASE q = d
  BY <1>2, <1>3, <1>4
<1>5. CASE q > d
  <2>1. PICK k \in Nat : q = d + 1 + k
    <3>1. q - d - 1 \in Nat /\ q = d + 1 + (q - d - 1)
      BY <1>5
    <3> QED BY <3>1
  <2>2. q * m = d * m + m + k * m /\ k * m \in Nat /\ d * m \in Nat
    BY <2>1
  <2> QED BY <1>3, <2>2
<1>6. CASE q < d
  <2>1. PICK k \in Nat : d = q + 1 + k
    <3>1. d - q - 1 \in Nat /\ d = q + 1 + (d - q - 1)
      BY <1>6
    <3> QED BY <3>1
  <2>2. d * m = q * m + m + k * m /\ k * m \in Nat /\ q * m \in Nat
    BY <2>1
  <2> QED BY <1>3, <2>2
<1> QED BY <1>4, <1>5, <1>6

(* A position is at its offset of the page it is on.                       *)
LEMMA PageFacts ==
    ASSUME NEW j \in Nat
    PROVE  /\ j % P \in 0..(P - 1)
           /\ PageStart(j) \in 0..j
           /\ PageStart(j) = j - (j % P)
           /\ \E q \in Nat : PageStart(j) = q * P
<1>1. P \in Nat \ {0}
  BY WindowAssumption
<1>2. PICK m \in Nat \ {0} : m = P
  BY <1>1
<1>3. j = m * (j \div m) + (j % m) /\ j \div m \in Nat /\ j % m \in 0..(m - 1)
  OBVIOUS
<1>4. PICK q \in Nat, e \in 0..(m - 1) : q = j \div m /\ e = j % m
  BY <1>3
<1>5. j = q * m + e /\ q * m \in Nat
  BY <1>3, <1>4
<1>6. j % P = e
  BY <1>2, <1>4, Zenon
<1>7. PageStart(j) = j - e
  BY <1>6 DEF PageStart
<1>8. PageStart(j) = q * P
  <2>1. j - e = q * m
    BY <1>5
  <2> QED BY <2>1, <1>7, <1>2, Zenon
<1>9. j - e \in 0..j /\ e \in 0..(P - 1)
  BY <1>2, <1>5
<1>10. PageStart(j) = j - (j % P)
  BY <1>6, <1>7, Zenon
<1> QED BY <1>6, <1>7, <1>8, <1>9, <1>10, Zenon

(* Positions from the start of a page to less than P beyond it are on it.  *)
LEMMA OnPage ==
    ASSUME NEW j \in Nat, NEW k \in Nat, PageStart(j) <= k, k < PageStart(j) + P
    PROVE  k % P = k - PageStart(j) /\ PageStart(k) = PageStart(j)
<1>1. P \in Nat \ {0}
  BY WindowAssumption
<1>2. PICK q \in Nat : PageStart(j) = q * P
  BY PageFacts
<1>3. PageStart(j) \in Nat
  BY PageFacts
<1>4. PICK r \in 0..(P - 1) : r = k - PageStart(j)
  BY <1>1, <1>3
<1>5. k = q * P + r
  <2>1. k = PageStart(j) + r
    BY <1>3, <1>4
  <2> QED BY <2>1, <1>2, Zenon
<1>6. k % P = r
  BY <1>1, <1>5, ModUnique
<1> QED BY <1>3, <1>4, <1>6 DEF PageStart

(* Positions counted from the start of a page keep their offsets.          *)
LEMMA LocalOffset ==
    ASSUME NEW s \in Nat, NEW j \in Nat
    PROVE  /\ (PageStart(s) + j) % P = j % P
           /\ PageStart(PageStart(s) + j) = PageStart(s) + PageStart(j)
<1>1. P \in Nat \ {0}
  BY WindowAssumption
<1>2. PICK q \in Nat : PageStart(s) = q * P
  BY PageFacts
<1>3. PICK d \in Nat : PageStart(j) = d * P
  BY PageFacts
<1>4. PICK e \in 0..(P - 1) : e = j % P /\ j = PageStart(j) + e
  <2>1. j % P \in 0..(P - 1) /\ PageStart(j) = j - (j % P)
    BY PageFacts, Zenon
  <2>2. PICK e \in 0..(P - 1) : e = j % P
    BY <2>1
  <2>3. PageStart(j) = j - e
    BY <2>1, <2>2, Zenon
  <2>4. j = PageStart(j) + e
    BY <2>3, <1>1
  <2> QED BY <2>2, <2>4
<1>5. (q + d) * P = q * P + d * P /\ q * P \in Nat /\ d * P \in Nat
  BY <1>1
<1>6. PICK k \in Nat, f \in Nat : k = PageStart(s) + j /\ f = q + d
  BY <1>2, <1>5
<1>7. k = f * P + e
  BY <1>2, <1>3, <1>4, <1>5, <1>6
<1>8. k % P = e
  BY <1>1, <1>7, ModUnique
<1>9. PageStart(k) = k - e
  BY <1>8 DEF PageStart
<1>10. k - e = PageStart(s) + PageStart(j)
  BY <1>2, <1>3, <1>4, <1>5, <1>6
<1>11. (PageStart(s) + j) % P = j % P
  BY <1>4, <1>6, <1>8, Zenon
<1>12. PageStart(PageStart(s) + j) = PageStart(s) + PageStart(j)
  BY <1>6, <1>9, <1>10, Zenon
<1> QED BY <1>11, <1>12
-----------------------------------------------------------------------------
(* Every P positions of a row share a page, in order.                      *)
Paged(r) ==
    \A i \in 1..Len(r) : r[i] = [page |-> r[PageStart(i - 1) + 1].page, off |-> (i - 1) % P]

(* No page is used for two parts of a row.                                 *)
Apart(r) ==
    \A i, j \in 1..Len(r) : r[i].page = r[j].page => PageStart(i - 1) = PageStart(j - 1)

(* A page and an offset in it make a slot.                                 *)
LEMMA SlotOf ==
    ASSUME NEW p \in Page, NEW o \in 0..(P - 1)
    PROVE  [page |-> p, off |-> o] \in Slot
BY DEF Slot

(* The fields of a slot.                                                   *)
LEMMA SlotFields ==
    ASSUME NEW p, NEW o, NEW slot, slot = [page |-> p, off |-> o]
    PROVE  slot.page = p /\ slot.off = o
OBVIOUS

(* A stretch of a row (_gather_req_to_token_segments).                     *)
LEMMA Segment ==
    ASSUME NEW r \in Seq(Slot), NEW a \in Nat, NEW b \in Nat, a <= b, b <= Len(r)
    PROVE  /\ SubSeq(r, a + 1, b) \in Seq(Slot)
           /\ Len(SubSeq(r, a + 1, b)) = b - a
           /\ \A i \in 1..(b - a) : SubSeq(r, a + 1, b)[i] = r[a + i]
<1>1. a + 1 \in Int /\ b \in Int /\ Len(r) \in Nat
  OBVIOUS
<1>2. \A i \in (a + 1)..b : r[i] \in Slot
  BY <1>1
<1>3. /\ SubSeq(r, a + 1, b) \in Seq(Slot)
      /\ Len(SubSeq(r, a + 1, b)) = IF a + 1 <= b THEN b - (a + 1) + 1 ELSE 0
  BY <1>1, <1>2
<1> QED BY <1>1, <1>3

(* alloc_extend keeps the entries of a row.                                *)
LEMMA ExtensionPrefix ==
    ASSUME NEW r \in Seq(Slot), NEW count \in Nat, NEW ext \in Extensions(r, count)
    PROVE  \A i \in 1..Len(r) : ext[i] = r[i]
<1> DEFINE n == Len(r)
           fresh == {j \in n..(n + count - 1) : j % P = 0}
           pages == {f \in [fresh -> FreePages] : \A j, k \in fresh : f[j] = f[k] => j = k}
           E(f) == [i \in 1..(n + count) |->
                      IF i <= n THEN r[i]
                      ELSE IF PageStart(i - 1) \in fresh
                      THEN [page |-> f[PageStart(i - 1)], off |-> (i - 1) % P]
                      ELSE [r[n] EXCEPT !.off = @ + i - n]]
<1>1. n \in Nat /\ \E f \in pages : ext = E(f)
  BY Zenon, LenProperties DEF Extensions
<1>2. PICK f \in pages : ext = E(f)
  BY <1>1
<1>3. ASSUME NEW i \in 1..n
      PROVE  ext[i] = r[i]
  <2>1. i \in 1..(n + count) /\ i <= n
    BY <1>1
  <2> QED BY <1>2, <2>1, Zenon
<1> QED BY <1>3

(* alloc_extend keeps the entries of a row and its page structure; what it *)
(* adds is on free pages, or on the last page of the row.                  *)
LEMMA ExtensionFacts ==
    ASSUME NEW r \in Seq(Slot), Paged(r), \A i \in 1..Len(r) : r[i].page \notin FreePages,
           NEW count \in Nat, NEW ext \in Extensions(r, count)
    PROVE  /\ ext \in Seq(Slot)
           /\ Len(ext) = Len(r) + count
           /\ \A i \in 1..Len(r) : ext[i] = r[i]
           /\ Paged(ext)
           /\ \A i \in (Len(r) + 1)..(Len(r) + count) :
                 \/ /\ Len(r) > 0 /\ ext[i].page = r[Len(r)].page
                    /\ PageStart(i - 1) = PageStart(Len(r) - 1)
                 \/ ext[i].page \in FreePages
           /\ \A i, j \in (Len(r) + 1)..(Len(r) + count) :
                 ext[i].page \in FreePages /\ ext[i].page = ext[j].page
                 => PageStart(i - 1) = PageStart(j - 1)
<1> DEFINE n == Len(r)
           fresh == {j \in n..(n + count - 1) : j % P = 0}
           pages == {f \in [fresh -> FreePages] : \A j, k \in fresh : f[j] = f[k] => j = k}
           E(f) == [i \in 1..(n + count) |->
                      IF i <= n THEN r[i]
                      ELSE IF PageStart(i - 1) \in fresh
                      THEN [page |-> f[PageStart(i - 1)], off |-> (i - 1) % P]
                      ELSE [r[n] EXCEPT !.off = @ + i - n]]
<1>1. n \in Nat /\ r \in [1..n -> Slot]
  OBVIOUS
<1>2. PICK f \in pages : ext = E(f)
  BY Zenon DEF Extensions
<1>3. f \in [fresh -> FreePages] /\ \A j, k \in fresh : f[j] = f[k] => j = k
  OBVIOUS
<1>4. P \in Nat \ {0}
  BY WindowAssumption
<1>5. \A i \in 1..n : ext[i] = r[i]
  BY ExtensionPrefix
<1>6. ASSUME NEW i \in (n + 1)..(n + count)
      PROVE  \/ /\ PageStart(i - 1) \in fresh
                /\ ext[i] = [page |-> f[PageStart(i - 1)], off |-> (i - 1) % P]
             \/ /\ n > 0 /\ PageStart(i - 1) = PageStart(n - 1)
                /\ ext[i] = [page |-> r[n].page, off |-> (i - 1) % P]
  <2>1. i - 1 \in Nat /\ i \in 1..(n + count) /\ ~(i <= n)
    BY <1>1
  <2>2. PageStart(i - 1) \in 0..(i - 1) /\ i - 1 < PageStart(i - 1) + P
    <3>1. PICK k \in Nat : k = i - 1
      BY <2>1
    <3>2. /\ k % P \in 0..(P - 1) /\ PageStart(k) \in 0..k /\ PageStart(k) = k - (k % P)
      BY PageFacts, Zenon
    <3>3. k < PageStart(k) + P
      BY <3>2, <1>4
    <3> QED BY <3>1, <3>2, <3>3, Zenon
  <2>3. CASE PageStart(i - 1) \in fresh
    BY <1>2, <2>1, <2>3
  <2>4. CASE PageStart(i - 1) \notin fresh
    <3>1. PageStart(PageStart(i - 1)) = PageStart(i - 1) /\ PageStart(i - 1) % P = 0
      <4>1. PICK k \in Nat, s \in Nat : k = i - 1 /\ s = PageStart(k)
        BY <2>1, <2>2
      <4>2. PageStart(k) <= s /\ s < PageStart(k) + P
        BY <4>1, <1>4
      <4>3. s % P = s - PageStart(k) /\ PageStart(s) = PageStart(k)
        BY <4>2, OnPage
      <4>4. s - PageStart(k) = 0
        BY <4>1
      <4> QED BY <4>1, <4>3, <4>4, Zenon
    <3>2. PageStart(i - 1) < n
      BY <2>1, <2>2, <2>4, <3>1
    <3>3. n > 0 /\ n - 1 \in Nat /\ PageStart(i - 1) <= n - 1 /\ n - 1 < PageStart(i - 1) + P
      BY <1>1, <1>4, <2>1, <2>2, <3>2
    <3>4. (n - 1) % P = n - 1 - PageStart(i - 1) /\ PageStart(n - 1) = PageStart(i - 1)
      BY <3>3, <2>1, OnPage
    <3>5. (i - 1) % P = i - 1 - PageStart(i - 1)
      BY <2>1, <2>2, OnPage
    <3>6. n \in 1..n /\ r[n] = [page |-> r[PageStart(n - 1) + 1].page, off |-> (n - 1) % P]
      BY <3>3 DEF Paged
    <3>7. ext[i] = [r[n] EXCEPT !.off = @ + i - n]
      BY <1>2, <2>1, <2>4
    <3>8. r[n].off + i - n = (i - 1) % P
      <4>1. r[n].off = n - 1 - PageStart(i - 1)
        BY <3>4, <3>6
      <4>2. n - 1 - PageStart(i - 1) + i - n = i - 1 - PageStart(i - 1)
        BY <2>2, <1>1
      <4> QED BY <4>1, <4>2, <3>5
    <3>9. ext[i] = [page |-> r[n].page, off |-> (i - 1) % P]
      BY <3>6, <3>7, <3>8
    <3> QED BY <3>3, <3>4, <3>9
  <2> QED BY <2>3, <2>4
<1> HIDE DEF E, pages
<1>7. ext = [i \in 1..(n + count) |-> ext[i]] /\ \A i \in 1..(n + count) : ext[i] \in Slot
  <2>1. ext = [i \in 1..(n + count) |-> ext[i]]
    BY <1>2 DEF E
  <2>2. ASSUME NEW i \in 1..(n + count)
        PROVE  ext[i] \in Slot
    <3>1. CASE i <= n
      BY <1>1, <1>5, <3>1
    <3>2. CASE i > n
      <4>1. i \in (n + 1)..(n + count) /\ i - 1 \in Nat
        BY <1>1, <3>2
      <4>2. (i - 1) % P \in 0..(P - 1)
        BY <4>1, PageFacts
      <4>3. CASE /\ PageStart(i - 1) \in fresh
                 /\ ext[i] = [page |-> f[PageStart(i - 1)], off |-> (i - 1) % P]
        <5>1. f[PageStart(i - 1)] \in Page
          BY <4>3, <1>3 DEF FreePages
        <5> QED BY <5>1, <4>2, <4>3, SlotOf, Zenon
      <4>4. CASE ext[i] = [page |-> r[n].page, off |-> (i - 1) % P] /\ n > 0
        <5>1. r[n] \in Slot
          BY <4>4, <1>1
        <5>2. r[n].page \in Page
          BY <5>1 DEF Slot
        <5> QED BY <5>2, <4>2, <4>4, SlotOf, Zenon
      <4> QED BY <1>6, <4>1, <4>3, <4>4
    <3> QED BY <1>1, <3>1, <3>2
  <2> QED BY <2>1, <2>2
<1>8. ext \in Seq(Slot) /\ Len(ext) = n + count
  <2>1. ext \in [1..(n + count) -> Slot] /\ n + count \in Nat
    BY <1>1, <1>7
  <2> QED BY <2>1
<1>9. ASSUME NEW i \in 1..(n + count)
      PROVE  ext[i] = [page |-> ext[PageStart(i - 1) + 1].page, off |-> (i - 1) % P]
  <2>1. PICK k \in Nat : k = i - 1
    BY <1>1
  <2>2. PICK s \in Nat : s = PageStart(k) /\ s <= k /\ k < s + P
    <3>1. /\ k % P \in 0..(P - 1) /\ PageStart(k) \in 0..k /\ PageStart(k) = k - (k % P)
      BY PageFacts, Zenon
    <3> QED BY <3>1, <1>4
  <2>3. PageStart(s) = s
    <3>1. PageStart(k) <= s /\ s < PageStart(k) + P
      BY <2>2, <1>4
    <3>2. PageStart(s) = PageStart(k)
      BY <3>1, OnPage
    <3> QED BY <2>2, <3>2
  <2>4. CASE i <= n
    <3>1. i \in 1..n /\ s + 1 \in 1..n
      BY <1>1, <2>1, <2>2, <2>4
    <3>2. r[i] = [page |-> r[PageStart(i - 1) + 1].page, off |-> (i - 1) % P]
      BY <3>1 DEF Paged
    <3>3. ext[i] = r[i] /\ ext[s + 1] = r[s + 1]
      BY <3>1, <1>5
    <3> QED BY <2>1, <2>2, <3>2, <3>3, Zenon
  <2>5. CASE i > n
    <3>1. i \in (n + 1)..(n + count)
      BY <1>1, <2>5
    <3>2. CASE /\ s \in fresh
               /\ ext[i] = [page |-> f[s], off |-> (i - 1) % P]
      <4>1. s + 1 \in (n + 1)..(n + count) /\ s + 1 - 1 = s
        BY <1>1, <3>2
      <4>2. ~(n > 0 /\ s = PageStart(n - 1))
        <5>1. SUFFICES ASSUME n > 0 PROVE PageStart(n - 1) \in 0..(n - 1)
          BY <3>2, <1>1
        <5>2. n - 1 \in Nat
          BY <1>1, <5>1
        <5> QED BY PageFacts, <5>2, Zenon
      <4>3. PICK t \in (n + 1)..(n + count) : t = s + 1 /\ t - 1 = s
        BY <4>1
      <4>4. PageStart(t - 1) = s
        BY <2>3, <4>3
      <4>5. ext[t] = [page |-> f[s], off |-> (t - 1) % P]
        BY <1>6, <4>2, <4>4, Zenon
      <4> QED BY <2>1, <2>2, <3>2, <4>3, <4>5
    <3>3. CASE /\ n > 0 /\ s = PageStart(n - 1)
               /\ ext[i] = [page |-> r[n].page, off |-> (i - 1) % P]
      <4>1. PageStart(n - 1) \in 0..(n - 1)
        BY PageFacts, <1>1, <3>3
      <4>2. n \in 1..n /\ s + 1 \in 1..n
        BY <4>1, <3>3, <1>1
      <4>3. r[n] = [page |-> r[s + 1].page, off |-> (n - 1) % P]
        BY <4>2, <3>3 DEF Paged
      <4>4. ext[s + 1] = r[s + 1] /\ r[n].page = r[s + 1].page
        BY <4>2, <4>3, <1>5
      <4> QED BY <2>1, <2>2, <3>3, <4>4
    <3> QED BY <1>6, <3>1, <2>1, <2>2, <3>2, <3>3
  <2> QED BY <1>1, <2>4, <2>5
<1>10. Paged(ext)
  BY <1>8, <1>9, Zenon DEF Paged
<1>11. ASSUME NEW i \in (n + 1)..(n + count)
       PROVE  \/ n > 0 /\ ext[i].page = r[n].page /\ PageStart(i - 1) = PageStart(n - 1)
              \/ /\ PageStart(i - 1) \in fresh /\ ext[i].page = f[PageStart(i - 1)]
                 /\ ext[i].page \in FreePages
  <2>1. CASE /\ PageStart(i - 1) \in fresh
             /\ ext[i] = [page |-> f[PageStart(i - 1)], off |-> (i - 1) % P]
    BY <2>1, <1>3
  <2>2. CASE /\ n > 0 /\ PageStart(i - 1) = PageStart(n - 1)
             /\ ext[i] = [page |-> r[n].page, off |-> (i - 1) % P]
    BY <2>2
  <2> QED BY <1>6, <2>1, <2>2
<1>12. ASSUME NEW i \in (n + 1)..(n + count), NEW j \in (n + 1)..(n + count),
              ext[i].page \in FreePages, ext[i].page = ext[j].page
       PROVE  PageStart(i - 1) = PageStart(j - 1)
  <2>1. n > 0 => r[n].page \notin FreePages
    BY <1>1
  <2>2. /\ PageStart(i - 1) \in fresh /\ ext[i].page = f[PageStart(i - 1)]
        /\ PageStart(j - 1) \in fresh /\ ext[j].page = f[PageStart(j - 1)]
    BY <1>11, <1>12, <2>1, Zenon
  <2> QED BY <1>3, <1>12, <2>2, Zenon
<1>13. \A i \in (n + 1)..(n + count) :
          \/ n > 0 /\ ext[i].page = r[n].page /\ PageStart(i - 1) = PageStart(n - 1)
          \/ ext[i].page \in FreePages
  BY <1>11, Zenon
<1> QED BY <1>5, <1>8, <1>10, <1>12, <1>13, Zenon

(* alloc_extend of a row whose pages are taken uses no page twice.         *)
LEMMA ExtensionApart ==
    ASSUME NEW r \in Seq(Slot), Paged(r), Apart(r), NEW count \in Nat,
           NEW ext \in Extensions(r, count), \A i \in 1..Len(r) : r[i].page \notin FreePages
    PROVE  Apart(ext)
<1>1. Len(r) \in Nat
  OBVIOUS
<1>2. SUFFICES ASSUME NEW i \in 1..(Len(r) + count), NEW j \in 1..(Len(r) + count),
                      ext[i].page = ext[j].page, i <= j
               PROVE  PageStart(i - 1) = PageStart(j - 1)
  <2>1. Len(ext) = Len(r) + count
    BY ExtensionFacts
  <2>2. \A i, j \in 1..(Len(r) + count) : i <= j \/ j <= i
    BY <1>1
  <2> QED BY <1>2, <2>1, <2>2, Zenon DEF Apart
<1>3. \A k \in 1..Len(r) : ext[k] = r[k]
  BY ExtensionFacts
<1>4. \A k \in (Len(r) + 1)..(Len(r) + count) :
        \/ Len(r) > 0 /\ ext[k].page = r[Len(r)].page /\ PageStart(k - 1) = PageStart(Len(r) - 1)
        \/ ext[k].page \in FreePages
  BY ExtensionFacts
<1>5. CASE j <= Len(r)
  <2>1. i \in 1..Len(r) /\ j \in 1..Len(r)
    BY <1>1, <1>2, <1>5
  <2> QED BY <2>1, <1>2, <1>3, Zenon DEF Apart
<1>6. CASE j > Len(r) /\ i <= Len(r)
  <2>1. i \in 1..Len(r) /\ j \in (Len(r) + 1)..(Len(r) + count) /\ Len(r) \in 1..Len(r)
    BY <1>1, <1>2, <1>6
  <2>2. ext[i].page = r[i].page /\ r[i].page \notin FreePages
    BY <2>1, <1>3, Zenon
  <2>3. r[i].page = r[Len(r)].page /\ PageStart(j - 1) = PageStart(Len(r) - 1)
    BY <2>1, <2>2, <1>2, <1>4, Zenon
  <2> QED BY <2>1, <2>3, Zenon DEF Apart
<1>7. CASE i > Len(r)
  <2>1. i \in (Len(r) + 1)..(Len(r) + count) /\ j \in (Len(r) + 1)..(Len(r) + count)
    BY <1>1, <1>2, <1>7
  <2>2. CASE Len(r) > 0 /\ ext[i].page = r[Len(r)].page /\ PageStart(i - 1) = PageStart(Len(r) - 1)
    <3>1. Len(r) \in 1..Len(r)
      BY <1>1, <2>2
    <3> QED BY <2>1, <2>2, <3>1, <1>2, <1>4, Zenon
  <2>3. CASE ext[i].page \in FreePages
    BY <2>1, <2>3, <1>2, ExtensionFacts
  <2> QED BY <2>1, <2>2, <2>3, <1>4, Zenon
<1> QED BY <1>1, <1>5, <1>6, <1>7

(* No slot is in a row twice.                                              *)
LEMMA SlotsDistinct ==
    ASSUME NEW r \in Seq(Slot), Paged(r), Apart(r),
           NEW i \in 1..Len(r), NEW j \in 1..Len(r), r[i] = r[j]
    PROVE  i = j
<1>1. PICK a \in Nat, b \in Nat : a = i - 1 /\ b = j - 1
  OBVIOUS
<1>2. PageStart(a) = PageStart(b)
  BY <1>1, Zenon DEF Apart
<1>3. a % P = b % P
  <2>1. \A k \in 1..Len(r) : r[k].off = (k - 1) % P
    <3>1. SUFFICES ASSUME NEW k \in 1..Len(r) PROVE r[k].off = (k - 1) % P
      OBVIOUS
    <3>2. r[k] = [page |-> r[PageStart(k - 1) + 1].page, off |-> (k - 1) % P]
      BY Zenon DEF Paged
    <3> QED BY <3>2, SlotFields
  <2>2. r[i].off = (i - 1) % P
    BY <2>1, Zenon
  <2>3. r[j].off = (j - 1) % P
    BY <2>1, Zenon
  <2> QED BY <1>1, <2>2, <2>3, Zenon
<1>4. /\ PageStart(a) = a - (a % P) /\ a % P \in 0..(P - 1)
      /\ PageStart(b) = b - (b % P) /\ b % P \in 0..(P - 1)
  BY PageFacts, Zenon
<1>5. PICK e \in Int : e = a % P /\ e = b % P
  <2>1. a % P \in Int
    BY <1>4, WindowAssumption
  <2> QED BY <2>1, <1>3
<1>6. a - e = b - e
  BY <1>2, <1>4, <1>5, Zenon
<1>7. a = b
  BY <1>6
<1> QED BY <1>1, <1>7

(* _compute_compact_draft_seq_lens: the window is at least what is asked   *)
(* for, at most P - 1 longer, and starts at the start of a page.           *)
LEMMA CompactBounds ==
    ASSUME NEW n \in Nat
    PROVE  /\ CompactLen(n) \in 0..n
           /\ LET visible == IF n < W THEN n ELSE W
              IN  CompactLen(n) \in visible..(visible + P - 1)
           /\ \E s \in Nat : n - CompactLen(n) = PageStart(s)
<1>1. W \in Nat \ {0} /\ P \in Nat \ {0}
  BY WindowAssumption
<1>2. PICK v \in 0..n : v = IF n < W THEN n ELSE W
  BY <1>1
<1>3. PICK s \in Nat : s = n - v
  OBVIOUS
<1>4. s % P \in 0..(P - 1) /\ PageStart(s) \in 0..s /\ PageStart(s) = s - (s % P)
  BY PageFacts, Zenon
<1>5. CASE P <= 1
  <2>1. CompactLen(n) = v
    BY <1>2, <1>5 DEF CompactLen
  <2>2. PageStart(s) = s
    <3>1. P - 1 = 0
      BY <1>1, <1>5
    <3>2. s % P = 0
      BY <3>1, <1>4
    <3> QED BY <3>2, <1>4
  <2> QED BY <1>1, <1>2, <1>3, <2>1, <2>2
<1>6. CASE ~(P <= 1)
  <2>1. CompactLen(n) = n - PageStart(s)
    BY <1>2, <1>3, <1>6, Zenon DEF CompactLen
  <2>2. PICK a \in Nat : a = PageStart(s) /\ a <= s /\ s - a < P
    BY <1>1, <1>4
  <2>3. CompactLen(n) = n - a /\ n - a \in 0..n /\ n - a \in v..(v + P - 1) /\ n - (n - a) = a
    BY <1>1, <1>3, <2>1, <2>2
  <2> QED BY <1>2, <2>2, <2>3
<1> QED BY <1>5, <1>6

(* assign_req_to_token_pool: the new entries are read back.                *)
LEMMA AssignFacts ==
    ASSUME draftRow \in Seq(Slot), NEW new \in Seq(Slot)
    PROVE  /\ Assign(new) \in Seq(Slot)
           /\ Len(new) <= Len(Assign(new))
           /\ \A i \in 1..Len(new) : Assign(new)[i] = new[i]
<1> DEFINE rest == SubSeq(draftRow, Len(new) + 1, Len(draftRow))
<1>1. Len(new) \in Nat /\ Len(draftRow) \in Nat
  OBVIOUS
<1>2. \A i \in (Len(new) + 1)..Len(draftRow) : draftRow[i] \in Slot
  BY <1>1
<1>3. rest \in Seq(Slot)
  BY <1>1, <1>2, SubSeqProperties
<1> HIDE DEF rest
<1>4. Assign(new) = new \o rest
  BY DEF Assign, rest
<1> QED BY <1>1, <1>3, <1>4, ConcatProperties
-----------------------------------------------------------------------------
(* The draft KV entries of the committed tokens are in their slots.        *)
KVExact == \A i \in 1..seqLen : kv[row[i]] = i - 1

(* The draft row starts with the window of the target's row.               *)
WindowRow ==
    /\ draftLen = CompactLen(seqLen)
    /\ draftLen <= Len(draftRow)
    /\ \A i \in 1..draftLen : draftRow[i] = row[seqLen - draftLen + i]

(* The inductive invariant: the properties are about the draft row, which  *)
(* is right because the target's row is paged and its KV entries are       *)
(* intact, also outside of the window.                                     *)
WindowInv ==
    /\ TypeOK
    /\ seqLen <= Len(row) /\ (~Overlap => Len(row) = seqLen)
    /\ phase = "prefill" => row = <<>> /\ seqLen = 0
    /\ Paged(row) /\ Apart(row) /\ KVExact
    /\ phase = "verify" \/ (phase = "draft" /\ ~Overlap) => WindowRow
    /\ phase = "verify" => /\ draftLen + B <= Len(draftRow)
                           /\ Overlap => seqLen + B <= Len(row)
    /\ LocalPages

(* The invariant gives both properties of the window.                      *)
LEMMA InvImplies ==
    ASSUME WindowInv
    PROVE  WindowExact /\ LocalPages
<1>1. LocalPages
  BY DEF WindowInv
<1>2. SUFFICES ASSUME phase = "verify" PROVE WindowExact
  BY <1>1 DEF WindowExact
<1>3. seqLen \in Nat /\ WindowRow /\ KVExact
  BY <1>2, WindowAssumption DEF WindowInv, TypeOK
<1>4. PICK v \in Nat : v = IF seqLen < W THEN seqLen ELSE W
  BY <1>3, WindowAssumption
<1>5. draftLen \in v..(v + P - 1) /\ draftLen \in 0..seqLen
  BY <1>3, <1>4, CompactBounds DEF WindowRow
<1>6. ASSUME NEW j \in 0..(draftLen - 1)
      PROVE  kv[draftRow[j + 1]] = seqLen - draftLen + j
  <2>1. j + 1 \in 1..draftLen
    BY <1>5
  <2>2. draftRow[j + 1] = row[seqLen - draftLen + (j + 1)]
    BY <2>1, <1>3 DEF WindowRow
  <2>3. PICK i \in 1..seqLen : i = seqLen - draftLen + (j + 1) /\ i - 1 = seqLen - draftLen + j
    BY <1>3, <1>5, <2>1
  <2>4. kv[row[i]] = i - 1
    BY <1>3 DEF KVExact
  <2> QED BY <2>2, <2>3, <2>4
<1> QED BY <1>3, <1>4, <1>5, <1>6 DEF WindowExact

(* _append_target_hidden_to_draft_kv: committing tokens whose slots extend *)
(* the row keeps the KV entries of the earlier ones, and rebuilds the      *)
(* window where it is the worker without overlap.                          *)
LEMMA CommittedKeeps ==
    ASSUME WindowInv, NEW r \in Seq(Slot), Paged(r), Apart(r), NEW n \in 0..MaxSeq,
           seqLen <= n, n <= Len(r), \A i \in 1..seqLen : r[i] = row[i], Committed(r, n)
    PROVE  /\ row' = r /\ seqLen' = n
           /\ draftRow' \in Seq(Slot) /\ draftLen' \in 0..n
           /\ kv' \in [Slot -> -1..(MaxSeq - 1)]
           /\ KVExact'
           /\ ~Overlap => WindowRow'
<1>1. /\ seqLen \in Nat /\ n \in Nat /\ MaxSeq \in Nat /\ Len(r) \in Nat
      /\ draftRow \in Seq(Slot) /\ draftLen \in 0..seqLen
      /\ kv \in [Slot -> -1..(MaxSeq - 1)] /\ KVExact
  BY WindowAssumption DEF WindowInv, TypeOK
<1>2. row' = r /\ seqLen' = n
  BY DEF Committed
<1> DEFINE new == (seqLen + 1)..n
<1>3. kv' = [s \in Slot |-> IF \E i \in new : r[i] = s
                           THEN (CHOOSE i \in new : r[i] = s) - 1 ELSE kv[s]]
  BY DEF Committed
<1>4. \A i \in 1..n : r[i] \in Slot /\ \A j \in 1..n : r[i] = r[j] => i = j
  <2>1. ASSUME NEW i \in 1..n, NEW j \in 1..n, r[i] = r[j]
        PROVE  i = j
    <3>1. i \in 1..Len(r) /\ j \in 1..Len(r)
      BY <1>1
    <3> QED BY <2>1, <3>1, SlotsDistinct
  <2>2. \A i \in 1..n : r[i] \in Slot
    BY <1>1
  <2> QED BY <2>1, <2>2
<1>5. new \subseteq 1..n
  BY <1>1
<1>6. kv' \in [Slot -> -1..(MaxSeq - 1)]
  <2>1. ASSUME NEW s \in Slot, \E i \in new : r[i] = s
        PROVE  (CHOOSE i \in new : r[i] = s) - 1 \in -1..(MaxSeq - 1)
    <3>1. PICK c \in new : c = CHOOSE i \in new : r[i] = s
      BY <2>1, Zenon
    <3>2. c - 1 \in -1..(MaxSeq - 1)
      BY <1>1
    <3> QED BY <3>1, <3>2, Zenon
  <2> QED BY <1>1, <1>3, <2>1
<1>7. ASSUME NEW i \in 1..n
      PROVE  kv'[r[i]] = i - 1
  <2>1. r[i] \in Slot
    BY <1>4
  <2>2. CASE i \in new
    <3>1. (CHOOSE k \in new : r[k] = r[i]) = i
      <4>1. PICK c \in new : c = (CHOOSE k \in new : r[k] = r[i]) /\ r[c] = r[i]
        BY <2>2, Zenon
      <4>2. c = i
        BY <4>1, <1>4, <1>5, Zenon
      <4> QED BY <4>1, <4>2, Zenon
    <3>2. kv'[r[i]] = (CHOOSE k \in new : r[k] = r[i]) - 1
      BY <1>3, <2>1, <2>2, Zenon
    <3> QED BY <3>1, <3>2, Zenon
  <2>3. CASE i \notin new
    <3>1. i \in 1..seqLen
      BY <1>1, <2>3
    <3>2. ~ \E k \in new : r[k] = r[i]
      BY <1>4, <1>5, <2>3, Zenon
    <3>3. kv'[r[i]] = kv[r[i]]
      BY <1>3, <2>1, <3>2, Zenon
    <3> QED BY <1>1, <3>1, <3>3, Zenon DEF KVExact
  <2> QED BY <2>2, <2>3
<1>8. KVExact'
  BY <1>2, <1>7, Zenon DEF KVExact
<1>9. CASE Overlap
  <2>1. draftLen' = draftLen /\ draftRow' = draftRow
    BY <1>9 DEF Committed
  <2> QED BY <1>1, <1>2, <1>6, <1>8, <1>9, <2>1
<1>10. CASE ~Overlap
  <2>1. draftLen' = CompactLen(n) /\ draftRow' = Assign(Suffix(r, n))
    BY <1>10 DEF Committed
  <2>2. PICK d \in 0..n : d = CompactLen(n)
    BY CompactBounds, <1>1
  <2>3. PICK a \in Nat : a = n - d
    BY <1>1
  <2>4. Suffix(r, n) = SubSeq(r, a + 1, n)
    BY <2>2, <2>3, Zenon DEF Suffix
  <2>5. /\ Suffix(r, n) \in Seq(Slot) /\ Len(Suffix(r, n)) = d
        /\ \A i \in 1..d : Suffix(r, n)[i] = r[n - d + i]
    <3>1. a <= n /\ n - a = d
      BY <1>1, <2>3
    <3> QED BY <1>1, <2>3, <2>4, <3>1, Segment
  <2>6. /\ draftRow' \in Seq(Slot) /\ d <= Len(draftRow')
        /\ \A i \in 1..d : draftRow'[i] = r[n - d + i]
    BY <1>1, <2>1, <2>5, AssignFacts
  <2>7. WindowRow'
    BY <1>2, <2>1, <2>2, <2>6 DEF WindowRow, CompactLen, PageStart
  <2> QED BY <1>2, <1>6, <1>8, <2>1, <2>2, <2>6, <2>7
<1> QED BY <1>9, <1>10

(* A stretch of a paged row that starts at the start of a page is paged.   *)
LEMMA SegmentPaged ==
    ASSUME NEW r \in Seq(Slot), Paged(r), Apart(r), NEW s \in Nat, NEW a \in Nat, NEW b \in Nat,
           a = PageStart(s), a <= b, b <= Len(r)
    PROVE  Paged(SubSeq(r, a + 1, b)) /\ Apart(SubSeq(r, a + 1, b))
<1> DEFINE t == SubSeq(r, a + 1, b)
<1>1. Len(t) = b - a /\ \A i \in 1..(b - a) : t[i] = r[a + i]
  BY Segment
<1> HIDE DEF t
<1>2. Len(r) \in Nat
  OBVIOUS
<1>3. ASSUME NEW i \in 1..(b - a)
      PROVE  /\ a + i \in 1..Len(r)
             /\ PageStart(a + i - 1) = a + PageStart(i - 1)
             /\ (a + i - 1) % P = (i - 1) % P
             /\ PageStart(i - 1) \in Nat /\ PageStart(i - 1) + 1 \in 1..(b - a)
  <2>1. PICK k \in Nat : k = i - 1 /\ a + k = a + i - 1
    BY <1>2
  <2>2. (PageStart(s) + k) % P = k % P /\ PageStart(PageStart(s) + k) = PageStart(s) + PageStart(k)
    BY LocalOffset, Zenon
  <2>3. PageStart(k) \in 0..k
    BY PageFacts, Zenon
  <2>4. PageStart(a + i - 1) = a + PageStart(i - 1) /\ (a + i - 1) % P = (i - 1) % P
    BY <2>1, <2>2, Zenon
  <2>5. PageStart(k) \in Nat /\ PageStart(k) + 1 \in 1..(b - a) /\ a + i \in 1..Len(r)
    BY <1>2, <2>1, <2>3
  <2> QED BY <2>1, <2>4, <2>5, Zenon
<1>4. ASSUME NEW i \in 1..(b - a)
      PROVE  t[i] = [page |-> t[PageStart(i - 1) + 1].page, off |-> (i - 1) % P]
  <2>1. PICK k \in 1..Len(r) : k = a + i
    BY <1>3
  <2>2. r[k] = [page |-> r[PageStart(k - 1) + 1].page, off |-> (k - 1) % P]
    BY Zenon DEF Paged
  <2>3. PICK u \in Nat : u = PageStart(i - 1) /\ u + 1 \in 1..(b - a)
    BY <1>3, Zenon
  <2>4. PageStart(k - 1) + 1 = a + (u + 1)
    <3>1. PageStart(a + i - 1) = a + PageStart(i - 1)
      BY <1>3, Zenon
    <3>2. PageStart(k - 1) = a + u
      BY <2>1, <2>3, <3>1
    <3> QED BY <3>2
  <2>5. t[u + 1] = r[a + (u + 1)] /\ t[i] = r[k]
    BY <1>1, <2>1, <2>3
  <2>6. (k - 1) % P = (i - 1) % P
    BY <1>3, <2>1
  <2> QED BY <2>2, <2>3, <2>4, <2>5, <2>6, Zenon
<1>5. ASSUME NEW i \in 1..(b - a), NEW j \in 1..(b - a), t[i].page = t[j].page
      PROVE  PageStart(i - 1) = PageStart(j - 1)
  <2>1. PICK k \in 1..Len(r), l \in 1..Len(r) : k = a + i /\ l = a + j
    BY <1>3, Zenon
  <2>2. r[k].page = r[l].page
    BY <1>1, <1>5, <2>1, Zenon
  <2>3. PageStart(k - 1) = PageStart(l - 1)
    BY <2>2, Zenon DEF Apart
  <2>4. PICK u \in Nat, v \in Nat : u = PageStart(i - 1) /\ v = PageStart(j - 1)
    BY <1>3, Zenon
  <2>5. PageStart(k - 1) = a + u /\ PageStart(l - 1) = a + v
    <3>1. PageStart(a + i - 1) = a + PageStart(i - 1)
      BY <1>3, Zenon
    <3>2. PageStart(a + j - 1) = a + PageStart(j - 1)
      BY <1>3, Zenon
    <3>3. PageStart(k - 1) = a + u
      BY <2>1, <2>4, <3>1
    <3>4. PageStart(l - 1) = a + v
      BY <2>1, <2>4, <3>2
    <3> QED BY <3>3, <3>4
  <2>6. u = v
    <3>1. a + u = a + v
      BY <2>3, <2>5, Zenon
    <3> QED BY <3>1
  <2> QED BY <2>4, <2>6, Zenon
<1>6. Paged(t)
  BY <1>1, <1>4, Zenon DEF Paged
<1>7. Apart(t)
  BY <1>1, <1>5, Zenon DEF Apart
<1> QED BY <1>6, <1>7 DEF t

(* The pages of the row are not free.                                      *)
LEMMA RowTaken ==
    \A i \in 1..Len(row) : row[i].page \notin FreePages
BY DEF FreePages

(* Committing tokens whose slots extend the row keeps the invariant.       *)
LEMMA AfterCommit ==
    ASSUME WindowInv, NEW r \in Seq(Slot), Paged(r), Apart(r), NEW n \in 0..MaxSeq,
           seqLen <= n, n <= Len(r), \A i \in 1..seqLen : r[i] = row[i], Committed(r, n),
           ~Overlap => Len(r) = n, phase' = "draft"
    PROVE  WindowInv'
<1>0. worker' = worker /\ worker' \in {"v1", "v2"} /\ (Overlap' <=> Overlap)
  BY DEF WindowInv, TypeOK, Committed, Overlap
<1>1. /\ row' = r /\ seqLen' = n
      /\ draftRow' \in Seq(Slot) /\ draftLen' \in 0..n
      /\ kv' \in [Slot -> -1..(MaxSeq - 1)]
      /\ KVExact'
      /\ ~Overlap => WindowRow'
  BY CommittedKeeps
<1>2. TypeOK'
  BY <1>0, <1>1 DEF TypeOK, Slot
<1>3. LocalPages'
  BY DEF LocalPages
<1>4. Paged(row)' /\ Apart(row)'
  BY <1>1 DEF Paged, Apart, PageStart
<1> QED BY <1>0, <1>1, <1>2, <1>3, <1>4 DEF WindowInv

(* Prefill: the row of the prompt is all new.                              *)
LEMMA PrefillKeeps ==
    ASSUME WindowInv, NEW n \in 1..MaxSeq, Prefill(n)
    PROVE  WindowInv'
<1>1. row = <<>> /\ seqLen = 0 /\ MaxSeq \in Nat
  BY WindowAssumption DEF WindowInv, Prefill
<1>2. PICK e \in Seq(Slot) : e = <<>> /\ Len(e) = 0
  BY EmptySeq, Zenon
<1>3. PICK r \in Extensions(e, n) : Committed(r, n)
  BY <1>2 DEF Prefill
<1>4. n \in Nat /\ n \in 0..MaxSeq
  BY <1>1
<1>5. Paged(e) /\ Apart(e) /\ \A i \in 1..Len(e) : e[i].page \notin FreePages
  BY <1>2 DEF Paged, Apart
<1>6. r \in Seq(Slot) /\ Len(r) = Len(e) + n /\ Paged(r) /\ Apart(r)
  BY <1>4, <1>5, ExtensionFacts, ExtensionApart
<1>7. n <= Len(r) /\ Len(r) = n /\ seqLen <= n /\ \A i \in 1..seqLen : r[i] = row[i]
  BY <1>1, <1>2, <1>4, <1>6
<1>8. phase' = "draft"
  BY DEF Prefill
<1> QED BY <1>3, <1>4, <1>6, <1>7, <1>8, AfterCommit

(* Verify: the committed tokens extend the row by a part of the block.     *)
LEMMA VerifyKeeps ==
    ASSUME WindowInv, NEW c \in 1..B, Verify(c)
    PROVE  WindowInv'
<1>1. /\ row \in Seq(Slot) /\ Paged(row) /\ Apart(row) /\ seqLen \in Nat /\ B \in Nat
      /\ Len(row) \in Nat /\ seqLen <= Len(row) /\ (~Overlap => Len(row) = seqLen)
      /\ Overlap => seqLen + B <= Len(row)
      /\ phase' = "draft" /\ MaxSeq \in Nat /\ seqLen + c <= MaxSeq
  BY WindowAssumption DEF WindowInv, TypeOK, Verify
<1>2. PICK n \in 0..MaxSeq : n = seqLen + c /\ seqLen <= n /\ n <= seqLen + B
  BY <1>1
<1>3. CASE Overlap
  <2>1. Committed(row, n) /\ n <= Len(row)
    BY <1>1, <1>2, <1>3 DEF Verify
  <2> QED BY <1>1, <1>2, <1>3, <2>1, AfterCommit
<1>4. CASE ~Overlap
  <2>1. PICK ext \in Extensions(row, B) : Committed(SubSeq(ext, 1, n), n)
    BY <1>2, <1>4 DEF Verify
  <2>2. /\ ext \in Seq(Slot) /\ Len(ext) = Len(row) + B /\ Paged(ext)
        /\ \A i \in 1..Len(row) : ext[i] = row[i]
    BY <1>1, <2>1, RowTaken, ExtensionFacts
  <2>3. Apart(ext)
    BY <1>1, <2>1, RowTaken, ExtensionApart
  <2>4. PICK a \in Nat : a = 0 /\ a = PageStart(0) /\ a + 1 = 1
    <3>1. PageStart(0) \in 0..0
      BY PageFacts
    <3> QED BY <3>1
  <2>5. n \in Nat /\ a <= n /\ n <= Len(ext) /\ n - a = n
    BY <1>1, <1>2, <1>4, <2>2, <2>4
  <2> DEFINE r == SubSeq(ext, a + 1, n)
  <2>6. r \in Seq(Slot) /\ Len(r) = n /\ \A i \in 1..n : r[i] = ext[a + i]
    BY <2>2, <2>5, Segment
  <2>7. Paged(r) /\ Apart(r)
    BY <2>2, <2>3, <2>4, <2>5, SegmentPaged
  <2>8. Committed(r, n)
    BY <2>1, <2>4
  <2> HIDE DEF r
  <2>9. \A i \in 1..seqLen : r[i] = row[i]
    <3>1. SUFFICES ASSUME NEW i \in 1..seqLen PROVE r[i] = row[i]
      OBVIOUS
    <3>2. i \in 1..n /\ i \in 1..Len(row) /\ a + i = i
      BY <1>1, <1>2, <2>4
    <3>3. r[i] = ext[a + i] /\ ext[i] = row[i]
      BY <3>2, <2>2, <2>6, Zenon
    <3> QED BY <3>2, <3>3, Zenon
  <2>10. n <= Len(r) /\ (~Overlap => Len(r) = n)
    BY <2>5, <2>6
  <2> QED BY <1>1, <1>2, <2>6, <2>7, <2>8, <2>9, <2>10, AfterCommit
<1> QED BY <1>3, <1>4

(* Writing the block's KV entries to slots without committed tokens keeps  *)
(* the entries of the committed ones.                                      *)
LEMMA DraftedKeeps ==
    ASSUME WindowInv, NEW slots, Drafted(slots), NEW r \in Seq(Slot), seqLen <= Len(r),
           \A i \in 1..seqLen : r[i] = row[i] /\ r[i] \notin slots
    PROVE  kv' \in [Slot -> -1..(MaxSeq - 1)] /\ \A i \in 1..seqLen : kv'[r[i]] = i - 1
<1>1. /\ seqLen \in Nat /\ MaxSeq \in Nat /\ kv \in [Slot -> -1..(MaxSeq - 1)] /\ KVExact
  BY WindowAssumption DEF WindowInv, TypeOK
<1>2. kv' = [s \in Slot |-> IF s \in slots THEN -1 ELSE kv[s]]
  BY DEF Drafted
<1>3. kv' \in [Slot -> -1..(MaxSeq - 1)]
  BY <1>1, <1>2
<1>4. ASSUME NEW i \in 1..seqLen
      PROVE  kv'[r[i]] = i - 1
  <2>1. r[i] \in Slot
    BY <1>1
  <2>2. kv'[r[i]] = kv[row[i]]
    BY <1>2, <2>1, Zenon
  <2> QED BY <1>1, <2>2, Zenon DEF KVExact
<1> QED BY <1>3, <1>4

(* Drafting: the pass reads a draft row that starts with new, which is     *)
(* paged and starts with the window of the row.                            *)
LEMMA AfterDraft ==
    ASSUME WindowInv, NEW r \in Seq(Slot), Paged(r), Apart(r), NEW slots, Drafted(slots),
           seqLen <= Len(r), ~Overlap => Len(r) = seqLen, Overlap => seqLen + B <= Len(r),
           \A i \in 1..seqLen : r[i] = row[i] /\ r[i] \notin slots,
           NEW d \in 0..seqLen, d = CompactLen(seqLen),
           NEW new \in Seq(Slot), Len(new) = d + B, Paged(new),
           \A i \in 1..d : new[i] = r[seqLen - d + i],
           row' = r, seqLen' = seqLen, draftLen' = d, draftRow' = Assign(new), phase' = "verify",
           worker' = worker
    PROVE  WindowInv'
<1>0. worker' \in {"v1", "v2"} /\ (Overlap' <=> Overlap)
  BY DEF WindowInv, TypeOK, Overlap
<1>1. /\ seqLen \in 0..MaxSeq /\ draftRow \in Seq(Slot) /\ B \in Nat /\ MaxSeq \in Nat
  BY WindowAssumption DEF WindowInv, TypeOK
<1>2. /\ draftRow' \in Seq(Slot) /\ d + B <= Len(draftRow')
      /\ \A i \in 1..(d + B) : draftRow'[i] = new[i]
  BY <1>1, AssignFacts
<1>3. kv' \in [Slot -> -1..(MaxSeq - 1)] /\ \A i \in 1..seqLen : kv'[r[i]] = i - 1
  BY DraftedKeeps
<1>4. TypeOK'
  BY <1>0, <1>1, <1>2, <1>3 DEF TypeOK, Slot
<1>5. KVExact'
  BY <1>3, Zenon DEF KVExact
<1>6. Paged(row)' /\ Apart(row)'
  BY DEF Paged, Apart, PageStart
<1>7. WindowRow'
  <2>0. \A i \in 1..d : i \in 1..(d + B)
    BY <1>1
  <2>1. \A i \in 1..d : draftRow'[i] = r[seqLen - d + i]
    BY <1>2, <2>0, Zenon
  <2>2. d <= Len(draftRow')
    BY <1>1, <1>2
  <2>3. CompactLen(seqLen)' = d
    BY DEF CompactLen, PageStart
  <2> QED BY <2>1, <2>2, <2>3 DEF WindowRow
<1>8. LocalPages'
  <2>0. \A x \in 0..(d + B - 1) : \A y \in 0..x : y + 1 \in 1..(d + B)
    BY <1>1, SMTT(60)
  <2>1. ASSUME NEW j \in 0..(d + B - 1)
        PROVE  draftRow'[j + 1] = [page |-> draftRow'[PageStart(j) + 1].page, off |-> j % P]
    <3>1. PICK i \in 1..(d + B) : i = j + 1 /\ i - 1 = j /\ j \in Nat
      BY <1>1, SMTT(60)
    <3>2. new[i] = [page |-> new[PageStart(i - 1) + 1].page, off |-> (i - 1) % P]
      BY Zenon DEF Paged
    <3>3. PICK u \in 0..j : u = PageStart(j)
      BY <3>1, PageFacts, Zenon
    <3>4. u + 1 \in 1..(d + B)
      BY <2>0, Zenon
    <3>5. draftRow'[i] = new[i] /\ draftRow'[PageStart(j) + 1] = new[PageStart(j) + 1]
      BY <1>2, <3>3, <3>4, Zenon
    <3> QED BY <3>1, <3>2, <3>5, Zenon
  <2>2. \A j \in 0..(draftLen' + B - 1) :
          draftRow'[j + 1] = [page |-> draftRow'[PageStart(j) + 1].page, off |-> j % P]
    BY <2>1
  <2> QED BY <2>2, Zenon DEF LocalPages, PageStart
<1> QED BY <1>0, <1>2, <1>4, <1>5, <1>6, <1>7, <1>8 DEF WindowInv

(* DraftBlock: the block's slots are on free pages, or after the last      *)
(* committed token on its page.                                            *)
LEMMA DraftBlockKeeps ==
    ASSUME WindowInv, DraftBlock
    PROVE  WindowInv'
<1>1. /\ row \in Seq(Slot) /\ Paged(row) /\ Apart(row) /\ seqLen \in Nat /\ B \in Nat
      /\ Len(row) = seqLen /\ ~Overlap /\ WindowRow /\ draftRow \in Seq(Slot)
  BY WindowAssumption DEF WindowInv, TypeOK, DraftBlock
<1>2. PICK d \in 0..seqLen : d = draftLen /\ d = CompactLen(seqLen)
  BY <1>1, CompactBounds DEF WindowRow
<1>3. PICK s \in Nat, a \in Nat : a = PageStart(s) /\ a = seqLen - d /\ a <= seqLen /\ seqLen - a = d
  <2>1. PICK s \in Nat : seqLen - d = PageStart(s)
    BY <1>1, <1>2, CompactBounds
  <2>2. seqLen - d \in Nat /\ seqLen - d <= seqLen /\ seqLen - (seqLen - d) = d
    BY <1>1
  <2> QED BY <2>1, <2>2
<1> DEFINE base == SubSeq(row, a + 1, seqLen)
<1>4. base \in Seq(Slot) /\ Len(base) = d /\ \A i \in 1..d : base[i] = row[a + i]
  BY <1>1, <1>3, Segment
<1>5. Paged(base) /\ Apart(base)
  <2>1. seqLen <= Len(row)
    BY <1>1
  <2> QED BY <1>1, <1>3, <2>1, SegmentPaged, Zenon
<1> HIDE DEF base
<1>6. SubSeq(draftRow, 1, draftLen) = base
  <2>1. 0 + 1 = 1 /\ d - 0 = d /\ 0 <= d /\ d <= Len(draftRow) /\ d \in Nat
    BY <1>1, <1>2 DEF WindowRow
  <2>2. /\ SubSeq(draftRow, 0 + 1, d) \in Seq(Slot) /\ Len(SubSeq(draftRow, 0 + 1, d)) = d
        /\ \A i \in 1..d : SubSeq(draftRow, 0 + 1, d)[i] = draftRow[0 + i]
    BY <1>1, <2>1, Segment
  <2>3. \A i \in 1..d : draftRow[0 + i] = base[i]
    <3>1. SUFFICES ASSUME NEW i \in 1..d PROVE draftRow[0 + i] = base[i]
      OBVIOUS
    <3>2. draftRow[i] = row[seqLen - d + i]
      BY <1>1, <1>2 DEF WindowRow
    <3>3. base[i] = row[seqLen - d + i] /\ 0 + i = i
      BY <1>3, <1>4
    <3> QED BY <3>2, <3>3
  <2> QED BY <1>2, <1>4, <2>1, <2>2, <2>3, SeqEqual
<1>7. PICK ext \in Extensions(base, B) :
        /\ draftRow' = Assign(ext)
        /\ Drafted({ext[i] : i \in (draftLen + 1)..(draftLen + B)})
  BY <1>6 DEF DraftBlock
<1>8. \A i \in 1..Len(base) : base[i].page \notin FreePages
  <2>1. SUFFICES ASSUME NEW i \in 1..d PROVE base[i].page \notin FreePages
    BY <1>4
  <2>2. a + i \in 1..Len(row)
    BY <1>1, <1>3
  <2> QED BY <1>4, <2>2, RowTaken, Zenon
<1>9. /\ ext \in Seq(Slot) /\ Len(ext) = d + B /\ Paged(ext)
      /\ \A i \in 1..d : ext[i] = base[i]
      /\ \A k \in (d + 1)..(d + B) :
            \/ d > 0 /\ ext[k].page = base[d].page /\ PageStart(k - 1) = PageStart(d - 1)
            \/ ext[k].page \in FreePages
  <2>1. /\ ext \in Seq(Slot) /\ Len(ext) = Len(base) + B /\ Paged(ext)
    BY <1>1, <1>4, <1>5, <1>8, ExtensionFacts
  <2>2. \A i \in 1..Len(base) : ext[i] = base[i]
    BY <1>1, <1>4, ExtensionPrefix
  <2>3. \A i \in (Len(base) + 1)..(Len(base) + B) :
          \/ /\ Len(base) > 0 /\ ext[i].page = base[Len(base)].page
             /\ PageStart(i - 1) = PageStart(Len(base) - 1)
          \/ ext[i].page \in FreePages
    BY <1>1, <1>4, <1>5, <1>8, ExtensionFacts
  <2> QED BY <1>4, <2>1, <2>2, <2>3, Zenon
<1> DEFINE slots == {ext[i] : i \in (draftLen + 1)..(draftLen + B)}
<1>10. ASSUME NEW i \in 1..seqLen, row[i] \in slots
       PROVE  FALSE
  <2>1. PICK k \in (d + 1)..(d + B) : row[i] = ext[k]
    BY <1>2, <1>10
  <2>2. row[i].page \notin FreePages
    BY <1>1, RowTaken
  <2>3. d > 0 /\ ext[k].page = base[d].page /\ PageStart(k - 1) = PageStart(d - 1)
    BY <1>9, <2>1, <2>2, Zenon
  <2>4. PICK x \in Nat, y \in Nat, z \in Nat : x = i - 1 /\ y = k - 1 /\ z = d - 1 /\ a + z = seqLen - 1
    BY <1>1, <1>3, <2>3
  <2>5. base[d] = row[seqLen] /\ seqLen \in 1..seqLen
    <3>1. d \in 1..d /\ a + d = seqLen /\ seqLen \in 1..seqLen
      BY <1>1, <1>3, <2>3
    <3>2. base[d] = row[a + d]
      BY <1>4, <3>1, Zenon
    <3> QED BY <3>1, <3>2, Zenon
  <2>6. PageStart(x) = PageStart(a + z)
    <3>1. row[i].page = row[seqLen].page
      BY <2>1, <2>3, <2>5, Zenon
    <3>2. PageStart(i - 1) = PageStart(seqLen - 1)
      BY <1>1, <2>5, <3>1 DEF Apart
    <3> QED BY <2>4, <3>2
  <2>7. PageStart(x) = PageStart(a + y) /\ (a + y) % P = y % P
    <3>1. /\ PageStart(PageStart(s) + z) = PageStart(s) + PageStart(z)
          /\ PageStart(PageStart(s) + y) = PageStart(s) + PageStart(y)
          /\ (PageStart(s) + y) % P = y % P
      BY LocalOffset, Zenon
    <3>2. PageStart(y) = PageStart(z)
      BY <2>3, <2>4, Zenon
    <3> QED BY <1>3, <2>6, <3>1, <3>2, Zenon
  <2>8. x % P = y % P
    <3>1. row[i] = [page |-> row[PageStart(i - 1) + 1].page, off |-> (i - 1) % P]
      BY <1>1 DEF Paged
    <3>2. ext[k] = [page |-> ext[PageStart(k - 1) + 1].page, off |-> (k - 1) % P]
      <4>1. k \in 1..Len(ext)
        BY <1>1, <1>9
      <4> QED BY <1>9, <4>1, Zenon DEF Paged
    <3>3. row[i].off = (i - 1) % P
      BY <3>1, SlotFields
    <3>4. ext[k].off = (k - 1) % P
      BY <3>2, SlotFields
    <3> QED BY <2>1, <2>4, <3>3, <3>4, Zenon
  <2>9. PICK w \in Nat : w = a + y /\ w >= seqLen
    BY <1>1, <1>3, <2>4
  <2>10. PageStart(x) = x - (x % P) /\ PageStart(w) = w - (w % P) /\ x % P \in 0..(P - 1)
    BY PageFacts, Zenon
  <2>11. PICK e \in Int : e = x % P
    BY <2>10, WindowAssumption
  <2>12. x - e = w - e
    BY <2>7, <2>8, <2>9, <2>10, <2>11, Zenon
  <2> QED BY <1>1, <2>4, <2>9, <2>12
<1>11. /\ row' = row /\ seqLen' = seqLen /\ draftLen' = d /\ phase' = "verify"
       /\ Drafted(slots) /\ worker' = worker
  BY <1>2, <1>7 DEF DraftBlock
<1> HIDE DEF slots
<1>12. \A i \in 1..d : ext[i] = row[seqLen - d + i]
  BY <1>3, <1>4, <1>9
<1>13. /\ seqLen <= Len(row) /\ (~Overlap => Len(row) = seqLen)
       /\ Overlap => seqLen + B <= Len(row)
       /\ \A i \in 1..seqLen : row[i] = row[i] /\ row[i] \notin slots
  BY <1>1, <1>10
<1> QED BY <1>1, <1>2, <1>7, <1>9, <1>11, <1>12, <1>13, AfterDraft, Zenon

(* The parts of a concatenation, by their lengths.                         *)
LEMMA ConcatParts ==
    ASSUME NEW u \in Seq(Slot), NEW v \in Seq(Slot), NEW m, NEW n, Len(u) = m, Len(v) = n
    PROVE  /\ u \o v \in Seq(Slot) /\ Len(u \o v) = m + n
           /\ \A i \in 1..(m + n) : (u \o v)[i] = IF i <= m THEN u[i] ELSE v[i - m]
<1>1. /\ u \o v \in Seq(Slot) /\ Len(u \o v) = Len(u) + Len(v)
      /\ \A i \in 1..(Len(u) + Len(v)) : (u \o v)[i] = IF i <= Len(u) THEN u[i] ELSE v[i - Len(u)]
  BY ConcatProperties, Zenon
<1> QED BY <1>1, Zenon

(* DraftBlockOverlap: the block's slots are those of the row after the     *)
(* committed tokens.                                                       *)
LEMMA DraftBlockOverlapKeeps ==
    ASSUME WindowInv, DraftBlockOverlap
    PROVE  WindowInv'
<1>1. /\ row \in Seq(Slot) /\ Paged(row) /\ Apart(row) /\ seqLen \in Nat /\ B \in Nat
      /\ Len(row) \in Nat /\ seqLen <= Len(row) /\ Overlap /\ draftRow \in Seq(Slot)
  BY WindowAssumption DEF WindowInv, TypeOK, DraftBlockOverlap
<1>2. \E r \in Extensions(row, Missing(seqLen + 2 * B)) :
          LET block == SubSeq(r, seqLen + 1, seqLen + B)
          IN  /\ row' = r
              /\ draftLen' = CompactLen(seqLen)
              /\ draftRow' = Assign(Suffix(r, seqLen) \o block)
              /\ Drafted({block[i] : i \in 1..B})
  BY DEF DraftBlockOverlap
<1>3. PICK count \in Nat : /\ count = Missing(seqLen + 2 * B)
                           /\ seqLen + B <= Len(row) + count
  <2>1. PICK m \in Nat : m = seqLen + 2 * B /\ seqLen + B <= m
    BY <1>1
  <2>2. Missing(m) \in Nat /\ seqLen + B <= Len(row) + Missing(m)
    BY <1>1, <2>1 DEF Missing
  <2> QED BY <2>1, <2>2
<1>4. PICK r \in Extensions(row, count) :
          /\ row' = r
          /\ draftLen' = CompactLen(seqLen)
          /\ draftRow' = Assign(Suffix(r, seqLen) \o SubSeq(r, seqLen + 1, seqLen + B))
          /\ Drafted({SubSeq(r, seqLen + 1, seqLen + B)[i] : i \in 1..B})
  BY <1>2, <1>3, Zenon
<1>5. /\ r \in Seq(Slot) /\ Len(r) = Len(row) + count /\ Paged(r)
      /\ \A i \in 1..Len(row) : r[i] = row[i]
  BY <1>1, RowTaken, ExtensionFacts
<1>6. Apart(r)
  BY <1>1, RowTaken, ExtensionApart
<1>7. PICK d \in 0..seqLen : d = CompactLen(seqLen)
  BY <1>1, CompactBounds
<1>8. PICK s \in Nat, a \in Nat : a = PageStart(s) /\ a = seqLen - d /\ a <= seqLen /\ seqLen - a = d
  <2>1. PICK s \in Nat : seqLen - d = PageStart(s)
    BY <1>1, <1>7, CompactBounds
  <2>2. seqLen - d \in Nat /\ seqLen - d <= seqLen /\ seqLen - (seqLen - d) = d
    BY <1>1
  <2> QED BY <2>1, <2>2
<1>9. PICK b \in Nat : b = seqLen + B /\ seqLen <= b /\ a <= b /\ b <= Len(r) /\ b - a = d + B /\ b - seqLen = B
  BY <1>1, <1>3, <1>5, <1>8
<1>10. Suffix(r, seqLen) = SubSeq(r, a + 1, seqLen)
  BY <1>7, <1>8, Zenon DEF Suffix
<1> DEFINE block == SubSeq(r, seqLen + 1, b)
           window == SubSeq(r, a + 1, seqLen)
           new == SubSeq(r, a + 1, b)
<1>11. seqLen <= Len(r)
  BY <1>1, <1>5
<1>12. block \in Seq(Slot) /\ Len(block) = B /\ \A i \in 1..B : block[i] = r[seqLen + i]
  BY <1>1, <1>5, <1>9, Segment
<1>13. window \in Seq(Slot) /\ Len(window) = d /\ \A i \in 1..d : window[i] = r[a + i]
  BY <1>1, <1>5, <1>8, <1>11, Segment
<1>14. new \in Seq(Slot) /\ Len(new) = d + B /\ \A i \in 1..(d + B) : new[i] = r[a + i]
  BY <1>5, <1>9, Segment, SMTT(60)
<1>15. Paged(new)
  BY <1>5, <1>6, <1>8, <1>9, SegmentPaged, Zenon
<1> HIDE DEF block, window, new
<1>16. window \o block = new
  <2>0. window \in Seq(Slot) /\ block \in Seq(Slot) /\ Len(window) = d /\ Len(block) = B
    BY <1>12, <1>13
  <2>1. /\ window \o block \in Seq(Slot) /\ Len(window \o block) = d + B
        /\ \A i \in 1..(d + B) : (window \o block)[i] = IF i <= d THEN window[i] ELSE block[i - d]
    BY <2>0, ConcatParts
  <2>2. \A i \in 1..(d + B) : (window \o block)[i] = new[i]
    <3>1. SUFFICES ASSUME NEW i \in 1..(d + B) PROVE (window \o block)[i] = new[i]
      OBVIOUS
    <3>2. CASE i <= d
      <4>1. i \in 1..d
        BY <3>2
      <4> QED BY <1>13, <1>14, <2>1, <3>2, <4>1, Zenon
    <3>3. CASE ~(i <= d)
      <4>1. i - d \in 1..B /\ seqLen + (i - d) = a + i
        BY <1>1, <1>8, <3>3
      <4>2. block[i - d] = r[a + i]
        BY <1>12, <4>1
      <4> QED BY <1>14, <2>1, <3>3, <4>2
    <3> QED BY <3>2, <3>3
  <2> QED BY <1>14, <2>1, <2>2, SeqEqual
<1> DEFINE slots == {block[i] : i \in 1..B}
<1>17. ASSUME NEW i \in 1..seqLen
       PROVE  r[i] = row[i] /\ r[i] \notin slots
  <2>1. i \in 1..Len(row) /\ i \in 1..Len(r)
    BY <1>1, <1>11, <1>5
  <2>2. ASSUME NEW k \in 1..B, r[i] = block[k]
        PROVE  FALSE
    <3>1. seqLen + k \in 1..Len(r) /\ i # seqLen + k
      BY <1>1, <1>9, <1>5
    <3>2. r[i] = r[seqLen + k]
      BY <1>12, <2>2
    <3> QED BY <1>5, <1>6, <2>1, <3>1, <3>2, SlotsDistinct
  <2> QED BY <1>5, <2>1, <2>2
<1>18. Drafted(slots)
  BY <1>4, <1>9, Zenon DEF block
<1>19. /\ draftRow' = Assign(new) /\ draftLen' = d /\ seqLen' = seqLen /\ phase' = "verify"
       /\ worker' = worker
  BY <1>4, <1>7, <1>9, <1>10, <1>16 DEF DraftBlockOverlap, block, window
<1> HIDE DEF slots
<1>20. \A i \in 1..d : new[i] = r[seqLen - d + i]
  <2>1. SUFFICES ASSUME NEW i \in 1..d PROVE new[i] = r[seqLen - d + i]
    OBVIOUS
  <2>2. i \in 1..(d + B)
    BY <1>1
  <2> QED BY <1>8, <1>14, <2>2, Zenon
<1>21. (~Overlap => Len(r) = seqLen) /\ (Overlap => seqLen + B <= Len(r))
  BY <1>1, <1>9
<1> QED BY <1>4, <1>5, <1>6, <1>7, <1>11, <1>14, <1>15, <1>17, <1>18, <1>19, <1>20, <1>21, AfterDraft, Zenon

(* Release: an empty row has every property of the invariant.              *)
LEMMA ReleaseKeeps ==
    ASSUME WindowInv, Release
    PROVE  WindowInv'
<1>1. /\ phase' = "prefill" /\ seqLen' = 0 /\ row' = <<>> /\ draftLen' = 0
      /\ kv' = [s \in Slot |-> -1] /\ draftRow' = draftRow /\ draftRow \in Seq(Slot)
      /\ MaxSeq \in Nat /\ worker' \in {"v1", "v2"}
  BY WindowAssumption DEF Release, WindowInv, TypeOK
<1>2. TypeOK'
  BY <1>1 DEF TypeOK, Slot
<1>3. Paged(row)' /\ Apart(row)' /\ KVExact' /\ LocalPages'
  BY <1>1 DEF Paged, Apart, KVExact, LocalPages
<1> QED BY <1>1, <1>2, <1>3 DEF WindowInv

(* Every action of the worker keeps the invariant.                         *)
LEMMA InvAlways == Spec => []WindowInv
<1>1. Init => WindowInv
  <2>1. SUFFICES ASSUME Init PROVE WindowInv
    OBVIOUS
  <2>2. MaxSeq \in Nat
    BY WindowAssumption
  <2>3. TypeOK
    BY <2>1, <2>2 DEF Init, TypeOK, Slot
  <2>4. Paged(row) /\ Apart(row) /\ KVExact /\ LocalPages
    BY <2>1 DEF Init, Paged, Apart, KVExact, LocalPages
  <2> QED BY <2>1, <2>3, <2>4 DEF WindowInv, Init
<1>2. WindowInv /\ [Next]_vars => WindowInv'
  <2>1. SUFFICES ASSUME WindowInv, [Next]_vars PROVE WindowInv'
    OBVIOUS
  <2>2. CASE UNCHANGED vars
    BY <2>1, <2>2 DEF vars, WindowInv, TypeOK, Overlap, Slot, Paged, Apart, KVExact, WindowRow,
                      CompactLen, PageStart, LocalPages
  <2>3. CASE Next
    BY <2>1, <2>3, PrefillKeeps, DraftBlockKeeps, DraftBlockOverlapKeeps, VerifyKeeps, ReleaseKeeps
       DEF Next
  <2> QED BY <2>1, <2>2, <2>3
<1> QED BY <1>1, <1>2, PTL DEF Spec

(* The rows of the draft worker hold slots of the pool, whatever is freed  *)
(* and reused.                                                             *)
THEOREM WindowTyped == Spec => []TypeOK
<1>1. WindowInv => TypeOK
  BY DEF WindowInv
<1> QED BY <1>1, InvAlways, PTL

(* The draft model attends to the window it should, with the KV entries of *)
(* that window, for every window, page and block size.                     *)
THEOREM WindowCorrect == Spec => []WindowExact
<1>1. WindowInv => WindowExact
  BY InvImplies
<1> QED BY <1>1, InvAlways, PTL

(* The page table derived from local positions is that of the window and   *)
(* of the block, for every window, page and block size.                    *)
THEOREM LocalPagesCorrect == Spec => []LocalPages
<1>1. WindowInv => LocalPages
  BY InvImplies
<1> QED BY <1>1, InvAlways, PTL
=============================================================================
