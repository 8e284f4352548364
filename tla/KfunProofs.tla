----------------------------- MODULE KfunProofs -----------------------------
(* Proofs about the kfuns of zlib.c and crypto.c: about the list of output *)
(* buffers, for buffers of any size and any limit on their number, and     *)
(* about what the kfuns of crypto.c accept and answer, and which objects   *)
(* they hold and free on the way there, for any arguments.                 *)
EXTENDS ZlibBuffers, Crypto, SequenceTheorems, WellFoundedInduction, TLAPS

(* The list is linked from buffer m - 1 down to the one on the stack, and  *)
(* these are all there are.                                                *)
Linked(m) ==
    /\ link[Stack] = None
    /\ \A b \in 1 .. m - 1 : link[b] = b - 1
    /\ heap = 1 .. m - 1
    /\ buf = m - 1

ListInv ==
    /\ misuse = FALSE
    /\ pc = "func" => /\ n \in 1 .. MaxOutbufs
                      /\ Linked(n)
                      /\ n > 1 => next = n - 2
                      /\ total - left = (n - 1) * Size
    /\ pc = "overflow" => /\ \E m \in 2 .. MaxOutbufs : Linked(m) /\ next = m - 2
                          /\ total >= MaxOutbufs * Size
    /\ pc = "array" => n \in 1 .. MaxOutbufs /\ Linked(n)
    /\ pc = "toolarge" => heap = {} /\ total >= MaxOutbufs * Size
    /\ pc = "done" => heap = {}

IInv == TypeOK /\ ListInv

LEMMA BufInit == Init => IInv
<1> SUFFICES ASSUME Init PROVE IInv
  OBVIOUS
<1> USE SizeAssumption, MaxOutbufsAssumption, MaxTotalAssumption DEF Init, Buffers, Stack, None
<1>1. NoChunk \in Chunk
  BY DEF NoChunk, Chunk
<1>2. TypeOK
  <2>1. data \in [Buffers -> Chunk] /\ array \in [Buffers -> Chunk]
    BY <1>1
  <2>2. link \in [Buffers -> Buffers \cup {None}]
    OBVIOUS
  <2>3. /\ n \in 0 .. MaxOutbufs /\ {buf, next} \subseteq Buffers \cup {None}
        /\ {total, left} \subseteq 0 .. MaxTotal
    OBVIOUS
  <2> QED BY <2>1, <2>2, <2>3 DEF TypeOK
<1>3. Linked(n)
  BY DEF Linked
<1>4. total - left = (n - 1) * Size
  OBVIOUS
<1>5. ListInv
  BY <1>3, <1>4 DEF ListInv
<1> QED BY <1>2, <1>5 DEF IInv

LEMMA BufNext == IInv /\ [Next]_vars => IInv'
<1> SUFFICES ASSUME IInv, [Next]_vars PROVE IInv'
  OBVIOUS
<1> USE SizeAssumption, MaxOutbufsAssumption, MaxTotalAssumption DEF Buffers, Stack, None
<1>1. CASE Fill
  <2>1. pc = "func" /\ left >= Size /\ n \in 1 .. MaxOutbufs /\ Linked(n)
    BY <1>1 DEF Fill, FillWith, IInv, ListInv
  <2>2. buf \in Buffers /\ data' \in [Buffers -> Chunk] /\ left' \in 0 .. MaxTotal
    <3>1. [first |-> total - left, size |-> Size] \in Chunk \/ left > total
      BY <2>1 DEF IInv, TypeOK, Chunk
    <3>2. (n - 1) * Size >= 0
      BY <2>1
    <3>3. left <= total
      BY <2>1, <3>2 DEF IInv, ListInv, TypeOK
    <3>4. /\ data' = [data EXCEPT ![buf] = [first |-> total - left, size |-> Size]]
          /\ left' = left - Size
      BY <1>1 DEF Fill, FillWith
    <3>5. [first |-> total - left, size |-> Size] \in Chunk
      BY <3>1, <3>3 DEF IInv, TypeOK
    <3> QED BY <2>1, <3>4, <3>5 DEF IInv, TypeOK, Linked
  <2>3. total - left' = n * Size
    <3>1. total - left = (n - 1) * Size /\ left' = left - Size
      BY <1>1, <2>1 DEF Fill, FillWith, IInv, ListInv
    <3>2. (n - 1) * Size + Size = n * Size
      BY <2>1
    <3>3. total \in Nat /\ left \in Nat /\ Size \in Nat
      BY SizeAssumption DEF IInv, TypeOK
    <3>4. total - left' = (total - left) + Size
      BY <3>1, <3>3
    <3> QED BY <3>1, <3>2, <3>4
  <2>4. CASE n >= MaxOutbufs
    <3>1. pc' = "overflow" /\ UNCHANGED <<n, buf, next, link, heap, misuse, total, array>>
      BY <1>1, <2>4 DEF Fill, FillWith
    <3>2. n = MaxOutbufs
      BY <2>1, <2>4
    <3>3. next = n - 2
      BY <2>1, <3>2 DEF IInv, ListInv, Linked
    <3> QED BY <2>1, <2>2, <2>3, <3>1, <3>2, <3>3 DEF IInv, ListInv, Linked, TypeOK
  <2>5. CASE n < MaxOutbufs
    <3>1. /\ pc' = pc /\ buf' = n /\ heap' = heap \cup {n} /\ n' = n + 1 /\ next' = buf
          /\ link' = [link EXCEPT ![n] = buf]
          /\ UNCHANGED <<misuse, total, array>>
      BY <1>1, <2>1, <2>5 DEF Fill, FillWith
    <3>2. Linked(n)'
      <4>1. /\ link'[Stack] = None
            /\ \A b \in 1 .. n : link'[b] = b - 1
        BY <2>1, <2>5, <3>1 DEF Linked, IInv, TypeOK
      <4>2. heap' = 1 .. n /\ buf' = n
        BY <2>1, <3>1 DEF Linked
      <4> QED BY <2>1, <3>1, <4>1, <4>2 DEF Linked
    <3>3. next' = n' - 2 /\ n' \in 1 .. MaxOutbufs
      BY <2>1, <2>5, <3>1 DEF Linked
    <3>4. ListInv'
      BY <2>1, <2>3, <3>1, <3>2, <3>3 DEF IInv, ListInv
    <3> QED BY <2>1, <2>2, <2>5, <3>1, <3>3, <3>4 DEF IInv, TypeOK, Linked
  <2> QED BY <2>1, <2>4, <2>5
<1>2. CASE Overflow
  <2>1. PICK m \in 2 .. MaxOutbufs : Linked(m) /\ next = m - 2
    BY <1>2 DEF Overflow, IInv, ListInv
  <2>2. /\ heap' = 1 .. m - 2 /\ buf' = m - 2 /\ next' = link[m - 2]
        /\ pc' = IF next' = None THEN "toolarge" ELSE "overflow"
        /\ misuse' = FALSE
        /\ UNCHANGED <<n, link, data, total, left, array>>
    <3>1. pc = "overflow" /\ misuse = FALSE /\ buf = m - 1 /\ heap = 1 .. m - 1
      BY <1>2, <2>1 DEF Overflow, IInv, ListInv, Linked
    <3>2. buf \in heap /\ Valid(next)
      BY <2>1, <3>1 DEF Valid
    <3>3. (1 .. m - 1) \ {m - 1} = 1 .. m - 2
      BY <2>1
    <3> QED BY <1>2, <2>1, <3>1, <3>2, <3>3 DEF Overflow, Free
  <2>3. CASE m = 2
    BY <1>2, <2>1, <2>2, <2>3 DEF Overflow, Linked, IInv, ListInv, TypeOK
  <2>4. CASE m > 2
    <3>1. next' = m - 3 /\ pc' = "overflow"
      BY <2>1, <2>2, <2>4 DEF Linked
    <3>2. Linked(m - 1)'
      BY <2>1, <2>2, <2>4 DEF Linked
    <3> QED BY <1>2, <2>1, <2>2, <2>4, <3>1, <3>2 DEF Overflow, IInv, ListInv, TypeOK
  <2> QED BY <2>1, <2>3, <2>4
<1>3. CASE Last
  <2>1. pc = "func" /\ left < Size /\ n \in 1 .. MaxOutbufs /\ Linked(n)
    BY <1>3 DEF Last, IInv, ListInv
  <2>2. data' \in [Buffers -> Chunk] /\ left' \in 0 .. MaxTotal /\ UNCHANGED <<link, total, array>>
    <3>1. (n - 1) * Size >= 0
      BY <2>1
    <3>2. left <= total
      BY <2>1, <3>1 DEF IInv, ListInv, TypeOK
    <3>3. [first |-> total - left, size |-> left] \in Chunk
      BY <2>1, <3>2 DEF IInv, TypeOK, Chunk
    <3>4. /\ data' = [data EXCEPT ![buf] = [first |-> total - left, size |-> left]]
          /\ left' = 0 /\ UNCHANGED <<link, total, array>>
      BY <1>3 DEF Last
    <3> QED BY <2>1, <3>3, <3>4 DEF IInv, TypeOK, Linked
  <2>3. CASE left = 0 /\ n = 1
    <3>1. pc' = "done" /\ n' = 0 /\ UNCHANGED <<buf, next, heap, misuse>>
      BY <1>3, <2>1, <2>3 DEF Last
    <3> QED BY <2>1, <2>2, <2>3, <3>1 DEF IInv, ListInv, Linked, TypeOK
  <2>4. CASE left = 0 /\ n # 1
    <3>1. /\ pc' = "array" /\ n' = n - 1 /\ next' = link[buf] /\ buf' = next' /\ Free(buf)
          /\ misuse' = (misuse \/ buf \notin heap)
      BY <1>3, <2>1, <2>4 DEF Last
    <3>2. Linked(n)' /\ misuse' = FALSE /\ buf' \in Buffers
      <4>1. buf \in heap /\ misuse = FALSE /\ buf' = n - 2
        BY <2>1, <2>4, <3>1 DEF Linked, IInv, ListInv
      <4>2. heap' = 1 .. n - 2
        BY <2>1, <2>4, <3>1 DEF Linked, Free
      <4>3. misuse' = FALSE
        BY <3>1, <4>1
      <4> QED BY <2>1, <2>2, <2>4, <3>1, <4>1, <4>2, <4>3 DEF Linked
    <3>3. n' \in 1 .. MaxOutbufs
      BY <2>1, <2>4, <3>1
    <3>4. ListInv'
      BY <3>1, <3>2, <3>3 DEF ListInv
    <3>5. {buf', next'} \subseteq Buffers /\ heap' \subseteq Buffers \ {Stack}
      BY <3>1, <3>2 DEF IInv, TypeOK, Free
    <3> QED BY <2>2, <3>1, <3>2, <3>3, <3>4, <3>5 DEF IInv, TypeOK
  <2>5. CASE left # 0
    <3>1. pc' = "array" /\ UNCHANGED <<n, buf, next, heap, misuse>>
      BY <1>3, <2>5 DEF Last
    <3> QED BY <2>1, <2>2, <2>5, <3>1 DEF IInv, ListInv, Linked, TypeOK
  <2> QED BY <2>3, <2>4, <2>5
<1>4. CASE Collect
  <2>1. pc = "array" /\ n \in 1 .. MaxOutbufs /\ Linked(n)
    BY <1>4 DEF Collect, IInv, ListInv
  <2>2. /\ n' = n - 1
        /\ misuse' = FALSE
        /\ UNCHANGED <<link, data, total, left>>
    BY <1>4, <2>1 DEF Collect, IInv, ListInv, TypeOK, Linked, Valid
  <2>5. array' \in [Buffers -> Chunk]
    <3>1. n - 1 \in Buffers /\ buf \in Buffers
      BY <2>1 DEF Linked
    <3>2. array' = [array EXCEPT ![n - 1] = data[buf]]
      BY <1>4 DEF Collect
    <3> QED BY <3>1, <3>2 DEF IInv, TypeOK
  <2>3. CASE n = 1
    <3>1. pc' = "done" /\ UNCHANGED <<buf, next, heap>>
      BY <1>4, <2>1, <2>2, <2>3 DEF Collect
    <3>2. ListInv'
      BY <2>1, <2>2, <2>3, <3>1 DEF ListInv, Linked
    <3>3. n' = 0
      BY <2>2, <2>3
    <3>4. TypeOK'
      <4>1. pc' \in {"func", "overflow", "array", "toolarge", "done"} /\ n' \in 0 .. MaxOutbufs
        BY <3>1, <3>3
      <4>2. /\ link' \in [Buffers -> Buffers \cup {None}]
            /\ data' \in [Buffers -> Chunk]
            /\ {total', left'} \subseteq 0 .. MaxTotal
            /\ misuse' \in BOOLEAN
        BY <2>2 DEF IInv, TypeOK
      <4>3. /\ {buf', next'} \subseteq Buffers \cup {None}
            /\ heap' \subseteq Buffers \ {Stack}
        BY <3>1 DEF IInv, TypeOK
      <4> QED BY <2>5, <4>1, <4>2, <4>3 DEF TypeOK
    <3> QED BY <3>2, <3>4 DEF IInv
  <2>4. CASE n # 1
    <3>1. pc' = pc /\ next' = link[buf] /\ buf' = next' /\ Free(buf)
      BY <1>4, <2>1, <2>2, <2>4 DEF Collect
    <3>2. Linked(n)' /\ buf' \in Buffers
      <4>1. buf' = n - 2 /\ heap' = 1 .. n - 2
        BY <2>1, <2>4, <3>1 DEF Linked, Free
      <4> QED BY <2>1, <2>2, <2>4, <4>1 DEF Linked
    <3>3. n' \in 1 .. MaxOutbufs
      BY <2>1, <2>2, <2>4
    <3>4. ListInv'
      BY <2>1, <2>2, <3>1, <3>2, <3>3 DEF ListInv
    <3>5. {buf', next'} \subseteq Buffers /\ heap' \subseteq Buffers \ {Stack}
      BY <3>1, <3>2 DEF IInv, TypeOK, Free
    <3>6. TypeOK'
      <4>1. pc' \in {"func", "overflow", "array", "toolarge", "done"} /\ n' \in 0 .. MaxOutbufs
        BY <2>1, <3>1, <3>3
      <4>2. /\ link' \in [Buffers -> Buffers \cup {None}]
            /\ data' \in [Buffers -> Chunk]
            /\ {total', left'} \subseteq 0 .. MaxTotal
            /\ misuse' \in BOOLEAN
        BY <2>2 DEF IInv, TypeOK
      <4> QED BY <2>5, <3>5, <4>1, <4>2 DEF TypeOK
    <3> QED BY <3>4, <3>6 DEF IInv
  <2> QED BY <2>3, <2>4
<1>5. CASE UNCHANGED vars
  BY <1>5 DEF vars, IInv, TypeOK, ListInv, Linked
<1> QED BY <1>1, <1>2, <1>3, <1>4, <1>5 DEF Next

LEMMA BufAlways == Spec => []IInv
BY BufInit, BufNext, PTL DEF Spec

(* The variables keep their types.                                         *)
THEOREM BufTypeCorrect == Spec => []TypeOK
<1>1. IInv => TypeOK BY DEF IInv
<1> QED BY <1>1, BufAlways, PTL

(* No buffer is freed twice or read after it was freed, and the one on the *)
(* stack is never freed.                                                   *)
THEOREM NeverMisused == Spec => []NoMisuse
<1>1. IInv => NoMisuse BY DEF IInv, ListInv, NoMisuse
<1> QED BY <1>1, BufAlways, PTL

(* Every buffer is freed before process() returns.                         *)
THEOREM NeverLeaks == Spec => []NoLeak
<1>1. IInv => NoLeak BY DEF IInv, ListInv, NoLeak
<1> QED BY <1>1, BufAlways, PTL

(* Only output that fills all buffers is refused.                          *)
THEOREM RefusesOnlyTooLarge == Spec => []RefusedIfTooLarge
<1>1. IInv => RefusedIfTooLarge BY DEF IInv, ListInv, RefusedIfTooLarge
<1> QED BY <1>1, BufAlways, PTL
-----------------------------------------------------------------------------
(* The contents of the buffers and of the array.                           *)

(* The string that has place i in the array.                               *)
Piece(i) == [first |-> i * Size,
             size |-> IF (i + 1) * Size <= total THEN Size ELSE total - i * Size]

(* Buffers that func() has left are full, and the array fills up from its  *)
(* end while the list is followed to its beginning.                        *)
PiecesInv ==
    /\ pc = "func" =>
          /\ \A b \in 0 .. n - 2 : data[b] = [first |-> b * Size, size |-> Size]
          /\ \A i \in Buffers : array[i] = NoChunk
    /\ pc = "array" =>
          /\ n <= Strings /\ Strings <= MaxOutbufs
          /\ \A b \in 0 .. n - 1 : data[b] = Piece(b)
    /\ pc \in {"array", "done"} =>
          /\ Strings <= MaxOutbufs
          /\ \A i \in n .. Strings - 1 : array[i] = Piece(i)
          /\ \A i \in Buffers : i >= Strings => array[i] = NoChunk
    /\ pc = "done" => n = 0

(* The length of the array: full buffers and what is in the last one.      *)
LEMMA StringsIs ==
    ASSUME TypeOK, NEW q \in Nat, NEW r \in 0 .. Size - 1, total = q * Size + r
    PROVE  Strings = IF r = 0 THEN q ELSE q + 1
<1>1. ASSUME NEW a \in Nat, NEW k \in Nat, a >= k * Size, a < (k + 1) * Size
      PROVE  a \div Size = k
  BY <1>1, SizeAssumption
<1>2. q * Size \in Nat /\ (q + 1) * Size = q * Size + Size /\ (q + 2) * Size = q * Size + Size + Size
  BY SizeAssumption
<1> DEFINE a == total + Size - 1
<1>3. a \in Nat /\ Strings = a \div Size
  BY SizeAssumption DEF Strings, TypeOK
<1>4. CASE r = 0
  <2>1. a >= q * Size /\ a < (q + 1) * Size
    BY <1>2, <1>4, SizeAssumption
  <2> HIDE DEF a
  <2> QED
    BY <1>1, <1>3, <1>4, <2>1
<1>5. CASE r # 0
  <2>1. a >= (q + 1) * Size /\ a < (q + 1 + 1) * Size
    BY <1>2, <1>5, SizeAssumption
  <2> HIDE DEF a
  <2> QED
    BY <1>1, <1>3, <1>5, <2>1
<1> QED
  BY <1>4, <1>5

(* Pieces before the end of the output are full.                           *)
LEMMA PieceIs ==
    ASSUME TypeOK, NEW q \in Nat, NEW r \in 0 .. Size - 1, total = q * Size + r
    PROVE  /\ \A b \in 0 .. q - 1 : Piece(b) = [first |-> b * Size, size |-> Size]
           /\ Piece(q) = [first |-> q * Size, size |-> r]
<1>1. \A b \in 0 .. q - 1 : (b + 1) * Size <= q * Size
  BY SizeAssumption
<1>2. q * Size \in Nat /\ (q + 1) * Size = q * Size + Size
  BY SizeAssumption
<1>3. \A b \in 0 .. q - 1 : (b + 1) * Size \in Nat
  BY SizeAssumption
<1> QED
  <2>1. total \in Nat /\ total < (q + 1) * Size /\ total - q * Size = r
    <3> DEFINE m == q * Size
    <3>1. m \in Nat /\ (q + 1) * Size = m + Size /\ total = m + r
      BY <1>2
    <3> HIDE DEF m
    <3>2. m + r \in Nat /\ m + r < m + Size /\ m + r - m = r
      BY <3>1, SizeAssumption
    <3> QED
      BY <3>1, <3>2 DEF m
  <2>2. ASSUME NEW b \in 0 .. q - 1 PROVE (b + 1) * Size <= total
    <3>1. (b + 1) * Size \in Nat /\ (b + 1) * Size <= q * Size
      BY <1>1, <1>3
    <3> QED
      BY <1>2, <3>1
  <2>3. ~((q + 1) * Size <= total)
    <3>1. (q + 1) * Size \in Nat
      BY <1>2, SizeAssumption
    <3> QED
      BY <2>1, <3>1
  <2> QED
    BY <2>1, <2>2, <2>3 DEF Piece

LEMMA PiecesNext ==
    ASSUME IInv, IInv', PiecesInv, [Next]_vars
    PROVE  PiecesInv'
<1> USE SizeAssumption, MaxOutbufsAssumption DEF Buffers, Stack, None
<1>1. CASE Fill
  <2>1. /\ pc = "func" /\ n \in 1 .. MaxOutbufs /\ buf = n - 1 /\ total - left = (n - 1) * Size
        /\ data' = [data EXCEPT ![buf] = [first |-> total - left, size |-> Size]]
        /\ UNCHANGED <<array, total>>
        /\ pc' = "overflow" \/ (pc' = "func" /\ n' = n + 1)
    BY <1>1 DEF Fill, FillWith, IInv, ListInv, Linked
  <2>2. data' = [data EXCEPT ![n - 1] = [first |-> (n - 1) * Size, size |-> Size]]
    BY <2>1
  <2>3. ASSUME pc' = "func", NEW b \in 0 .. n - 1
        PROVE  data'[b] = [first |-> b * Size, size |-> Size]
    <3>1. CASE b = n - 1
      BY <2>1, <2>2, <3>1 DEF IInv, TypeOK
    <3>2. CASE b \in 0 .. n - 2
      BY <2>1, <2>2, <3>2 DEF PiecesInv, IInv, TypeOK
    <3> QED
      BY <2>1, <3>1, <3>2
  <2>4. ASSUME pc' = "func" PROVE n' - 2 = n - 1
    BY <2>1, <2>4
  <2> QED
    BY <2>1, <2>3, <2>4 DEF PiecesInv
<1>2. CASE Overflow
  BY <1>2 DEF Overflow, PiecesInv
<1>3. CASE Last
  <2>1. /\ pc = "func" /\ left \in 0 .. Size - 1 /\ n \in 1 .. MaxOutbufs /\ buf = n - 1
        /\ data' = [data EXCEPT ![n - 1] = [first |-> (n - 1) * Size, size |-> left]]
        /\ array' = array /\ total' = total
    <3>1. /\ pc = "func" /\ left < Size /\ n \in 1 .. MaxOutbufs /\ buf = n - 1
          /\ total - left = (n - 1) * Size
      BY <1>3 DEF Last, IInv, ListInv, Linked
    <3>2. left \in 0 .. Size - 1
      BY <3>1, MaxTotalAssumption DEF IInv, TypeOK
    <3>3. /\ data' = [data EXCEPT ![buf] = [first |-> total - left, size |-> left]]
          /\ array' = array /\ total' = total
      BY <1>3 DEF Last
    <3> QED
      BY <3>1, <3>2, <3>3
  <2>2. total = (n - 1) * Size + left
    <3>1. total - left = (n - 1) * Size
      BY <2>1 DEF IInv, ListInv
    <3>2. total \in Nat /\ left \in Nat
      BY MaxTotalAssumption DEF IInv, TypeOK
    <3> DEFINE m == (n - 1) * Size
    <3>3. m \in Nat
      BY <2>1
    <3>4. total - left = m
      BY <3>1
    <3> HIDE DEF m
    <3>5. total = m + left
      BY <3>2, <3>3, <3>4
    <3> QED
      BY <3>5 DEF m
  <2>3. n - 1 \in Nat
    BY <2>1
  <2>4. Strings = IF left = 0 THEN n - 1 ELSE n
    BY <2>1, <2>2, <2>3, StringsIs DEF IInv
  <2>5. /\ \A b \in 0 .. n - 2 : Piece(b) = [first |-> b * Size, size |-> Size]
        /\ Piece(n - 1) = [first |-> (n - 1) * Size, size |-> left]
    BY <2>1, <2>2, <2>3, PieceIs DEF IInv
  <2>6. Strings' = Strings /\ \A i : Piece(i)' = Piece(i)
    BY <2>1 DEF Strings, Piece
  <2>7. \A b \in 0 .. n - 1 : data'[b] = Piece(b)
    BY <2>1, <2>5 DEF PiecesInv, IInv, TypeOK
  <2>8. CASE left = 0
    <3>1. n' = n - 1 /\ pc' = IF n' # 0 THEN "array" ELSE "done"
      BY <1>3, <2>8 DEF Last
    <3> QED
      BY <2>1, <2>4, <2>6, <2>7, <2>8, <3>1 DEF PiecesInv
  <2>9. CASE left # 0
    <3>1. n' = n /\ pc' = "array"
      BY <1>3, <2>9 DEF Last
    <3> QED
      BY <2>1, <2>4, <2>6, <2>7, <2>9, <3>1 DEF PiecesInv
  <2> QED
    BY <2>8, <2>9
<1>4. CASE Collect
  <2>1. /\ pc = "array" /\ n \in 1 .. MaxOutbufs /\ buf = n - 1
        /\ n' = n - 1 /\ array' = [array EXCEPT ![n - 1] = data[n - 1]]
        /\ UNCHANGED <<data, total>>
        /\ pc' = IF n' = 0 THEN "done" ELSE "array"
    BY <1>4 DEF Collect, IInv, ListInv, Linked
  <2>2. Strings' = Strings /\ \A i : Piece(i)' = Piece(i)
    BY <2>1 DEF Strings, Piece
  <2>3. Strings \in Nat
    <3>1. total \in Nat
      BY MaxTotalAssumption DEF IInv, TypeOK
    <3> HIDE DEF Buffers
    <3> QED
      BY <3>1 DEF Strings
  <2>4. data[n - 1] = Piece(n - 1)
    BY <2>1 DEF PiecesInv
  <2>5. array'[n - 1] = Piece(n - 1) /\ \A i \in Buffers : i # n - 1 => array'[i] = array[i]
    BY <2>1, <2>4 DEF IInv, TypeOK
  <2>6. n <= Strings /\ Strings <= MaxOutbufs
    BY <2>1 DEF PiecesInv
  <2>7. \A i \in n - 1 .. Strings - 1 : array'[i] = Piece(i)
    BY <2>1, <2>3, <2>5, <2>6 DEF PiecesInv
  <2>8. \A i \in Buffers : i >= Strings => array'[i] = NoChunk
    BY <2>1, <2>3, <2>5, <2>6 DEF PiecesInv
  <2>9. \A b \in 0 .. n - 2 : data'[b] = Piece(b)
    BY <2>1 DEF PiecesInv
  <2> HIDE DEF Buffers
  <2> QED
    BY <2>1, <2>2, <2>3, <2>6, <2>7, <2>8, <2>9 DEF PiecesInv, Buffers
<1>5. CASE UNCHANGED vars
  BY <1>5 DEF vars, PiecesInv, Piece, Strings
<1> QED
  BY <1>1, <1>2, <1>3, <1>4, <1>5 DEF Next

LEMMA PiecesAlways == Spec => []PiecesInv
<1>1. Init => PiecesInv
  BY DEF Init, PiecesInv, Buffers
<1> QED
  BY <1>1, PiecesNext, BufAlways, PTL DEF Spec

(* All output is in the array when the call returns it, in order and      *)
(* without a gap, whatever its length and the size of the buffers.         *)
THEOREM OutputIsWhole == Spec => []ArrayIsOutput
<1>1. PiecesInv => ArrayIsOutput
  BY DEF PiecesInv, ArrayIsOutput, Piece
<1> QED
  BY <1>1, PiecesAlways, PTL

-----------------------------------------------------------------------------
(* A set of numbers has a least one.                                       *)
LEMMA LeastNumber == ASSUME NEW T \in SUBSET Nat, T # {} PROVE \E x \in T : \A y \in T : x <= y
<1> DEFINE R == OpToRel(<, Nat)
<1>1. IsWellFoundedOn(R, Nat)
  BY NatLessThanWellFounded
<1>2. PICK x \in T : \A y \in T : ~(<<y, x>> \in R)
  <2> HIDE DEF R
  <2> QED BY <1>1, WFMin
<1>3. \A y \in T : ~(y < x)
  BY <1>2 DEF OpToRel
<1>4. \A y \in T : x <= y
  <2> TAKE y \in T
  <2>1. x \in Nat /\ y \in Nat /\ ~(y < x)
    BY <1>2, <1>3
  <2> QED BY <2>1
<1> QED BY <1>4

-----------------------------------------------------------------------------
(* The kfuns of crypto.c: sequences, of elements of any kind.              *)
IsSeq(s) == \E S : s \in Seq(S)

(* The result of a call is checked at once or never; a stage of such calls *)
(* has an error text if one of them is checked; no text is "good".         *)
Prompt(c) == c.checked # "later"
Ignored(c) == c.checked # "at once"
PromptCalls(s) == IsSeq(s) /\ \A i \in 1 .. Len(s) : Prompt(s[i])
PromptStage(s) ==
    /\ PromptCalls(s.calls)
    /\ s.error # "good"
    /\ s.error = "" => \A i \in 1 .. Len(s.calls) : Ignored(s.calls[i])
PromptStages(s) == IsSeq(s) /\ \A i \in 1 .. Len(s) : PromptStage(s[i])

(* Checks that say what is wrong.                                          *)
Texted(c) == c[2] # "good" /\ c[2] # ""
Checks(s) == IsSeq(s) /\ \A i \in 1 .. Len(s) : Texted(s[i])

LEMMA SeqDomain == \A s : IsSeq(s) => Len(s) \in Nat /\ DOMAIN s = 1 .. Len(s)
BY DEF IsSeq

(* A sequence is followed by another one.                                  *)
LEMMA Joined ==
    ASSUME NEW s, NEW t, IsSeq(s), IsSeq(t)
    PROVE  /\ IsSeq(s \o t) /\ Len(s \o t) = Len(s) + Len(t)
           /\ \A i \in 1 .. Len(s) : (s \o t)[i] = s[i]
           /\ \A i \in Len(s) + 1 .. Len(s) + Len(t) : (s \o t)[i] = t[i - Len(s)]
<1>1. PICK A : s \in Seq(A)
  BY DEF IsSeq
<1>2. PICK B : t \in Seq(B)
  BY DEF IsSeq
<1> DEFINE S == A \cup B
<1>3. s \in Seq(S) /\ t \in Seq(S)
  BY <1>1, <1>2, SeqMonotonic
<1>4. /\ s \o t \in Seq(S) /\ Len(s \o t) = Len(s) + Len(t)
      /\ \A i \in 1 .. Len(s) + Len(t) : (s \o t)[i] = IF i <= Len(s) THEN s[i] ELSE t[i - Len(s)]
  <2> HIDE DEF S
  <2> QED BY <1>3, ConcatProperties
<1>5. Len(s) \in Nat /\ Len(t) \in Nat
  BY SeqDomain
<1>6. IsSeq(s \o t)
  BY <1>4 DEF IsSeq
<1> HIDE DEF S
<1>7. \A i \in 1 .. Len(s) : (s \o t)[i] = s[i]
  BY <1>4, <1>5
<1>8. \A i \in Len(s) + 1 .. Len(s) + Len(t) : (s \o t)[i] = t[i - Len(s)]
  BY <1>4, <1>5
<1> QED BY <1>4, <1>6, <1>7, <1>8

LEMMA Tuples ==
    /\ \A a : IsSeq(<<a>>) /\ Len(<<a>>) = 1 /\ <<a>>[1] = a
    /\ \A a, b : IsSeq(<<a, b>>) /\ Len(<<a, b>>) = 2
    /\ \A a, b, c : IsSeq(<<a, b, c>>) /\ Len(<<a, b, c>>) = 3
<1>1. \A a : <<a>> \in Seq({a}) /\ Len(<<a>>) = 1 /\ <<a>>[1] = a
  OBVIOUS
<1>2. \A a, b : <<a, b>> \in Seq({a, b}) /\ Len(<<a, b>>) = 2
  OBVIOUS
<1>3. \A a, b, c : <<a, b, c>> \in Seq({a, b, c}) /\ Len(<<a, b, c>>) = 3
  OBVIOUS
<1> QED BY <1>1, <1>2, <1>3 DEF IsSeq

LEMMA CallsJoined == ASSUME NEW s, NEW t, PromptCalls(s), PromptCalls(t) PROVE PromptCalls(s \o t)
<1> DEFINE u == s \o t
<1>1. Len(s) \in Nat /\ Len(t) \in Nat
  BY SeqDomain DEF PromptCalls
<1>2. \A i \in 1 .. Len(u) : Prompt(u[i])
  <2> TAKE i \in 1 .. Len(u)
  <2>1. CASE i <= Len(s)
    <3>1. i \in 1 .. Len(s)
      BY <1>1, <2>1, Joined DEF PromptCalls
    <3> QED BY <3>1, Joined DEF PromptCalls
  <2>2. CASE ~(i <= Len(s))
    <3>1. i \in Len(s) + 1 .. Len(s) + Len(t) /\ i - Len(s) \in 1 .. Len(t)
      BY <1>1, <2>2, Joined DEF PromptCalls
    <3> QED BY <3>1, Joined DEF PromptCalls
  <2> QED BY <2>1, <2>2
<1> QED BY <1>2, Joined DEF PromptCalls

(* Only NewLater makes a call that is checked later.                       *)
LEMMA CallKinds ==
    /\ \A op, p, uses : Prompt(New(op, p, uses)) /\ Prompt(NewUnchecked(op, p, uses))
    /\ \A op, uses : Prompt(Do(op, uses)) /\ Prompt(DoUnchecked(op, uses))
    /\ \A op, p, q : Prompt(Give(op, p, q)) /\ Prompt(Refer(op, p, q)) /\ Prompt(NewOn(op, p, q))
<1>1. ASSUME NEW op, NEW p, NEW uses
      PROVE  Prompt(New(op, p, uses)) /\ Prompt(NewUnchecked(op, p, uses))
  BY DEF New, NewUnchecked, Call, Prompt
<1>2. ASSUME NEW op, NEW uses PROVE Prompt(Do(op, uses)) /\ Prompt(DoUnchecked(op, uses))
  BY DEF Do, DoUnchecked, Call, Prompt
<1>3. ASSUME NEW op, NEW p, NEW q
      PROVE  Prompt(Give(op, p, q)) /\ Prompt(Refer(op, p, q)) /\ Prompt(NewOn(op, p, q))
  BY DEF Give, Refer, NewOn, Call, Prompt
<1> QED BY <1>1, <1>2, <1>3

LEMMA PromptTuples ==
    /\ \A a : Prompt(a) => PromptCalls(<<a>>)
    /\ \A a, b : Prompt(a) /\ Prompt(b) => PromptCalls(<<a, b>>)
    /\ \A a, b, c : Prompt(a) /\ Prompt(b) /\ Prompt(c) => PromptCalls(<<a, b, c>>)
    /\ \A a, b, c, d : Prompt(a) /\ Prompt(b) /\ Prompt(c) /\ Prompt(d) => PromptCalls(<<a, b, c, d>>)
    /\ \A a, b, c, d, e : Prompt(a) /\ Prompt(b) /\ Prompt(c) /\ Prompt(d) /\ Prompt(e)
         => PromptCalls(<<a, b, c, d, e>>)
<1>1. ASSUME NEW a, Prompt(a) PROVE PromptCalls(<<a>>)
  <2>1. <<a>> \in Seq({a})
    OBVIOUS
  <2>2. IsSeq(<<a>>)
    BY <2>1 DEF IsSeq
  <2>3. \A i \in 1 .. Len(<<a>>) : Prompt(<<a>>[i])
    BY <1>1
  <2> QED BY <2>2, <2>3 DEF PromptCalls
<1>2. ASSUME NEW a, NEW b, Prompt(a), Prompt(b) PROVE PromptCalls(<<a, b>>)
  <2>1. <<a, b>> \in Seq({a, b})
    OBVIOUS
  <2>2. IsSeq(<<a, b>>)
    BY <2>1 DEF IsSeq
  <2>3. \A i \in 1 .. Len(<<a, b>>) : Prompt(<<a, b>>[i])
    BY <1>2
  <2> QED BY <2>2, <2>3 DEF PromptCalls
<1>3. ASSUME NEW a, NEW b, NEW c, Prompt(a), Prompt(b), Prompt(c) PROVE PromptCalls(<<a, b, c>>)
  <2>1. <<a, b, c>> \in Seq({a, b, c})
    OBVIOUS
  <2>2. IsSeq(<<a, b, c>>)
    BY <2>1 DEF IsSeq
  <2>3. \A i \in 1 .. Len(<<a, b, c>>) : Prompt(<<a, b, c>>[i])
    BY <1>3
  <2> QED BY <2>2, <2>3 DEF PromptCalls
<1>4. ASSUME NEW a, NEW b, NEW c, NEW d, Prompt(a), Prompt(b), Prompt(c), Prompt(d)
      PROVE  PromptCalls(<<a, b, c, d>>)
  <2>1. <<a, b, c, d>> \in Seq({a, b, c, d})
    OBVIOUS
  <2>2. IsSeq(<<a, b, c, d>>)
    BY <2>1 DEF IsSeq
  <2>3. \A i \in 1 .. Len(<<a, b, c, d>>) : Prompt(<<a, b, c, d>>[i])
    BY <1>4
  <2> QED BY <2>2, <2>3 DEF PromptCalls
<1>5. ASSUME NEW a, NEW b, NEW c, NEW d, NEW e, Prompt(a), Prompt(b), Prompt(c), Prompt(d), Prompt(e)
      PROVE  PromptCalls(<<a, b, c, d, e>>)
  <2>1. <<a, b, c, d, e>> \in Seq({a, b, c, d, e})
    OBVIOUS
  <2>2. IsSeq(<<a, b, c, d, e>>)
    BY <2>1 DEF IsSeq
  <2>3. \A i \in 1 .. Len(<<a, b, c, d, e>>) : Prompt(<<a, b, c, d, e>>[i])
    BY <1>5
  <2> QED BY <2>2, <2>3 DEF PromptCalls
<1> QED BY <1>1, <1>2, <1>3, <1>4, <1>5

LEMMA EcCalls == PromptCalls(PrivateEc) /\ PromptCalls(PublicEc)
<1>1. PromptCalls(PrivateEc)
  BY CallKinds, PromptTuples DEF PrivateEc
<1>2. PromptCalls(PublicEc)
  BY CallKinds, PromptTuples DEF PublicEc
<1> QED BY <1>1, <1>2

(* Functions of the numbers up to some size are sequences.                 *)
LEMMA OfFunction == \A f : \A size \in Nat : f = [i \in 1 .. size |-> f[i]] => IsSeq(f) /\ Len(f) = size
<1> SUFFICES ASSUME NEW f, NEW size \in Nat, f = [i \in 1 .. size |-> f[i]] PROVE IsSeq(f) /\ Len(f) = size
  OBVIOUS
<1> DEFINE S == {f[i] : i \in 1 .. size}
<1>1. f \in [1 .. size -> S]
  OBVIOUS
<1>2. f \in Seq(S)
  <2> HIDE DEF S
  <2> QED BY <1>1, SeqDef
<1>3. DOMAIN f = 1 .. size /\ DOMAIN f = 1 .. Len(f) /\ Len(f) \in Nat
  <2> HIDE DEF S
  <2> QED BY <1>1, <1>2
<1> HIDE DEF S
<1> QED BY <1>2, <1>3 DEF IsSeq

LEMMA CtxPrompt == ASSUME NEW ops, IsSeq(ops) PROVE PromptCalls(CtxCalls(ops))
<1> DEFINE f == [i \in DOMAIN ops |-> Do(ops[i], {"ctx"})]
<1>1. Len(ops) \in Nat /\ DOMAIN ops = 1 .. Len(ops)
  BY SeqDomain
<1>2. f = [i \in 1 .. Len(ops) |-> f[i]]
  BY <1>1
<1>3. IsSeq(f) /\ Len(f) = Len(ops)
  <2> HIDE DEF f
  <2> QED BY <1>1, <1>2, OfFunction
<1>4. \A i \in 1 .. Len(f) : Prompt(f[i])
  BY <1>1, <1>3, CallKinds
<1>5. PromptCalls(f)
  BY <1>3, <1>4 DEF PromptCalls
<1>6. PromptCalls(<<New("EVP_CIPHER_CTX_new", "ctx", {})>>)
  BY CallKinds, PromptTuples
<1> HIDE DEF f
<1>7. PromptCalls(<<New("EVP_CIPHER_CTX_new", "ctx", {})>> \o f)
  BY <1>5, <1>6, CallsJoined
<1> QED BY <1>7 DEF CtxCalls, f

(* The calls of the ciphers, in their orders.                              *)
LEMMA Opened ==
    /\ PromptCalls(CtxCalls(<<"cipher", "ivlen", "key", "aad", "text", "tag">>))
    /\ PromptCalls(CtxCalls(<<"cipher", "ivlen", "tag", "key", "aad", "text">>))
    /\ PromptCalls(CtxCalls(<<"cipher", "ivlen", "tag", "key", "total", "aad">>))
    /\ PromptCalls(CtxCalls(<<"cipher", "ivlen", "key", "aad", "text", "final", "get tag">>))
    /\ PromptCalls(CtxCalls(<<"cipher", "ivlen", "tag", "key", "total", "aad", "text", "final", "get tag">>))
<1>1. \A a, b, c, d, e, f : IsSeq(<<a, b, c, d, e, f>>)
  <2> TAKE a, b, c, d, e, f
  <2>1. <<a, b, c, d, e, f>> \in Seq({a, b, c, d, e, f})
    OBVIOUS
  <2> QED BY <2>1 DEF IsSeq
<1>2. \A a, b, c, d, e, f, g : IsSeq(<<a, b, c, d, e, f, g>>)
  <2> TAKE a, b, c, d, e, f, g
  <2>1. <<a, b, c, d, e, f, g>> \in Seq({a, b, c, d, e, f, g})
    OBVIOUS
  <2> QED BY <2>1 DEF IsSeq
<1>3. \A a, b, c, d, e, f, g, h, i : IsSeq(<<a, b, c, d, e, f, g, h, i>>)
  <2> TAKE a, b, c, d, e, f, g, h, i
  <2>1. <<a, b, c, d, e, f, g, h, i>> \in Seq({a, b, c, d, e, f, g, h, i})
    OBVIOUS
  <2> QED BY <2>1 DEF IsSeq
<1> QED BY <1>1, <1>2, <1>3, CtxPrompt

LEMMA PromptMade ==
    ASSUME NEW nulls, NEW calls, NEW error, NEW cleanup, NEW release,
           PromptCalls(calls), error # "good", error # ""
    PROVE  PromptStage(Stage(nulls, calls, error, cleanup, release))
BY DEF PromptStage, Stage

LEMMA StageTuples ==
    /\ PromptStages(<<>>)
    /\ \A a : PromptStage(a) => PromptStages(<<a>>)
    /\ \A a, b : PromptStage(a) /\ PromptStage(b) => PromptStages(<<a, b>>)
    /\ \A a, b, c : PromptStage(a) /\ PromptStage(b) /\ PromptStage(c) => PromptStages(<<a, b, c>>)
<1>0. PromptStages(<<>>)
  <2>1. <<>> \in Seq({})
    OBVIOUS
  <2> QED BY <2>1 DEF PromptStages, IsSeq
<1>1. ASSUME NEW a, PromptStage(a) PROVE PromptStages(<<a>>)
  <2>1. IsSeq(<<a>>)
    BY Tuples
  <2>2. \A i \in 1 .. Len(<<a>>) : PromptStage(<<a>>[i])
    BY <1>1
  <2> QED BY <2>1, <2>2 DEF PromptStages
<1>2. ASSUME NEW a, NEW b, PromptStage(a), PromptStage(b) PROVE PromptStages(<<a, b>>)
  <2>1. IsSeq(<<a, b>>)
    BY Tuples
  <2>2. \A i \in 1 .. Len(<<a, b>>) : PromptStage(<<a, b>>[i])
    BY <1>2
  <2> QED BY <2>1, <2>2 DEF PromptStages
<1>3. ASSUME NEW a, NEW b, NEW c, PromptStage(a), PromptStage(b), PromptStage(c)
      PROVE  PromptStages(<<a, b, c>>)
  <2>1. IsSeq(<<a, b, c>>)
    BY Tuples
  <2>2. \A i \in 1 .. Len(<<a, b, c>>) : PromptStage(<<a, b, c>>[i])
    BY <1>3
  <2> QED BY <2>1, <2>2 DEF PromptStages
<1> QED BY <1>0, <1>1, <1>2, <1>3

(* The stages that several kfuns have.                                     *)
LEMMA StagesKnown ==
    /\ PromptStage(SignStage) /\ PromptStage(VerifyStage) /\ PromptStage(DeriveStage)
    /\ PromptStage(Intermediate)
<1>1. PromptStage(SignStage)
  <2>1. PromptCalls(SignStage.calls)
    BY CallKinds, PromptTuples DEF SignStage, Stage
  <2> QED BY <2>1 DEF PromptStage, SignStage, Stage
<1>2. PromptStage(VerifyStage)
  <2>1. PromptCalls(VerifyStage.calls)
    BY CallKinds, PromptTuples DEF VerifyStage, Stage
  <2> QED BY <2>1 DEF PromptStage, VerifyStage, Stage
<1>3. PromptStage(DeriveStage)
  <2>1. PromptCalls(DeriveStage.calls)
    BY CallKinds, PromptTuples DEF DeriveStage, Stage
  <2> QED BY <2>1 DEF PromptStage, DeriveStage, Stage
<1>4. Prompt(Call("sk_X509_push", "", {"stack", "intermediate"}, "stack", "intermediate", TRUE, "never"))
  BY DEF Call, Prompt
<1>5. PromptStage(Intermediate)
  <2>1. Prompt(New("d2i_X509", "intermediate", {}))
    BY CallKinds
  <2> DEFINE push == Call("sk_X509_push", "", {"stack", "intermediate"}, "stack", "intermediate", TRUE, "never")
             calls == <<New("d2i_X509", "intermediate", {}), push>>
  <2>2. PromptCalls(calls)
    <3> HIDE DEF push
    <3> QED BY <1>4, <2>1, PromptTuples DEF push
  <2>3. Intermediate.calls = calls
    BY DEF Intermediate, Stage
  <2> QED BY <2>2, <2>3 DEF PromptStage, Intermediate, Stage
<1> QED BY <1>1, <1>2, <1>3, <1>5

LEMMA ListsKnown ==
    /\ \A op : PromptCalls(<<New(op, "key", {})>>) /\ PromptCalls(<<Do(op, {})>>)
    /\ \A op, on : PromptCalls(<<New(op, "key", {}), NewOn(on, "context", "key")>>)
    /\ \A f, g, h, u, v, w :
          PromptCalls(<<New(f, "context", {}), Do(g, u), New(h, "key", v)>>)
    /\ \A f, g, h, m, y, u, v, w, x :
          PromptCalls(<<New(f, "context", {}), Do(g, u), Do(h, v), New(m, "key", w), Do(y, x)>>)
<1> USE CallKinds
<1>1. \A op : PromptCalls(<<New(op, "key", {})>>) /\ PromptCalls(<<Do(op, {})>>)
  BY PromptTuples
<1>2. \A op, on : PromptCalls(<<New(op, "key", {}), NewOn(on, "context", "key")>>)
  BY PromptTuples
<1>3. \A f, g, h, u, v, w : PromptCalls(<<New(f, "context", {}), Do(g, u), New(h, "key", v)>>)
  BY PromptTuples
<1>4. \A f, g, h, m, y, u, v, w, x :
         PromptCalls(<<New(f, "context", {}), Do(g, u), Do(h, v), New(m, "key", w), Do(y, x)>>)
  BY PromptTuples
<1> QED BY <1>1, <1>2, <1>3, <1>4

(* Stages without an error exit make no call that is checked.              *)
LEMMA Unchecked ==
    ASSUME NEW nulls, NEW calls, NEW cleanup, NEW release, PromptCalls(calls),
           \A i \in 1 .. Len(calls) : Ignored(calls[i])
    PROVE  PromptStage(Stage(nulls, calls, "", cleanup, release))
BY DEF PromptStage, Stage

LEMMA KeyTaken ==
    /\ PromptStage(Stage({}, <<Call("EC_KEY_key2buf", "p", {"key"}, "", "", FALSE, "out")>>, "", <<>>, <<>>))
    /\ PromptStage(Stage({}, <<DoUnchecked("EVP_PKEY_get_raw_public_key", {"key"}),
                               DoUnchecked("EVP_PKEY_get_raw_private_key", {"key"})>>, "", <<>>, <<>>))
<1> DEFINE out == Call("EC_KEY_key2buf", "p", {"key"}, "", "", FALSE, "out")
<1>1. Prompt(out) /\ Ignored(out)
  BY DEF Prompt, Ignored, Call
<1>2. \A op, u : Prompt(DoUnchecked(op, u)) /\ Ignored(DoUnchecked(op, u))
  BY DEF DoUnchecked, Prompt, Ignored, Call
<1> HIDE DEF out
<1>3. PromptCalls(<<out>>) /\ \A i \in 1 .. Len(<<out>>) : Ignored(<<out>>[i])
  <2>1. PromptCalls(<<out>>)
    BY <1>1, PromptTuples
  <2>2. \A i \in 1 .. Len(<<out>>) : Ignored(<<out>>[i])
    BY <1>1
  <2> QED BY <2>1, <2>2
<1> DEFINE raw == <<DoUnchecked("EVP_PKEY_get_raw_public_key", {"key"}),
                    DoUnchecked("EVP_PKEY_get_raw_private_key", {"key"})>>
<1>4. PromptCalls(raw) /\ \A i \in 1 .. Len(raw) : Ignored(raw[i])
  <2>1. PromptCalls(raw)
    BY <1>2, PromptTuples
  <2>2. \A i \in 1 .. Len(raw) : Ignored(raw[i])
    BY <1>2
  <2> QED BY <2>1, <2>2
<1> HIDE DEF raw
<1>5. PromptStage(Stage({}, <<out>>, "", <<>>, <<>>)) /\ PromptStage(Stage({}, raw, "", <<>>, <<>>))
  BY <1>3, <1>4, Unchecked
<1> QED BY <1>5 DEF out, raw

(* The stages of each kfun are prompt, but for verify_certificate.         *)
LEMMA KfunStages ==
    ASSUME NEW a
    PROVE  /\ PromptStages(EcKey(a).stages) /\ PromptStages(EcxKey(a).stages)
           /\ PromptStages(EcSign(a).stages) /\ PromptStages(EcxSign(a).stages)
           /\ PromptStages(EcDerive(a).stages) /\ PromptStages(EcxDerive(a).stages)
           /\ PromptStages(EcVerify(a).stages) /\ PromptStages(EcxVerify(a).stages)
           /\ PromptStages(SecureRandom(a).stages) /\ PromptStages(MaskXor(a).stages)
<1>1. PromptStages(EcSign(a).stages)
  BY EcCalls, StagesKnown, StageTuples, PromptMade DEF EcSign, Kfun
<1>2. PromptStages(EcxSign(a).stages)
  BY ListsKnown, StagesKnown, StageTuples, PromptMade DEF EcxSign, Kfun
<1>3. PromptStages(EcVerify(a).stages)
  BY EcCalls, StagesKnown, StageTuples, PromptMade DEF EcVerify, Kfun
<1>4. PromptStages(EcxVerify(a).stages)
  BY ListsKnown, StagesKnown, StageTuples, PromptMade DEF EcxVerify, Kfun
<1>5. PromptStages(MaskXor(a).stages)
  BY StageTuples DEF MaskXor, Kfun
<1>6. PromptStages(SecureRandom(a).stages)
  <2>1. PromptStage(Stage({}, <<Do("RAND_bytes", {})>>, "OpenSSL", <<>>, <<>>))
    BY ListsKnown, PromptMade
  <2> QED BY <2>1, StageTuples DEF SecureRandom, Kfun
<1>7. PromptStages(EcxDerive(a).stages)
  BY ListsKnown, StagesKnown, StageTuples, PromptMade DEF EcxDerive, Kfun
<1>8. PromptStages(EcDerive(a).stages)
  BY EcCalls, CallsJoined, CallKinds, PromptTuples, StagesKnown, StageTuples, PromptMade DEF EcDerive, Kfun
<1>9. PromptStages(EcxKey(a).stages)
  BY ListsKnown, KeyTaken, StageTuples, PromptMade DEF EcxKey, Kfun
<1>10. PromptStages(EcKey(a).stages)
  BY ListsKnown, KeyTaken, StageTuples, PromptMade DEF EcKey, Kfun
<1> QED BY <1>1, <1>2, <1>3, <1>4, <1>5, <1>6, <1>7, <1>8, <1>9, <1>10

LEMMA CipherStages ==
    ASSUME NEW a, NEW size
    PROVE  /\ PromptStages(EncryptAesGcm(a, size).stages) /\ PromptStages(EncryptChacha20(a).stages)
           /\ PromptStages(EncryptAesCcm(a).stages)
           /\ PromptStages(DecryptAesGcm(a, size).stages) /\ PromptStages(DecryptChacha20(a).stages)
           /\ PromptStages(DecryptAesCcm(a).stages)
<1>1. PromptStages(EncryptAesGcm(a, size).stages)
  BY Opened, StageTuples, PromptMade DEF EncryptAesGcm, Kfun
<1>2. PromptStages(EncryptChacha20(a).stages)
  BY Opened, StageTuples, PromptMade DEF EncryptChacha20, Kfun
<1>3. PromptStages(EncryptAesCcm(a).stages)
  BY Opened, StageTuples, PromptMade DEF EncryptAesCcm, Kfun
<1>4. PromptStages(DecryptAesGcm(a, size).stages)
  BY Opened, StageTuples, PromptMade DEF DecryptAesGcm, Kfun
<1>5. PromptStages(DecryptChacha20(a).stages)
  BY Opened, StageTuples, PromptMade DEF DecryptChacha20, Kfun
<1>6. PromptStages(DecryptAesCcm(a).stages)
  BY Opened, StageTuples, PromptMade DEF DecryptAesCcm, Kfun
<1> QED BY <1>1, <1>2, <1>3, <1>4, <1>5, <1>6

LEMMA HashStages == ASSUME NEW a \in Seq(Argument) PROVE PromptStages(Hash(a).stages)
<1> DEFINE first == <<NewUnchecked("EVP_MD_CTX_new", "ctx", {}), DoUnchecked("EVP_DigestInit_ex", {"ctx"})>>
           each == [i \in DOMAIN a |-> DoUnchecked("EVP_DigestUpdate", {"ctx"})]
           last == <<DoUnchecked("EVP_DigestFinal_ex", {"ctx"})>>
           Silent(s) == PromptCalls(s) /\ \A i \in 1 .. Len(s) : Ignored(s[i])
<1>1. \A op, u : Prompt(DoUnchecked(op, u)) /\ Ignored(DoUnchecked(op, u))
  BY DEF DoUnchecked, Prompt, Ignored, Call
<1>2. \A op, u : Prompt(NewUnchecked(op, "ctx", u)) /\ Ignored(NewUnchecked(op, "ctx", u))
  BY DEF NewUnchecked, Prompt, Ignored, Call
<1>3. Silent(first)
  <2>1. PromptCalls(first)
    BY <1>1, <1>2, PromptTuples
  <2>2. \A i \in 1 .. Len(first) : Ignored(first[i])
    BY <1>1, <1>2
  <2> QED BY <2>1, <2>2
<1>4. Silent(last)
  <2>1. PromptCalls(last)
    BY <1>1, PromptTuples
  <2>2. \A i \in 1 .. Len(last) : Ignored(last[i])
    BY <1>1
  <2> QED BY <2>1, <2>2
<1>5. Silent(each)
  <2>1. Len(a) \in Nat /\ DOMAIN a = 1 .. Len(a)
    OBVIOUS
  <2>2. each = [i \in 1 .. Len(a) |-> each[i]]
    BY <2>1
  <2>3. IsSeq(each) /\ Len(each) = Len(a)
    <3> HIDE DEF each
    <3> QED BY <2>1, <2>2, OfFunction
  <2>4. \A i \in 1 .. Len(each) : Prompt(each[i]) /\ Ignored(each[i])
    BY <1>1, <2>1, <2>3
  <2> QED BY <2>3, <2>4 DEF PromptCalls
<1>6. ASSUME NEW s, NEW t, Silent(s), Silent(t) PROVE Silent(s \o t)
  <2>1. PromptCalls(s \o t)
    BY <1>6, CallsJoined
  <2>2. \A i \in 1 .. Len(s \o t) : Ignored((s \o t)[i])
    <3> TAKE i \in 1 .. Len(s \o t)
    <3>1. IsSeq(s) /\ IsSeq(t) /\ Len(s) \in Nat /\ Len(t) \in Nat
      BY <1>6, SeqDomain DEF PromptCalls
    <3>2. CASE i <= Len(s)
      <4>1. i \in 1 .. Len(s)
        BY <3>1, <3>2, Joined
      <4> QED BY <1>6, <3>1, <4>1, Joined
    <3>3. CASE ~(i <= Len(s))
      <4>1. i \in Len(s) + 1 .. Len(s) + Len(t) /\ i - Len(s) \in 1 .. Len(t)
        BY <3>1, <3>3, Joined
      <4> QED BY <1>6, <3>1, <4>1, Joined
    <3> QED BY <3>2, <3>3
  <2> QED BY <2>1, <2>2
<1> HIDE DEF first, each, last
<1>7. Silent(first \o each \o last)
  <2> HIDE DEF Silent
  <2>1. Silent(first \o each)
    BY <1>3, <1>5, <1>6
  <2> QED BY <1>4, <1>6, <2>1
<1>8. PromptStage(Stage({}, first \o each \o last, "", <<>>, <<>>))
  BY <1>7, Unchecked
<1>9. Hash(a).stages = <<Stage({}, first \o each \o last, "", <<>>, <<>>)>>
  BY DEF Hash, Kfun, first, each, last
<1> QED BY <1>8, <1>9, StageTuples

(* The stages of verify_certificate are, up to the last.                   *)
LEMMA FrontStages ==
    ASSUME NEW a \in Seq(Argument)
    PROVE  \E front : PromptStages(front) /\ VerifyCertificate(a).stages = front \o <<StoreStage>>
<1> DEFINE opened == <<Stage({}, <<New("d2i_X509", "certificate", {})>>, "Bad certificate", <<>>, <<>>),
                       Stage({}, <<New("sk_X509_new_reserve", "stack", {})>>, "SSL stack error",
                             Chains(<<"certificate">>), <<>>)>>
           each == [i \in 1 .. Len(a) - 2 |-> Intermediate]
<1>1. PromptStages(opened)
  <2>1. /\ PromptCalls(<<New("d2i_X509", "certificate", {})>>)
        /\ PromptCalls(<<New("sk_X509_new_reserve", "stack", {})>>)
    BY CallKinds, PromptTuples
  <2> QED BY <2>1, PromptMade, StageTuples
<1>2. PromptStages(each)
  <2>1. PICK m \in Nat : 1 .. Len(a) - 2 = 1 .. m
    <3>1. CASE Len(a) - 2 < 0
      BY <3>1
    <3>2. CASE Len(a) - 2 >= 0
      <4>1. Len(a) - 2 \in Nat
        BY <3>2
      <4> QED BY <4>1
    <3> QED BY <3>1, <3>2
  <2>2. each = [i \in 1 .. m |-> each[i]] /\ \A i \in 1 .. m : each[i] = Intermediate
    BY <2>1
  <2> HIDE DEF each
  <2>3. IsSeq(each) /\ Len(each) = m
    BY <2>2, OfFunction
  <2> QED BY <2>2, <2>3, StagesKnown DEF PromptStages
<1> HIDE DEF opened, each
<1>3. PromptStages(opened \o each)
  <2> DEFINE u == opened \o each
  <2>1. IsSeq(opened) /\ IsSeq(each) /\ Len(opened) \in Nat /\ Len(each) \in Nat
    BY <1>1, <1>2, SeqDomain DEF PromptStages
  <2>2. \A i \in 1 .. Len(u) : PromptStage(u[i])
    <3> TAKE i \in 1 .. Len(u)
    <3>2. CASE i <= Len(opened)
      <4>1. i \in 1 .. Len(opened)
        BY <2>1, <3>2, Joined
      <4> QED BY <1>1, <2>1, <4>1, Joined DEF PromptStages
    <3>3. CASE ~(i <= Len(opened))
      <4>1. i \in Len(opened) + 1 .. Len(opened) + Len(each) /\ i - Len(opened) \in 1 .. Len(each)
        BY <2>1, <3>3, Joined
      <4> QED BY <1>2, <2>1, <4>1, Joined DEF PromptStages
    <3> QED BY <3>2, <3>3
  <2> QED BY <2>1, <2>2, Joined DEF PromptStages
<1>4. VerifyCertificate(a).stages = opened \o each \o <<StoreStage>>
  BY DEF VerifyCertificate, Kfun, opened, each
<1> QED BY <1>3, <1>4

(* What the last call may say.                                             *)
LEMMA KfunAnswers ==
    ASSUME NEW a
    PROVE  /\ EcKey(a).finish.results = {"good"} /\ EcxKey(a).finish.results = {"good"}
           /\ EcSign(a).finish.results = {"good"} /\ EcxSign(a).finish.results = {"good"}
           /\ EcDerive(a).finish.results = {"good"} /\ EcxDerive(a).finish.results = {"good"}
           /\ SecureRandom(a).finish.results = {"good"} /\ MaskXor(a).finish.results = {"good"}
           /\ EcVerify(a).finish.results = {"good", "bad", "error"}
           /\ EcxVerify(a).finish.results = {"good", "bad", "error"}
           /\ VerifyCertificate(a).finish.results = {"good", "bad", "error"}
<1>1. EcKey(a).finish.results = {"good"}
  BY DEF EcKey, Kfun, Finish, Return
<1>2. EcxKey(a).finish.results = {"good"}
  BY DEF EcxKey, Kfun, Finish, Return
<1>3. EcSign(a).finish.results = {"good"}
  BY DEF EcSign, Kfun, Finish, Return
<1>4. EcxSign(a).finish.results = {"good"}
  BY DEF EcxSign, Kfun, Finish, Return
<1>5. EcDerive(a).finish.results = {"good"}
  BY DEF EcDerive, Kfun, Finish, Return
<1>6. EcxDerive(a).finish.results = {"good"}
  BY DEF EcxDerive, Kfun, Finish, Return
<1>7. EcVerify(a).finish.results = {"good", "bad", "error"}
  BY DEF EcVerify, Kfun, Finish, Return
<1>8. EcxVerify(a).finish.results = {"good", "bad", "error"}
  BY DEF EcxVerify, Kfun, Finish, Return
<1>9. SecureRandom(a).finish.results = {"good"}
  <2>1. SecureRandom(a).finish = Return(<<>>)
    BY DEF SecureRandom, Kfun
  <2>2. \A r : Return(r).results = {"good"}
    BY DEF Return, Finish
  <2> QED BY <2>1, <2>2
<1>10. MaskXor(a).finish.results = {"good"}
  BY DEF MaskXor, Kfun, Finish, Return
<1>11. VerifyCertificate(a).finish.results = {"good", "bad", "error"}
  <2>1. VerifyCertificate(a).finish = Finish("X509_verify_cert", {"good", "bad", "error"}, VerifyAll)
    BY DEF VerifyCertificate, Kfun
  <2>2. \A op, results, release : Finish(op, results, release).results = results
    BY DEF Finish
  <2> QED BY <2>1, <2>2
<1> QED BY <1>1, <1>2, <1>3, <1>4, <1>5, <1>6, <1>7, <1>8, <1>9, <1>10, <1>11

(* All stages but the one of X509_STORE_new are prompt, and the last call  *)
(* says good, bad or error.                                                *)
LEMMA KfunShape ==
    ASSUME NEW k \in Kfuns, NEW a \in Seq(Argument)
    PROVE  /\ k # "verify_certificate" => PromptStages(Kf(k, a).stages)
           /\ k = "verify_certificate" =>
                \E front : PromptStages(front) /\ Kf(k, a).stages = front \o <<StoreStage>>
           /\ Kf(k, a).finish.results \subseteq {"good", "bad", "error"}
<1> USE DEF Kf
<1>1. CASE k \in {"encrypt EC key", "encrypt ECX key", "encrypt EC sign", "encrypt ECX sign",
                  "decrypt EC derive", "decrypt ECX derive", "decrypt EC verify", "decrypt ECX verify",
                  "secure_random", "mask_xor"}
  <2>1. PromptStages(Kf(k, a).stages)
    BY <1>1, KfunStages, ZenonT(60)
  <2>2. Kf(k, a).finish.results \subseteq {"good", "bad", "error"}
    BY <1>1, KfunAnswers, ZenonT(60)
  <2> HIDE DEF Kf
  <2> QED BY <1>1, <2>1, <2>2
<1>2. CASE k \in {"encrypt AES-128-GCM", "encrypt AES-256-GCM", "encrypt ChaCha20-Poly1305",
                  "encrypt AES-128-CCM", "decrypt AES-128-GCM", "decrypt AES-256-GCM",
                  "decrypt ChaCha20-Poly1305", "decrypt AES-128-CCM"}
  <2>1. PromptStages(Kf(k, a).stages)
    BY <1>2, CipherStages, ZenonT(60)
  <2>2. Kf(k, a).finish.results \subseteq {"good", "bad", "error"}
    BY <1>2 DEF EncryptAesGcm, EncryptChacha20, EncryptAesCcm, DecryptAesGcm, DecryptChacha20, DecryptAesCcm,
                Kfun, Finish, Return
  <2> HIDE DEF Kf
  <2> QED BY <1>2, <2>1, <2>2
<1>3. CASE k = "hash"
  BY <1>3, HashStages DEF Hash, Kfun, Finish, Return
<1>4. CASE k = "verify_certificate"
  <2>1. Kf(k, a) = VerifyCertificate(a)
    BY <1>4
  <2>2. Kf(k, a).finish.results \subseteq {"good", "bad", "error"}
    BY <2>1, KfunAnswers
  <2>3. \E front : PromptStages(front) /\ Kf(k, a).stages = front \o <<StoreStage>>
    BY <2>1, FrontStages
  <2> HIDE DEF Kf
  <2> QED BY <1>4, <2>2, <2>3
<1> HIDE DEF Kf
<1> QED BY <1>1, <1>2, <1>3, <1>4 DEF Kfuns

(* The calls of its last stage: two of them are checked with the third.    *)
LEMMA StoreCalls ==
    /\ StoreStage.error = "SSL context error"
    /\ Len(StoreStage.calls) = 5 /\ DOMAIN StoreStage.calls = 1 .. 5
    /\ StoreStage.calls[1].gets = "store" /\ StoreStage.calls[1].checked = "later"
    /\ StoreStage.calls[2].gets = "context" /\ StoreStage.calls[2].checked = "later"
    /\ \A i \in 3 .. 5 : StoreStage.calls[i].gets = "" /\ StoreStage.calls[i].checked = "at once"
<1> DEFINE c == <<NewLater("X509_STORE_new", "store"), NewLater("X509_STORE_CTX_new", "context"),
                  Do("X509_STORE_set_default_paths", {"store"}),
                  Do("X509_STORE_CTX_init", {"context", "store", "certificate", "stack"}),
                  Do("X509_STORE_CTX_set_purpose", {"context"})>>
<1>1. \A op, p : NewLater(op, p).gets = p /\ NewLater(op, p).checked = "later"
  BY DEF NewLater, Call
<1>2. \A op, uses : Do(op, uses).gets = "" /\ Do(op, uses).checked = "at once"
  BY DEF Do, Call
<1>3. StoreStage.calls = c /\ StoreStage.error = "SSL context error"
  BY DEF StoreStage, Stage
<1>4. Len(c) = 5 /\ DOMAIN c = 1 .. 5
  OBVIOUS
<1>5. c[1].gets = "store" /\ c[1].checked = "later" /\ c[2].gets = "context" /\ c[2].checked = "later"
  BY <1>1
<1>6. \A i \in 3 .. 5 : c[i].gets = "" /\ c[i].checked = "at once"
  <2>1. \A i \in 3 .. 5 : i = 3 \/ i = 4 \/ i = 5
    OBVIOUS
  <2>2. c[3].gets = "" /\ c[3].checked = "at once"
    BY <1>2
  <2>3. c[4].gets = "" /\ c[4].checked = "at once"
    BY <1>2
  <2>4. c[5].gets = "" /\ c[5].checked = "at once"
    BY <1>2
  <2> HIDE DEF c
  <2> QED BY <2>1, <2>2, <2>3, <2>4
<1> QED BY <1>3, <1>4, <1>5, <1>6

(* What the stages are, where the kfun is.                                 *)
LEMMA AtStage ==
    ASSUME NEW k \in Kfuns, NEW a \in Seq(Argument)
    PROVE  LET stages == Kf(k, a).stages
           IN  /\ IsSeq(stages) /\ DOMAIN stages = 1 .. Len(stages) /\ Len(stages) \in Nat
               /\ \A s \in DOMAIN stages :
                     \/ PromptStage(stages[s])
                     \/ k = "verify_certificate" /\ s = Len(stages) /\ stages[s] = StoreStage
               /\ k = "verify_certificate" => Len(stages) >= 1 /\ stages[Len(stages)] = StoreStage
<1> DEFINE stages == Kf(k, a).stages
<1>1. CASE k # "verify_certificate"
  <2>1. PromptStages(stages)
    BY <1>1, KfunShape
  <2> QED BY <1>1, <2>1, SeqDomain DEF PromptStages
<1>2. CASE k = "verify_certificate"
  <2>1. PICK front : PromptStages(front) /\ stages = front \o <<StoreStage>>
    BY <1>2, KfunShape
  <2> HIDE DEF stages
  <2>2. IsSeq(front) /\ Len(front) \in Nat /\ IsSeq(<<StoreStage>>) /\ Len(<<StoreStage>>) = 1
        /\ <<StoreStage>>[1] = StoreStage
    BY <2>1, SeqDomain, Tuples DEF PromptStages
  <2>3. IsSeq(stages) /\ Len(stages) = Len(front) + 1
    BY <2>1, <2>2, Joined
  <2>4. DOMAIN stages = 1 .. Len(stages) /\ Len(stages) \in Nat
    BY <2>2, <2>3, SeqDomain
  <2>5. stages[Len(stages)] = StoreStage
    <3>1. Len(front) + 1 \in Len(front) + 1 .. Len(front) + 1 /\ Len(front) + 1 - Len(front) = 1
      BY <2>2
    <3> QED BY <2>1, <2>2, <2>3, <3>1, Joined
  <2>6. \A s \in 1 .. Len(front) : PromptStage(stages[s])
    BY <2>1, <2>2, Joined DEF PromptStages
  <2>7. \A s \in DOMAIN stages : s \in 1 .. Len(front) \/ s = Len(stages)
    BY <2>2, <2>3, <2>4
  <2> QED BY <1>2, <2>2, <2>3, <2>4, <2>5, <2>6, <2>7 DEF stages
<1> QED BY <1>1, <1>2

CallTypes ==
    /\ kfun \in Kfuns \cup {"none"} /\ args \in Seq(Argument)
    /\ ptr = [p \in KfunPointers |-> ptr[p]]

(* A call that failed and was passed over: a null pointer that is going to *)
(* be seen at the third call of the last stage of verify_certificate.      *)
Pending ==
    answer = "" /\ refused # {} =>
      /\ kfun = "verify_certificate" /\ stage = Len(This.stages)
      /\ \/ step = 2 /\ ptr["store"] = Null
         \/ step = 3 /\ (ptr["store"] = Null \/ ptr["context"] = Null)

GenuineInv == CallTypes /\ Pending /\ Genuine

(* It holds initially, and every step preserves it.                        *)
LEMMA CallInit == CallIdle => GenuineInv
<1> SUFFICES ASSUME CallIdle PROVE GenuineInv
  OBVIOUS
<1>1. kfun = "none" /\ args = <<>> /\ refused = {} /\ ptr = [p \in KfunPointers |-> Unset]
  BY DEF CallIdle
<1>2. CallTypes
  BY <1>1 DEF CallTypes
<1>3. Pending /\ Genuine
  BY <1>1 DEF Pending, Genuine
<1> QED BY <1>2, <1>3 DEF GenuineInv

(* Where a kfun is that makes a call.                                      *)
LEMMA Calling ==
    ASSUME GenuineInv, Running, stage \in DOMAIN This.stages
    PROVE  /\ kfun \in Kfuns /\ args \in Seq(Argument) /\ answer = ""
           /\ \/ PromptStage(This.stages[stage])
              \/ kfun = "verify_certificate" /\ stage = Len(This.stages) /\ This.stages[stage] = StoreStage
           /\ refused # {} => This.stages[stage] = StoreStage
<1>1. kfun \in Kfuns /\ args \in Seq(Argument) /\ answer = ""
  BY DEF GenuineInv, CallTypes, Running
<1>2. /\ \/ PromptStage(This.stages[stage])
         \/ kfun = "verify_certificate" /\ stage = Len(This.stages) /\ This.stages[stage] = StoreStage
      /\ kfun = "verify_certificate" => This.stages[Len(This.stages)] = StoreStage
  BY <1>1, AtStage DEF This
<1> QED BY <1>1, <1>2 DEF GenuineInv, Pending

LEMMA NextGenuine == ASSUME UncheckedFail = FALSE, GenuineInv, CallNext PROVE GenuineInv'
<1>0. CallTypes /\ Pending /\ Genuine
  BY DEF GenuineInv
<1>T. kfun \in Kfuns \cup {"none"} /\ args \in Seq(Argument)
  BY <1>0 DEF CallTypes
<1>1. ASSUME NEW k \in Kfuns, NEW a \in Seq(Argument), Called(k, a) PROVE GenuineInv'
  <2>1. kfun = "none" /\ kfun' = k /\ args' = a /\ UNCHANGED <<ptr, refused, answer>>
    BY <1>1 DEF Called
  <2>2. CallTypes'
    BY <1>0, <2>1 DEF CallTypes
  <2>3. answer = "" => refused = {}
    BY <1>0, <2>1 DEF Pending
  <2>4. Pending'
    BY <2>1, <2>3 DEF Pending
  <2>5. Genuine'
    BY <1>0, <2>1 DEF Genuine
  <2> QED BY <2>2, <2>4, <2>5 DEF GenuineInv
<1>2. CASE CheckArguments
  <2>1. kfun # "none" /\ answer = "" /\ stage = 0 /\ UNCHANGED <<kfun, args, refused>>
    BY <1>2 DEF CheckArguments, Running
  <2>2. refused = {}
    <3>1. kfun = "verify_certificate" => Len(This.stages) \in Nat /\ Len(This.stages) >= 1
      BY <1>T, <2>1, AtStage DEF This
    <3>2. ASSUME kfun = "verify_certificate" PROVE stage # Len(This.stages)
      <4>1. \A m \in Nat : m >= 1 => m # 0
        OBVIOUS
      <4> QED BY <2>1, <3>1, <3>2, <4>1
    <3> QED BY <1>0, <2>1, <3>2 DEF Pending
  <2>3. Pending' /\ Genuine'
    BY <2>1, <2>2 DEF Pending, Genuine
  <2>4. ptr' = [p \in KfunPointers |-> ptr'[p]]
    <3>1. ptr = [p \in KfunPointers |-> ptr[p]]
      BY <1>0 DEF CallTypes
    <3>2. UNCHANGED ptr \/ Enter(1, ptr)
      BY <1>2 DEF CheckArguments
    <3> QED BY <3>1, <3>2 DEF Enter
  <2>5. CallTypes'
    BY <1>T, <2>1, <2>4 DEF CallTypes
  <2> QED BY <2>3, <2>5 DEF GenuineInv
<1>3. CASE CallSucceeds
  <2>1. Running /\ AtCall /\ ~NullSeen
    BY <1>3 DEF CallSucceeds
  <2>0. stage \in DOMAIN This.stages
    BY <2>1 DEF AtCall
  <2>A. answer = ""
    BY <2>1 DEF Running
  <2> DEFINE c == This.stages[stage].calls[step]
  <2>2. /\ ptr' = IF c.gets = "" THEN ptr ELSE [ptr EXCEPT ![c.gets] = <<stage, c.gets>>]
        /\ step' = step + 1 /\ UNCHANGED <<kfun, args, stage, refused, answer>>
    BY <1>3 DEF CallSucceeds
  <2> HIDE DEF c
  <2>3. CallTypes'
    BY <1>0, <2>2 DEF CallTypes
  <2>4. Genuine'
    BY <1>0, <2>2 DEF Genuine
  <2>5. CASE refused = {}
    <3>1. Pending'
      BY <2>2, <2>5 DEF Pending
    <3> QED BY <2>3, <2>4, <3>1 DEF GenuineInv
  <2>6. CASE refused # {}
    <3>0. This.stages[stage] = StoreStage
      BY <2>0, <2>1, <2>6, Calling
    <3>1. /\ This.stages[stage] = StoreStage /\ kfun = "verify_certificate" /\ stage = Len(This.stages)
          /\ \/ step = 2 /\ ptr["store"] = Null
             \/ step = 3 /\ (ptr["store"] = Null \/ ptr["context"] = Null)
      BY <1>0, <2>A, <2>6, <3>0 DEF Pending
    <3>2. CASE step = 2
      <4>1. c.gets = "context"
        BY <3>1, <3>2, StoreCalls DEF c
      <4>2. ptr'["store"] = ptr["store"]
        BY <2>2, <4>1
      <4>3. step' = step + 1 /\ UNCHANGED <<kfun, args, stage>>
        BY <2>2
      <4>4. step' = 3
        BY <3>2, <4>3
      <4>5. This' = This
        BY <4>3 DEF This
      <4>6. kfun' = "verify_certificate" /\ stage' = Len(This'.stages) /\ ptr'["store"] = Null
        BY <3>1, <3>2, <4>2, <4>3, <4>5
      <4>7. Pending'
        BY <4>4, <4>6 DEF Pending
      <4> QED BY <2>3, <2>4, <4>7 DEF GenuineInv
    <3>3. CASE step = 3
      <4>1. c.checked = "at once"
        <5>1. 3 \in 3 .. 5 /\ c = StoreStage.calls[3]
          BY <3>1, <3>3 DEF c
        <5> QED BY <5>1, StoreCalls
      <4>2. \E i \in 1 .. step - 1 : /\ StoreStage.calls[i].checked = "later"
                                    /\ ptr[StoreStage.calls[i].gets] = Null
        <5>1. 1 \in 1 .. step - 1 /\ 2 \in 1 .. step - 1
          BY <3>3
        <5>2. CASE ptr["store"] = Null
          <6>1. StoreStage.calls[1].checked = "later" /\ ptr[StoreStage.calls[1].gets] = Null
            BY <5>2, StoreCalls
          <6> QED BY <5>1, <6>1
        <5>3. CASE ptr["context"] = Null
          <6>1. StoreStage.calls[2].checked = "later" /\ ptr[StoreStage.calls[2].gets] = Null
            BY <5>3, StoreCalls
          <6> QED BY <5>1, <6>1
        <5> QED BY <3>1, <3>3, <5>2, <5>3
      <4>3. NullSeen
        <5>1. This.stages[stage].calls[step].checked = "at once"
          BY <4>1 DEF c
        <5> QED BY <3>0, <4>2, <5>1 DEF NullSeen
      <4> QED BY <2>1, <4>3
    <3> QED BY <3>1, <3>2, <3>3
  <2> QED BY <2>5, <2>6
<1>4. CASE CallFails
  <2>0. Running /\ AtCall
    BY <1>4 DEF CallFails
  <2>1. stage \in DOMAIN This.stages /\ step \in DOMAIN This.stages[stage].calls /\ Running
    BY <2>0 DEF AtCall
  <2> DEFINE c == This.stages[stage].calls[step]
  <2>2. /\ ptr' = IF c.gets = "" THEN ptr ELSE [ptr EXCEPT ![c.gets] = Null]
        /\ answer' = This.stages[stage].error /\ UNCHANGED <<kfun, args>> /\ c.checked = "at once"
    BY <1>4 DEF CallFails
  <2> HIDE DEF c
  <2>3. CallTypes'
    BY <1>0, <2>2 DEF CallTypes
  <2>4. This.stages[stage].error \notin {"", "good"}
    <3>1. CASE PromptStage(This.stages[stage])
      <4>1. step \in 1 .. Len(This.stages[stage].calls)
        BY <2>1, <3>1, SeqDomain DEF PromptStage, PromptCalls
      <4> QED BY <2>2, <3>1, <4>1 DEF PromptStage, Ignored, c
    <3> QED BY <2>1, <3>1, Calling, StoreCalls
  <2>5. Pending' /\ Genuine'
    BY <2>2, <2>4 DEF Pending, Genuine
  <2> QED BY <2>3, <2>5 DEF GenuineInv
<1>5. CASE FailureIgnored
  <2>0. Running /\ AtCall
    BY <1>5 DEF FailureIgnored
  <2>1. stage \in DOMAIN This.stages /\ step \in DOMAIN This.stages[stage].calls /\ Running
    BY <2>0 DEF AtCall
  <2> DEFINE c == This.stages[stage].calls[step]
  <2>2. /\ ptr' = IF c.gets = "" \/ c.checked = "out" THEN ptr ELSE [ptr EXCEPT ![c.gets] = Null]
        /\ step' = step + 1 /\ UNCHANGED <<kfun, args, stage, answer>>
    BY <1>5 DEF FailureIgnored
  <2>3. c.checked = "later"
    BY <1>5, UncheckedFail = FALSE DEF FailureIgnored
  <2> HIDE DEF c
  <2>4. CallTypes'
    BY <1>0, <2>2 DEF CallTypes
  <2>5. answer = "" /\ kfun \in Kfuns
    BY <2>1, Calling
  <2>6. kfun = "verify_certificate" /\ stage = Len(This.stages) /\ This.stages[stage] = StoreStage
    <3>1. CASE PromptStage(This.stages[stage])
      <4>1. step \in 1 .. Len(This.stages[stage].calls)
        BY <2>1, <3>1, SeqDomain DEF PromptStage, PromptCalls
      <4> QED BY <2>3, <3>1, <4>1 DEF PromptStage, PromptCalls, Prompt, c
    <3> QED BY <2>1, <3>1, Calling
  <2>7. (step = 1 /\ c.gets = "store") \/ (step = 2 /\ c.gets = "context")
    <3>1. step \in 1 .. 5
      BY <2>1, <2>6, StoreCalls
    <3>2. step \notin 3 .. 5
      BY <2>3, <2>6, StoreCalls DEF c
    <3>3. step = 1 \/ step = 2
      BY <3>1, <3>2
    <3> QED BY <2>6, <3>3, StoreCalls DEF c
  <2>8. \/ step' = 2 /\ ptr'["store"] = Null
        \/ step' = 3 /\ ptr'["context"] = Null
    <3>1. /\ "store" \in KfunPointers /\ "context" \in KfunPointers
          /\ ptr = [p \in KfunPointers |-> ptr[p]]
      BY <1>0 DEF KfunPointers, CallTypes
    <3>2. CASE step = 1 /\ c.gets = "store"
      BY <2>2, <2>3, <3>1, <3>2
    <3>3. CASE step = 2 /\ c.gets = "context"
      BY <2>2, <2>3, <3>1, <3>3
    <3> QED BY <2>7, <3>2, <3>3
  <2>9. Pending'
    <3>1. UNCHANGED <<kfun, args, stage>>
      BY <2>2
    <3>2. This' = This
      BY <3>1 DEF This
    <3>3. kfun' = "verify_certificate" /\ stage' = Len(This'.stages)
      BY <2>6, <3>1, <3>2
    <3> QED BY <2>8, <3>3 DEF Pending
  <2>10. Genuine'
    BY <2>2, <2>5 DEF Genuine
  <2> QED BY <2>4, <2>9, <2>10 DEF GenuineInv
<1>6. CASE LaterSeen
  <2>0. Running /\ AtCall /\ NullSeen
    BY <1>6 DEF LaterSeen
  <2>1. stage \in DOMAIN This.stages /\ step \in DOMAIN This.stages[stage].calls /\ Running /\ NullSeen
    BY <2>0 DEF AtCall
  <2>2. answer' = This.stages[stage].error /\ UNCHANGED <<kfun, args, ptr>>
    BY <1>6 DEF LaterSeen
  <2>3. This.stages[stage].calls[step].checked = "at once"
    BY <2>1 DEF NullSeen
  <2>4. This.stages[stage].error \notin {"", "good"}
    <3>1. CASE PromptStage(This.stages[stage])
      <4>1. step \in 1 .. Len(This.stages[stage].calls)
        BY <2>1, <3>1, SeqDomain DEF PromptStage, PromptCalls
      <4> QED BY <2>3, <3>1, <4>1 DEF PromptStage, Ignored
    <3> QED BY <2>1, <3>1, Calling, StoreCalls
  <2>5. CallTypes'
    BY <1>0, <2>2 DEF CallTypes
  <2>6. Pending' /\ Genuine'
    BY <2>2, <2>4 DEF Pending, Genuine
  <2> QED BY <2>5, <2>6 DEF GenuineInv
<1>7. CASE StageDone
  <2>0. Running /\ stage \in DOMAIN This.stages /\ ~AtCall
    BY <1>7 DEF StageDone
  <2>1. step \notin DOMAIN This.stages[stage].calls /\ answer = ""
    BY <2>0 DEF AtCall, Running
  <2>2. UNCHANGED <<kfun, args, refused, answer>>
    BY <1>7 DEF StageDone
  <2>3. refused = {}
    <3> SUFFICES ASSUME refused # {} PROVE FALSE
      OBVIOUS
    <3>1. This.stages[stage] = StoreStage /\ (step = 2 \/ step = 3)
      BY <1>0, <2>0, <2>1, Calling DEF Pending
    <3>2. step \in 1 .. 5
      BY <3>1
    <3> QED BY <2>1, <3>1, <3>2, StoreCalls
  <2>4. ptr' = [p \in KfunPointers |-> ptr'[p]]
    <3>1. ptr = [p \in KfunPointers |-> ptr[p]]
      BY <1>0 DEF CallTypes
    <3>2. Enter(stage + 1, ptr)
      BY <1>7 DEF StageDone
    <3> QED BY <3>1, <3>2 DEF Enter
  <2>5. CallTypes'
    BY <1>T, <2>2, <2>4 DEF CallTypes
  <2>6. Pending' /\ Genuine'
    BY <2>1, <2>2, <2>3 DEF Pending, Genuine
  <2> QED BY <2>5, <2>6 DEF GenuineInv
<1>8. CASE Finished
  <2>1. Running /\ stage = Len(This.stages) + 1
    BY <1>8 DEF Finished
  <2>2. kfun \in Kfuns /\ args \in Seq(Argument) /\ answer = ""
    BY <1>T, <2>1 DEF Running
  <2>3. PICK r \in This.finish.results :
           /\ answer' = r
           /\ refused' = IF r = "good" THEN refused ELSE refused \cup {This.finish.op}
    BY <1>8 DEF Finished
  <2>4. UNCHANGED <<kfun, args, ptr>>
    BY <1>8 DEF Finished
  <2>5. r \in {"good", "bad", "error"}
    BY <2>2, <2>3, KfunShape DEF This
  <2>6. refused = {}
    <3>1. Len(This.stages) \in Nat
      BY <2>2, AtStage DEF This
    <3>2. stage # Len(This.stages)
      BY <2>1, <3>1
    <3> QED BY <1>0, <2>2, <3>2 DEF Pending
  <2>7. CallTypes'
    BY <1>0, <2>4 DEF CallTypes
  <2>8. Pending' /\ Genuine'
    BY <2>3, <2>5, <2>6 DEF Pending, Genuine
  <2> QED BY <2>7, <2>8 DEF GenuineInv
<1> QED BY <1>1, <1>2, <1>3, <1>4, <1>5, <1>6, <1>7, <1>8 DEF CallNext, CallStep

(* A kfun of crypto.c says yes only if no call of OpenSSL failed, so what  *)
(* it decrypted or verified is genuine: for any arguments, any number of   *)
(* certificates, any failures of calls whose results are checked.          *)
THEOREM AnswersAreGenuine == ASSUME UncheckedFail = FALSE PROVE CallSpec => []Genuine
<1>1. GenuineInv /\ [CallNext]_callVars => GenuineInv'
  <2> SUFFICES ASSUME GenuineInv, [CallNext]_callVars PROVE GenuineInv'
    OBVIOUS
  <2>1. CASE CallNext
    BY <2>1, NextGenuine
  <2>2. CASE UNCHANGED callVars
    BY <2>2 DEF callVars, GenuineInv, CallTypes, Pending, Genuine, This
  <2> QED BY <2>1, <2>2
<1>2. GenuineInv => Genuine
  BY DEF GenuineInv
<1> QED BY <1>1, <1>2, CallInit, PTL DEF CallSpec

(* The ciphers take exactly these arguments.                               *)
CipherTakes(a, keyLength, ivs, tags, least) ==
    /\ Len(a) = 5
    /\ \A i \in {1, 2, 3, 5} : Arg(a, i).type = "string"
    /\ Arg(a, 4).type = "int"
    /\ Arg(a, 1).n = keyLength /\ Arg(a, 2).n \in ivs /\ Arg(a, 3).n # 0 /\ Arg(a, 4).n \in tags
    /\ Arg(a, 5).n >= least

(* The checks of the ciphers say that.                                     *)
LEMMA CipherHolds ==
    ASSUME NEW a, NEW keyLength, NEW ivs, NEW tags, NEW least
    PROVE  LET c == CipherChecks(a, keyLength, ivs, tags, least)
           IN  (\A i \in DOMAIN c : c[i][1]) <=> CipherTakes(a, keyLength, ivs, tags, least)
<1> DEFINE c == CipherChecks(a, keyLength, ivs, tags, least)
<1>1. DOMAIN c = 1 .. 11
  BY DEF CipherChecks
<1>2. /\ c[1][1] <=> Len(a) = 5
      /\ c[2][1] <=> Arg(a, 1).type = "string"
      /\ c[3][1] <=> Arg(a, 1).n = keyLength
      /\ c[4][1] <=> Arg(a, 2).type = "string"
      /\ c[5][1] <=> Arg(a, 2).n \in ivs
      /\ c[6][1] <=> Arg(a, 3).type = "string"
      /\ c[7][1] <=> Arg(a, 3).n # 0
      /\ c[8][1] <=> Arg(a, 4).type = "int"
      /\ c[9][1] <=> Arg(a, 4).n \in tags
      /\ c[10][1] <=> Arg(a, 5).type = "string"
      /\ c[11][1] <=> Arg(a, 5).n >= least
  BY DEF CipherChecks, IsString
<1> HIDE DEF c
<1>3. (\A i \in 1 .. 11 : c[i][1]) <=> /\ c[1][1] /\ c[2][1] /\ c[3][1] /\ c[4][1] /\ c[5][1] /\ c[6][1]
                                      /\ c[7][1] /\ c[8][1] /\ c[9][1] /\ c[10][1] /\ c[11][1]
  <2>1. \A i \in 1 .. 11 : i \in {1, 2, 3, 4, 5, 6, 7, 8, 9, 10, 11}
    OBVIOUS
  <2>2. \A i \in {1, 2, 3, 4, 5, 6, 7, 8, 9, 10, 11} : i \in 1 .. 11
    OBVIOUS
  <2> QED BY <2>1, <2>2
<1> QED BY <1>1, <1>2, <1>3 DEF c, CipherTakes

(* The texts of the checks.                                                *)
LEMMA CipherTexts ==
    ASSUME NEW a, NEW keyLength, NEW ivs, NEW tags, NEW least
    PROVE  Checks(CipherChecks(a, keyLength, ivs, tags, least))
<1> DEFINE c == CipherChecks(a, keyLength, ivs, tags, least)
<1>1. DOMAIN c = 1 .. 11 /\ Len(c) = 11
  BY DEF CipherChecks
<1>2. Texted(c[2])
  BY DEF CipherChecks, IsString, Texted
<1>3. Texted(c[3])
  BY DEF CipherChecks, IsString, Texted
<1>4. Texted(c[4])
  BY DEF CipherChecks, IsString, Texted
<1>5. Texted(c[5])
  BY DEF CipherChecks, IsString, Texted
<1>6. Texted(c[6])
  BY DEF CipherChecks, IsString, Texted
<1>7. Texted(c[7])
  BY DEF CipherChecks, IsString, Texted
<1>8. Texted(c[8])
  BY DEF CipherChecks, IsString, Texted
<1>9. Texted(c[9])
  BY DEF CipherChecks, IsString, Texted
<1>10. Texted(c[10])
  BY DEF CipherChecks, IsString, Texted
<1>11. Texted(c[11])
  BY DEF CipherChecks, IsString, Texted
<1>13. Texted(c[1])
  BY DEF CipherChecks, IsString, Texted
<1>12. IsSeq(c)
  <2>1. c = [i \in 1 .. 11 |-> c[i]]
    BY DEF CipherChecks
  <2> HIDE DEF c
  <2> QED BY <2>1, OfFunction
<1> HIDE DEF c
<1>14. \A i \in 1 .. 11 : i \in {1, 2, 3, 4, 5, 6, 7, 8, 9, 10, 11}
  OBVIOUS
<1>15. \A i \in 1 .. Len(c) : Texted(c[i])
  BY <1>1, <1>2, <1>3, <1>4, <1>5, <1>6, <1>7, <1>8, <1>9, <1>10, <1>11, <1>13, <1>14
<1> QED BY <1>12, <1>15 DEF Checks, c

LEMMA StringTexts == ASSUME NEW a, NEW k \in Nat PROVE Checks(StringArgs(a, k))
<1> DEFINE first == <<<<Len(a) = k, "Wrong number of arguments">>>>
           rest == [i \in 1 .. k |-> IsString(a, i)]
<1>1. IsSeq(first) /\ Len(first) = 1 /\ Texted(first[1])
  <2>1. Texted(<<Len(a) = k, "Wrong number of arguments">>)
    BY DEF Texted
  <2> QED BY <2>1, Tuples
<1>2. \A i : Texted(IsString(a, i))
  BY DEF Texted, IsString
<1>3. rest = [i \in 1 .. k |-> rest[i]] /\ \A i \in 1 .. k : rest[i] = IsString(a, i)
  OBVIOUS
<1>4. StringArgs(a, k) = first \o rest
  BY DEF StringArgs
<1> HIDE DEF first, rest
<1>5. IsSeq(rest) /\ Len(rest) = k
  BY <1>3, OfFunction
<1>6. \A i \in 1 .. Len(first \o rest) : Texted((first \o rest)[i])
  <2> TAKE i \in 1 .. Len(first \o rest)
  <2>0. Len(first \o rest) = 1 + k
    <3>1. Len(first \o rest) = Len(first) + Len(rest)
      BY <1>1, <1>5, Joined
    <3> QED BY <1>1, <1>5, <3>1
  <2>1. CASE i = 1
    <3>1. 1 \in 1 .. Len(first)
      BY <1>1
    <3> QED BY <1>1, <1>5, <2>1, <3>1, Joined
  <2>2. CASE i # 1
    <3>1. i \in 2 .. 1 + k /\ i - 1 \in 1 .. k
      BY <2>0, <2>2
    <3>2. (first \o rest)[i] = rest[i - 1]
      <4>1. \A j \in Len(first) + 1 .. Len(first) + Len(rest) : (first \o rest)[j] = rest[j - Len(first)]
        BY <1>1, <1>5, Joined
      <4>2. Len(first) = 1 /\ Len(rest) = k
        BY <1>1, <1>5
      <4>3. i \in 1 + 1 .. 1 + k
        BY <3>1
      <4> QED BY <4>1, <4>2, <4>3
    <3> QED BY <1>2, <1>3, <3>1, <3>2
  <2> QED BY <2>1, <2>2
<1> QED BY <1>1, <1>4, <1>5, <1>6, Joined DEF Checks

LEMMA OneCheck == ASSUME NEW c, Texted(c) PROVE Checks(<<c>>)
<1>1. \A i \in 1 .. Len(<<c>>) : Texted(<<c>>[i])
  OBVIOUS
<1> QED BY <1>1, Tuples DEF Checks

LEMMA OneText == ASSUME NEW b, NEW t, t # "good", t # "" PROVE Checks(<<<<b, t>>>>)
<1>1. Texted(<<b, t>>)
  BY DEF Texted
<1> QED BY <1>1, OneCheck

LEMMA KfunChecks == ASSUME NEW k \in Kfuns, NEW a \in Seq(Argument) PROVE Checks(Kf(k, a).checks)
<1>1. Checks(EcKey(a).checks) /\ Checks(EcxKey(a).checks)
  BY OneText DEF EcKey, EcxKey, Kfun
<1>2. Checks(EcSign(a).checks) /\ Checks(EcxSign(a).checks) /\ Checks(EcDerive(a).checks)
      /\ Checks(EcxDerive(a).checks)
  BY StringTexts DEF EcSign, EcxSign, EcDerive, EcxDerive, Kfun
<1>3. Checks(EcVerify(a).checks) /\ Checks(EcxVerify(a).checks)
  BY StringTexts DEF EcVerify, EcxVerify, Kfun
<1>4. \A size : Checks(EncryptAesGcm(a, size).checks) /\ Checks(DecryptAesGcm(a, size).checks)
  BY CipherTexts DEF EncryptAesGcm, DecryptAesGcm, Kfun
<1>5. Checks(EncryptChacha20(a).checks) /\ Checks(DecryptChacha20(a).checks)
  BY CipherTexts DEF EncryptChacha20, DecryptChacha20, Kfun
<1>6. Checks(EncryptAesCcm(a).checks) /\ Checks(DecryptAesCcm(a).checks)
  BY CipherTexts DEF EncryptAesCcm, DecryptAesCcm, Kfun
<1>7. Checks(Hash(a).checks)
  <2>1. IsSeq(<<>>)
    <3>1. <<>> \in Seq({})
      OBVIOUS
    <3> QED BY <3>1 DEF IsSeq
  <2>2. Hash(a).checks = <<>>
    BY DEF Hash, Kfun
  <2> QED BY <2>1, <2>2 DEF Checks
<1>8. Checks(SecureRandom(a).checks)
  <2> DEFINE c == SecureRandom(a).checks
  <2>1. Len(c) = 1
    BY DEF SecureRandom, Kfun
  <2>2. c[1][2] = "Invalid number of random bytes"
    BY DEF SecureRandom, Kfun
  <2>3. c = [i \in 1 .. 1 |-> c[i]]
    BY DEF SecureRandom, Kfun
  <2> HIDE DEF c
  <2>4. IsSeq(c)
    <3>1. 1 \in Nat
      OBVIOUS
    <3> QED BY <2>3, <3>1, OfFunction
  <2>5. \A i \in 1 .. Len(c) : Texted(c[i])
    <3>1. \A i \in 1 .. 1 : i = 1
      OBVIOUS
    <3>2. Texted(c[1])
      BY <2>2 DEF Texted
    <3> QED BY <2>1, <3>1, <3>2
  <2>6. Checks(c)
    BY <2>4, <2>5 DEF Checks
  <2> QED BY <2>6 DEF c
<1>9. Checks(VerifyCertificate(a).checks)
  BY OneText DEF VerifyCertificate, Kfun
<1>10. Checks(MaskXor(a).checks)
  BY OneText DEF MaskXor, Kfun
<1> QED BY <1>1, <1>2, <1>3, <1>4, <1>5, <1>6, <1>7, <1>8, <1>9, <1>10 DEF Kf, Kfuns

(* No check finds an error.                                                *)
Accepts(k, a) == \A i \in DOMAIN Kf(k, a).checks : Kf(k, a).checks[i][1]

(* The arguments are accepted if and only if every check holds.            *)
LEMMA FirstErrorText ==
    ASSUME NEW k \in Kfuns, NEW a \in Seq(Argument)
    PROVE  /\ FirstError(k, a) # "good"
           /\ FirstError(k, a) = "" <=> Accepts(k, a)
<1> DEFINE checks == Kf(k, a).checks
           bad == {i \in DOMAIN checks : ~checks[i][1]}
           first == CHOOSE i \in bad : \A j \in bad : i <= j
<1>1. Checks(checks) /\ DOMAIN checks = 1 .. Len(checks) /\ Len(checks) \in Nat
  BY KfunChecks, SeqDomain DEF Checks
<1>2. FirstError(k, a) = IF bad = {} THEN "" ELSE checks[first][2]
  BY DEF FirstError
<1>3. bad # {} => first \in bad
  <2> SUFFICES ASSUME bad # {} PROVE first \in bad
    OBVIOUS
  <2>1. bad \in SUBSET Nat
    BY <1>1
  <2> HIDE DEF bad
  <2>2. \E i \in bad : \A j \in bad : i <= j
    BY <2>1, LeastNumber
  <2> QED BY <2>2
<1>4. bad # {} => checks[first][2] # "good" /\ checks[first][2] # ""
  <2> HIDE DEF first
  <2> QED BY <1>1, <1>3 DEF Checks, Texted
<1> HIDE DEF first
<1> QED BY <1>2, <1>4 DEF Accepts

-----------------------------------------------------------------------------
(* The bytes of the mask's word.                                           *)
LEMMA WordBytes == \A w \in {1, 2, 4, 8} : \A j \in 0 .. 7 : Word(w)[j] = j % w
<1> DEFINE Is(word, size, w) == \A i \in 0 .. size - 1 : word[i] = i % w
<1>1. Is(Bytes(1), 1, 1) /\ Is(Bytes(2), 2, 2) /\ Is(Bytes(4), 4, 4) /\ Is(Bytes(8), 8, 8)
  BY DEF Bytes
<1>2. ASSUME NEW word, NEW w \in {1, 2, 4}, NEW size \in {1, 2, 4}, w <= size, Is(word, size, w)
      PROVE  Is(Doubled(word, size), 2 * size, w)
  <2> TAKE i \in 0 .. 2 * size - 1
  <2>1. i % size \in 0 .. size - 1
    OBVIOUS
  <2>2. (i % size) % w = i % w
    <3>1. CASE size = 1
      BY <1>2, <3>1
    <3>2. CASE size = 2 /\ w = 1
      BY <3>2
    <3>3. CASE size = 2 /\ w = 2
      BY <3>3
    <3>4. CASE size = 4 /\ w = 1
      BY <3>4
    <3>5. CASE size = 4 /\ w = 2
      BY <3>5
    <3>6. CASE size = 4 /\ w = 4
      BY <3>6
    <3> QED BY <1>2, <3>1, <3>2, <3>3, <3>4, <3>5, <3>6
  <2>3. Doubled(word, size)[i] = word[i % size]
    BY DEF Doubled
  <2> QED BY <1>2, <2>1, <2>2, <2>3
<1> HIDE DEF Is
<1>3. Is(Doubled(Bytes(4), 4), 8, 4)
  BY <1>1, <1>2
<1>4. Is(Doubled(Doubled(Bytes(2), 2), 4), 8, 2)
  <2>1. Is(Doubled(Bytes(2), 2), 4, 2)
    BY <1>1, <1>2
  <2> QED BY <1>2, <2>1
<1>5. Is(Doubled(Doubled(Doubled(Bytes(1), 1), 2), 4), 8, 1)
  <2>1. Is(Doubled(Bytes(1), 1), 2, 1)
    BY <1>1, <1>2
  <2>2. Is(Doubled(Doubled(Bytes(1), 1), 2), 4, 1)
    BY <1>2, <2>1
  <2> QED BY <1>2, <2>2
<1>6. Is(Word(1), 8, 1) /\ Is(Word(2), 8, 2) /\ Is(Word(4), 8, 4) /\ Is(Word(8), 8, 8)
  BY <1>1, <1>3, <1>4, <1>5 DEF Word
<1> QED BY <1>6 DEF Is

(* The mask is repeated over a message of any length.                      *)
LEMMA MaskRepeated ==
    ASSUME NEW w \in {1, 2, 4, 8}, NEW length \in Nat, NEW i \in 0 .. length - 1
    PROVE  Masked(w, length)[i] = i % w
<1> DEFINE whole == length - (length % 8)
<1>1. Masked(w, length)[i] = IF i < whole THEN Word(w)[i % 8] ELSE Word(w)[i - whole]
  BY DEF Masked
<1>2. CASE i < whole
  <2>1. i % 8 \in 0 .. 7
    OBVIOUS
  <2>2. (i % 8) % w = i % w
    <3>1. CASE w = 1
      BY <3>1
    <3>2. CASE w = 2
      BY <3>2
    <3>3. CASE w = 4
      BY <3>3
    <3>4. CASE w = 8
      BY <3>4
    <3> QED BY <3>1, <3>2, <3>3, <3>4
  <2> QED BY <1>1, <1>2, <2>1, <2>2, WordBytes
<1>3. CASE ~(i < whole)
  <2>1. i - whole \in 0 .. 7
    BY <1>3
  <2>2. PICK q \in Nat : whole = 8 * q
    <3>1. \A m \in Nat : m \div 8 \in Nat /\ m - (m % 8) = 8 * (m \div 8)
      OBVIOUS
    <3> QED BY <3>1
  <2>3. (i - whole) % w = i % w
    <3> HIDE DEF whole
    <3>1. CASE w = 1
      BY <2>1, <2>2, <3>1
    <3>2. CASE w = 2
      BY <2>1, <2>2, <3>2
    <3>3. CASE w = 4
      BY <2>1, <2>2, <3>3
    <3>4. CASE w = 8
      BY <2>1, <2>2, <3>4
    <3> QED BY <3>1, <3>2, <3>3, <3>4
  <2> QED BY <1>1, <1>3, <2>1, <2>3, WordBytes
<1> QED BY <1>2, <1>3

(* What is given back by an encryption, a decryption takes.                *)
(* The length of a string argument.                                        *)
LEMMA TextLength == ASSUME NEW x \in Argument, x.type = "string" PROVE x.n \in Nat
<1>1. CASE x \in {Str(size) : size \in Nat}
  <2>1. PICK size \in Nat : x = Str(size)
    BY <1>1
  <2> QED BY <2>1 DEF Str
<1>2. CASE x \in {Num(size) : size \in Int}
  <2>1. PICK size \in Int : x = Num(size)
    BY <1>2
  <2>2. Num(size).type = "int"
    BY DEF Num
  <2> QED BY <2>1, <2>2
<1>3. CASE x = [type |-> "nil", n |-> 0]
  BY <1>3
<1> QED BY <1>1, <1>2, <1>3 DEF Argument

LEMMA Members ==
    ASSUME NEW a \in Seq(Argument) PROVE DOMAIN a = 1 .. Len(a) /\ \A i \in 1 .. Len(a) : a[i] \in Argument
BY LenProperties, ElementOfSeq

LEMMA TakenBack ==
    ASSUME NEW k \in Encryptions, NEW a \in Seq(Argument), Accepts(k, a)
    PROVE  LET b == [a EXCEPT ![5] = Str(a[5].n + a[4].n)]
           IN  b \in Seq(Argument) /\ Accepts(Decryption[k], b)
<1> DEFINE b == [a EXCEPT ![5] = Str(a[5].n + a[4].n)]
<1>1. k \in Kfuns /\ Decryption[k] \in Kfuns
  BY DEF Kfuns, Encryptions, Decryption
<1>2. ASSUME NEW keyLength, NEW ivs, NEW tags, tags \subseteq 1 .. 16, CipherTakes(a, keyLength, ivs, tags, 1)
      PROVE  b \in Seq(Argument) /\ CipherTakes(b, keyLength, ivs, tags, Arg(b, 4).n + 1)
  <2>1. Len(a) = 5 /\ DOMAIN a = 1 .. 5 /\ \A i \in 1 .. 5 : a[i] \in Argument /\ Arg(a, i) = a[i]
    <3>1. Len(a) = 5
      BY <1>2 DEF CipherTakes
    <3>2. DOMAIN a = 1 .. 5 /\ \A i \in 1 .. 5 : a[i] \in Argument
      BY <3>1, Members
    <3>3. \A i \in 1 .. 5 : Arg(a, i) = a[i]
      BY <3>2 DEF Arg
    <3> QED BY <3>1, <3>2, <3>3
  <2>2. a[4].n \in 1 .. 16
    <3>1. Arg(a, 4) = a[4]
      BY <2>1
    <3>2. Arg(a, 4).n \in tags
      BY <1>2 DEF CipherTakes
    <3> QED BY <1>2, <3>1, <3>2
  <2>3. a[5].n \in Nat /\ a[5].n >= 1
    <3>1. a[5].type = "string" /\ a[5] \in Argument
      BY <1>2, <2>1 DEF CipherTakes
    <3>2. a[5].n \in Nat
      BY <3>1, TextLength
    <3> QED BY <1>2, <2>1, <3>2 DEF CipherTakes
  <2>4. /\ Len(b) = 5 /\ DOMAIN b = 1 .. 5 /\ \A i \in 1 .. 4 : b[i] = a[i]
        /\ b[5] = Str(a[5].n + a[4].n)
    BY <2>1
  <2>5. Str(a[5].n + a[4].n) \in Argument
    <3>1. \A m \in Nat : Str(m) \in Argument
      BY DEF Argument
    <3>2. a[5].n + a[4].n \in Nat
      <4>1. \A m \in Nat, t \in 1 .. 16 : m + t \in Nat
        OBVIOUS
      <4> QED BY <2>2, <2>3, <4>1
    <3> QED BY <3>1, <3>2
  <2>6. b \in Seq(Argument)
    <3>1. 5 \in 1 .. Len(a)
      BY <2>1
    <3> QED BY <2>5, <3>1, ExceptSeq
  <2> HIDE DEF b
  <2>7. \A i \in 1 .. 5 : Arg(b, i) = b[i]
    BY <2>4 DEF Arg
  <2>8. b[5].type = "string" /\ b[5].n = a[5].n + a[4].n
    BY <2>4 DEF Str
  <2>9. Arg(b, 5).n >= Arg(b, 4).n + 1
    <3>1. Arg(b, 5).n = a[5].n + a[4].n /\ Arg(b, 4) = a[4]
      BY <2>4, <2>7, <2>8
    <3>2. \A m \in Nat, t \in 1 .. 16 : m >= 1 => m + t >= t + 1
      OBVIOUS
    <3> QED BY <2>2, <2>3, <3>1, <3>2
  <2>10. Arg(b, 1) = Arg(a, 1) /\ Arg(b, 2) = Arg(a, 2) /\ Arg(b, 3) = Arg(a, 3) /\ Arg(b, 4) = Arg(a, 4)
    BY <2>1, <2>4, <2>7
  <2>11. Arg(b, 5).type = "string"
    BY <2>7, <2>8
  <2>12. \A i \in {1, 2, 3, 5} : Arg(b, i).type = "string"
    BY <1>2, <2>10, <2>11 DEF CipherTakes
  <2> QED BY <1>2, <2>4, <2>6, <2>9, <2>10, <2>12 DEF CipherTakes
<1> HIDE DEF b
<1>3. \A i \in DOMAIN Kf(k, a).checks : Kf(k, a).checks[i][1]
  BY DEF Accepts
<1>4. b \in Seq(Argument) /\ \A i \in DOMAIN Kf(Decryption[k], b).checks : Kf(Decryption[k], b).checks[i][1]
  <2>1. CASE k = "encrypt AES-128-GCM"
    <3>1. Kf(k, a).checks = CipherChecks(a, 16, 1 .. 16, 1 .. 16, 1)
      BY <2>1 DEF Kf, EncryptAesGcm, Kfun
    <3>2. Kf(Decryption[k], b).checks = CipherChecks(b, 16, 1 .. 16, 1 .. 16, Arg(b, 4).n + 1)
      BY <2>1 DEF Kf, DecryptAesGcm, Kfun, Decryption, Encryptions
    <3> QED BY <1>2, <1>3, <3>1, <3>2, CipherHolds
  <2>2. CASE k = "encrypt AES-256-GCM"
    <3>1. Kf(k, a).checks = CipherChecks(a, 32, 1 .. 16, 1 .. 16, 1)
      BY <2>2 DEF Kf, EncryptAesGcm, Kfun
    <3>2. Kf(Decryption[k], b).checks = CipherChecks(b, 32, 1 .. 16, 1 .. 16, Arg(b, 4).n + 1)
      BY <2>2 DEF Kf, DecryptAesGcm, Kfun, Decryption, Encryptions
    <3> QED BY <1>2, <1>3, <3>1, <3>2, CipherHolds
  <2>3. CASE k = "encrypt ChaCha20-Poly1305"
    <3>1. Kf(k, a).checks = CipherChecks(a, 32, 1 .. 12, 1 .. 16, 1)
      BY <2>3 DEF Kf, EncryptChacha20, Kfun
    <3>2. Kf(Decryption[k], b).checks = CipherChecks(b, 32, 1 .. 12, 1 .. 16, Arg(b, 4).n + 1)
      BY <2>3 DEF Kf, DecryptChacha20, Kfun, Decryption, Encryptions
    <3> QED BY <1>2, <1>3, <3>1, <3>2, CipherHolds
  <2>4. CASE k = "encrypt AES-128-CCM"
    <3>1. Kf(k, a).checks = CipherChecks(a, 16, 7 .. 13, EvenTags, 1)
      BY <2>4 DEF Kf, EncryptAesCcm, Kfun
    <3>2. Kf(Decryption[k], b).checks = CipherChecks(b, 16, 7 .. 13, EvenTags, Arg(b, 4).n + 1)
      BY <2>4 DEF Kf, DecryptAesCcm, Kfun, Decryption, Encryptions
    <3>3. EvenTags \subseteq 1 .. 16
      BY DEF EvenTags
    <3>4. CipherTakes(a, 16, 7 .. 13, EvenTags, 1)
      BY <1>3, <3>1, CipherHolds
    <3>5. b \in Seq(Argument) /\ CipherTakes(b, 16, 7 .. 13, EvenTags, Arg(b, 4).n + 1)
      BY <1>2, <3>3, <3>4
    <3> QED BY <3>2, <3>5, CipherHolds
  <2> QED BY <2>1, <2>2, <2>3, <2>4 DEF Encryptions
<1> QED BY <1>4 DEF b, Accepts

(* What mask_xor accepts.                                                  *)
LEMMA MaskTaken ==
    ASSUME NEW a \in Seq(Argument), Prototyped("mask_xor", a), Accepts("mask_xor", a)
    PROVE  a[1].n \in {1, 2, 4, 8} /\ a[2].n \in Nat
<1>1. Len(a) = 2 /\ DOMAIN a = 1 .. 2 /\ \A i \in 1 .. 2 : a[i].type = "string" /\ a[i] \in Argument
  <2>1. Len(a) = 2 /\ \A i \in DOMAIN a : a[i].type = "string"
    BY DEF Prototyped
  <2> QED BY <2>1, Members
<1>2. a[2].n \in Nat
  BY <1>1, TextLength
<1>3. MaskXor(a).checks[1][1] <=> Arg(a, 1).n \in {1, 2, 4, 8}
  BY DEF MaskXor, Kfun
<1>4. DOMAIN MaskXor(a).checks = 1 .. 1
  BY DEF MaskXor, Kfun
<1>5. Kf("mask_xor", a) = MaskXor(a) /\ "mask_xor" \in Kfuns
  BY DEF Kf, Kfuns
<1>6. MaskXor(a).checks[1][1]
  BY <1>4, <1>5 DEF Accepts
<1>7. Arg(a, 1) = a[1]
  BY <1>1 DEF Arg
<1> QED BY <1>2, <1>3, <1>6, <1>7

(* Where the kfun has begun, it has accepted its arguments.                *)
AcceptedInv ==
    /\ kfun \in Kfuns \cup {"none"} /\ args \in Seq(Argument) /\ stage \in Nat
    /\ kfun # "none" => Prototyped(kfun, args)
    /\ stage > 0 \/ answer = "good" => kfun \in Kfuns /\ Accepts(kfun, args)

(* What is accepted is given back as it was.                               *)
LEMMA ReversedFollows == AcceptedInv => Reversed
<1> SUFFICES ASSUME AcceptedInv, answer = "good" PROVE Reversed
  BY DEF Reversed
<1>1. kfun \in Kfuns /\ args \in Seq(Argument) /\ Accepts(kfun, args) /\ Prototyped(kfun, args)
  BY DEF AcceptedInv, Kfuns
<1>2. ASSUME kfun \in DOMAIN Decryption
      PROVE  FirstError(Decryption[kfun], [args EXCEPT ![5] = Str(args[5].n + args[4].n)]) = ""
  <2> DEFINE b == [args EXCEPT ![5] = Str(args[5].n + args[4].n)]
  <2>1. kfun \in Encryptions
    BY <1>2 DEF Decryption
  <2>2. Decryption[kfun] \in Kfuns
    BY <2>1 DEF Decryption, Encryptions, Kfuns
  <2>3. b \in Seq(Argument) /\ Accepts(Decryption[kfun], b)
    BY <1>1, <2>1, TakenBack
  <2> HIDE DEF b
  <2>4. FirstError(Decryption[kfun], b) = ""
    BY <2>2, <2>3, FirstErrorText
  <2> QED BY <2>4 DEF b
<1>3. ASSUME kfun = "mask_xor", NEW i \in 0 .. args[2].n - 1
      PROVE  Masked(args[1].n, args[2].n)[i] = i % args[1].n
  <2>1. args[1].n \in {1, 2, 4, 8} /\ args[2].n \in Nat
    BY <1>1, <1>3, MaskTaken
  <2> QED BY <1>3, <2>1, MaskRepeated
<1> QED BY <1>2, <1>3 DEF Reversed

(* It holds initially, and every step preserves it.                        *)
LEMMA AcceptedInit == CallIdle => AcceptedInv
<1> SUFFICES ASSUME CallIdle PROVE AcceptedInv
  OBVIOUS
<1>1. kfun = "none" /\ args = <<>> /\ answer = ""
  BY DEF CallIdle
<1>2. args \in Seq(Argument)
  BY <1>1, EmptySeq
<1>3. stage = 0
  BY DEF CallIdle
<1>4. stage \in Nat /\ ~(stage > 0)
  BY <1>3
<1> QED BY <1>1, <1>2, <1>4 DEF AcceptedInv

LEMMA AcceptedNext == ASSUME AcceptedInv, CallNext PROVE AcceptedInv'
<1>1. ASSUME NEW k \in Kfuns, NEW a \in Seq(Argument), Called(k, a) PROVE AcceptedInv'
  <2>1. kfun = "none" /\ kfun' = k /\ args' = a /\ Prototyped(k, a) /\ UNCHANGED <<stage, answer>>
    BY <1>1 DEF Called
  <2>2. "none" \notin Kfuns
    BY DEF Kfuns
  <2>3. ~(stage > 0 \/ answer = "good") /\ stage \in Nat
    BY <2>1, <2>2 DEF AcceptedInv
  <2> QED BY <1>1, <2>1, <2>3 DEF AcceptedInv
<1>2. CASE CheckArguments
  <2>1. kfun \in Kfuns /\ args \in Seq(Argument) /\ stage = 0 /\ UNCHANGED <<kfun, args>>
        /\ Prototyped(kfun, args)
    BY <1>2 DEF CheckArguments, Running, AcceptedInv
  <2>2. PICK error : error = FirstError(kfun, args)
    OBVIOUS
  <2>3. error # "good" /\ (error = "" => Accepts(kfun, args))
    BY <2>1, <2>2, FirstErrorText
  <2>4. \/ answer' = error /\ stage' = 0
        \/ answer' = "Out of ticks" /\ stage' = 0
        \/ error = "" /\ stage' = 1
    BY <1>2, <2>1, <2>2 DEF CheckArguments, Enter
  <2> HIDE <2>2
  <2>5. \/ answer' # "good" /\ stage' = 0
        \/ Accepts(kfun, args) /\ stage' = 1
    BY <2>3, <2>4
  <2>6. stage' \in Nat /\ (stage' > 0 \/ answer' = "good" => Accepts(kfun, args))
    BY <2>5
  <2> QED BY <2>1, <2>6 DEF AcceptedInv
<1>3. ASSUME UNCHANGED <<kfun, args>>, stage' \in {stage, stage + 1}, stage > 0 PROVE AcceptedInv'
  <2>1. kfun \in Kfuns /\ Accepts(kfun, args) /\ stage' \in Nat
    BY <1>3 DEF AcceptedInv
  <2> QED BY <1>3, <2>1 DEF AcceptedInv
<1>4. stage \in DOMAIN This.stages /\ Running => stage > 0
  <2> SUFFICES ASSUME stage \in DOMAIN This.stages, Running PROVE stage > 0
    OBVIOUS
  <2>1. kfun \in Kfuns /\ args \in Seq(Argument)
    BY DEF AcceptedInv, Running
  <2>2. DOMAIN This.stages = 1 .. Len(This.stages) /\ Len(This.stages) \in Nat
    BY <2>1, AtStage DEF This
  <2> QED BY <2>2
<1>5. CASE CallSucceeds \/ CallFails \/ FailureIgnored \/ LaterSeen
  <2>2. UNCHANGED <<kfun, args, stage>> /\ Running /\ AtCall
    <3>1. CASE CallSucceeds
      BY <3>1 DEF CallSucceeds
    <3>2. CASE CallFails
      BY <3>2 DEF CallFails
    <3>3. CASE FailureIgnored
      BY <3>3 DEF FailureIgnored
    <3>4. CASE LaterSeen
      BY <3>4 DEF LaterSeen
    <3> QED BY <1>5, <3>1, <3>2, <3>3, <3>4
  <2>3. stage \in DOMAIN This.stages
    BY <2>2 DEF AtCall
  <2> QED BY <1>3, <1>4, <2>2, <2>3
<1>6. CASE StageDone
  <2>1. UNCHANGED <<kfun, args>> /\ Running /\ stage \in DOMAIN This.stages /\ stage' = stage + 1
    BY <1>6 DEF StageDone, Enter
  <2> QED BY <1>3, <1>4, <2>1
<1>7. CASE Finished
  <2>1. UNCHANGED <<kfun, args, stage>> /\ Running /\ stage = Len(This.stages) + 1
    BY <1>7 DEF Finished
  <2>2. kfun \in Kfuns /\ args \in Seq(Argument)
    BY <2>1 DEF AcceptedInv, Running
  <2>3. Len(This.stages) \in Nat
    BY <2>2, AtStage DEF This
  <2>4. stage > 0
    BY <2>1, <2>3
  <2> QED BY <1>3, <2>1, <2>4
<1> QED BY <1>1, <1>2, <1>5, <1>6, <1>7 DEF CallNext, CallStep

(* Decryption accepts what encryption gave, with the same key, iv, aad and *)
(* tag length, for texts of any length, and mask_xor repeats its mask over *)
(* messages of any length, the last word included.                         *)
THEOREM EncryptionsReversed == CallSpec => []Reversed
<1>1. AcceptedInv /\ [CallNext]_callVars => AcceptedInv'
  <2> SUFFICES ASSUME AcceptedInv, [CallNext]_callVars PROVE AcceptedInv'
    OBVIOUS
  <2>1. CASE CallNext
    BY <2>1, AcceptedNext
  <2>2. CASE UNCHANGED callVars
    BY <2>2 DEF callVars, AcceptedInv
  <2> QED BY <2>1, <2>2
<1> QED BY <1>1, AcceptedInit, ReversedFollows, PTL DEF CallSpec

-----------------------------------------------------------------------------
(* Chains of pointers to free: what is freed of each is its first pointer  *)
(* that is not null, w[i], if there is one; those in "nulls" are null.     *)
Picks(w, chains, names, nulls) ==
    \A i \in 1 .. Len(chains) :
      /\ w[i] = "" => \A j \in DOMAIN chains[i] : chains[i][j] \in nulls
      /\ w[i] # "" => /\ w[i] \in names
                      /\ \E j \in DOMAIN chains[i] : /\ chains[i][j] = w[i]
                                                     /\ \A l \in DOMAIN chains[i] : l < j => chains[i][l] \in nulls
      /\ \A j \in 1 .. Len(chains) : i # j /\ w[i] # "" => w[i] # w[j]
Cleans(chains, names, nulls, remains) ==
    /\ IsSeq(chains) /\ \A i \in 1 .. Len(chains) : IsSeq(chains[i])
    /\ \E w : /\ Picks(w, chains, names, nulls)
              /\ remains = names \ {w[i] : i \in 1 .. Len(chains)}

(* The objects that the names in a set stand for.                          *)
Things(q, names) == {q[p] : p \in names}
(* A pointer has an object of its own, made by some stage.                 *)
Object(q, p) == q[p] \in Nat \X {p}

(* What is left after i chains.                                            *)
After(h, q, chains, m, f) == \A i \in 0 .. m : f[i] = IF i = 0 THEN h ELSE FreeFirst(f[i - 1], q, chains[i])

LEMMA AfterExists ==
    ASSUME NEW h, NEW q, NEW chains, NEW m \in Nat
    PROVE  \E f : f = [i \in 0 .. m |-> IF i = 0 THEN h ELSE FreeFirst(f[i - 1], q, chains[i])]
<1> DEFINE T == {x \in Nat : ~\E f : After(h, q, chains, x, f)}
<1>1. T = {}
  <2> SUFFICES ASSUME T # {} PROVE FALSE
    OBVIOUS
  <2>1. PICK x \in T : \A y \in T : x <= y
    <3>1. T \in SUBSET Nat
      OBVIOUS
    <3> HIDE DEF T
    <3> QED BY <3>1, LeastNumber
  <2>2. CASE x = 0
    <3> DEFINE f == [i \in 0 .. 0 |-> h]
    <3>1. After(h, q, chains, 0, f)
      BY DEF After
    <3> QED BY <2>1, <2>2, <3>1
  <2>3. CASE x # 0
    <3>1. x \in Nat /\ x - 1 \in Nat /\ ~(x <= x - 1)
      BY <2>1, <2>3
    <3>2. PICK g : After(h, q, chains, x - 1, g)
      BY <2>1, <3>1
    <3> DEFINE f == [i \in 0 .. x |-> IF i < x THEN g[i] ELSE FreeFirst(g[x - 1], q, chains[x])]
    <3>3. ASSUME NEW i \in 0 .. x PROVE f[i] = IF i = 0 THEN h ELSE FreeFirst(f[i - 1], q, chains[i])
      <4>1. CASE i = 0
        <5>1. 0 \in 0 .. x - 1 /\ 0 < x
          BY <2>3, <3>1
        <5> QED BY <3>2, <4>1, <5>1 DEF After
      <4>2. CASE i # 0 /\ i < x
        <5>1. i \in 0 .. x - 1 /\ i - 1 \in 0 .. x /\ i - 1 < x
          BY <3>1, <4>2
        <5>2. g[i] = FreeFirst(g[i - 1], q, chains[i])
          BY <3>2, <4>2, <5>1 DEF After
        <5> QED BY <4>2, <5>1, <5>2
      <4>3. CASE i = x
        <5>1. x - 1 \in 0 .. x /\ x - 1 < x
          BY <3>1
        <5> QED BY <2>3, <3>1, <4>3, <5>1
      <4> QED BY <3>1, <4>1, <4>2, <4>3
    <3>4. After(h, q, chains, x, f)
      <4> HIDE DEF f
      <4> QED BY <3>3 DEF After
    <3> QED BY <2>1, <3>4
  <2> QED BY <2>2, <2>3
<1>2. PICK g : After(h, q, chains, m, g)
  BY <1>1
<1> DEFINE f == [i \in 0 .. m |-> g[i]]
<1>3. \A i \in 0 .. m : f[i] = IF i = 0 THEN h ELSE FreeFirst(f[i - 1], q, chains[i])
  <2> TAKE i \in 0 .. m
  <2>1. i # 0 => i - 1 \in 0 .. m
    OBVIOUS
  <2> QED BY <1>2, <2>1 DEF After
<1>4. f = [i \in 0 .. m |-> f[i]]
  OBVIOUS
<1> HIDE DEF f
<1>5. f = [i \in 0 .. m |-> IF i = 0 THEN h ELSE FreeFirst(f[i - 1], q, chains[i])]
  BY <1>3, <1>4
<1> QED BY <1>5

LEMMA FreeAllIs ==
    ASSUME NEW h, NEW q, NEW chains, IsSeq(chains)
    PROVE  \E f : After(h, q, chains, Len(chains), f) /\ FreeAll(h, q, chains) = f[Len(chains)]
<1> DEFINE size == Len(chains)
           f == CHOOSE f : f = [i \in 0 .. size |-> IF i = 0 THEN h ELSE FreeFirst(f[i - 1], q, chains[i])]
<1>1. size \in Nat
  BY SeqDomain
<1>2. f = [i \in 0 .. size |-> IF i = 0 THEN h ELSE FreeFirst(f[i - 1], q, chains[i])]
  <2> HIDE DEF size
  <2> QED BY <1>1, AfterExists
<1>3. FreeAll(h, q, chains) = f[size]
  BY DEF FreeAll
<1>4. After(h, q, chains, size, f)
  <2> HIDE DEF f, size
  <2> QED BY <1>2 DEF After
<1> QED BY <1>3, <1>4

(* An object that is owned is freed, and nothing is wrong.                 *)
LEMMA FreeOwned ==
    ASSUME NEW own, NEW what, NEW o \in own, o # Unset
    PROVE  FreeOne([owned |-> own, fault |-> what], o) = [owned |-> own \ {o}, fault |-> what]
<1> DEFINE h == [owned |-> own, fault |-> what]
<1>1. h.owned = own /\ o \in Live(h.owned)
  BY DEF Live, Held
<1>2. [h EXCEPT !.owned = @ \ {o}] = [owned |-> own \ {o}, fault |-> what]
  OBVIOUS
<1>3. o \notin Live(h.owned) \ h.owned
  BY <1>1
<1> HIDE DEF h
<1> QED BY <1>1, <1>2, <1>3 DEF FreeOne, h

LEMMA ObjectsDiffer ==
    /\ "null" \notin KfunPointers /\ "unset" \notin KfunPointers /\ "" \notin KfunPointers
    /\ \A q, p : p \in KfunPointers /\ Object(q, p) => q[p] # Null /\ q[p] # Unset
    /\ \A q, p, r : Object(q, p) /\ Object(q, r) /\ p # r => q[p] # q[r]
<1>1. "null" \notin KfunPointers /\ "unset" \notin KfunPointers /\ "" \notin KfunPointers
  BY DEF KfunPointers
<1>2. ASSUME NEW q, NEW p \in KfunPointers, Object(q, p) PROVE q[p] # Null /\ q[p] # Unset
  <2>1. PICK b \in Nat : q[p] = <<b, p>>
    BY <1>2 DEF Object
  <2>2. p # "null" /\ p # "unset"
    BY <1>1
  <2>3. <<b, p>> # <<0, "null">> /\ <<b, p>> # <<0, "unset">>
    BY <2>2
  <2> QED BY <2>1, <2>3 DEF Null, Unset
<1>3. ASSUME NEW q, NEW p, NEW r, Object(q, p), Object(q, r), p # r PROVE q[p] # q[r]
  <2>1. PICK b \in Nat : q[p] = <<b, p>>
    BY <1>3 DEF Object
  <2>2. PICK c \in Nat : q[r] = <<c, r>>
    BY <1>3 DEF Object
  <2> QED BY <1>3, <2>1, <2>2
<1> QED BY <1>1, <1>2, <1>3

LEMMA FreeThings ==
    ASSUME NEW q, NEW names \in SUBSET KfunPointers, NEW nulls, NEW chains, NEW remains,
           \A p \in names : Object(q, p), \A p \in nulls : q[p] = Null,
           Cleans(chains, names, nulls, remains)
    PROVE  FreeAll([owned |-> Things(q, names), fault |-> "none"], q, chains)
             = [owned |-> Things(q, remains), fault |-> "none"]
<1> DEFINE size == Len(chains)
           h == [owned |-> Things(q, names), fault |-> "none"]
<1>1. size \in Nat /\ DOMAIN chains = 1 .. size /\ \A i \in 1 .. size : IsSeq(chains[i])
  BY SeqDomain DEF Cleans
<1>2. PICK w : Picks(w, chains, names, nulls) /\ remains = names \ {w[i] : i \in 1 .. size}
  BY DEF Cleans
<1>3. PICK f : After(h, q, chains, size, f) /\ FreeAll(h, q, chains) = f[size]
  BY FreeAllIs DEF Cleans
<1> DEFINE Left(m) == names \ {w[i] : i \in 1 .. m}
           T == {m \in 0 .. size : f[m] # [owned |-> Things(q, Left(m)), fault |-> "none"]}
<1>4. T = {}
  <2> SUFFICES ASSUME T # {} PROVE FALSE
    OBVIOUS
  <2>1. PICK x \in T : \A y \in T : x <= y
    <3>1. T \in SUBSET Nat
      BY <1>1
    <3> HIDE DEF T
    <3> QED BY <3>1, LeastNumber
  <2>2. x \in 0 .. size /\ f[x] # [owned |-> Things(q, Left(x)), fault |-> "none"]
    BY <2>1
  <2>3. CASE x = 0
    <3>1. Left(0) = names
      OBVIOUS
    <3>2. f[0] = h
      BY <1>1, <1>3 DEF After
    <3> QED BY <2>2, <2>3, <3>1, <3>2
  <2>4. CASE x # 0
    <3>1. x \in 1 .. size /\ x \in Nat /\ x - 1 \in 0 .. size /\ ~(x <= x - 1)
      BY <1>1, <2>2, <2>4
    <3> DEFINE before == Left(x - 1)
               g == [owned |-> Things(q, before), fault |-> "none"]
               c == chains[x]
               some == {j \in DOMAIN c : q[c[j]] # Null}
    <3>2. f[x - 1] = g
      BY <2>1, <3>1
    <3>3. f[x] = FreeFirst(g, q, c)
      BY <1>3, <2>2, <2>4, <3>2 DEF After
    <3>4. Left(x) = before \ {w[x]}
      <4>1. 1 .. x = 1 .. x - 1 \cup {x}
        BY <3>1
      <4>2. {w[i] : i \in 1 .. x} = {w[i] : i \in 1 .. x - 1} \cup {w[x]}
        BY <4>1
      <4> QED BY <4>2
    <3>5. CASE w[x] = ""
      <4>1. some = {}
        BY <1>2, <3>1, <3>5 DEF Picks
      <4>2. f[x] = g
        BY <3>3, <4>1 DEF FreeFirst
      <4>3. before \ {w[x]} = before
        BY <3>5, ObjectsDiffer
      <4> QED BY <2>2, <3>4, <4>2, <4>3
    <3>6. CASE w[x] # ""
      <4>1. /\ w[x] \in names
            /\ \E j \in DOMAIN c : c[j] = w[x] /\ \A l \in DOMAIN c : l < j => c[l] \in nulls
            /\ \A j \in 1 .. size : x # j => w[x] # w[j]
        BY <1>2, <3>1, <3>6 DEF Picks
      <4>2. PICK j \in DOMAIN c : c[j] = w[x] /\ \A l \in DOMAIN c : l < j => c[l] \in nulls
        BY <4>1
      <4>3. DOMAIN c = 1 .. Len(c) /\ Len(c) \in Nat
        BY <1>1, <3>1, SeqDomain
      <4>4. Object(q, w[x]) /\ q[w[x]] # Null /\ q[w[x]] # Unset
        BY <4>1, ObjectsDiffer
      <4>5. j \in some /\ \A l \in some : j <= l
        <5>1. j \in some
          BY <4>2, <4>4
        <5>2. ASSUME NEW l \in some PROVE j <= l
          <6>1. ~(l < j)
            BY <4>2, <5>2
          <6>2. l \in Nat /\ j \in Nat
            BY <4>3
          <6> QED BY <6>1, <6>2
        <5> QED BY <5>1, <5>2
      <4>6. (CHOOSE i \in some : \A l \in some : i <= l) = j
        <5>1. \A i \in some : (\A l \in some : i <= l) => i = j
          <6> TAKE i \in some
          <6> HAVE \A l \in some : i <= l
          <6>1. i <= j /\ j <= i
            BY <4>5
          <6>2. i \in Nat /\ j \in Nat
            BY <4>3
          <6> QED BY <6>1, <6>2
        <5> HIDE DEF some
        <5> QED BY <4>5, <5>1
      <4>7. f[x] = FreeOne(g, q[w[x]])
        <5>1. some # {}
          BY <4>5
        <5> HIDE DEF some, g
        <5> QED BY <3>3, <4>2, <4>6, <5>1 DEF FreeFirst, some
      <4>8. w[x] \in before
        <5>1. \A i \in 1 .. x - 1 : i \in 1 .. size /\ x # i
          BY <1>1, <3>1
        <5> QED BY <4>1, <5>1
      <4>9. FreeOne(g, q[w[x]]) = [owned |-> Things(q, before) \ {q[w[x]]}, fault |-> "none"]
        <5>1. q[w[x]] \in Things(q, before)
          BY <4>8 DEF Things
        <5> HIDE DEF before
        <5> QED BY <4>4, <5>1, FreeOwned DEF g
      <4>10. Things(q, before) \ {q[w[x]]} = Things(q, before \ {w[x]})
        <5>1. \A p \in before : p # w[x] => q[p] # q[w[x]]
          <6>1. \A p \in before : Object(q, p)
            OBVIOUS
          <6> QED BY <4>4, <6>1, ObjectsDiffer
        <5> HIDE DEF before
        <5> QED BY <4>8, <5>1 DEF Things
      <4> HIDE DEF Left
      <4> QED BY <2>2, <3>4, <4>7, <4>9, <4>10
    <3> QED BY <3>5, <3>6
  <2> QED BY <2>3, <2>4
<1>5. f[size] = [owned |-> Things(q, Left(size)), fault |-> "none"]
  <2>1. size \in 0 .. size
    BY <1>1
  <2> HIDE DEF size, Left
  <2> QED BY <1>4, <2>1
<1> QED BY <1>2, <1>3, <1>5

-----------------------------------------------------------------------------
(* What a kfun has before a call: in this stage it got the objects "own"   *)
(* and has not given them away, the pointers "nul" are null, and it made   *)
(* the calls "done".                                                       *)
At(own, nul, done) == [own |-> own, nul |-> nul, done |-> done]

(* The kfuns that forget something when a call fails.                      *)
Signs == {"encrypt EC sign", "encrypt ECX sign", "decrypt EC verify", "decrypt ECX verify"}
Derives == {"decrypt EC derive", "decrypt ECX derive"}

(* What is forgotten if a call fails.                                      *)
Lost(k, s, op) ==
    CASE k \in Signs /\ s = 2 -> {"key"}
      [] k \in Derives /\ s = 2 -> {"context"}
      [] k = "decrypt EC derive" /\ s = 1 /\ op = "EVP_PKEY_assign_EC_KEY" -> {"ec"}
      [] OTHER -> {}

(* A call takes the kfun from x to y: it uses what there is, overwrites    *)
(* nothing, and if it fails all but the lost is freed.                     *)
CallOK(k, s, cleanup, c, kept, x, y) ==
    /\ c.uses \subseteq kept.own \cup x.own
    /\ c.gets = "" \/ c.gets \in KfunPointers \ (kept.own \cup x.own)
    /\ c.moves => c.gets = "" /\ c.held \in x.own \ kept.own
    /\ y.own = IF c.moves THEN x.own \ {c.held} ELSE x.own \cup ({c.gets} \ {""})
    /\ y.nul \subseteq x.nul \ {c.gets}
    /\ Asks(k, c.op) \subseteq x.done
    /\ y.done \subseteq x.done \cup IF c.checked = "later" THEN {} ELSE {c.op}
    /\ c.checked = "at once" =>
         Cleans(cleanup, kept.own \cup x.own, x.nul \cup ({c.gets} \ {""}), Lost(k, s, c.op))

(* A stage takes it from what was kept before it to what is kept then.     *)
Passes(k, s, st, kept, then, at) ==
    /\ at[1].own = {} /\ at[1].nul \subseteq st.nulls /\ at[1].done \subseteq kept.done
    /\ \A t \in 1 .. Len(st.calls) : CallOK(k, s, st.cleanup, st.calls[t], kept, at[t], at[t + 1])
    /\ LET end == at[Len(st.calls) + 1]
       IN  /\ Cleans(st.release, kept.own \cup end.own, end.nul, then.own)
           /\ then.done \subseteq end.done
(* There is such a plan for the stage, with some way from call to call.    *)
StageOK(k, s, st, kept, then) ==
    /\ IsSeq(st.calls) /\ kept.own \cup st.nulls \subseteq KfunPointers /\ st.nulls \cap kept.own = {}
    /\ \E at : Passes(k, s, st, kept, then, at)

LEMMA CleanNone == ASSUME NEW names, NEW nulls PROVE Cleans(<<>>, names, nulls, names)
<1>1. IsSeq(<<>>) /\ Len(<<>>) = 0
  <2>1. <<>> \in Seq({})
    OBVIOUS
  <2> QED BY <2>1 DEF IsSeq
<1>2. 1 .. 0 = {}
  OBVIOUS
<1>3. PICK w, c : w = <<>> /\ c = <<>>
  OBVIOUS
<1>4. Picks(w, c, names, nulls) /\ IsSeq(c) /\ \A i \in 1 .. Len(c) : IsSeq(c[i])
  BY <1>1, <1>2, <1>3 DEF Picks
<1>5. names = names \ {w[i] : i \in 1 .. Len(c)}
  BY <1>1, <1>2, <1>3
<1> QED BY <1>3, <1>4, <1>5 DEF Cleans

(* Chains of one pointer each.                                             *)
LEMMA Singles ==
    ASSUME NEW l, IsSeq(l), \A i, j \in 1 .. Len(l) : l[i] = l[j] => i = j,
           NEW names \in SUBSET KfunPointers, NEW nulls, \A i \in 1 .. Len(l) : l[i] \in names \cup nulls
    PROVE  Cleans(Chains(l), names, nulls, names \ {l[i] : i \in 1 .. Len(l)})
<1> DEFINE size == Len(l)
           c == Chains(l)
           w == [i \in 1 .. size |-> IF l[i] \in names THEN l[i] ELSE ""]
<1>1. size \in Nat /\ DOMAIN l = 1 .. size
  BY SeqDomain
<1>2. c = [i \in 1 .. size |-> <<l[i]>>]
  BY <1>1 DEF Chains
<1>3. IsSeq(c) /\ Len(c) = size
  <2>1. c = [i \in 1 .. size |-> c[i]]
    BY <1>2
  <2> HIDE DEF c, size
  <2> QED BY <1>1, <2>1, OfFunction
<1>4. \A i \in 1 .. size : IsSeq(c[i]) /\ DOMAIN c[i] = 1 .. 1 /\ c[i][1] = l[i]
  <2> TAKE i \in 1 .. size
  <2>1. c[i] = <<l[i]>>
    BY <1>2
  <2>2. IsSeq(<<l[i]>>) /\ Len(<<l[i]>>) = 1 /\ <<l[i]>>[1] = l[i]
    BY Tuples
  <2> HIDE DEF c
  <2> QED BY <2>1, <2>2, SeqDomain
<1>5. "" \notin names
  BY ObjectsDiffer
<1> HIDE DEF c
<1>6. Picks(w, c, names, nulls)
  <2> SUFFICES ASSUME NEW i \in 1 .. size
               PROVE  /\ w[i] = "" => \A j \in DOMAIN c[i] : c[i][j] \in nulls
                      /\ w[i] # "" => /\ w[i] \in names
                                      /\ \E j \in DOMAIN c[i] : /\ c[i][j] = w[i]
                                                                /\ \A m \in DOMAIN c[i] : m < j => c[i][m] \in nulls
                      /\ \A j \in 1 .. size : i # j /\ w[i] # "" => w[i] # w[j]
    BY <1>3 DEF Picks
  <2>1. \A j \in DOMAIN c[i] : j = 1
    BY <1>4
  <2>2. w[i] = "" => l[i] \in nulls
    BY <1>5
  <2>3. w[i] # "" => w[i] \in names /\ w[i] = l[i]
    OBVIOUS
  <2>4. \A j \in 1 .. size : i # j /\ w[i] # "" => w[i] # w[j]
    BY <2>3
  <2> HIDE DEF w
  <2>5. 1 \in DOMAIN c[i] /\ c[i][1] = l[i]
    BY <1>4
  <2>6. w[i] # "" => \E j \in DOMAIN c[i] : c[i][j] = w[i] /\ \A m \in DOMAIN c[i] : m < j => c[i][m] \in nulls
    <3>1. \A m \in DOMAIN c[i] : ~(m < 1)
      BY <2>1
    <3> QED BY <2>3, <2>5, <3>1
  <2> QED BY <2>1, <2>2, <2>3, <2>4, <2>5, <2>6
<1>7. names \ {l[i] : i \in 1 .. size} = names \ {w[i] : i \in 1 .. size}
  <2>1. \A p \in names : (\E i \in 1 .. size : p = l[i]) <=> (\E i \in 1 .. size : p = w[i])
    BY <1>5
  <2> HIDE DEF w
  <2> QED BY <2>1
<1> HIDE DEF w
<1>8. Cleans(c, names, nulls, names \ {w[i] : i \in 1 .. size})
  BY <1>3, <1>4, <1>6 DEF Cleans
<1> QED BY <1>7, <1>8 DEF c

LEMMA CleanSingles ==
    ASSUME NEW names \in SUBSET KfunPointers, NEW nulls
    PROVE  /\ \A p \in names \cup nulls : Cleans(Chains(<<p>>), names, nulls, names \ {p})
           /\ \A p, q \in names \cup nulls : p # q => Cleans(Chains(<<p, q>>), names, nulls, names \ {p, q})
           /\ \A p, q, r \in names \cup nulls :
                p # q /\ p # r /\ q # r => Cleans(Chains(<<p, q, r>>), names, nulls, names \ {p, q, r})
           /\ \A p, q, r, t \in names \cup nulls :
                p # q /\ p # r /\ q # r /\ t \notin {p, q, r}
                  => Cleans(Chains(<<p, q, r, t>>), names, nulls, names \ {p, q, r, t})
<1>1. ASSUME NEW p \in names \cup nulls PROVE Cleans(Chains(<<p>>), names, nulls, names \ {p})
  <2> DEFINE l == <<p>>
  <2>1. IsSeq(l) /\ Len(l) = 1
    BY Tuples
  <2>2. l[1] = p
    OBVIOUS
  <2>3. 1 .. 1 = {1}
    OBVIOUS
  <2> HIDE DEF l
  <2>4. {l[i] : i \in 1 .. Len(l)} = {p} /\ \A i, j \in 1 .. Len(l) : l[i] = l[j] => i = j
    BY <2>1, <2>2, <2>3
  <2>5. \A i \in 1 .. Len(l) : l[i] \in names \cup nulls
    BY <2>1, <2>2, <2>3
  <2>6. Cleans(Chains(l), names, nulls, names \ {l[i] : i \in 1 .. Len(l)})
    BY <2>1, <2>4, <2>5, Singles
  <2> QED BY <2>4, <2>6 DEF l
<1>2. ASSUME NEW p \in names \cup nulls, NEW q \in names \cup nulls, p # q
      PROVE  Cleans(Chains(<<p, q>>), names, nulls, names \ {p, q})
  <2> DEFINE l == <<p, q>>
  <2>1. IsSeq(l) /\ Len(l) = 2
    BY Tuples
  <2>2. l[1] = p /\ l[2] = q
    OBVIOUS
  <2>3. 1 .. 2 = {1, 2}
    OBVIOUS
  <2> HIDE DEF l
  <2>4. {l[i] : i \in 1 .. Len(l)} = {p, q}
    BY <2>1, <2>2, <2>3
  <2>5. \A i, j \in 1 .. Len(l) : l[i] = l[j] => i = j
    BY <1>2, <2>1, <2>2, <2>3
  <2>6. \A i \in 1 .. Len(l) : l[i] \in names \cup nulls
    BY <2>1, <2>2, <2>3
  <2>7. Cleans(Chains(l), names, nulls, names \ {l[i] : i \in 1 .. Len(l)})
    BY <2>1, <2>5, <2>6, Singles
  <2> QED BY <2>4, <2>7 DEF l
<1>3. ASSUME NEW p \in names \cup nulls, NEW q \in names \cup nulls, NEW r \in names \cup nulls,
             p # q, p # r, q # r
      PROVE  Cleans(Chains(<<p, q, r>>), names, nulls, names \ {p, q, r})
  <2> DEFINE l == <<p, q, r>>
  <2>1. IsSeq(l) /\ Len(l) = 3
    BY Tuples
  <2>2. l[1] = p /\ l[2] = q /\ l[3] = r
    OBVIOUS
  <2>3. 1 .. 3 = {1, 2, 3}
    OBVIOUS
  <2> HIDE DEF l
  <2>4. {l[i] : i \in 1 .. Len(l)} = {p, q, r}
    BY <2>1, <2>2, <2>3
  <2>5. \A i, j \in 1 .. Len(l) : l[i] = l[j] => i = j
    BY <1>3, <2>1, <2>2, <2>3
  <2>6. \A i \in 1 .. Len(l) : l[i] \in names \cup nulls
    BY <2>1, <2>2, <2>3
  <2>7. Cleans(Chains(l), names, nulls, names \ {l[i] : i \in 1 .. Len(l)})
    BY <2>1, <2>5, <2>6, Singles
  <2> QED BY <2>4, <2>7 DEF l
<1>4. ASSUME NEW p \in names \cup nulls, NEW q \in names \cup nulls, NEW r \in names \cup nulls,
             NEW t \in names \cup nulls, p # q, p # r, q # r, t \notin {p, q, r}
      PROVE  Cleans(Chains(<<p, q, r, t>>), names, nulls, names \ {p, q, r, t})
  <2> DEFINE l == <<p, q, r, t>>
  <2>1. IsSeq(l) /\ Len(l) = 4
    <3>1. l \in Seq({p, q, r, t}) /\ Len(l) = 4
      OBVIOUS
    <3> QED BY <3>1 DEF IsSeq
  <2>2. l[1] = p /\ l[2] = q /\ l[3] = r /\ l[4] = t
    OBVIOUS
  <2>3. 1 .. 4 = {1, 2, 3, 4}
    OBVIOUS
  <2> HIDE DEF l
  <2>4. {l[i] : i \in 1 .. Len(l)} = {p, q, r, t}
    BY <2>1, <2>2, <2>3
  <2>5. \A i, j \in 1 .. Len(l) : l[i] = l[j] => i = j
    BY <1>4, <2>1, <2>2, <2>3
  <2>6. \A i \in 1 .. Len(l) : l[i] \in names \cup nulls
    BY <2>1, <2>2, <2>3
  <2>7. Cleans(Chains(l), names, nulls, names \ {l[i] : i \in 1 .. Len(l)})
    BY <2>1, <2>5, <2>6, Singles
  <2> QED BY <2>4, <2>7 DEF l
<1> QED BY <1>1, <1>2, <1>3, <1>4

-----------------------------------------------------------------------------
(* Each kind of call.                                                      *)
LEMMA NewStep ==
    ASSUME NEW k, NEW s, NEW cleanup, NEW kept, NEW x, NEW y, NEW op, NEW uses, NEW p \in KfunPointers,
           uses \subseteq kept.own \cup x.own, p \notin kept.own \cup x.own, Asks(k, op) \subseteq x.done,
           y.own = x.own \cup {p}, y.nul \subseteq x.nul \ {p}, y.done \subseteq x.done \cup {op},
           Cleans(cleanup, kept.own \cup x.own, x.nul \cup {p}, Lost(k, s, op))
    PROVE  CallOK(k, s, cleanup, New(op, p, uses), kept, x, y)
<1> DEFINE c == New(op, p, uses)
<1>1. c.op = op /\ c.gets = p /\ c.uses = uses /\ c.moves = FALSE /\ c.checked = "at once"
  BY DEF New, Call
<1>2. p # "" /\ {p} \ {""} = {p}
  BY ObjectsDiffer
<1> HIDE DEF c
<1>3. CallOK(k, s, cleanup, c, kept, x, y)
  BY <1>1, <1>2 DEF CallOK
<1> QED BY <1>3 DEF c

LEMMA NewOnStep ==
    ASSUME NEW k, NEW s, NEW cleanup, NEW kept, NEW x, NEW y, NEW op, NEW on, NEW p \in KfunPointers,
           on \in kept.own \cup x.own, p \notin kept.own \cup x.own, Asks(k, op) \subseteq x.done,
           y.own = x.own \cup {p}, y.nul \subseteq x.nul \ {p}, y.done \subseteq x.done \cup {op},
           Cleans(cleanup, kept.own \cup x.own, x.nul \cup {p}, Lost(k, s, op))
    PROVE  CallOK(k, s, cleanup, NewOn(op, p, on), kept, x, y)
<1> DEFINE c == NewOn(op, p, on)
<1>1. c.op = op /\ c.gets = p /\ c.uses = {on} /\ c.moves = FALSE /\ c.checked = "at once"
  BY DEF NewOn, Call
<1>2. p # "" /\ {p} \ {""} = {p}
  BY ObjectsDiffer
<1> HIDE DEF c
<1>3. CallOK(k, s, cleanup, c, kept, x, y)
  BY <1>1, <1>2 DEF CallOK
<1> QED BY <1>3 DEF c

LEMMA NewOutStep ==
    ASSUME NEW k, NEW s, NEW cleanup, NEW kept, NEW x, NEW y, NEW op, NEW uses, NEW p \in KfunPointers,
           uses \subseteq kept.own \cup x.own, p \notin kept.own \cup x.own, Asks(k, op) \subseteq x.done,
           y.own = x.own \cup {p}, y.nul \subseteq x.nul \ {p}, y.done \subseteq x.done \cup {op}
    PROVE  CallOK(k, s, cleanup, Call(op, p, uses, "", "", FALSE, "out"), kept, x, y)
           /\ CallOK(k, s, cleanup, NewUnchecked(op, p, uses), kept, x, y)
<1>1. p # "" /\ {p} \ {""} = {p}
  BY ObjectsDiffer
<1>2. ASSUME NEW c, c.op = op, c.gets = p, c.uses = uses, c.moves = FALSE, c.checked \in {"out", "never"}
      PROVE  CallOK(k, s, cleanup, c, kept, x, y)
  BY <1>1, <1>2 DEF CallOK
<1>3. CallOK(k, s, cleanup, Call(op, p, uses, "", "", FALSE, "out"), kept, x, y)
  <2> DEFINE c == Call(op, p, uses, "", "", FALSE, "out")
  <2>1. c.op = op /\ c.gets = p /\ c.uses = uses /\ c.moves = FALSE /\ c.checked = "out"
    BY DEF Call
  <2> HIDE DEF c
  <2>2. CallOK(k, s, cleanup, c, kept, x, y)
    BY <1>2, <2>1
  <2> QED BY <2>2 DEF c
<1>4. CallOK(k, s, cleanup, NewUnchecked(op, p, uses), kept, x, y)
  <2> DEFINE c == NewUnchecked(op, p, uses)
  <2>1. c.op = op /\ c.gets = p /\ c.uses = uses /\ c.moves = FALSE /\ c.checked = "never"
    BY DEF NewUnchecked, Call
  <2> HIDE DEF c
  <2>2. CallOK(k, s, cleanup, c, kept, x, y)
    BY <1>2, <2>1
  <2> QED BY <2>2 DEF c
<1> QED BY <1>3, <1>4

LEMMA NewLaterStep ==
    ASSUME NEW k, NEW s, NEW cleanup, NEW kept, NEW x, NEW y, NEW op, NEW p \in KfunPointers,
           p \notin kept.own \cup x.own, Asks(k, op) \subseteq x.done,
           y.own = x.own \cup {p}, y.nul \subseteq x.nul \ {p}, y.done \subseteq x.done
    PROVE  CallOK(k, s, cleanup, NewLater(op, p), kept, x, y)
<1> DEFINE c == NewLater(op, p)
<1>1. c.op = op /\ c.gets = p /\ c.uses = {} /\ c.moves = FALSE /\ c.checked = "later"
  BY DEF NewLater, Call
<1>2. p # "" /\ {p} \ {""} = {p}
  BY ObjectsDiffer
<1> HIDE DEF c
<1>3. CallOK(k, s, cleanup, c, kept, x, y)
  BY <1>1, <1>2 DEF CallOK
<1> QED BY <1>3 DEF c

(* A call that gives no object.                                            *)
LEMMA DoStep ==
    ASSUME NEW k, NEW s, NEW cleanup, NEW kept, NEW x, NEW y, NEW op, NEW uses,
           uses \subseteq kept.own \cup x.own, Asks(k, op) \subseteq x.done,
           y.own = x.own, y.nul \subseteq x.nul \ {""}, y.done \subseteq x.done \cup {op}
    PROVE  /\ CallOK(k, s, cleanup, DoUnchecked(op, uses), kept, x, y)
           /\ Cleans(cleanup, kept.own \cup x.own, x.nul, Lost(k, s, op))
                => /\ CallOK(k, s, cleanup, Do(op, uses), kept, x, y)
                   /\ \A p, q : uses = {p, q} => CallOK(k, s, cleanup, Refer(op, p, q), kept, x, y)
<1>1. {""} \ {""} = {} /\ x.nul \cup {} = x.nul /\ x.own \cup {} = x.own
  OBVIOUS
<1>2. ASSUME NEW c, c.op = op, c.gets = "", c.uses = uses, c.moves = FALSE,
             \/ c.checked = "never"
             \/ c.checked = "at once" /\ Cleans(cleanup, kept.own \cup x.own, x.nul, Lost(k, s, op))
      PROVE  CallOK(k, s, cleanup, c, kept, x, y)
  BY <1>1, <1>2 DEF CallOK
<1>3. CallOK(k, s, cleanup, DoUnchecked(op, uses), kept, x, y)
  <2> DEFINE c == DoUnchecked(op, uses)
  <2>1. c.op = op /\ c.gets = "" /\ c.uses = uses /\ c.moves = FALSE /\ c.checked = "never"
    BY DEF DoUnchecked, Call
  <2> HIDE DEF c
  <2>2. CallOK(k, s, cleanup, c, kept, x, y)
    BY <1>2, <2>1
  <2> QED BY <2>2 DEF c
<1>4. ASSUME Cleans(cleanup, kept.own \cup x.own, x.nul, Lost(k, s, op))
      PROVE  CallOK(k, s, cleanup, Do(op, uses), kept, x, y)
  <2> DEFINE c == Do(op, uses)
  <2>1. c.op = op /\ c.gets = "" /\ c.uses = uses /\ c.moves = FALSE /\ c.checked = "at once"
    BY DEF Do, Call
  <2> HIDE DEF c
  <2>2. CallOK(k, s, cleanup, c, kept, x, y)
    BY <1>2, <1>4, <2>1
  <2> QED BY <2>2 DEF c
<1>5. ASSUME Cleans(cleanup, kept.own \cup x.own, x.nul, Lost(k, s, op)), NEW p, NEW q, uses = {p, q}
      PROVE  CallOK(k, s, cleanup, Refer(op, p, q), kept, x, y)
  <2> DEFINE c == Refer(op, p, q)
  <2>1. c.op = op /\ c.gets = "" /\ c.uses = {p, q} /\ c.moves = FALSE /\ c.checked = "at once"
    BY DEF Refer, Call
  <2> HIDE DEF c
  <2>2. CallOK(k, s, cleanup, c, kept, x, y)
    BY <1>2, <1>5, <2>1
  <2> QED BY <2>2 DEF c
<1> QED BY <1>3, <1>4, <1>5

LEMMA GiveStep ==
    ASSUME NEW k, NEW s, NEW cleanup, NEW kept, NEW x, NEW y, NEW op, NEW p, NEW q,
           {p, q} \subseteq kept.own \cup x.own, q \in x.own \ kept.own, Asks(k, op) \subseteq x.done,
           y.own = x.own \ {q}, y.nul \subseteq x.nul \ {""}, y.done \subseteq x.done \cup {op}
    PROVE  /\ Cleans(cleanup, kept.own \cup x.own, x.nul, Lost(k, s, op))
                => CallOK(k, s, cleanup, Give(op, p, q), kept, x, y)
           /\ CallOK(k, s, cleanup, Call(op, "", {p, q}, p, q, TRUE, "never"), kept, x, y)
<1>1. {""} \ {""} = {} /\ x.nul \cup {} = x.nul
  OBVIOUS
<1>2. ASSUME NEW c, c.op = op, c.gets = "", c.uses = {p, q}, c.held = q, c.moves = TRUE,
             \/ c.checked = "never"
             \/ c.checked = "at once" /\ Cleans(cleanup, kept.own \cup x.own, x.nul, Lost(k, s, op))
      PROVE  CallOK(k, s, cleanup, c, kept, x, y)
  <2>1. /\ c.uses \subseteq kept.own \cup x.own /\ c.held \in x.own \ kept.own
        /\ y.nul \subseteq x.nul \ {c.gets} /\ Asks(k, c.op) \subseteq x.done
        /\ y.done \subseteq x.done \cup {c.op} /\ y.own = x.own \ {c.held}
    BY <1>2
  <2>2. x.nul \cup ({c.gets} \ {""}) = x.nul
    BY <1>2
  <2>3. c.checked = "at once" => Cleans(cleanup, kept.own \cup x.own, x.nul \cup ({c.gets} \ {""}), Lost(k, s, c.op))
    BY <1>2, <2>2
  <2> QED BY <1>2, <2>1, <2>3 DEF CallOK
<1>3. ASSUME Cleans(cleanup, kept.own \cup x.own, x.nul, Lost(k, s, op))
      PROVE  CallOK(k, s, cleanup, Give(op, p, q), kept, x, y)
  <2> DEFINE c == Give(op, p, q)
  <2>1. c.op = op /\ c.gets = "" /\ c.uses = {p, q} /\ c.held = q /\ c.moves = TRUE /\ c.checked = "at once"
    BY DEF Give, Call
  <2> HIDE DEF c
  <2>2. CallOK(k, s, cleanup, c, kept, x, y)
    BY <1>2, <1>3, <2>1
  <2> QED BY <2>2 DEF c
<1>4. CallOK(k, s, cleanup, Call(op, "", {p, q}, p, q, TRUE, "never"), kept, x, y)
  <2> DEFINE c == Call(op, "", {p, q}, p, q, TRUE, "never")
  <2>1. c.op = op /\ c.gets = "" /\ c.uses = {p, q} /\ c.held = q /\ c.moves = TRUE /\ c.checked = "never"
    BY DEF Call
  <2> HIDE DEF c
  <2>2. CallOK(k, s, cleanup, c, kept, x, y)
    BY <1>2, <2>1
  <2> QED BY <2>2 DEF c
<1> QED BY <1>3, <1>4

(* Stages of one to six calls.                                             *)
LEMMA StageOf1 ==
    ASSUME NEW k, NEW s, NEW nulls, NEW error, NEW cleanup, NEW release, NEW kept, NEW then,
           NEW c1,
           NEW x1, NEW x2,
           CallOK(k, s, cleanup, c1, kept, x1, x2),
           x1.own = {}, x1.nul \subseteq nulls, x1.done \subseteq kept.done,
           kept.own \cup nulls \subseteq KfunPointers, nulls \cap kept.own = {},
           Cleans(release, kept.own \cup x2.own, x2.nul, then.own), then.done \subseteq x2.done
    PROVE  StageOK(k, s, Stage(nulls, <<c1>>, error, cleanup, release), kept, then)
<1> DEFINE calls == <<c1>>
           at == <<x1, x2>>
           st == Stage(nulls, calls, error, cleanup, release)
<1>1. IsSeq(calls) /\ Len(calls) = 1
  <2>1. calls \in Seq({c1}) /\ Len(calls) = 1
    OBVIOUS
  <2> QED BY <2>1 DEF IsSeq
<1>2. calls[1] = c1
  OBVIOUS
<1>3. at[1] = x1 /\ at[2] = x2
  OBVIOUS
<1>4. \A t \in 1 .. 1 : t = 1
  OBVIOUS
<1>5. st.calls = calls /\ st.nulls = nulls /\ st.cleanup = cleanup /\ st.release = release
  BY DEF Stage
<1> HIDE DEF calls, at, st
<1>6. ASSUME NEW t \in 1 .. 1 PROVE CallOK(k, s, cleanup, calls[t], kept, at[t], at[t + 1])
  <2>1. CASE t = 1
    BY <1>2, <1>3, <2>1
  <2> QED BY <1>4, <2>1
<1>7. Passes(k, s, st, kept, then, at)
  <2>1. Len(st.calls) = 1 /\ at[Len(st.calls) + 1] = x2
    <3>1. Len(st.calls) = 1
      BY <1>1, <1>5
    <3>2. Len(st.calls) + 1 = 2
      BY <3>1
    <3> QED BY <1>3, <3>1, <3>2
  <2>2. \A t \in 1 .. Len(st.calls) : CallOK(k, s, st.cleanup, st.calls[t], kept, at[t], at[t + 1])
    BY <1>5, <1>6, <2>1
  <2>3. at[1].own = {} /\ at[1].nul \subseteq st.nulls /\ at[1].done \subseteq kept.done
    BY <1>3, <1>5
  <2> QED BY <1>5, <2>1, <2>2, <2>3 DEF Passes
<1> QED BY <1>1, <1>5, <1>7 DEF StageOK, st, calls

LEMMA StageOf2 ==
    ASSUME NEW k, NEW s, NEW nulls, NEW error, NEW cleanup, NEW release, NEW kept, NEW then,
           NEW c1, NEW c2,
           NEW x1, NEW x2, NEW x3,
           CallOK(k, s, cleanup, c1, kept, x1, x2),
           CallOK(k, s, cleanup, c2, kept, x2, x3),
           x1.own = {}, x1.nul \subseteq nulls, x1.done \subseteq kept.done,
           kept.own \cup nulls \subseteq KfunPointers, nulls \cap kept.own = {},
           Cleans(release, kept.own \cup x3.own, x3.nul, then.own), then.done \subseteq x3.done
    PROVE  StageOK(k, s, Stage(nulls, <<c1, c2>>, error, cleanup, release), kept, then)
<1> DEFINE calls == <<c1, c2>>
           at == <<x1, x2, x3>>
           st == Stage(nulls, calls, error, cleanup, release)
<1>1. IsSeq(calls) /\ Len(calls) = 2
  <2>1. calls \in Seq({c1, c2}) /\ Len(calls) = 2
    OBVIOUS
  <2> QED BY <2>1 DEF IsSeq
<1>2. calls[1] = c1 /\ calls[2] = c2
  OBVIOUS
<1>3. at[1] = x1 /\ at[2] = x2 /\ at[3] = x3
  OBVIOUS
<1>4. \A t \in 1 .. 2 : t = 1 \/ t = 2
  OBVIOUS
<1>5. st.calls = calls /\ st.nulls = nulls /\ st.cleanup = cleanup /\ st.release = release
  BY DEF Stage
<1> HIDE DEF calls, at, st
<1>6. ASSUME NEW t \in 1 .. 2 PROVE CallOK(k, s, cleanup, calls[t], kept, at[t], at[t + 1])
  <2>1. CASE t = 1
    BY <1>2, <1>3, <2>1
  <2>2. CASE t = 2
    BY <1>2, <1>3, <2>2
  <2> QED BY <1>4, <2>1, <2>2
<1>7. Passes(k, s, st, kept, then, at)
  <2>1. Len(st.calls) = 2 /\ at[Len(st.calls) + 1] = x3
    <3>1. Len(st.calls) = 2
      BY <1>1, <1>5
    <3>2. Len(st.calls) + 1 = 3
      BY <3>1
    <3> QED BY <1>3, <3>1, <3>2
  <2>2. \A t \in 1 .. Len(st.calls) : CallOK(k, s, st.cleanup, st.calls[t], kept, at[t], at[t + 1])
    BY <1>5, <1>6, <2>1
  <2>3. at[1].own = {} /\ at[1].nul \subseteq st.nulls /\ at[1].done \subseteq kept.done
    BY <1>3, <1>5
  <2> QED BY <1>5, <2>1, <2>2, <2>3 DEF Passes
<1> QED BY <1>1, <1>5, <1>7 DEF StageOK, st, calls

LEMMA StageOf3 ==
    ASSUME NEW k, NEW s, NEW nulls, NEW error, NEW cleanup, NEW release, NEW kept, NEW then,
           NEW c1, NEW c2, NEW c3,
           NEW x1, NEW x2, NEW x3, NEW x4,
           CallOK(k, s, cleanup, c1, kept, x1, x2),
           CallOK(k, s, cleanup, c2, kept, x2, x3),
           CallOK(k, s, cleanup, c3, kept, x3, x4),
           x1.own = {}, x1.nul \subseteq nulls, x1.done \subseteq kept.done,
           kept.own \cup nulls \subseteq KfunPointers, nulls \cap kept.own = {},
           Cleans(release, kept.own \cup x4.own, x4.nul, then.own), then.done \subseteq x4.done
    PROVE  StageOK(k, s, Stage(nulls, <<c1, c2, c3>>, error, cleanup, release), kept, then)
<1> DEFINE calls == <<c1, c2, c3>>
           at == <<x1, x2, x3, x4>>
           st == Stage(nulls, calls, error, cleanup, release)
<1>1. IsSeq(calls) /\ Len(calls) = 3
  <2>1. calls \in Seq({c1, c2, c3}) /\ Len(calls) = 3
    OBVIOUS
  <2> QED BY <2>1 DEF IsSeq
<1>2. calls[1] = c1 /\ calls[2] = c2 /\ calls[3] = c3
  OBVIOUS
<1>3. at[1] = x1 /\ at[2] = x2 /\ at[3] = x3 /\ at[4] = x4
  OBVIOUS
<1>4. \A t \in 1 .. 3 : t = 1 \/ t = 2 \/ t = 3
  OBVIOUS
<1>5. st.calls = calls /\ st.nulls = nulls /\ st.cleanup = cleanup /\ st.release = release
  BY DEF Stage
<1> HIDE DEF calls, at, st
<1>6. ASSUME NEW t \in 1 .. 3 PROVE CallOK(k, s, cleanup, calls[t], kept, at[t], at[t + 1])
  <2>1. CASE t = 1
    BY <1>2, <1>3, <2>1
  <2>2. CASE t = 2
    BY <1>2, <1>3, <2>2
  <2>3. CASE t = 3
    BY <1>2, <1>3, <2>3
  <2> QED BY <1>4, <2>1, <2>2, <2>3
<1>7. Passes(k, s, st, kept, then, at)
  <2>1. Len(st.calls) = 3 /\ at[Len(st.calls) + 1] = x4
    <3>1. Len(st.calls) = 3
      BY <1>1, <1>5
    <3>2. Len(st.calls) + 1 = 4
      BY <3>1
    <3> QED BY <1>3, <3>1, <3>2
  <2>2. \A t \in 1 .. Len(st.calls) : CallOK(k, s, st.cleanup, st.calls[t], kept, at[t], at[t + 1])
    BY <1>5, <1>6, <2>1
  <2>3. at[1].own = {} /\ at[1].nul \subseteq st.nulls /\ at[1].done \subseteq kept.done
    BY <1>3, <1>5
  <2> QED BY <1>5, <2>1, <2>2, <2>3 DEF Passes
<1> QED BY <1>1, <1>5, <1>7 DEF StageOK, st, calls

LEMMA StageOf4 ==
    ASSUME NEW k, NEW s, NEW nulls, NEW error, NEW cleanup, NEW release, NEW kept, NEW then,
           NEW c1, NEW c2, NEW c3, NEW c4,
           NEW x1, NEW x2, NEW x3, NEW x4, NEW x5,
           CallOK(k, s, cleanup, c1, kept, x1, x2),
           CallOK(k, s, cleanup, c2, kept, x2, x3),
           CallOK(k, s, cleanup, c3, kept, x3, x4),
           CallOK(k, s, cleanup, c4, kept, x4, x5),
           x1.own = {}, x1.nul \subseteq nulls, x1.done \subseteq kept.done,
           kept.own \cup nulls \subseteq KfunPointers, nulls \cap kept.own = {},
           Cleans(release, kept.own \cup x5.own, x5.nul, then.own), then.done \subseteq x5.done
    PROVE  StageOK(k, s, Stage(nulls, <<c1, c2, c3, c4>>, error, cleanup, release), kept, then)
<1> DEFINE calls == <<c1, c2, c3, c4>>
           at == <<x1, x2, x3, x4, x5>>
           st == Stage(nulls, calls, error, cleanup, release)
<1>1. IsSeq(calls) /\ Len(calls) = 4
  <2>1. calls \in Seq({c1, c2, c3, c4}) /\ Len(calls) = 4
    OBVIOUS
  <2> QED BY <2>1 DEF IsSeq
<1>2. calls[1] = c1 /\ calls[2] = c2 /\ calls[3] = c3 /\ calls[4] = c4
  OBVIOUS
<1>3. at[1] = x1 /\ at[2] = x2 /\ at[3] = x3 /\ at[4] = x4 /\ at[5] = x5
  OBVIOUS
<1>4. \A t \in 1 .. 4 : t = 1 \/ t = 2 \/ t = 3 \/ t = 4
  OBVIOUS
<1>5. st.calls = calls /\ st.nulls = nulls /\ st.cleanup = cleanup /\ st.release = release
  BY DEF Stage
<1> HIDE DEF calls, at, st
<1>6. ASSUME NEW t \in 1 .. 4 PROVE CallOK(k, s, cleanup, calls[t], kept, at[t], at[t + 1])
  <2>1. CASE t = 1
    BY <1>2, <1>3, <2>1
  <2>2. CASE t = 2
    BY <1>2, <1>3, <2>2
  <2>3. CASE t = 3
    BY <1>2, <1>3, <2>3
  <2>4. CASE t = 4
    BY <1>2, <1>3, <2>4
  <2> QED BY <1>4, <2>1, <2>2, <2>3, <2>4
<1>7. Passes(k, s, st, kept, then, at)
  <2>1. Len(st.calls) = 4 /\ at[Len(st.calls) + 1] = x5
    <3>1. Len(st.calls) = 4
      BY <1>1, <1>5
    <3>2. Len(st.calls) + 1 = 5
      BY <3>1
    <3> QED BY <1>3, <3>1, <3>2
  <2>2. \A t \in 1 .. Len(st.calls) : CallOK(k, s, st.cleanup, st.calls[t], kept, at[t], at[t + 1])
    BY <1>5, <1>6, <2>1
  <2>3. at[1].own = {} /\ at[1].nul \subseteq st.nulls /\ at[1].done \subseteq kept.done
    BY <1>3, <1>5
  <2> QED BY <1>5, <2>1, <2>2, <2>3 DEF Passes
<1> QED BY <1>1, <1>5, <1>7 DEF StageOK, st, calls

LEMMA StageOf5 ==
    ASSUME NEW k, NEW s, NEW nulls, NEW error, NEW cleanup, NEW release, NEW kept, NEW then,
           NEW c1, NEW c2, NEW c3, NEW c4, NEW c5,
           NEW x1, NEW x2, NEW x3, NEW x4, NEW x5, NEW x6,
           CallOK(k, s, cleanup, c1, kept, x1, x2),
           CallOK(k, s, cleanup, c2, kept, x2, x3),
           CallOK(k, s, cleanup, c3, kept, x3, x4),
           CallOK(k, s, cleanup, c4, kept, x4, x5),
           CallOK(k, s, cleanup, c5, kept, x5, x6),
           x1.own = {}, x1.nul \subseteq nulls, x1.done \subseteq kept.done,
           kept.own \cup nulls \subseteq KfunPointers, nulls \cap kept.own = {},
           Cleans(release, kept.own \cup x6.own, x6.nul, then.own), then.done \subseteq x6.done
    PROVE  StageOK(k, s, Stage(nulls, <<c1, c2, c3, c4, c5>>, error, cleanup, release), kept, then)
<1> DEFINE calls == <<c1, c2, c3, c4, c5>>
           at == <<x1, x2, x3, x4, x5, x6>>
           st == Stage(nulls, calls, error, cleanup, release)
<1>1. IsSeq(calls) /\ Len(calls) = 5
  <2>1. calls \in Seq({c1, c2, c3, c4, c5}) /\ Len(calls) = 5
    OBVIOUS
  <2> QED BY <2>1 DEF IsSeq
<1>2. calls[1] = c1 /\ calls[2] = c2 /\ calls[3] = c3 /\ calls[4] = c4 /\ calls[5] = c5
  OBVIOUS
<1>3. at[1] = x1 /\ at[2] = x2 /\ at[3] = x3 /\ at[4] = x4 /\ at[5] = x5 /\ at[6] = x6
  OBVIOUS
<1>4. \A t \in 1 .. 5 : t = 1 \/ t = 2 \/ t = 3 \/ t = 4 \/ t = 5
  OBVIOUS
<1>5. st.calls = calls /\ st.nulls = nulls /\ st.cleanup = cleanup /\ st.release = release
  BY DEF Stage
<1> HIDE DEF calls, at, st
<1>6. ASSUME NEW t \in 1 .. 5 PROVE CallOK(k, s, cleanup, calls[t], kept, at[t], at[t + 1])
  <2>1. CASE t = 1
    BY <1>2, <1>3, <2>1
  <2>2. CASE t = 2
    BY <1>2, <1>3, <2>2
  <2>3. CASE t = 3
    BY <1>2, <1>3, <2>3
  <2>4. CASE t = 4
    BY <1>2, <1>3, <2>4
  <2>5. CASE t = 5
    BY <1>2, <1>3, <2>5
  <2> QED BY <1>4, <2>1, <2>2, <2>3, <2>4, <2>5
<1>7. Passes(k, s, st, kept, then, at)
  <2>1. Len(st.calls) = 5 /\ at[Len(st.calls) + 1] = x6
    <3>1. Len(st.calls) = 5
      BY <1>1, <1>5
    <3>2. Len(st.calls) + 1 = 6
      BY <3>1
    <3> QED BY <1>3, <3>1, <3>2
  <2>2. \A t \in 1 .. Len(st.calls) : CallOK(k, s, st.cleanup, st.calls[t], kept, at[t], at[t + 1])
    BY <1>5, <1>6, <2>1
  <2>3. at[1].own = {} /\ at[1].nul \subseteq st.nulls /\ at[1].done \subseteq kept.done
    BY <1>3, <1>5
  <2> QED BY <1>5, <2>1, <2>2, <2>3 DEF Passes
<1> QED BY <1>1, <1>5, <1>7 DEF StageOK, st, calls

LEMMA StageOf6 ==
    ASSUME NEW k, NEW s, NEW nulls, NEW error, NEW cleanup, NEW release, NEW kept, NEW then,
           NEW c1, NEW c2, NEW c3, NEW c4, NEW c5, NEW c6,
           NEW x1, NEW x2, NEW x3, NEW x4, NEW x5, NEW x6, NEW x7,
           CallOK(k, s, cleanup, c1, kept, x1, x2),
           CallOK(k, s, cleanup, c2, kept, x2, x3),
           CallOK(k, s, cleanup, c3, kept, x3, x4),
           CallOK(k, s, cleanup, c4, kept, x4, x5),
           CallOK(k, s, cleanup, c5, kept, x5, x6),
           CallOK(k, s, cleanup, c6, kept, x6, x7),
           x1.own = {}, x1.nul \subseteq nulls, x1.done \subseteq kept.done,
           kept.own \cup nulls \subseteq KfunPointers, nulls \cap kept.own = {},
           Cleans(release, kept.own \cup x7.own, x7.nul, then.own), then.done \subseteq x7.done
    PROVE  StageOK(k, s, Stage(nulls, <<c1, c2, c3, c4, c5, c6>>, error, cleanup, release), kept, then)
<1> DEFINE calls == <<c1, c2, c3, c4, c5, c6>>
           at == <<x1, x2, x3, x4, x5, x6, x7>>
           st == Stage(nulls, calls, error, cleanup, release)
<1>1. IsSeq(calls) /\ Len(calls) = 6
  <2>1. calls \in Seq({c1, c2, c3, c4, c5, c6}) /\ Len(calls) = 6
    OBVIOUS
  <2> QED BY <2>1 DEF IsSeq
<1>2. calls[1] = c1 /\ calls[2] = c2 /\ calls[3] = c3 /\ calls[4] = c4 /\ calls[5] = c5 /\ calls[6] = c6
  OBVIOUS
<1>3. at[1] = x1 /\ at[2] = x2 /\ at[3] = x3 /\ at[4] = x4 /\ at[5] = x5 /\ at[6] = x6 /\ at[7] = x7
  OBVIOUS
<1>4. \A t \in 1 .. 6 : t = 1 \/ t = 2 \/ t = 3 \/ t = 4 \/ t = 5 \/ t = 6
  OBVIOUS
<1>5. st.calls = calls /\ st.nulls = nulls /\ st.cleanup = cleanup /\ st.release = release
  BY DEF Stage
<1> HIDE DEF calls, at, st
<1>6. ASSUME NEW t \in 1 .. 6 PROVE CallOK(k, s, cleanup, calls[t], kept, at[t], at[t + 1])
  <2>1. CASE t = 1
    BY <1>2, <1>3, <2>1
  <2>2. CASE t = 2
    BY <1>2, <1>3, <2>2
  <2>3. CASE t = 3
    BY <1>2, <1>3, <2>3
  <2>4. CASE t = 4
    BY <1>2, <1>3, <2>4
  <2>5. CASE t = 5
    BY <1>2, <1>3, <2>5
  <2>6. CASE t = 6
    BY <1>2, <1>3, <2>6
  <2> QED BY <1>4, <2>1, <2>2, <2>3, <2>4, <2>5, <2>6
<1>7. Passes(k, s, st, kept, then, at)
  <2>1. Len(st.calls) = 6 /\ at[Len(st.calls) + 1] = x7
    <3>1. Len(st.calls) = 6
      BY <1>1, <1>5
    <3>2. Len(st.calls) + 1 = 7
      BY <3>1
    <3> QED BY <1>3, <3>1, <3>2
  <2>2. \A t \in 1 .. Len(st.calls) : CallOK(k, s, st.cleanup, st.calls[t], kept, at[t], at[t + 1])
    BY <1>5, <1>6, <2>1
  <2>3. at[1].own = {} /\ at[1].nul \subseteq st.nulls /\ at[1].done \subseteq kept.done
    BY <1>3, <1>5
  <2> QED BY <1>5, <2>1, <2>2, <2>3 DEF Passes
<1> QED BY <1>1, <1>5, <1>7 DEF StageOK, st, calls

-----------------------------------------------------------------------------
(* The calls that are not those of a cipher ask for no others.             *)
PlainOps == {"EVP_MD_CTX_new", "EVP_DigestInit_ex", "EVP_DigestUpdate", "EVP_DigestFinal_ex", "RAND_bytes",
             "d2i_X509", "sk_X509_new_reserve", "sk_X509_push", "X509_STORE_new", "X509_STORE_CTX_new",
             "X509_STORE_set_default_paths", "X509_STORE_CTX_init", "X509_STORE_CTX_set_purpose",
             "X509_verify_cert", "EVP_CIPHER_CTX_new", "cipher", "EVP_PKEY_CTX_new_id", "EVP_PKEY_keygen_init",
             "EVP_PKEY_CTX_set_ec_paramgen_curve_nid", "EVP_PKEY_keygen", "EVP_PKEY_get0_EC_KEY",
             "EC_KEY_key2buf", "EVP_PKEY_get_raw_public_key", "EVP_PKEY_get_raw_private_key", "BN_bin2bn",
             "EC_KEY_new_by_curve_name", "EC_KEY_set_private_key", "EVP_PKEY_new", "EVP_PKEY_assign_EC_KEY",
             "EC_KEY_oct2key", "EVP_DigestSignInit", "EVP_DigestSign", "EVP_PKEY_new_raw_private_key",
             "EVP_PKEY_derive_init", "EVP_PKEY_derive_set_peer", "EVP_PKEY_derive", "EVP_PKEY_CTX_new",
             "EVP_PKEY_new_raw_public_key", "EVP_DigestVerifyInit", "EVP_DigestVerify"}

LEMMA NothingAsked == ASSUME NEW k, NEW op \in PlainOps PROVE Asks(k, op) = {}
<1>1. op \notin {"ivlen", "tag", "key", "total", "aad", "text", "final", "get tag"}
  BY DEF PlainOps
<1>2. Requires(k, op) = {}
  BY <1>1 DEF Requires
<1> QED BY <1>2 DEF Asks

LEMMA SixCalls == \A a, b, c, d, e, f : <<a, b, c, d, e>> \o <<f>> = <<a, b, c, d, e, f>>
<1> TAKE a, b, c, d, e, f
<1> DEFINE S == {a, b, c, d, e, f}
           u == <<a, b, c, d, e>>
           v == <<f>>
           x == <<a, b, c, d, e, f>>
<1>1. u \in Seq(S) /\ v \in Seq(S) /\ x \in Seq(S) /\ Len(u) = 5 /\ Len(v) = 1 /\ Len(x) = 6
  OBVIOUS
<1>2. x[1] = u[1] /\ x[2] = u[2] /\ x[3] = u[3] /\ x[4] = u[4] /\ x[5] = u[5] /\ x[6] = v[1]
  OBVIOUS
<1> HIDE DEF S, u, v, x
<1>3. u \o v \in Seq(S) /\ Len(u \o v) = 6 /\ \A i \in 1 .. 6 : (u \o v)[i] = IF i <= 5 THEN u[i] ELSE v[i - 5]
  <2>1. /\ u \o v \in Seq(S) /\ Len(u \o v) = Len(u) + Len(v)
        /\ \A i \in 1 .. Len(u) + Len(v) : (u \o v)[i] = IF i <= Len(u) THEN u[i] ELSE v[i - Len(u)]
    BY <1>1, ConcatProperties
  <2>2. Len(u) + Len(v) = 6
    BY <1>1
  <2> QED BY <1>1, <2>1, <2>2
<1>4. \A i \in 1 .. 6 : (u \o v)[i] = x[i]
  <2> TAKE i \in 1 .. 6
  <2>1. CASE i = 6
    BY <1>2, <1>3, <2>1
  <2>2. CASE i # 6
    <3>1. i <= 5 /\ (i = 1 \/ i = 2 \/ i = 3 \/ i = 4 \/ i = 5)
      BY <2>2
    <3>2. (u \o v)[i] = u[i]
      BY <1>3, <3>1
    <3> QED BY <1>2, <3>1, <3>2
  <2> QED BY <2>1, <2>2
<1>5. u \o v = x
  BY <1>1, <1>3, <1>4, SeqEqual
<1> QED BY <1>5 DEF u, v, x

(* A chain of a pointer that is freed if it is not null, and else another. *)
LEMMA CleanEither ==
    ASSUME NEW names \in SUBSET KfunPointers, NEW nulls
    PROVE  \A p, q, r :
             p # q /\ p # r /\ q # r /\ r \in names \cup nulls =>
               /\ p \in names => Cleans(<<<<p, q>>, <<r>>>>, names, nulls, names \ {p, r})
               /\ p \in nulls \ names /\ q \in names \cup nulls =>
                    Cleans(<<<<p, q>>, <<r>>>>, names, nulls, names \ {q, r})
<1> SUFFICES ASSUME NEW p, NEW q, NEW r, p # q, p # r, q # r, r \in names \cup nulls
             PROVE  /\ p \in names => Cleans(<<<<p, q>>, <<r>>>>, names, nulls, names \ {p, r})
                    /\ p \in nulls \ names /\ q \in names \cup nulls =>
                         Cleans(<<<<p, q>>, <<r>>>>, names, nulls, names \ {q, r})
  OBVIOUS
<1> DEFINE c1 == <<p, q>>
           c2 == <<r>>
           c == <<c1, c2>>
<1>1. IsSeq(c1) /\ Len(c1) = 2 /\ IsSeq(c2) /\ Len(c2) = 1 /\ DOMAIN c1 = {1, 2} /\ DOMAIN c2 = {1}
      /\ c1[1] = p /\ c1[2] = q /\ c2[1] = r
  <2>1. IsSeq(c1) /\ Len(c1) = 2 /\ IsSeq(c2) /\ Len(c2) = 1
    BY Tuples
  <2>2. DOMAIN c1 = 1 .. 2 /\ DOMAIN c2 = 1 .. 1 /\ c1[1] = p /\ c1[2] = q /\ c2[1] = r
    OBVIOUS
  <2>3. 1 .. 2 = {1, 2} /\ 1 .. 1 = {1}
    OBVIOUS
  <2> QED BY <2>1, <2>2, <2>3
<1> HIDE DEF c1, c2
<1>2. IsSeq(c) /\ Len(c) = 2 /\ c[1] = c1 /\ c[2] = c2
  BY Tuples
<1>3. "" \notin names /\ 1 .. 2 = {1, 2}
  <2>1. "" \notin names
    BY ObjectsDiffer
  <2>2. 1 .. 2 = {1, 2}
    OBVIOUS
  <2> QED BY <2>1, <2>2
<1> HIDE DEF c
<1>4. ASSUME NEW first, \/ first = p /\ p \in names
                        \/ first = q /\ p \in nulls /\ q \in names \cup nulls
      PROVE  Cleans(c, names, nulls, names \ {first, r})
  <2> DEFINE w1 == IF first \in names THEN first ELSE ""
             w2 == IF r \in names THEN r ELSE ""
             w == <<w1, w2>>
  <2>1. w[1] = w1 /\ w[2] = w2
    OBVIOUS
  <2>2. (w1 = "" => first \in nulls \ names) /\ (w1 # "" => w1 = first /\ w1 \in names)
    BY <1>3, <1>4
  <2>3. (w2 = "" => r \in nulls) /\ (w2 # "" => w2 = r /\ w2 \in names)
    BY <1>3
  <2>4. names \ {first, r} = names \ {w1, w2}
    BY <1>3
  <2> HIDE DEF w, w1, w2
  <2>5. {w[i] : i \in 1 .. Len(c)} = {w1, w2}
    BY <1>2, <1>3, <2>1
  <2>6. Picks(w, c, names, nulls)
    <3>1. w1 = "" => \A j \in DOMAIN c1 : c1[j] \in nulls
      <4> SUFFICES ASSUME w1 = "" PROVE \A j \in DOMAIN c1 : c1[j] \in nulls
        OBVIOUS
      <4>1. first = q /\ p \in nulls /\ q \in nulls
        BY <1>4, <2>2
      <4> QED BY <1>1, <4>1
    <3>2. w1 # "" => \E j \in DOMAIN c1 : c1[j] = w1 /\ \A l \in DOMAIN c1 : l < j => c1[l] \in nulls
      <4>1. CASE first = p
        <5>1. 1 \in DOMAIN c1 /\ \A l \in DOMAIN c1 : ~(l < 1)
          BY <1>1
        <5> QED BY <1>1, <2>2, <4>1, <5>1
      <4>2. CASE first = q /\ p \in nulls
        <5>1. 2 \in DOMAIN c1 /\ \A l \in DOMAIN c1 : l < 2 => l = 1
          BY <1>1
        <5> QED BY <1>1, <2>2, <4>2, <5>1
      <4> QED BY <1>4, <4>1, <4>2
    <3>3. w2 = "" => \A j \in DOMAIN c2 : c2[j] \in nulls
      BY <1>1, <2>3
    <3>4. w2 # "" => \E j \in DOMAIN c2 : c2[j] = w2 /\ \A l \in DOMAIN c2 : l < j => c2[l] \in nulls
      <4>1. 1 \in DOMAIN c2 /\ \A l \in DOMAIN c2 : ~(l < 1)
        BY <1>1
      <4> QED BY <1>1, <2>3, <4>1
    <3>5. w1 # "" => w1 # w2
      BY <1>4, <2>2, <2>3
    <3>6. \A i \in 1 .. 2 : i = 1 \/ i = 2
      OBVIOUS
    <3> SUFFICES ASSUME NEW i \in 1 .. 2
                 PROVE  /\ w[i] = "" => \A j \in DOMAIN c[i] : c[i][j] \in nulls
                        /\ w[i] # "" => /\ w[i] \in names
                                        /\ \E j \in DOMAIN c[i] : /\ c[i][j] = w[i]
                                                                  /\ \A l \in DOMAIN c[i] : l < j => c[i][l] \in nulls
                        /\ \A j \in 1 .. 2 : i # j /\ w[i] # "" => w[i] # w[j]
      BY <1>2 DEF Picks
    <3>7. CASE i = 1
      <4>1. w[i] = w1 /\ c[i] = c1 /\ \A j \in 1 .. 2 : i # j => w[j] = w2
        BY <1>2, <2>1, <3>6, <3>7
      <4> QED BY <2>2, <3>1, <3>2, <3>5, <4>1
    <3>8. CASE i = 2
      <4>1. w[i] = w2 /\ c[i] = c2 /\ \A j \in 1 .. 2 : i # j => w[j] = w1
        BY <1>2, <2>1, <3>6, <3>8
      <4> QED BY <2>3, <3>3, <3>4, <3>5, <4>1
    <3> QED BY <3>6, <3>7, <3>8
  <2>7. \A i \in 1 .. Len(c) : IsSeq(c[i])
    <3>1. \A i \in 1 .. 2 : i = 1 \/ i = 2
      OBVIOUS
    <3> QED BY <1>1, <1>2, <3>1
  <2> QED BY <1>2, <2>4, <2>5, <2>6, <2>7 DEF Cleans
<1>5. p \in names => Cleans(c, names, nulls, names \ {p, r})
  BY <1>4
<1>6. p \in nulls \ names /\ q \in names \cup nulls => Cleans(c, names, nulls, names \ {q, r})
  BY <1>4
<1> QED BY <1>5, <1>6 DEF c, c1, c2

(* The stages of each kfun, in the order of the module.                    *)
LEMMA RandomStage ==
    ASSUME NEW k, NEW s, \A op : Lost(k, s, op) = {}
    PROVE  StageOK(k, s, Stage({}, <<Do("RAND_bytes", {})>>, "OpenSSL", <<>>, <<>>), At({}, {}, {}), At({}, {}, {}))
<1> DEFINE kept == At({}, {}, {})
           then == At({}, {}, {})
           cleanup == <<>>
           release == <<>>
           x1 == At({}, {}, {})
<1>1. /\ kept.own = {} /\ kept.done = {} /\ then.own = {} /\ then.done = {}
      /\ x1.own = {} /\ x1.nul = {} /\ x1.done = {}
  BY DEF At
<1>2. kept.own \cup x1.own = {}
  BY <1>1
<1>3. {} \in SUBSET KfunPointers
  BY DEF KfunPointers
<1> HIDE DEF kept, then, cleanup, release, x1
<1>4. CallOK(k, s, cleanup, Do("RAND_bytes", {}), kept, x1, x1)
  <2>1. Asks(k, "RAND_bytes") \subseteq x1.done
    BY NothingAsked DEF PlainOps
  <2>2. /\ {} \subseteq kept.own \cup x1.own
        /\ x1.own = x1.own
        /\ x1.nul \subseteq x1.nul \ {""}
        /\ x1.done \subseteq x1.done \cup {"RAND_bytes"}
    BY <1>1, <1>2
  <2>3. Cleans(cleanup, kept.own \cup x1.own, x1.nul, Lost(k, s, "RAND_bytes"))
    <3>1. x1.nul = {}
      BY <1>1
    <3>2. Cleans(cleanup, {}, {}, {})
      BY CleanNone DEF cleanup
    <3> QED BY <1>2, <3>1, <3>2
  <2> QED BY <2>1, <2>2, <2>3, DoStep
<1>5. Cleans(release, kept.own \cup x1.own, x1.nul, then.own)
  <2>1. Cleans(release, {}, x1.nul, {})
    BY CleanNone DEF release
  <2>2. then.own = {}
    BY <1>1
  <2> QED BY <1>2, <2>1, <2>2
<1>6. /\ x1.own = {} /\ x1.nul \subseteq {} /\ x1.done \subseteq kept.done
      /\ kept.own \cup {} \subseteq KfunPointers /\ {} \cap kept.own = {} /\ then.done \subseteq x1.done
  BY <1>1 DEF KfunPointers
<1>7. StageOK(k, s,
             Stage({},
                   <<Do("RAND_bytes", {})>>,
                   "OpenSSL", cleanup, release),
             kept, then)
  BY <1>4, <1>5, <1>6, StageOf1
<1> QED BY <1>7 DEF kept, then, cleanup, release

LEMMA CertificateStage ==
    ASSUME NEW k, NEW s, \A op : Lost(k, s, op) = {}
    PROVE  StageOK(k, s, Stage({}, <<New("d2i_X509", "certificate", {})>>, "Bad certificate", <<>>, <<>>), At({}, {}, {}), At({"certificate"}, {}, {}))
<1> DEFINE kept == At({}, {}, {})
           then == At({"certificate"}, {}, {})
           cleanup == <<>>
           release == <<>>
           x1 == At({}, {}, {})
           x2 == At({"certificate"}, {}, {})
<1>1. /\ kept.own = {} /\ kept.done = {} /\ then.own = {"certificate"} /\ then.done = {}
      /\ x1.own = {} /\ x1.nul = {} /\ x1.done = {}
      /\ x2.own = {"certificate"} /\ x2.nul = {} /\ x2.done = {}
  BY DEF At
<1>2. kept.own \cup x1.own = {} /\ kept.own \cup x2.own = {"certificate"}
  BY <1>1
<1>3. {} \in SUBSET KfunPointers /\ {"certificate"} \in SUBSET KfunPointers
  BY DEF KfunPointers
<1> HIDE DEF kept, then, cleanup, release, x1, x2
<1>4. CallOK(k, s, cleanup, New("d2i_X509", "certificate", {}), kept, x1, x2)
  <2>1. Asks(k, "d2i_X509") \subseteq x1.done
    BY NothingAsked DEF PlainOps
  <2>2. /\ {} \subseteq kept.own \cup x1.own
        /\ "certificate" \notin kept.own \cup x1.own
        /\ x2.own = x1.own \cup {"certificate"}
        /\ x2.nul \subseteq x1.nul \ {"certificate"}
        /\ x2.done \subseteq x1.done \cup {"d2i_X509"}
    BY <1>1, <1>2
  <2>3. "certificate" \in KfunPointers
    BY DEF KfunPointers
  <2>4. Cleans(cleanup, kept.own \cup x1.own, x1.nul \cup {"certificate"}, Lost(k, s, "d2i_X509"))
    <3>1. x1.nul \cup {"certificate"} = {"certificate"}
      BY <1>1
    <3>2. Cleans(cleanup, {}, {"certificate"}, {})
      BY CleanNone DEF cleanup
    <3> QED BY <1>2, <3>1, <3>2
  <2> QED BY <2>1, <2>2, <2>3, <2>4, NewStep
<1>5. Cleans(release, kept.own \cup x2.own, x2.nul, then.own)
  <2>1. Cleans(release, {"certificate"}, x2.nul, {"certificate"})
    BY CleanNone DEF release
  <2>2. then.own = {"certificate"}
    BY <1>1
  <2> QED BY <1>2, <2>1, <2>2
<1>6. /\ x1.own = {} /\ x1.nul \subseteq {} /\ x1.done \subseteq kept.done
      /\ kept.own \cup {} \subseteq KfunPointers /\ {} \cap kept.own = {} /\ then.done \subseteq x2.done
  BY <1>1 DEF KfunPointers
<1>7. StageOK(k, s,
             Stage({},
                   <<New("d2i_X509", "certificate", {})>>,
                   "Bad certificate", cleanup, release),
             kept, then)
  BY <1>4, <1>5, <1>6, StageOf1
<1> QED BY <1>7 DEF kept, then, cleanup, release

LEMMA StackStage ==
    ASSUME NEW k, NEW s, \A op : Lost(k, s, op) = {}
    PROVE  StageOK(k, s, Stage({}, <<New("sk_X509_new_reserve", "stack", {})>>, "SSL stack error", Chains(<<"certificate">>), <<>>), At({"certificate"}, {}, {}), At({"certificate", "stack"}, {}, {}))
<1> DEFINE kept == At({"certificate"}, {}, {})
           then == At({"certificate", "stack"}, {}, {})
           cleanup == Chains(<<"certificate">>)
           release == <<>>
           x1 == At({}, {}, {})
           x2 == At({"stack"}, {}, {})
<1>1. /\ kept.own = {"certificate"} /\ kept.done = {} /\ then.own = {"certificate", "stack"} /\ then.done = {}
      /\ x1.own = {} /\ x1.nul = {} /\ x1.done = {}
      /\ x2.own = {"stack"} /\ x2.nul = {} /\ x2.done = {}
  BY DEF At
<1>2. kept.own \cup x1.own = {"certificate"} /\ kept.own \cup x2.own = {"certificate", "stack"}
  BY <1>1
<1>3. {"certificate"} \in SUBSET KfunPointers /\ {"certificate", "stack"} \in SUBSET KfunPointers
  BY DEF KfunPointers
<1> HIDE DEF kept, then, cleanup, release, x1, x2
<1>4. CallOK(k, s, cleanup, New("sk_X509_new_reserve", "stack", {}), kept, x1, x2)
  <2>1. Asks(k, "sk_X509_new_reserve") \subseteq x1.done
    BY NothingAsked DEF PlainOps
  <2>2. /\ {} \subseteq kept.own \cup x1.own
        /\ "stack" \notin kept.own \cup x1.own
        /\ x2.own = x1.own \cup {"stack"}
        /\ x2.nul \subseteq x1.nul \ {"stack"}
        /\ x2.done \subseteq x1.done \cup {"sk_X509_new_reserve"}
    BY <1>1, <1>2
  <2>3. "stack" \in KfunPointers
    BY DEF KfunPointers
  <2>4. Cleans(cleanup, kept.own \cup x1.own, x1.nul \cup {"stack"}, Lost(k, s, "sk_X509_new_reserve"))
    <3>1. x1.nul \cup {"stack"} = {"stack"}
      BY <1>1
    <3>2. {"certificate"} \ {"certificate"} = Lost(k, s, "sk_X509_new_reserve")
      OBVIOUS
    <3>3. Cleans(cleanup, {"certificate"}, {"stack"}, {"certificate"} \ {"certificate"})
      BY <1>3, CleanSingles DEF cleanup
    <3> QED BY <1>2, <3>1, <3>2, <3>3
  <2> QED BY <2>1, <2>2, <2>3, <2>4, NewStep
<1>5. Cleans(release, kept.own \cup x2.own, x2.nul, then.own)
  <2>1. Cleans(release, {"certificate", "stack"}, x2.nul, {"certificate", "stack"})
    BY CleanNone DEF release
  <2>2. then.own = {"certificate", "stack"}
    BY <1>1
  <2> QED BY <1>2, <2>1, <2>2
<1>6. /\ x1.own = {} /\ x1.nul \subseteq {} /\ x1.done \subseteq kept.done
      /\ kept.own \cup {} \subseteq KfunPointers /\ {} \cap kept.own = {} /\ then.done \subseteq x2.done
  BY <1>1 DEF KfunPointers
<1>7. StageOK(k, s,
             Stage({},
                   <<New("sk_X509_new_reserve", "stack", {})>>,
                   "SSL stack error", cleanup, release),
             kept, then)
  BY <1>4, <1>5, <1>6, StageOf1
<1> QED BY <1>7 DEF kept, then, cleanup, release

LEMMA IntermediateStage ==
    ASSUME NEW k, NEW s, \A op : Lost(k, s, op) = {}
    PROVE  StageOK(k, s, Intermediate, At({"certificate", "stack"}, {}, {}), At({"certificate", "stack"}, {}, {}))
<1> DEFINE kept == At({"certificate", "stack"}, {}, {})
           then == At({"certificate", "stack"}, {}, {})
           cleanup == Chains(<<"stack", "certificate">>)
           release == <<>>
           x1 == At({}, {}, {})
           x2 == At({"intermediate"}, {}, {})
<1>1. /\ kept.own = {"certificate", "stack"} /\ kept.done = {} /\ then.own = {"certificate", "stack"} /\ then.done = {}
      /\ x1.own = {} /\ x1.nul = {} /\ x1.done = {}
      /\ x2.own = {"intermediate"} /\ x2.nul = {} /\ x2.done = {}
  BY DEF At
<1>2. /\ kept.own \cup x1.own = {"certificate", "stack"}
      /\ kept.own \cup x2.own = {"certificate", "stack", "intermediate"}
  BY <1>1
<1>3. /\ {"certificate", "stack"} \in SUBSET KfunPointers
      /\ {"certificate", "stack", "intermediate"} \in SUBSET KfunPointers
  BY DEF KfunPointers
<1> HIDE DEF kept, then, cleanup, release, x1, x2
<1>4. CallOK(k, s, cleanup, New("d2i_X509", "intermediate", {}), kept, x1, x2)
  <2>1. Asks(k, "d2i_X509") \subseteq x1.done
    BY NothingAsked DEF PlainOps
  <2>2. /\ {} \subseteq kept.own \cup x1.own
        /\ "intermediate" \notin kept.own \cup x1.own
        /\ x2.own = x1.own \cup {"intermediate"}
        /\ x2.nul \subseteq x1.nul \ {"intermediate"}
        /\ x2.done \subseteq x1.done \cup {"d2i_X509"}
    BY <1>1, <1>2
  <2>3. "intermediate" \in KfunPointers
    BY DEF KfunPointers
  <2>4. Cleans(cleanup, kept.own \cup x1.own, x1.nul \cup {"intermediate"}, Lost(k, s, "d2i_X509"))
    <3>1. x1.nul \cup {"intermediate"} = {"intermediate"}
      BY <1>1
    <3>2. {"certificate", "stack"} \ {"stack", "certificate"} = Lost(k, s, "d2i_X509")
      OBVIOUS
    <3>3. Cleans(cleanup, {"certificate", "stack"}, {"intermediate"}, {"certificate", "stack"} \ {"stack", "certificate"})
      BY <1>3, CleanSingles DEF cleanup
    <3> QED BY <1>2, <3>1, <3>2, <3>3
  <2> QED BY <2>1, <2>2, <2>3, <2>4, NewStep
<1>5. CallOK(k, s, cleanup, Call("sk_X509_push", "", {"stack", "intermediate"}, "stack", "intermediate", TRUE, "never"), kept, x2, x1)
  <2>1. Asks(k, "sk_X509_push") \subseteq x2.done
    BY NothingAsked DEF PlainOps
  <2>2. /\ {"stack", "intermediate"} \subseteq kept.own \cup x2.own
        /\ "intermediate" \in x2.own \ kept.own
        /\ x1.own = x2.own \ {"intermediate"}
        /\ x1.nul \subseteq x2.nul \ {""}
        /\ x1.done \subseteq x2.done \cup {"sk_X509_push"}
    BY <1>1, <1>2
  <2> QED BY <2>1, <2>2, GiveStep
<1>6. Cleans(release, kept.own \cup x1.own, x1.nul, then.own)
  <2>1. Cleans(release, {"certificate", "stack"}, x1.nul, {"certificate", "stack"})
    BY CleanNone DEF release
  <2>2. then.own = {"certificate", "stack"}
    BY <1>1
  <2> QED BY <1>2, <2>1, <2>2
<1>7. /\ x1.own = {} /\ x1.nul \subseteq {} /\ x1.done \subseteq kept.done
      /\ kept.own \cup {} \subseteq KfunPointers /\ {} \cap kept.own = {} /\ then.done \subseteq x1.done
  BY <1>1 DEF KfunPointers
<1>8. StageOK(k, s,
             Stage({},
                   <<New("d2i_X509", "intermediate", {}),
                     Call("sk_X509_push", "", {"stack", "intermediate"}, "stack", "intermediate", TRUE, "never")>>,
                   "Bad intermediate certificate", cleanup, release),
             kept, then)
  BY <1>4, <1>5, <1>6, <1>7, StageOf2
<1> QED BY <1>8 DEF Intermediate, kept, then, cleanup, release

LEMMA StoreStageOK ==
    ASSUME NEW k, NEW s, \A op : Lost(k, s, op) = {}
    PROVE  StageOK(k, s, StoreStage, At({"certificate", "stack"}, {}, {}), At({"certificate", "stack", "store", "context"}, {}, {}))
<1> DEFINE kept == At({"certificate", "stack"}, {}, {})
           then == At({"certificate", "stack", "store", "context"}, {}, {})
           cleanup == Chains(<<"context", "store", "stack", "certificate">>)
           release == <<>>
           x1 == At({}, {}, {})
           x2 == At({"store"}, {}, {})
           x3 == At({"store", "context"}, {}, {})
<1>1. /\ kept.own = {"certificate", "stack"} /\ kept.done = {} /\ then.own = {"certificate", "stack", "store", "context"} /\ then.done = {}
      /\ x1.own = {} /\ x1.nul = {} /\ x1.done = {}
      /\ x2.own = {"store"} /\ x2.nul = {} /\ x2.done = {}
      /\ x3.own = {"store", "context"} /\ x3.nul = {} /\ x3.done = {}
  BY DEF At
<1>2. /\ kept.own \cup x1.own = {"certificate", "stack"}
      /\ kept.own \cup x2.own = {"certificate", "stack", "store"}
      /\ kept.own \cup x3.own = {"certificate", "stack", "store", "context"}
  BY <1>1
<1>3. /\ {"certificate", "stack"} \in SUBSET KfunPointers
      /\ {"certificate", "stack", "store"} \in SUBSET KfunPointers
      /\ {"certificate", "stack", "store", "context"} \in SUBSET KfunPointers
  BY DEF KfunPointers
<1> HIDE DEF kept, then, cleanup, release, x1, x2, x3
<1>4. CallOK(k, s, cleanup, NewLater("X509_STORE_new", "store"), kept, x1, x2)
  <2>1. Asks(k, "X509_STORE_new") \subseteq x1.done
    BY NothingAsked DEF PlainOps
  <2>2. /\ "store" \notin kept.own \cup x1.own
        /\ x2.own = x1.own \cup {"store"}
        /\ x2.nul \subseteq x1.nul \ {"store"}
        /\ x2.done \subseteq x1.done
    BY <1>1, <1>2
  <2>3. "store" \in KfunPointers
    BY DEF KfunPointers
  <2> QED BY <2>1, <2>2, <2>3, NewLaterStep
<1>5. CallOK(k, s, cleanup, NewLater("X509_STORE_CTX_new", "context"), kept, x2, x3)
  <2>1. Asks(k, "X509_STORE_CTX_new") \subseteq x2.done
    BY NothingAsked DEF PlainOps
  <2>2. /\ "context" \notin kept.own \cup x2.own
        /\ x3.own = x2.own \cup {"context"}
        /\ x3.nul \subseteq x2.nul \ {"context"}
        /\ x3.done \subseteq x2.done
    BY <1>1, <1>2
  <2>3. "context" \in KfunPointers
    BY DEF KfunPointers
  <2> QED BY <2>1, <2>2, <2>3, NewLaterStep
<1>6. CallOK(k, s, cleanup, Do("X509_STORE_set_default_paths", {"store"}), kept, x3, x3)
  <2>1. Asks(k, "X509_STORE_set_default_paths") \subseteq x3.done
    BY NothingAsked DEF PlainOps
  <2>2. /\ {"store"} \subseteq kept.own \cup x3.own
        /\ x3.own = x3.own
        /\ x3.nul \subseteq x3.nul \ {""}
        /\ x3.done \subseteq x3.done \cup {"X509_STORE_set_default_paths"}
    BY <1>1, <1>2
  <2>3. Cleans(cleanup, kept.own \cup x3.own, x3.nul, Lost(k, s, "X509_STORE_set_default_paths"))
    <3>1. x3.nul = {}
      BY <1>1
    <3>2. {"certificate", "stack", "store", "context"} \ {"context", "store", "stack", "certificate"} = Lost(k, s, "X509_STORE_set_default_paths")
      OBVIOUS
    <3>3. Cleans(cleanup, {"certificate", "stack", "store", "context"}, {}, {"certificate", "stack", "store", "context"} \ {"context", "store", "stack", "certificate"})
      BY <1>3, CleanSingles DEF cleanup
    <3> QED BY <1>2, <3>1, <3>2, <3>3
  <2> QED BY <2>1, <2>2, <2>3, DoStep
<1>7. CallOK(k, s, cleanup, Do("X509_STORE_CTX_init", {"context", "store", "certificate", "stack"}), kept, x3, x3)
  <2>1. Asks(k, "X509_STORE_CTX_init") \subseteq x3.done
    BY NothingAsked DEF PlainOps
  <2>2. /\ {"context", "store", "certificate", "stack"} \subseteq kept.own \cup x3.own
        /\ x3.own = x3.own
        /\ x3.nul \subseteq x3.nul \ {""}
        /\ x3.done \subseteq x3.done \cup {"X509_STORE_CTX_init"}
    BY <1>1, <1>2
  <2>3. Cleans(cleanup, kept.own \cup x3.own, x3.nul, Lost(k, s, "X509_STORE_CTX_init"))
    <3>1. x3.nul = {}
      BY <1>1
    <3>2. {"certificate", "stack", "store", "context"} \ {"context", "store", "stack", "certificate"} = Lost(k, s, "X509_STORE_CTX_init")
      OBVIOUS
    <3>3. Cleans(cleanup, {"certificate", "stack", "store", "context"}, {}, {"certificate", "stack", "store", "context"} \ {"context", "store", "stack", "certificate"})
      BY <1>3, CleanSingles DEF cleanup
    <3> QED BY <1>2, <3>1, <3>2, <3>3
  <2> QED BY <2>1, <2>2, <2>3, DoStep
<1>8. CallOK(k, s, cleanup, Do("X509_STORE_CTX_set_purpose", {"context"}), kept, x3, x3)
  <2>1. Asks(k, "X509_STORE_CTX_set_purpose") \subseteq x3.done
    BY NothingAsked DEF PlainOps
  <2>2. /\ {"context"} \subseteq kept.own \cup x3.own
        /\ x3.own = x3.own
        /\ x3.nul \subseteq x3.nul \ {""}
        /\ x3.done \subseteq x3.done \cup {"X509_STORE_CTX_set_purpose"}
    BY <1>1, <1>2
  <2>3. Cleans(cleanup, kept.own \cup x3.own, x3.nul, Lost(k, s, "X509_STORE_CTX_set_purpose"))
    <3>1. x3.nul = {}
      BY <1>1
    <3>2. {"certificate", "stack", "store", "context"} \ {"context", "store", "stack", "certificate"} = Lost(k, s, "X509_STORE_CTX_set_purpose")
      OBVIOUS
    <3>3. Cleans(cleanup, {"certificate", "stack", "store", "context"}, {}, {"certificate", "stack", "store", "context"} \ {"context", "store", "stack", "certificate"})
      BY <1>3, CleanSingles DEF cleanup
    <3> QED BY <1>2, <3>1, <3>2, <3>3
  <2> QED BY <2>1, <2>2, <2>3, DoStep
<1>9. Cleans(release, kept.own \cup x3.own, x3.nul, then.own)
  <2>1. Cleans(release, {"certificate", "stack", "store", "context"}, x3.nul, {"certificate", "stack", "store", "context"})
    BY CleanNone DEF release
  <2>2. then.own = {"certificate", "stack", "store", "context"}
    BY <1>1
  <2> QED BY <1>2, <2>1, <2>2
<1>10. /\ x1.own = {} /\ x1.nul \subseteq {} /\ x1.done \subseteq kept.done
      /\ kept.own \cup {} \subseteq KfunPointers /\ {} \cap kept.own = {} /\ then.done \subseteq x3.done
  BY <1>1 DEF KfunPointers
<1>11. StageOK(k, s,
             Stage({},
                   <<NewLater("X509_STORE_new", "store"),
                     NewLater("X509_STORE_CTX_new", "context"),
                     Do("X509_STORE_set_default_paths", {"store"}),
                     Do("X509_STORE_CTX_init", {"context", "store", "certificate", "stack"}),
                     Do("X509_STORE_CTX_set_purpose", {"context"})>>,
                   "SSL context error", cleanup, release),
             kept, then)
  BY <1>4, <1>5, <1>6, <1>7, <1>8, <1>9, <1>10, StageOf5
<1> QED BY <1>11 DEF StoreStage, VerifyAll, kept, then, cleanup, release

LEMMA EcKeyStage ==
    ASSUME NEW k, NEW s, \A op : Lost(k, s, op) = {}
    PROVE  StageOK(k, s, EcKey(<<>>).stages[1], At({}, {}, {}), At({"context", "key"}, {}, {}))
<1> DEFINE kept == At({}, {}, {})
           then == At({"context", "key"}, {}, {})
           cleanup == Chains(<<"key", "context">>)
           release == <<>>
           x1 == At({}, {"key"}, {})
           x2 == At({"context"}, {"key"}, {})
           x3 == At({"context", "key"}, {}, {})
<1>1. /\ kept.own = {} /\ kept.done = {} /\ then.own = {"context", "key"} /\ then.done = {}
      /\ x1.own = {} /\ x1.nul = {"key"} /\ x1.done = {}
      /\ x2.own = {"context"} /\ x2.nul = {"key"} /\ x2.done = {}
      /\ x3.own = {"context", "key"} /\ x3.nul = {} /\ x3.done = {}
  BY DEF At
<1>2. /\ kept.own \cup x1.own = {} /\ kept.own \cup x2.own = {"context"}
      /\ kept.own \cup x3.own = {"context", "key"}
  BY <1>1
<1>3. /\ {} \in SUBSET KfunPointers /\ {"context"} \in SUBSET KfunPointers
      /\ {"context", "key"} \in SUBSET KfunPointers
  BY DEF KfunPointers
<1> HIDE DEF kept, then, cleanup, release, x1, x2, x3
<1>4. CallOK(k, s, cleanup, New("EVP_PKEY_CTX_new_id", "context", {}), kept, x1, x2)
  <2>1. Asks(k, "EVP_PKEY_CTX_new_id") \subseteq x1.done
    BY NothingAsked DEF PlainOps
  <2>2. /\ {} \subseteq kept.own \cup x1.own
        /\ "context" \notin kept.own \cup x1.own
        /\ x2.own = x1.own \cup {"context"}
        /\ x2.nul \subseteq x1.nul \ {"context"}
        /\ x2.done \subseteq x1.done \cup {"EVP_PKEY_CTX_new_id"}
    BY <1>1, <1>2
  <2>3. "context" \in KfunPointers
    BY DEF KfunPointers
  <2>4. Cleans(cleanup, kept.own \cup x1.own, x1.nul \cup {"context"}, Lost(k, s, "EVP_PKEY_CTX_new_id"))
    <3>1. x1.nul \cup {"context"} = {"key", "context"}
      BY <1>1
    <3>2. {} \ {"key", "context"} = Lost(k, s, "EVP_PKEY_CTX_new_id")
      OBVIOUS
    <3>3. Cleans(cleanup, {}, {"key", "context"}, {} \ {"key", "context"})
      BY <1>3, CleanSingles DEF cleanup
    <3> QED BY <1>2, <3>1, <3>2, <3>3
  <2> QED BY <2>1, <2>2, <2>3, <2>4, NewStep
<1>5. CallOK(k, s, cleanup, Do("EVP_PKEY_keygen_init", {"context"}), kept, x2, x2)
  <2>1. Asks(k, "EVP_PKEY_keygen_init") \subseteq x2.done
    BY NothingAsked DEF PlainOps
  <2>2. /\ {"context"} \subseteq kept.own \cup x2.own
        /\ x2.own = x2.own
        /\ x2.nul \subseteq x2.nul \ {""}
        /\ x2.done \subseteq x2.done \cup {"EVP_PKEY_keygen_init"}
    BY <1>1, <1>2
  <2>3. Cleans(cleanup, kept.own \cup x2.own, x2.nul, Lost(k, s, "EVP_PKEY_keygen_init"))
    <3>1. x2.nul = {"key"}
      BY <1>1
    <3>2. {"context"} \ {"key", "context"} = Lost(k, s, "EVP_PKEY_keygen_init")
      OBVIOUS
    <3>3. Cleans(cleanup, {"context"}, {"key"}, {"context"} \ {"key", "context"})
      BY <1>3, CleanSingles DEF cleanup
    <3> QED BY <1>2, <3>1, <3>2, <3>3
  <2> QED BY <2>1, <2>2, <2>3, DoStep
<1>6. CallOK(k, s, cleanup, Do("EVP_PKEY_CTX_set_ec_paramgen_curve_nid", {"context"}), kept, x2, x2)
  <2>1. Asks(k, "EVP_PKEY_CTX_set_ec_paramgen_curve_nid") \subseteq x2.done
    BY NothingAsked DEF PlainOps
  <2>2. /\ {"context"} \subseteq kept.own \cup x2.own
        /\ x2.own = x2.own
        /\ x2.nul \subseteq x2.nul \ {""}
        /\ x2.done \subseteq x2.done \cup {"EVP_PKEY_CTX_set_ec_paramgen_curve_nid"}
    BY <1>1, <1>2
  <2>3. Cleans(cleanup, kept.own \cup x2.own, x2.nul, Lost(k, s, "EVP_PKEY_CTX_set_ec_paramgen_curve_nid"))
    <3>1. x2.nul = {"key"}
      BY <1>1
    <3>2. {"context"} \ {"key", "context"} = Lost(k, s, "EVP_PKEY_CTX_set_ec_paramgen_curve_nid")
      OBVIOUS
    <3>3. Cleans(cleanup, {"context"}, {"key"}, {"context"} \ {"key", "context"})
      BY <1>3, CleanSingles DEF cleanup
    <3> QED BY <1>2, <3>1, <3>2, <3>3
  <2> QED BY <2>1, <2>2, <2>3, DoStep
<1>7. CallOK(k, s, cleanup, New("EVP_PKEY_keygen", "key", {"context"}), kept, x2, x3)
  <2>1. Asks(k, "EVP_PKEY_keygen") \subseteq x2.done
    BY NothingAsked DEF PlainOps
  <2>2. /\ {"context"} \subseteq kept.own \cup x2.own
        /\ "key" \notin kept.own \cup x2.own
        /\ x3.own = x2.own \cup {"key"}
        /\ x3.nul \subseteq x2.nul \ {"key"}
        /\ x3.done \subseteq x2.done \cup {"EVP_PKEY_keygen"}
    BY <1>1, <1>2
  <2>3. "key" \in KfunPointers
    BY DEF KfunPointers
  <2>4. Cleans(cleanup, kept.own \cup x2.own, x2.nul \cup {"key"}, Lost(k, s, "EVP_PKEY_keygen"))
    <3>1. x2.nul \cup {"key"} = {"key", "key"}
      BY <1>1
    <3>2. {"context"} \ {"key", "context"} = Lost(k, s, "EVP_PKEY_keygen")
      OBVIOUS
    <3>3. Cleans(cleanup, {"context"}, {"key", "key"}, {"context"} \ {"key", "context"})
      BY <1>3, CleanSingles DEF cleanup
    <3> QED BY <1>2, <3>1, <3>2, <3>3
  <2> QED BY <2>1, <2>2, <2>3, <2>4, NewStep
<1>8. CallOK(k, s, cleanup, Do("EVP_PKEY_get0_EC_KEY", {"key"}), kept, x3, x3)
  <2>1. Asks(k, "EVP_PKEY_get0_EC_KEY") \subseteq x3.done
    BY NothingAsked DEF PlainOps
  <2>2. /\ {"key"} \subseteq kept.own \cup x3.own
        /\ x3.own = x3.own
        /\ x3.nul \subseteq x3.nul \ {""}
        /\ x3.done \subseteq x3.done \cup {"EVP_PKEY_get0_EC_KEY"}
    BY <1>1, <1>2
  <2>3. Cleans(cleanup, kept.own \cup x3.own, x3.nul, Lost(k, s, "EVP_PKEY_get0_EC_KEY"))
    <3>1. x3.nul = {}
      BY <1>1
    <3>2. {"context", "key"} \ {"key", "context"} = Lost(k, s, "EVP_PKEY_get0_EC_KEY")
      OBVIOUS
    <3>3. Cleans(cleanup, {"context", "key"}, {}, {"context", "key"} \ {"key", "context"})
      BY <1>3, CleanSingles DEF cleanup
    <3> QED BY <1>2, <3>1, <3>2, <3>3
  <2> QED BY <2>1, <2>2, <2>3, DoStep
<1>9. Cleans(release, kept.own \cup x3.own, x3.nul, then.own)
  <2>1. Cleans(release, {"context", "key"}, x3.nul, {"context", "key"})
    BY CleanNone DEF release
  <2>2. then.own = {"context", "key"}
    BY <1>1
  <2> QED BY <1>2, <2>1, <2>2
<1>10. /\ x1.own = {} /\ x1.nul \subseteq {"key"} /\ x1.done \subseteq kept.done
      /\ kept.own \cup {"key"} \subseteq KfunPointers /\ {"key"} \cap kept.own = {}
      /\ then.done \subseteq x3.done
  BY <1>1 DEF KfunPointers
<1>11. StageOK(k, s,
             Stage({"key"},
                   <<New("EVP_PKEY_CTX_new_id", "context", {}),
                     Do("EVP_PKEY_keygen_init", {"context"}),
                     Do("EVP_PKEY_CTX_set_ec_paramgen_curve_nid", {"context"}),
                     New("EVP_PKEY_keygen", "key", {"context"}),
                     Do("EVP_PKEY_get0_EC_KEY", {"key"})>>,
                   "Key generation failed", cleanup, release),
             kept, then)
  BY <1>4, <1>5, <1>6, <1>7, <1>8, <1>9, <1>10, StageOf5
<1> QED BY <1>11 DEF EcKey, Kfun, kept, then, cleanup, release

LEMMA EcBufferStage ==
    ASSUME NEW k, NEW s, \A op : Lost(k, s, op) = {}
    PROVE  StageOK(k, s, EcKey(<<>>).stages[2], At({"context", "key"}, {}, {}), At({"context", "key", "p"}, {}, {}))
<1> DEFINE kept == At({"context", "key"}, {}, {})
           then == At({"context", "key", "p"}, {}, {})
           cleanup == <<>>
           release == <<>>
           x1 == At({}, {}, {})
           x2 == At({"p"}, {}, {})
<1>1. /\ kept.own = {"context", "key"} /\ kept.done = {} /\ then.own = {"context", "key", "p"} /\ then.done = {}
      /\ x1.own = {} /\ x1.nul = {} /\ x1.done = {}
      /\ x2.own = {"p"} /\ x2.nul = {} /\ x2.done = {}
  BY DEF At
<1>2. kept.own \cup x1.own = {"context", "key"} /\ kept.own \cup x2.own = {"context", "key", "p"}
  BY <1>1
<1>3. {"context", "key"} \in SUBSET KfunPointers /\ {"context", "key", "p"} \in SUBSET KfunPointers
  BY DEF KfunPointers
<1> HIDE DEF kept, then, cleanup, release, x1, x2
<1>4. CallOK(k, s, cleanup, Call("EC_KEY_key2buf", "p", {"key"}, "", "", FALSE, "out"), kept, x1, x2)
  <2>1. Asks(k, "EC_KEY_key2buf") \subseteq x1.done
    BY NothingAsked DEF PlainOps
  <2>2. /\ {"key"} \subseteq kept.own \cup x1.own
        /\ "p" \notin kept.own \cup x1.own
        /\ x2.own = x1.own \cup {"p"}
        /\ x2.nul \subseteq x1.nul \ {"p"}
        /\ x2.done \subseteq x1.done \cup {"EC_KEY_key2buf"}
    BY <1>1, <1>2
  <2>3. "p" \in KfunPointers
    BY DEF KfunPointers
  <2> QED BY <2>1, <2>2, <2>3, NewOutStep
<1>5. Cleans(release, kept.own \cup x2.own, x2.nul, then.own)
  <2>1. Cleans(release, {"context", "key", "p"}, x2.nul, {"context", "key", "p"})
    BY CleanNone DEF release
  <2>2. then.own = {"context", "key", "p"}
    BY <1>1
  <2> QED BY <1>2, <2>1, <2>2
<1>6. /\ x1.own = {} /\ x1.nul \subseteq {} /\ x1.done \subseteq kept.done
      /\ kept.own \cup {} \subseteq KfunPointers /\ {} \cap kept.own = {} /\ then.done \subseteq x2.done
  BY <1>1 DEF KfunPointers
<1>7. StageOK(k, s,
             Stage({},
                   <<Call("EC_KEY_key2buf", "p", {"key"}, "", "", FALSE, "out")>>,
                   "", cleanup, release),
             kept, then)
  BY <1>4, <1>5, <1>6, StageOf1
<1> QED BY <1>7 DEF EcKey, Kfun, kept, then, cleanup, release

LEMMA EcxKeyStage ==
    ASSUME NEW k, NEW s, \A op : Lost(k, s, op) = {}
    PROVE  StageOK(k, s, EcxKey(<<>>).stages[1], At({}, {}, {}), At({"context", "key"}, {}, {}))
<1> DEFINE kept == At({}, {}, {})
           then == At({"context", "key"}, {}, {})
           cleanup == Chains(<<"key", "context">>)
           release == <<>>
           x1 == At({}, {"key"}, {})
           x2 == At({"context"}, {"key"}, {})
           x3 == At({"context", "key"}, {}, {})
<1>1. /\ kept.own = {} /\ kept.done = {} /\ then.own = {"context", "key"} /\ then.done = {}
      /\ x1.own = {} /\ x1.nul = {"key"} /\ x1.done = {}
      /\ x2.own = {"context"} /\ x2.nul = {"key"} /\ x2.done = {}
      /\ x3.own = {"context", "key"} /\ x3.nul = {} /\ x3.done = {}
  BY DEF At
<1>2. /\ kept.own \cup x1.own = {} /\ kept.own \cup x2.own = {"context"}
      /\ kept.own \cup x3.own = {"context", "key"}
  BY <1>1
<1>3. /\ {} \in SUBSET KfunPointers /\ {"context"} \in SUBSET KfunPointers
      /\ {"context", "key"} \in SUBSET KfunPointers
  BY DEF KfunPointers
<1> HIDE DEF kept, then, cleanup, release, x1, x2, x3
<1>4. CallOK(k, s, cleanup, New("EVP_PKEY_CTX_new_id", "context", {}), kept, x1, x2)
  <2>1. Asks(k, "EVP_PKEY_CTX_new_id") \subseteq x1.done
    BY NothingAsked DEF PlainOps
  <2>2. /\ {} \subseteq kept.own \cup x1.own
        /\ "context" \notin kept.own \cup x1.own
        /\ x2.own = x1.own \cup {"context"}
        /\ x2.nul \subseteq x1.nul \ {"context"}
        /\ x2.done \subseteq x1.done \cup {"EVP_PKEY_CTX_new_id"}
    BY <1>1, <1>2
  <2>3. "context" \in KfunPointers
    BY DEF KfunPointers
  <2>4. Cleans(cleanup, kept.own \cup x1.own, x1.nul \cup {"context"}, Lost(k, s, "EVP_PKEY_CTX_new_id"))
    <3>1. x1.nul \cup {"context"} = {"key", "context"}
      BY <1>1
    <3>2. {} \ {"key", "context"} = Lost(k, s, "EVP_PKEY_CTX_new_id")
      OBVIOUS
    <3>3. Cleans(cleanup, {}, {"key", "context"}, {} \ {"key", "context"})
      BY <1>3, CleanSingles DEF cleanup
    <3> QED BY <1>2, <3>1, <3>2, <3>3
  <2> QED BY <2>1, <2>2, <2>3, <2>4, NewStep
<1>5. CallOK(k, s, cleanup, Do("EVP_PKEY_keygen_init", {"context"}), kept, x2, x2)
  <2>1. Asks(k, "EVP_PKEY_keygen_init") \subseteq x2.done
    BY NothingAsked DEF PlainOps
  <2>2. /\ {"context"} \subseteq kept.own \cup x2.own
        /\ x2.own = x2.own
        /\ x2.nul \subseteq x2.nul \ {""}
        /\ x2.done \subseteq x2.done \cup {"EVP_PKEY_keygen_init"}
    BY <1>1, <1>2
  <2>3. Cleans(cleanup, kept.own \cup x2.own, x2.nul, Lost(k, s, "EVP_PKEY_keygen_init"))
    <3>1. x2.nul = {"key"}
      BY <1>1
    <3>2. {"context"} \ {"key", "context"} = Lost(k, s, "EVP_PKEY_keygen_init")
      OBVIOUS
    <3>3. Cleans(cleanup, {"context"}, {"key"}, {"context"} \ {"key", "context"})
      BY <1>3, CleanSingles DEF cleanup
    <3> QED BY <1>2, <3>1, <3>2, <3>3
  <2> QED BY <2>1, <2>2, <2>3, DoStep
<1>6. CallOK(k, s, cleanup, New("EVP_PKEY_keygen", "key", {"context"}), kept, x2, x3)
  <2>1. Asks(k, "EVP_PKEY_keygen") \subseteq x2.done
    BY NothingAsked DEF PlainOps
  <2>2. /\ {"context"} \subseteq kept.own \cup x2.own
        /\ "key" \notin kept.own \cup x2.own
        /\ x3.own = x2.own \cup {"key"}
        /\ x3.nul \subseteq x2.nul \ {"key"}
        /\ x3.done \subseteq x2.done \cup {"EVP_PKEY_keygen"}
    BY <1>1, <1>2
  <2>3. "key" \in KfunPointers
    BY DEF KfunPointers
  <2>4. Cleans(cleanup, kept.own \cup x2.own, x2.nul \cup {"key"}, Lost(k, s, "EVP_PKEY_keygen"))
    <3>1. x2.nul \cup {"key"} = {"key", "key"}
      BY <1>1
    <3>2. {"context"} \ {"key", "context"} = Lost(k, s, "EVP_PKEY_keygen")
      OBVIOUS
    <3>3. Cleans(cleanup, {"context"}, {"key", "key"}, {"context"} \ {"key", "context"})
      BY <1>3, CleanSingles DEF cleanup
    <3> QED BY <1>2, <3>1, <3>2, <3>3
  <2> QED BY <2>1, <2>2, <2>3, <2>4, NewStep
<1>7. Cleans(release, kept.own \cup x3.own, x3.nul, then.own)
  <2>1. Cleans(release, {"context", "key"}, x3.nul, {"context", "key"})
    BY CleanNone DEF release
  <2>2. then.own = {"context", "key"}
    BY <1>1
  <2> QED BY <1>2, <2>1, <2>2
<1>8. /\ x1.own = {} /\ x1.nul \subseteq {"key"} /\ x1.done \subseteq kept.done
      /\ kept.own \cup {"key"} \subseteq KfunPointers /\ {"key"} \cap kept.own = {}
      /\ then.done \subseteq x3.done
  BY <1>1 DEF KfunPointers
<1>9. StageOK(k, s,
             Stage({"key"},
                   <<New("EVP_PKEY_CTX_new_id", "context", {}),
                     Do("EVP_PKEY_keygen_init", {"context"}),
                     New("EVP_PKEY_keygen", "key", {"context"})>>,
                   "Key generation failed", cleanup, release),
             kept, then)
  BY <1>4, <1>5, <1>6, <1>7, <1>8, StageOf3
<1> QED BY <1>9 DEF EcxKey, Kfun, kept, then, cleanup, release

LEMMA EcxRawStage ==
    ASSUME NEW k, NEW s, \A op : Lost(k, s, op) = {}
    PROVE  StageOK(k, s, EcxKey(<<>>).stages[2], At({"context", "key"}, {}, {}), At({"context", "key"}, {}, {}))
<1> DEFINE kept == At({"context", "key"}, {}, {})
           then == At({"context", "key"}, {}, {})
           cleanup == <<>>
           release == <<>>
           x1 == At({}, {}, {})
<1>1. /\ kept.own = {"context", "key"} /\ kept.done = {} /\ then.own = {"context", "key"} /\ then.done = {}
      /\ x1.own = {} /\ x1.nul = {} /\ x1.done = {}
  BY DEF At
<1>2. kept.own \cup x1.own = {"context", "key"}
  BY <1>1
<1>3. {"context", "key"} \in SUBSET KfunPointers
  BY DEF KfunPointers
<1> HIDE DEF kept, then, cleanup, release, x1
<1>4. CallOK(k, s, cleanup, DoUnchecked("EVP_PKEY_get_raw_public_key", {"key"}), kept, x1, x1)
  <2>1. Asks(k, "EVP_PKEY_get_raw_public_key") \subseteq x1.done
    BY NothingAsked DEF PlainOps
  <2>2. /\ {"key"} \subseteq kept.own \cup x1.own
        /\ x1.own = x1.own
        /\ x1.nul \subseteq x1.nul \ {""}
        /\ x1.done \subseteq x1.done \cup {"EVP_PKEY_get_raw_public_key"}
    BY <1>1, <1>2
  <2> QED BY <2>1, <2>2, DoStep
<1>5. CallOK(k, s, cleanup, DoUnchecked("EVP_PKEY_get_raw_private_key", {"key"}), kept, x1, x1)
  <2>1. Asks(k, "EVP_PKEY_get_raw_private_key") \subseteq x1.done
    BY NothingAsked DEF PlainOps
  <2>2. /\ {"key"} \subseteq kept.own \cup x1.own
        /\ x1.own = x1.own
        /\ x1.nul \subseteq x1.nul \ {""}
        /\ x1.done \subseteq x1.done \cup {"EVP_PKEY_get_raw_private_key"}
    BY <1>1, <1>2
  <2> QED BY <2>1, <2>2, DoStep
<1>6. Cleans(release, kept.own \cup x1.own, x1.nul, then.own)
  <2>1. Cleans(release, {"context", "key"}, x1.nul, {"context", "key"})
    BY CleanNone DEF release
  <2>2. then.own = {"context", "key"}
    BY <1>1
  <2> QED BY <1>2, <2>1, <2>2
<1>7. /\ x1.own = {} /\ x1.nul \subseteq {} /\ x1.done \subseteq kept.done
      /\ kept.own \cup {} \subseteq KfunPointers /\ {} \cap kept.own = {} /\ then.done \subseteq x1.done
  BY <1>1 DEF KfunPointers
<1>8. StageOK(k, s,
             Stage({},
                   <<DoUnchecked("EVP_PKEY_get_raw_public_key", {"key"}),
                     DoUnchecked("EVP_PKEY_get_raw_private_key", {"key"})>>,
                   "", cleanup, release),
             kept, then)
  BY <1>4, <1>5, <1>6, <1>7, StageOf2
<1> QED BY <1>8 DEF EcxKey, Kfun, kept, then, cleanup, release

LEMMA EcSignStage ==
    ASSUME NEW k, NEW s, \A op : Lost(k, s, op) = {}
    PROVE  StageOK(k, s, EcSign(<<>>).stages[1], At({}, {}, {}), At({"key"}, {}, {}))
<1> DEFINE kept == At({}, {}, {})
           then == At({"key"}, {}, {})
           cleanup == Chains(<<"key", "ec", "bn">>)
           release == Chains(<<"bn">>)
           x1 == At({}, {"ec", "key"}, {})
           x2 == At({"bn"}, {"ec", "key"}, {})
           x3 == At({"bn", "ec"}, {"key"}, {})
           x4 == At({"bn", "ec", "key"}, {}, {})
           x5 == At({"bn", "key"}, {}, {})
<1>1. /\ kept.own = {} /\ kept.done = {} /\ then.own = {"key"} /\ then.done = {}
      /\ x1.own = {} /\ x1.nul = {"ec", "key"} /\ x1.done = {}
      /\ x2.own = {"bn"} /\ x2.nul = {"ec", "key"} /\ x2.done = {}
      /\ x3.own = {"bn", "ec"} /\ x3.nul = {"key"} /\ x3.done = {}
      /\ x4.own = {"bn", "ec", "key"} /\ x4.nul = {} /\ x4.done = {}
      /\ x5.own = {"bn", "key"} /\ x5.nul = {} /\ x5.done = {}
  BY DEF At
<1>2. /\ kept.own \cup x1.own = {} /\ kept.own \cup x2.own = {"bn"}
      /\ kept.own \cup x3.own = {"bn", "ec"} /\ kept.own \cup x4.own = {"bn", "ec", "key"}
      /\ kept.own \cup x5.own = {"bn", "key"}
  BY <1>1
<1>3. /\ {} \in SUBSET KfunPointers /\ {"bn"} \in SUBSET KfunPointers
      /\ {"bn", "ec"} \in SUBSET KfunPointers /\ {"bn", "ec", "key"} \in SUBSET KfunPointers
      /\ {"bn", "key"} \in SUBSET KfunPointers
  BY DEF KfunPointers
<1> HIDE DEF kept, then, cleanup, release, x1, x2, x3, x4, x5
<1>4. CallOK(k, s, cleanup, New("BN_bin2bn", "bn", {}), kept, x1, x2)
  <2>1. Asks(k, "BN_bin2bn") \subseteq x1.done
    BY NothingAsked DEF PlainOps
  <2>2. /\ {} \subseteq kept.own \cup x1.own
        /\ "bn" \notin kept.own \cup x1.own
        /\ x2.own = x1.own \cup {"bn"}
        /\ x2.nul \subseteq x1.nul \ {"bn"}
        /\ x2.done \subseteq x1.done \cup {"BN_bin2bn"}
    BY <1>1, <1>2
  <2>3. "bn" \in KfunPointers
    BY DEF KfunPointers
  <2>4. Cleans(cleanup, kept.own \cup x1.own, x1.nul \cup {"bn"}, Lost(k, s, "BN_bin2bn"))
    <3>1. x1.nul \cup {"bn"} = {"ec", "key", "bn"}
      BY <1>1
    <3>2. {} \ {"key", "ec", "bn"} = Lost(k, s, "BN_bin2bn")
      OBVIOUS
    <3>3. Cleans(cleanup, {}, {"ec", "key", "bn"}, {} \ {"key", "ec", "bn"})
      BY <1>3, CleanSingles DEF cleanup
    <3> QED BY <1>2, <3>1, <3>2, <3>3
  <2> QED BY <2>1, <2>2, <2>3, <2>4, NewStep
<1>5. CallOK(k, s, cleanup, New("EC_KEY_new_by_curve_name", "ec", {}), kept, x2, x3)
  <2>1. Asks(k, "EC_KEY_new_by_curve_name") \subseteq x2.done
    BY NothingAsked DEF PlainOps
  <2>2. /\ {} \subseteq kept.own \cup x2.own
        /\ "ec" \notin kept.own \cup x2.own
        /\ x3.own = x2.own \cup {"ec"}
        /\ x3.nul \subseteq x2.nul \ {"ec"}
        /\ x3.done \subseteq x2.done \cup {"EC_KEY_new_by_curve_name"}
    BY <1>1, <1>2
  <2>3. "ec" \in KfunPointers
    BY DEF KfunPointers
  <2>4. Cleans(cleanup, kept.own \cup x2.own, x2.nul \cup {"ec"}, Lost(k, s, "EC_KEY_new_by_curve_name"))
    <3>1. x2.nul \cup {"ec"} = {"ec", "key", "ec"}
      BY <1>1
    <3>2. {"bn"} \ {"key", "ec", "bn"} = Lost(k, s, "EC_KEY_new_by_curve_name")
      OBVIOUS
    <3>3. Cleans(cleanup, {"bn"}, {"ec", "key", "ec"}, {"bn"} \ {"key", "ec", "bn"})
      BY <1>3, CleanSingles DEF cleanup
    <3> QED BY <1>2, <3>1, <3>2, <3>3
  <2> QED BY <2>1, <2>2, <2>3, <2>4, NewStep
<1>6. CallOK(k, s, cleanup, Do("EC_KEY_set_private_key", {"ec", "bn"}), kept, x3, x3)
  <2>1. Asks(k, "EC_KEY_set_private_key") \subseteq x3.done
    BY NothingAsked DEF PlainOps
  <2>2. /\ {"ec", "bn"} \subseteq kept.own \cup x3.own
        /\ x3.own = x3.own
        /\ x3.nul \subseteq x3.nul \ {""}
        /\ x3.done \subseteq x3.done \cup {"EC_KEY_set_private_key"}
    BY <1>1, <1>2
  <2>3. Cleans(cleanup, kept.own \cup x3.own, x3.nul, Lost(k, s, "EC_KEY_set_private_key"))
    <3>1. x3.nul = {"key"}
      BY <1>1
    <3>2. {"bn", "ec"} \ {"key", "ec", "bn"} = Lost(k, s, "EC_KEY_set_private_key")
      OBVIOUS
    <3>3. Cleans(cleanup, {"bn", "ec"}, {"key"}, {"bn", "ec"} \ {"key", "ec", "bn"})
      BY <1>3, CleanSingles DEF cleanup
    <3> QED BY <1>2, <3>1, <3>2, <3>3
  <2> QED BY <2>1, <2>2, <2>3, DoStep
<1>7. CallOK(k, s, cleanup, New("EVP_PKEY_new", "key", {}), kept, x3, x4)
  <2>1. Asks(k, "EVP_PKEY_new") \subseteq x3.done
    BY NothingAsked DEF PlainOps
  <2>2. /\ {} \subseteq kept.own \cup x3.own
        /\ "key" \notin kept.own \cup x3.own
        /\ x4.own = x3.own \cup {"key"}
        /\ x4.nul \subseteq x3.nul \ {"key"}
        /\ x4.done \subseteq x3.done \cup {"EVP_PKEY_new"}
    BY <1>1, <1>2
  <2>3. "key" \in KfunPointers
    BY DEF KfunPointers
  <2>4. Cleans(cleanup, kept.own \cup x3.own, x3.nul \cup {"key"}, Lost(k, s, "EVP_PKEY_new"))
    <3>1. x3.nul \cup {"key"} = {"key", "key"}
      BY <1>1
    <3>2. {"bn", "ec"} \ {"key", "ec", "bn"} = Lost(k, s, "EVP_PKEY_new")
      OBVIOUS
    <3>3. Cleans(cleanup, {"bn", "ec"}, {"key", "key"}, {"bn", "ec"} \ {"key", "ec", "bn"})
      BY <1>3, CleanSingles DEF cleanup
    <3> QED BY <1>2, <3>1, <3>2, <3>3
  <2> QED BY <2>1, <2>2, <2>3, <2>4, NewStep
<1>8. CallOK(k, s, cleanup, Give("EVP_PKEY_assign_EC_KEY", "key", "ec"), kept, x4, x5)
  <2>1. Asks(k, "EVP_PKEY_assign_EC_KEY") \subseteq x4.done
    BY NothingAsked DEF PlainOps
  <2>2. /\ {"key", "ec"} \subseteq kept.own \cup x4.own
        /\ "ec" \in x4.own \ kept.own
        /\ x5.own = x4.own \ {"ec"}
        /\ x5.nul \subseteq x4.nul \ {""}
        /\ x5.done \subseteq x4.done \cup {"EVP_PKEY_assign_EC_KEY"}
    BY <1>1, <1>2
  <2>3. Cleans(cleanup, kept.own \cup x4.own, x4.nul, Lost(k, s, "EVP_PKEY_assign_EC_KEY"))
    <3>1. x4.nul = {}
      BY <1>1
    <3>2. {"bn", "ec", "key"} \ {"key", "ec", "bn"} = Lost(k, s, "EVP_PKEY_assign_EC_KEY")
      OBVIOUS
    <3>3. Cleans(cleanup, {"bn", "ec", "key"}, {}, {"bn", "ec", "key"} \ {"key", "ec", "bn"})
      BY <1>3, CleanSingles DEF cleanup
    <3> QED BY <1>2, <3>1, <3>2, <3>3
  <2> QED BY <2>1, <2>2, <2>3, GiveStep
<1>9. Cleans(release, kept.own \cup x5.own, x5.nul, then.own)
  <2>1. Cleans(release, {"bn", "key"}, x5.nul, {"bn", "key"} \ {"bn"})
    BY <1>3, CleanSingles DEF release
  <2>2. then.own = {"bn", "key"} \ {"bn"}
    BY <1>1
  <2> QED BY <1>2, <2>1, <2>2
<1>10. /\ x1.own = {} /\ x1.nul \subseteq {"ec", "key"} /\ x1.done \subseteq kept.done
      /\ kept.own \cup {"ec", "key"} \subseteq KfunPointers /\ {"ec", "key"} \cap kept.own = {}
      /\ then.done \subseteq x5.done
  BY <1>1 DEF KfunPointers
<1>11. StageOK(k, s,
             Stage({"ec", "key"},
                   <<New("BN_bin2bn", "bn", {}),
                     New("EC_KEY_new_by_curve_name", "ec", {}),
                     Do("EC_KEY_set_private_key", {"ec", "bn"}),
                     New("EVP_PKEY_new", "key", {}),
                     Give("EVP_PKEY_assign_EC_KEY", "key", "ec")>>,
                   "Sign key failed", cleanup, release),
             kept, then)
  BY <1>4, <1>5, <1>6, <1>7, <1>8, <1>9, <1>10, StageOf5
<1> QED BY <1>11 DEF EcSign, Kfun, PrivateEc, kept, then, cleanup, release

LEMMA EcxSignStage ==
    ASSUME NEW k, NEW s, \A op : Lost(k, s, op) = {}
    PROVE  StageOK(k, s, EcxSign(<<>>).stages[1], At({}, {}, {}), At({"key"}, {}, {}))
<1> DEFINE kept == At({}, {}, {})
           then == At({"key"}, {}, {})
           cleanup == <<>>
           release == <<>>
           x1 == At({}, {}, {})
           x2 == At({"key"}, {}, {})
<1>1. /\ kept.own = {} /\ kept.done = {} /\ then.own = {"key"} /\ then.done = {}
      /\ x1.own = {} /\ x1.nul = {} /\ x1.done = {}
      /\ x2.own = {"key"} /\ x2.nul = {} /\ x2.done = {}
  BY DEF At
<1>2. kept.own \cup x1.own = {} /\ kept.own \cup x2.own = {"key"}
  BY <1>1
<1>3. {} \in SUBSET KfunPointers /\ {"key"} \in SUBSET KfunPointers
  BY DEF KfunPointers
<1> HIDE DEF kept, then, cleanup, release, x1, x2
<1>4. CallOK(k, s, cleanup, New("EVP_PKEY_new_raw_private_key", "key", {}), kept, x1, x2)
  <2>1. Asks(k, "EVP_PKEY_new_raw_private_key") \subseteq x1.done
    BY NothingAsked DEF PlainOps
  <2>2. /\ {} \subseteq kept.own \cup x1.own
        /\ "key" \notin kept.own \cup x1.own
        /\ x2.own = x1.own \cup {"key"}
        /\ x2.nul \subseteq x1.nul \ {"key"}
        /\ x2.done \subseteq x1.done \cup {"EVP_PKEY_new_raw_private_key"}
    BY <1>1, <1>2
  <2>3. "key" \in KfunPointers
    BY DEF KfunPointers
  <2>4. Cleans(cleanup, kept.own \cup x1.own, x1.nul \cup {"key"}, Lost(k, s, "EVP_PKEY_new_raw_private_key"))
    <3>1. x1.nul \cup {"key"} = {"key"}
      BY <1>1
    <3>2. Cleans(cleanup, {}, {"key"}, {})
      BY CleanNone DEF cleanup
    <3> QED BY <1>2, <3>1, <3>2
  <2> QED BY <2>1, <2>2, <2>3, <2>4, NewStep
<1>5. Cleans(release, kept.own \cup x2.own, x2.nul, then.own)
  <2>1. Cleans(release, {"key"}, x2.nul, {"key"})
    BY CleanNone DEF release
  <2>2. then.own = {"key"}
    BY <1>1
  <2> QED BY <1>2, <2>1, <2>2
<1>6. /\ x1.own = {} /\ x1.nul \subseteq {} /\ x1.done \subseteq kept.done
      /\ kept.own \cup {} \subseteq KfunPointers /\ {} \cap kept.own = {} /\ then.done \subseteq x2.done
  BY <1>1 DEF KfunPointers
<1>7. StageOK(k, s,
             Stage({},
                   <<New("EVP_PKEY_new_raw_private_key", "key", {})>>,
                   "Sign key failed", cleanup, release),
             kept, then)
  BY <1>4, <1>5, <1>6, StageOf1
<1> QED BY <1>7 DEF EcxSign, Kfun, kept, then, cleanup, release

LEMMA SignStageOK ==
    ASSUME NEW k, NEW s, \A op : Lost(k, s, op) = {"key"}
    PROVE  StageOK(k, s, SignStage, At({"key"}, {}, {}), At({"key", "context"}, {}, {}))
<1> DEFINE kept == At({"key"}, {}, {})
           then == At({"key", "context"}, {}, {})
           cleanup == Chains(<<"context">>)
           release == <<>>
           x1 == At({}, {}, {})
           x2 == At({"context"}, {}, {})
<1>1. /\ kept.own = {"key"} /\ kept.done = {} /\ then.own = {"key", "context"} /\ then.done = {}
      /\ x1.own = {} /\ x1.nul = {} /\ x1.done = {}
      /\ x2.own = {"context"} /\ x2.nul = {} /\ x2.done = {}
  BY DEF At
<1>2. kept.own \cup x1.own = {"key"} /\ kept.own \cup x2.own = {"key", "context"}
  BY <1>1
<1>3. {"key"} \in SUBSET KfunPointers /\ {"key", "context"} \in SUBSET KfunPointers
  BY DEF KfunPointers
<1> HIDE DEF kept, then, cleanup, release, x1, x2
<1>4. CallOK(k, s, cleanup, New("EVP_MD_CTX_new", "context", {}), kept, x1, x2)
  <2>1. Asks(k, "EVP_MD_CTX_new") \subseteq x1.done
    BY NothingAsked DEF PlainOps
  <2>2. /\ {} \subseteq kept.own \cup x1.own
        /\ "context" \notin kept.own \cup x1.own
        /\ x2.own = x1.own \cup {"context"}
        /\ x2.nul \subseteq x1.nul \ {"context"}
        /\ x2.done \subseteq x1.done \cup {"EVP_MD_CTX_new"}
    BY <1>1, <1>2
  <2>3. "context" \in KfunPointers
    BY DEF KfunPointers
  <2>4. Cleans(cleanup, kept.own \cup x1.own, x1.nul \cup {"context"}, Lost(k, s, "EVP_MD_CTX_new"))
    <3>1. x1.nul \cup {"context"} = {"context"}
      BY <1>1
    <3>2. {"key"} \ {"context"} = Lost(k, s, "EVP_MD_CTX_new")
      OBVIOUS
    <3>3. Cleans(cleanup, {"key"}, {"context"}, {"key"} \ {"context"})
      BY <1>3, CleanSingles DEF cleanup
    <3> QED BY <1>2, <3>1, <3>2, <3>3
  <2> QED BY <2>1, <2>2, <2>3, <2>4, NewStep
<1>5. CallOK(k, s, cleanup, Refer("EVP_DigestSignInit", "context", "key"), kept, x2, x2)
  <2>1. Asks(k, "EVP_DigestSignInit") \subseteq x2.done
    BY NothingAsked DEF PlainOps
  <2>2. /\ {"context", "key"} \subseteq kept.own \cup x2.own
        /\ x2.own = x2.own
        /\ x2.nul \subseteq x2.nul \ {""}
        /\ x2.done \subseteq x2.done \cup {"EVP_DigestSignInit"}
    BY <1>1, <1>2
  <2>3. Cleans(cleanup, kept.own \cup x2.own, x2.nul, Lost(k, s, "EVP_DigestSignInit"))
    <3>1. x2.nul = {}
      BY <1>1
    <3>2. {"key", "context"} \ {"context"} = Lost(k, s, "EVP_DigestSignInit")
      OBVIOUS
    <3>3. Cleans(cleanup, {"key", "context"}, {}, {"key", "context"} \ {"context"})
      BY <1>3, CleanSingles DEF cleanup
    <3> QED BY <1>2, <3>1, <3>2, <3>3
  <2> QED BY <2>1, <2>2, <2>3, DoStep
<1>6. CallOK(k, s, cleanup, Do("EVP_DigestSign", {"context"}), kept, x2, x2)
  <2>1. Asks(k, "EVP_DigestSign") \subseteq x2.done
    BY NothingAsked DEF PlainOps
  <2>2. /\ {"context"} \subseteq kept.own \cup x2.own
        /\ x2.own = x2.own
        /\ x2.nul \subseteq x2.nul \ {""}
        /\ x2.done \subseteq x2.done \cup {"EVP_DigestSign"}
    BY <1>1, <1>2
  <2>3. Cleans(cleanup, kept.own \cup x2.own, x2.nul, Lost(k, s, "EVP_DigestSign"))
    <3>1. x2.nul = {}
      BY <1>1
    <3>2. {"key", "context"} \ {"context"} = Lost(k, s, "EVP_DigestSign")
      OBVIOUS
    <3>3. Cleans(cleanup, {"key", "context"}, {}, {"key", "context"} \ {"context"})
      BY <1>3, CleanSingles DEF cleanup
    <3> QED BY <1>2, <3>1, <3>2, <3>3
  <2> QED BY <2>1, <2>2, <2>3, DoStep
<1>7. Cleans(release, kept.own \cup x2.own, x2.nul, then.own)
  <2>1. Cleans(release, {"key", "context"}, x2.nul, {"key", "context"})
    BY CleanNone DEF release
  <2>2. then.own = {"key", "context"}
    BY <1>1
  <2> QED BY <1>2, <2>1, <2>2
<1>8. /\ x1.own = {} /\ x1.nul \subseteq {} /\ x1.done \subseteq kept.done
      /\ kept.own \cup {} \subseteq KfunPointers /\ {} \cap kept.own = {} /\ then.done \subseteq x2.done
  BY <1>1 DEF KfunPointers
<1>9. StageOK(k, s,
             Stage({},
                   <<New("EVP_MD_CTX_new", "context", {}),
                     Refer("EVP_DigestSignInit", "context", "key"),
                     Do("EVP_DigestSign", {"context"})>>,
                   "Signature failed", cleanup, release),
             kept, then)
  BY <1>4, <1>5, <1>6, <1>7, <1>8, StageOf3
<1> QED BY <1>9 DEF SignStage, kept, then, cleanup, release

LEMMA EcDeriveStage ==
    StageOK("decrypt EC derive", 1, EcDerive(<<>>).stages[1], At({}, {}, {}), At({"context"}, {}, {}))
<1> DEFINE kept == At({}, {}, {})
           then == At({"context"}, {}, {})
           cleanup == <<<<"key", "ec">>, <<"bn">>>>
           release == Chains(<<"key", "bn">>)
           x1 == At({}, {"ec", "key"}, {})
           x2 == At({"bn"}, {"ec", "key"}, {})
           x3 == At({"bn", "ec"}, {"key"}, {})
           x4 == At({"bn", "ec", "key"}, {}, {})
           x5 == At({"bn", "key"}, {}, {})
           x6 == At({"bn", "key", "context"}, {}, {})
<1>1. /\ kept.own = {} /\ kept.done = {} /\ then.own = {"context"} /\ then.done = {}
      /\ x1.own = {} /\ x1.nul = {"ec", "key"} /\ x1.done = {}
      /\ x2.own = {"bn"} /\ x2.nul = {"ec", "key"} /\ x2.done = {}
      /\ x3.own = {"bn", "ec"} /\ x3.nul = {"key"} /\ x3.done = {}
      /\ x4.own = {"bn", "ec", "key"} /\ x4.nul = {} /\ x4.done = {}
      /\ x5.own = {"bn", "key"} /\ x5.nul = {} /\ x5.done = {}
      /\ x6.own = {"bn", "key", "context"} /\ x6.nul = {} /\ x6.done = {}
  BY DEF At
<1>2. /\ kept.own \cup x1.own = {} /\ kept.own \cup x2.own = {"bn"}
      /\ kept.own \cup x3.own = {"bn", "ec"} /\ kept.own \cup x4.own = {"bn", "ec", "key"}
      /\ kept.own \cup x5.own = {"bn", "key"} /\ kept.own \cup x6.own = {"bn", "key", "context"}
  BY <1>1
<1>3. /\ {} \in SUBSET KfunPointers /\ {"bn"} \in SUBSET KfunPointers
      /\ {"bn", "ec"} \in SUBSET KfunPointers /\ {"bn", "ec", "key"} \in SUBSET KfunPointers
      /\ {"bn", "key"} \in SUBSET KfunPointers /\ {"bn", "key", "context"} \in SUBSET KfunPointers
  BY DEF KfunPointers
<1> HIDE DEF kept, then, cleanup, release, x1, x2, x3, x4, x5, x6
<1>4. CallOK("decrypt EC derive", 1, cleanup, New("BN_bin2bn", "bn", {}), kept, x1, x2)
  <2>1. Asks("decrypt EC derive", "BN_bin2bn") \subseteq x1.done
    BY NothingAsked DEF PlainOps
  <2>2. /\ {} \subseteq kept.own \cup x1.own
        /\ "bn" \notin kept.own \cup x1.own
        /\ x2.own = x1.own \cup {"bn"}
        /\ x2.nul \subseteq x1.nul \ {"bn"}
        /\ x2.done \subseteq x1.done \cup {"BN_bin2bn"}
    BY <1>1, <1>2
  <2>3. "bn" \in KfunPointers
    BY DEF KfunPointers
  <2>4. Cleans(cleanup, kept.own \cup x1.own, x1.nul \cup {"bn"}, Lost("decrypt EC derive", 1, "BN_bin2bn"))
    <3>1. x1.nul \cup {"bn"} = {"ec", "key", "bn"}
      BY <1>1
    <3>2. {} \ {"ec", "bn"} = Lost("decrypt EC derive", 1, "BN_bin2bn")
      BY DEF Lost, Derives, Signs
    <3>3. Cleans(cleanup, {}, {"ec", "key", "bn"}, {} \ {"ec", "bn"})
      BY <1>3, CleanEither DEF cleanup
    <3> QED BY <1>2, <3>1, <3>2, <3>3
  <2> QED BY <2>1, <2>2, <2>3, <2>4, NewStep
<1>5. CallOK("decrypt EC derive", 1, cleanup, New("EC_KEY_new_by_curve_name", "ec", {}), kept, x2, x3)
  <2>1. Asks("decrypt EC derive", "EC_KEY_new_by_curve_name") \subseteq x2.done
    BY NothingAsked DEF PlainOps
  <2>2. /\ {} \subseteq kept.own \cup x2.own
        /\ "ec" \notin kept.own \cup x2.own
        /\ x3.own = x2.own \cup {"ec"}
        /\ x3.nul \subseteq x2.nul \ {"ec"}
        /\ x3.done \subseteq x2.done \cup {"EC_KEY_new_by_curve_name"}
    BY <1>1, <1>2
  <2>3. "ec" \in KfunPointers
    BY DEF KfunPointers
  <2>4. Cleans(cleanup, kept.own \cup x2.own, x2.nul \cup {"ec"}, Lost("decrypt EC derive", 1, "EC_KEY_new_by_curve_name"))
    <3>1. x2.nul \cup {"ec"} = {"ec", "key", "ec"}
      BY <1>1
    <3>2. {"bn"} \ {"ec", "bn"} = Lost("decrypt EC derive", 1, "EC_KEY_new_by_curve_name")
      BY DEF Lost, Derives, Signs
    <3>3. Cleans(cleanup, {"bn"}, {"ec", "key", "ec"}, {"bn"} \ {"ec", "bn"})
      BY <1>3, CleanEither DEF cleanup
    <3> QED BY <1>2, <3>1, <3>2, <3>3
  <2> QED BY <2>1, <2>2, <2>3, <2>4, NewStep
<1>6. CallOK("decrypt EC derive", 1, cleanup, Do("EC_KEY_set_private_key", {"ec", "bn"}), kept, x3, x3)
  <2>1. Asks("decrypt EC derive", "EC_KEY_set_private_key") \subseteq x3.done
    BY NothingAsked DEF PlainOps
  <2>2. /\ {"ec", "bn"} \subseteq kept.own \cup x3.own
        /\ x3.own = x3.own
        /\ x3.nul \subseteq x3.nul \ {""}
        /\ x3.done \subseteq x3.done \cup {"EC_KEY_set_private_key"}
    BY <1>1, <1>2
  <2>3. Cleans(cleanup, kept.own \cup x3.own, x3.nul, Lost("decrypt EC derive", 1, "EC_KEY_set_private_key"))
    <3>1. x3.nul = {"key"}
      BY <1>1
    <3>2. {"bn", "ec"} \ {"ec", "bn"} = Lost("decrypt EC derive", 1, "EC_KEY_set_private_key")
      BY DEF Lost, Derives, Signs
    <3>3. Cleans(cleanup, {"bn", "ec"}, {"key"}, {"bn", "ec"} \ {"ec", "bn"})
      BY <1>3, CleanEither DEF cleanup
    <3> QED BY <1>2, <3>1, <3>2, <3>3
  <2> QED BY <2>1, <2>2, <2>3, DoStep
<1>7. CallOK("decrypt EC derive", 1, cleanup, New("EVP_PKEY_new", "key", {}), kept, x3, x4)
  <2>1. Asks("decrypt EC derive", "EVP_PKEY_new") \subseteq x3.done
    BY NothingAsked DEF PlainOps
  <2>2. /\ {} \subseteq kept.own \cup x3.own
        /\ "key" \notin kept.own \cup x3.own
        /\ x4.own = x3.own \cup {"key"}
        /\ x4.nul \subseteq x3.nul \ {"key"}
        /\ x4.done \subseteq x3.done \cup {"EVP_PKEY_new"}
    BY <1>1, <1>2
  <2>3. "key" \in KfunPointers
    BY DEF KfunPointers
  <2>4. Cleans(cleanup, kept.own \cup x3.own, x3.nul \cup {"key"}, Lost("decrypt EC derive", 1, "EVP_PKEY_new"))
    <3>1. x3.nul \cup {"key"} = {"key", "key"}
      BY <1>1
    <3>2. {"bn", "ec"} \ {"ec", "bn"} = Lost("decrypt EC derive", 1, "EVP_PKEY_new")
      BY DEF Lost, Derives, Signs
    <3>3. Cleans(cleanup, {"bn", "ec"}, {"key", "key"}, {"bn", "ec"} \ {"ec", "bn"})
      BY <1>3, CleanEither DEF cleanup
    <3> QED BY <1>2, <3>1, <3>2, <3>3
  <2> QED BY <2>1, <2>2, <2>3, <2>4, NewStep
<1>8. CallOK("decrypt EC derive", 1, cleanup, Give("EVP_PKEY_assign_EC_KEY", "key", "ec"), kept, x4, x5)
  <2>1. Asks("decrypt EC derive", "EVP_PKEY_assign_EC_KEY") \subseteq x4.done
    BY NothingAsked DEF PlainOps
  <2>2. /\ {"key", "ec"} \subseteq kept.own \cup x4.own
        /\ "ec" \in x4.own \ kept.own
        /\ x5.own = x4.own \ {"ec"}
        /\ x5.nul \subseteq x4.nul \ {""}
        /\ x5.done \subseteq x4.done \cup {"EVP_PKEY_assign_EC_KEY"}
    BY <1>1, <1>2
  <2>3. Cleans(cleanup, kept.own \cup x4.own, x4.nul, Lost("decrypt EC derive", 1, "EVP_PKEY_assign_EC_KEY"))
    <3>1. x4.nul = {}
      BY <1>1
    <3>2. {"bn", "ec", "key"} \ {"key", "bn"} = Lost("decrypt EC derive", 1, "EVP_PKEY_assign_EC_KEY")
      BY DEF Lost, Derives, Signs
    <3>3. Cleans(cleanup, {"bn", "ec", "key"}, {}, {"bn", "ec", "key"} \ {"key", "bn"})
      BY <1>3, CleanEither DEF cleanup
    <3> QED BY <1>2, <3>1, <3>2, <3>3
  <2> QED BY <2>1, <2>2, <2>3, GiveStep
<1>9. CallOK("decrypt EC derive", 1, cleanup, NewOn("EVP_PKEY_CTX_new", "context", "key"), kept, x5, x6)
  <2>1. Asks("decrypt EC derive", "EVP_PKEY_CTX_new") \subseteq x5.done
    BY NothingAsked DEF PlainOps
  <2>2. /\ "key" \in kept.own \cup x5.own
        /\ "context" \notin kept.own \cup x5.own
        /\ x6.own = x5.own \cup {"context"}
        /\ x6.nul \subseteq x5.nul \ {"context"}
        /\ x6.done \subseteq x5.done \cup {"EVP_PKEY_CTX_new"}
    BY <1>1, <1>2
  <2>3. "context" \in KfunPointers
    BY DEF KfunPointers
  <2>4. Cleans(cleanup, kept.own \cup x5.own, x5.nul \cup {"context"}, Lost("decrypt EC derive", 1, "EVP_PKEY_CTX_new"))
    <3>1. x5.nul \cup {"context"} = {"context"}
      BY <1>1
    <3>2. {"bn", "key"} \ {"key", "bn"} = Lost("decrypt EC derive", 1, "EVP_PKEY_CTX_new")
      BY DEF Lost, Derives, Signs
    <3>3. Cleans(cleanup, {"bn", "key"}, {"context"}, {"bn", "key"} \ {"key", "bn"})
      BY <1>3, CleanEither DEF cleanup
    <3> QED BY <1>2, <3>1, <3>2, <3>3
  <2> QED BY <2>1, <2>2, <2>3, <2>4, NewOnStep
<1>10. Cleans(release, kept.own \cup x6.own, x6.nul, then.own)
  <2>1. Cleans(release, {"bn", "key", "context"}, x6.nul, {"bn", "key", "context"} \ {"key", "bn"})
    BY <1>3, CleanSingles DEF release
  <2>2. then.own = {"bn", "key", "context"} \ {"key", "bn"}
    BY <1>1
  <2> QED BY <1>2, <2>1, <2>2
<1>11. /\ x1.own = {} /\ x1.nul \subseteq {"ec", "key"} /\ x1.done \subseteq kept.done
      /\ kept.own \cup {"ec", "key"} \subseteq KfunPointers /\ {"ec", "key"} \cap kept.own = {}
      /\ then.done \subseteq x6.done
  BY <1>1 DEF KfunPointers
<1>12. StageOK("decrypt EC derive", 1,
             Stage({"ec", "key"},
                   <<New("BN_bin2bn", "bn", {}),
                     New("EC_KEY_new_by_curve_name", "ec", {}),
                     Do("EC_KEY_set_private_key", {"ec", "bn"}),
                     New("EVP_PKEY_new", "key", {}),
                     Give("EVP_PKEY_assign_EC_KEY", "key", "ec"),
                     NewOn("EVP_PKEY_CTX_new", "context", "key")>>,
                   "Derive key failed", cleanup, release),
             kept, then)
  BY <1>4, <1>5, <1>6, <1>7, <1>8, <1>9, <1>10, <1>11, StageOf6
<1> QED BY <1>12, SixCalls DEF EcDerive, Kfun, PrivateEc, kept, then, cleanup, release

LEMMA EcPeerStage ==
    ASSUME NEW k, NEW s, \A op : Lost(k, s, op) = {"context"}
    PROVE  StageOK(k, s, EcDerive(<<>>).stages[2], At({"context"}, {}, {}), At({"context", "key"}, {}, {}))
<1> DEFINE kept == At({"context"}, {}, {})
           then == At({"context", "key"}, {}, {})
           cleanup == Chains(<<"key", "ec">>)
           release == <<>>
           x1 == At({}, {"key"}, {})
           x2 == At({"ec"}, {"key"}, {})
           x3 == At({"ec", "key"}, {}, {})
           x4 == At({"key"}, {}, {})
<1>1. /\ kept.own = {"context"} /\ kept.done = {} /\ then.own = {"context", "key"} /\ then.done = {}
      /\ x1.own = {} /\ x1.nul = {"key"} /\ x1.done = {}
      /\ x2.own = {"ec"} /\ x2.nul = {"key"} /\ x2.done = {}
      /\ x3.own = {"ec", "key"} /\ x3.nul = {} /\ x3.done = {}
      /\ x4.own = {"key"} /\ x4.nul = {} /\ x4.done = {}
  BY DEF At
<1>2. /\ kept.own \cup x1.own = {"context"} /\ kept.own \cup x2.own = {"context", "ec"}
      /\ kept.own \cup x3.own = {"context", "ec", "key"} /\ kept.own \cup x4.own = {"context", "key"}
  BY <1>1
<1>3. /\ {"context"} \in SUBSET KfunPointers /\ {"context", "ec"} \in SUBSET KfunPointers
      /\ {"context", "ec", "key"} \in SUBSET KfunPointers /\ {"context", "key"} \in SUBSET KfunPointers
  BY DEF KfunPointers
<1> HIDE DEF kept, then, cleanup, release, x1, x2, x3, x4
<1>4. CallOK(k, s, cleanup, New("EC_KEY_new_by_curve_name", "ec", {}), kept, x1, x2)
  <2>1. Asks(k, "EC_KEY_new_by_curve_name") \subseteq x1.done
    BY NothingAsked DEF PlainOps
  <2>2. /\ {} \subseteq kept.own \cup x1.own
        /\ "ec" \notin kept.own \cup x1.own
        /\ x2.own = x1.own \cup {"ec"}
        /\ x2.nul \subseteq x1.nul \ {"ec"}
        /\ x2.done \subseteq x1.done \cup {"EC_KEY_new_by_curve_name"}
    BY <1>1, <1>2
  <2>3. "ec" \in KfunPointers
    BY DEF KfunPointers
  <2>4. Cleans(cleanup, kept.own \cup x1.own, x1.nul \cup {"ec"}, Lost(k, s, "EC_KEY_new_by_curve_name"))
    <3>1. x1.nul \cup {"ec"} = {"key", "ec"}
      BY <1>1
    <3>2. {"context"} \ {"key", "ec"} = Lost(k, s, "EC_KEY_new_by_curve_name")
      OBVIOUS
    <3>3. Cleans(cleanup, {"context"}, {"key", "ec"}, {"context"} \ {"key", "ec"})
      BY <1>3, CleanSingles DEF cleanup
    <3> QED BY <1>2, <3>1, <3>2, <3>3
  <2> QED BY <2>1, <2>2, <2>3, <2>4, NewStep
<1>5. CallOK(k, s, cleanup, Do("EC_KEY_oct2key", {"ec"}), kept, x2, x2)
  <2>1. Asks(k, "EC_KEY_oct2key") \subseteq x2.done
    BY NothingAsked DEF PlainOps
  <2>2. /\ {"ec"} \subseteq kept.own \cup x2.own
        /\ x2.own = x2.own
        /\ x2.nul \subseteq x2.nul \ {""}
        /\ x2.done \subseteq x2.done \cup {"EC_KEY_oct2key"}
    BY <1>1, <1>2
  <2>3. Cleans(cleanup, kept.own \cup x2.own, x2.nul, Lost(k, s, "EC_KEY_oct2key"))
    <3>1. x2.nul = {"key"}
      BY <1>1
    <3>2. {"context", "ec"} \ {"key", "ec"} = Lost(k, s, "EC_KEY_oct2key")
      OBVIOUS
    <3>3. Cleans(cleanup, {"context", "ec"}, {"key"}, {"context", "ec"} \ {"key", "ec"})
      BY <1>3, CleanSingles DEF cleanup
    <3> QED BY <1>2, <3>1, <3>2, <3>3
  <2> QED BY <2>1, <2>2, <2>3, DoStep
<1>6. CallOK(k, s, cleanup, New("EVP_PKEY_new", "key", {}), kept, x2, x3)
  <2>1. Asks(k, "EVP_PKEY_new") \subseteq x2.done
    BY NothingAsked DEF PlainOps
  <2>2. /\ {} \subseteq kept.own \cup x2.own
        /\ "key" \notin kept.own \cup x2.own
        /\ x3.own = x2.own \cup {"key"}
        /\ x3.nul \subseteq x2.nul \ {"key"}
        /\ x3.done \subseteq x2.done \cup {"EVP_PKEY_new"}
    BY <1>1, <1>2
  <2>3. "key" \in KfunPointers
    BY DEF KfunPointers
  <2>4. Cleans(cleanup, kept.own \cup x2.own, x2.nul \cup {"key"}, Lost(k, s, "EVP_PKEY_new"))
    <3>1. x2.nul \cup {"key"} = {"key", "key"}
      BY <1>1
    <3>2. {"context", "ec"} \ {"key", "ec"} = Lost(k, s, "EVP_PKEY_new")
      OBVIOUS
    <3>3. Cleans(cleanup, {"context", "ec"}, {"key", "key"}, {"context", "ec"} \ {"key", "ec"})
      BY <1>3, CleanSingles DEF cleanup
    <3> QED BY <1>2, <3>1, <3>2, <3>3
  <2> QED BY <2>1, <2>2, <2>3, <2>4, NewStep
<1>7. CallOK(k, s, cleanup, Give("EVP_PKEY_assign_EC_KEY", "key", "ec"), kept, x3, x4)
  <2>1. Asks(k, "EVP_PKEY_assign_EC_KEY") \subseteq x3.done
    BY NothingAsked DEF PlainOps
  <2>2. /\ {"key", "ec"} \subseteq kept.own \cup x3.own
        /\ "ec" \in x3.own \ kept.own
        /\ x4.own = x3.own \ {"ec"}
        /\ x4.nul \subseteq x3.nul \ {""}
        /\ x4.done \subseteq x3.done \cup {"EVP_PKEY_assign_EC_KEY"}
    BY <1>1, <1>2
  <2>3. Cleans(cleanup, kept.own \cup x3.own, x3.nul, Lost(k, s, "EVP_PKEY_assign_EC_KEY"))
    <3>1. x3.nul = {}
      BY <1>1
    <3>2. {"context", "ec", "key"} \ {"key", "ec"} = Lost(k, s, "EVP_PKEY_assign_EC_KEY")
      OBVIOUS
    <3>3. Cleans(cleanup, {"context", "ec", "key"}, {}, {"context", "ec", "key"} \ {"key", "ec"})
      BY <1>3, CleanSingles DEF cleanup
    <3> QED BY <1>2, <3>1, <3>2, <3>3
  <2> QED BY <2>1, <2>2, <2>3, GiveStep
<1>8. Cleans(release, kept.own \cup x4.own, x4.nul, then.own)
  <2>1. Cleans(release, {"context", "key"}, x4.nul, {"context", "key"})
    BY CleanNone DEF release
  <2>2. then.own = {"context", "key"}
    BY <1>1
  <2> QED BY <1>2, <2>1, <2>2
<1>9. /\ x1.own = {} /\ x1.nul \subseteq {"key"} /\ x1.done \subseteq kept.done
      /\ kept.own \cup {"key"} \subseteq KfunPointers /\ {"key"} \cap kept.own = {}
      /\ then.done \subseteq x4.done
  BY <1>1 DEF KfunPointers
<1>10. StageOK(k, s,
             Stage({"key"},
                   <<New("EC_KEY_new_by_curve_name", "ec", {}),
                     Do("EC_KEY_oct2key", {"ec"}),
                     New("EVP_PKEY_new", "key", {}),
                     Give("EVP_PKEY_assign_EC_KEY", "key", "ec")>>,
                   "Derive peer failed", cleanup, release),
             kept, then)
  BY <1>4, <1>5, <1>6, <1>7, <1>8, <1>9, StageOf4
<1> QED BY <1>10 DEF EcDerive, Kfun, PublicEc, kept, then, cleanup, release

LEMMA EcxDeriveStage ==
    ASSUME NEW k, NEW s, \A op : Lost(k, s, op) = {}
    PROVE  StageOK(k, s, EcxDerive(<<>>).stages[1], At({}, {}, {}), At({"context"}, {}, {}))
<1> DEFINE kept == At({}, {}, {})
           then == At({"context"}, {}, {})
           cleanup == Chains(<<"key">>)
           release == Chains(<<"key">>)
           x1 == At({}, {}, {})
           x2 == At({"key"}, {}, {})
           x3 == At({"key", "context"}, {}, {})
<1>1. /\ kept.own = {} /\ kept.done = {} /\ then.own = {"context"} /\ then.done = {}
      /\ x1.own = {} /\ x1.nul = {} /\ x1.done = {}
      /\ x2.own = {"key"} /\ x2.nul = {} /\ x2.done = {}
      /\ x3.own = {"key", "context"} /\ x3.nul = {} /\ x3.done = {}
  BY DEF At
<1>2. kept.own \cup x1.own = {} /\ kept.own \cup x2.own = {"key"} /\ kept.own \cup x3.own = {"key", "context"}
  BY <1>1
<1>3. /\ {} \in SUBSET KfunPointers /\ {"key"} \in SUBSET KfunPointers
      /\ {"key", "context"} \in SUBSET KfunPointers
  BY DEF KfunPointers
<1> HIDE DEF kept, then, cleanup, release, x1, x2, x3
<1>4. CallOK(k, s, cleanup, New("EVP_PKEY_new_raw_private_key", "key", {}), kept, x1, x2)
  <2>1. Asks(k, "EVP_PKEY_new_raw_private_key") \subseteq x1.done
    BY NothingAsked DEF PlainOps
  <2>2. /\ {} \subseteq kept.own \cup x1.own
        /\ "key" \notin kept.own \cup x1.own
        /\ x2.own = x1.own \cup {"key"}
        /\ x2.nul \subseteq x1.nul \ {"key"}
        /\ x2.done \subseteq x1.done \cup {"EVP_PKEY_new_raw_private_key"}
    BY <1>1, <1>2
  <2>3. "key" \in KfunPointers
    BY DEF KfunPointers
  <2>4. Cleans(cleanup, kept.own \cup x1.own, x1.nul \cup {"key"}, Lost(k, s, "EVP_PKEY_new_raw_private_key"))
    <3>1. x1.nul \cup {"key"} = {"key"}
      BY <1>1
    <3>2. {} \ {"key"} = Lost(k, s, "EVP_PKEY_new_raw_private_key")
      OBVIOUS
    <3>3. Cleans(cleanup, {}, {"key"}, {} \ {"key"})
      BY <1>3, CleanSingles DEF cleanup
    <3> QED BY <1>2, <3>1, <3>2, <3>3
  <2> QED BY <2>1, <2>2, <2>3, <2>4, NewStep
<1>5. CallOK(k, s, cleanup, NewOn("EVP_PKEY_CTX_new", "context", "key"), kept, x2, x3)
  <2>1. Asks(k, "EVP_PKEY_CTX_new") \subseteq x2.done
    BY NothingAsked DEF PlainOps
  <2>2. /\ "key" \in kept.own \cup x2.own
        /\ "context" \notin kept.own \cup x2.own
        /\ x3.own = x2.own \cup {"context"}
        /\ x3.nul \subseteq x2.nul \ {"context"}
        /\ x3.done \subseteq x2.done \cup {"EVP_PKEY_CTX_new"}
    BY <1>1, <1>2
  <2>3. "context" \in KfunPointers
    BY DEF KfunPointers
  <2>4. Cleans(cleanup, kept.own \cup x2.own, x2.nul \cup {"context"}, Lost(k, s, "EVP_PKEY_CTX_new"))
    <3>1. x2.nul \cup {"context"} = {"context"}
      BY <1>1
    <3>2. {"key"} \ {"key"} = Lost(k, s, "EVP_PKEY_CTX_new")
      OBVIOUS
    <3>3. Cleans(cleanup, {"key"}, {"context"}, {"key"} \ {"key"})
      BY <1>3, CleanSingles DEF cleanup
    <3> QED BY <1>2, <3>1, <3>2, <3>3
  <2> QED BY <2>1, <2>2, <2>3, <2>4, NewOnStep
<1>6. Cleans(release, kept.own \cup x3.own, x3.nul, then.own)
  <2>1. Cleans(release, {"key", "context"}, x3.nul, {"key", "context"} \ {"key"})
    BY <1>3, CleanSingles DEF release
  <2>2. then.own = {"key", "context"} \ {"key"}
    BY <1>1
  <2> QED BY <1>2, <2>1, <2>2
<1>7. /\ x1.own = {} /\ x1.nul \subseteq {} /\ x1.done \subseteq kept.done
      /\ kept.own \cup {} \subseteq KfunPointers /\ {} \cap kept.own = {} /\ then.done \subseteq x3.done
  BY <1>1 DEF KfunPointers
<1>8. StageOK(k, s,
             Stage({},
                   <<New("EVP_PKEY_new_raw_private_key", "key", {}),
                     NewOn("EVP_PKEY_CTX_new", "context", "key")>>,
                   "Derive key failed", cleanup, release),
             kept, then)
  BY <1>4, <1>5, <1>6, <1>7, StageOf2
<1> QED BY <1>8 DEF EcxDerive, Kfun, kept, then, cleanup, release

LEMMA EcxPeerStage ==
    ASSUME NEW k, NEW s, \A op : Lost(k, s, op) = {"context"}
    PROVE  StageOK(k, s, EcxDerive(<<>>).stages[2], At({"context"}, {}, {}), At({"context", "key"}, {}, {}))
<1> DEFINE kept == At({"context"}, {}, {})
           then == At({"context", "key"}, {}, {})
           cleanup == <<>>
           release == <<>>
           x1 == At({}, {}, {})
           x2 == At({"key"}, {}, {})
<1>1. /\ kept.own = {"context"} /\ kept.done = {} /\ then.own = {"context", "key"} /\ then.done = {}
      /\ x1.own = {} /\ x1.nul = {} /\ x1.done = {}
      /\ x2.own = {"key"} /\ x2.nul = {} /\ x2.done = {}
  BY DEF At
<1>2. kept.own \cup x1.own = {"context"} /\ kept.own \cup x2.own = {"context", "key"}
  BY <1>1
<1>3. {"context"} \in SUBSET KfunPointers /\ {"context", "key"} \in SUBSET KfunPointers
  BY DEF KfunPointers
<1> HIDE DEF kept, then, cleanup, release, x1, x2
<1>4. CallOK(k, s, cleanup, New("EVP_PKEY_new_raw_public_key", "key", {}), kept, x1, x2)
  <2>1. Asks(k, "EVP_PKEY_new_raw_public_key") \subseteq x1.done
    BY NothingAsked DEF PlainOps
  <2>2. /\ {} \subseteq kept.own \cup x1.own
        /\ "key" \notin kept.own \cup x1.own
        /\ x2.own = x1.own \cup {"key"}
        /\ x2.nul \subseteq x1.nul \ {"key"}
        /\ x2.done \subseteq x1.done \cup {"EVP_PKEY_new_raw_public_key"}
    BY <1>1, <1>2
  <2>3. "key" \in KfunPointers
    BY DEF KfunPointers
  <2>4. Cleans(cleanup, kept.own \cup x1.own, x1.nul \cup {"key"}, Lost(k, s, "EVP_PKEY_new_raw_public_key"))
    <3>1. x1.nul \cup {"key"} = {"key"}
      BY <1>1
    <3>2. Cleans(cleanup, {"context"}, {"key"}, {"context"})
      BY CleanNone DEF cleanup
    <3> QED BY <1>2, <3>1, <3>2
  <2> QED BY <2>1, <2>2, <2>3, <2>4, NewStep
<1>5. Cleans(release, kept.own \cup x2.own, x2.nul, then.own)
  <2>1. Cleans(release, {"context", "key"}, x2.nul, {"context", "key"})
    BY CleanNone DEF release
  <2>2. then.own = {"context", "key"}
    BY <1>1
  <2> QED BY <1>2, <2>1, <2>2
<1>6. /\ x1.own = {} /\ x1.nul \subseteq {} /\ x1.done \subseteq kept.done
      /\ kept.own \cup {} \subseteq KfunPointers /\ {} \cap kept.own = {} /\ then.done \subseteq x2.done
  BY <1>1 DEF KfunPointers
<1>7. StageOK(k, s,
             Stage({},
                   <<New("EVP_PKEY_new_raw_public_key", "key", {})>>,
                   "Derive peer failed", cleanup, release),
             kept, then)
  BY <1>4, <1>5, <1>6, StageOf1
<1> QED BY <1>7 DEF EcxDerive, Kfun, kept, then, cleanup, release

LEMMA DeriveStageOK ==
    ASSUME NEW k, NEW s, \A op : Lost(k, s, op) = {}
    PROVE  StageOK(k, s, DeriveStage, At({"context", "key"}, {}, {}), At({"context", "key"}, {}, {}))
<1> DEFINE kept == At({"context", "key"}, {}, {})
           then == At({"context", "key"}, {}, {})
           cleanup == Chains(<<"key", "context">>)
           release == <<>>
           x1 == At({}, {}, {})
<1>1. /\ kept.own = {"context", "key"} /\ kept.done = {} /\ then.own = {"context", "key"} /\ then.done = {}
      /\ x1.own = {} /\ x1.nul = {} /\ x1.done = {}
  BY DEF At
<1>2. kept.own \cup x1.own = {"context", "key"}
  BY <1>1
<1>3. {"context", "key"} \in SUBSET KfunPointers
  BY DEF KfunPointers
<1> HIDE DEF kept, then, cleanup, release, x1
<1>4. CallOK(k, s, cleanup, Do("EVP_PKEY_derive_init", {"context"}), kept, x1, x1)
  <2>1. Asks(k, "EVP_PKEY_derive_init") \subseteq x1.done
    BY NothingAsked DEF PlainOps
  <2>2. /\ {"context"} \subseteq kept.own \cup x1.own
        /\ x1.own = x1.own
        /\ x1.nul \subseteq x1.nul \ {""}
        /\ x1.done \subseteq x1.done \cup {"EVP_PKEY_derive_init"}
    BY <1>1, <1>2
  <2>3. Cleans(cleanup, kept.own \cup x1.own, x1.nul, Lost(k, s, "EVP_PKEY_derive_init"))
    <3>1. x1.nul = {}
      BY <1>1
    <3>2. {"context", "key"} \ {"key", "context"} = Lost(k, s, "EVP_PKEY_derive_init")
      OBVIOUS
    <3>3. Cleans(cleanup, {"context", "key"}, {}, {"context", "key"} \ {"key", "context"})
      BY <1>3, CleanSingles DEF cleanup
    <3> QED BY <1>2, <3>1, <3>2, <3>3
  <2> QED BY <2>1, <2>2, <2>3, DoStep
<1>5. CallOK(k, s, cleanup, Refer("EVP_PKEY_derive_set_peer", "context", "key"), kept, x1, x1)
  <2>1. Asks(k, "EVP_PKEY_derive_set_peer") \subseteq x1.done
    BY NothingAsked DEF PlainOps
  <2>2. /\ {"context", "key"} \subseteq kept.own \cup x1.own
        /\ x1.own = x1.own
        /\ x1.nul \subseteq x1.nul \ {""}
        /\ x1.done \subseteq x1.done \cup {"EVP_PKEY_derive_set_peer"}
    BY <1>1, <1>2
  <2>3. Cleans(cleanup, kept.own \cup x1.own, x1.nul, Lost(k, s, "EVP_PKEY_derive_set_peer"))
    <3>1. x1.nul = {}
      BY <1>1
    <3>2. {"context", "key"} \ {"key", "context"} = Lost(k, s, "EVP_PKEY_derive_set_peer")
      OBVIOUS
    <3>3. Cleans(cleanup, {"context", "key"}, {}, {"context", "key"} \ {"key", "context"})
      BY <1>3, CleanSingles DEF cleanup
    <3> QED BY <1>2, <3>1, <3>2, <3>3
  <2> QED BY <2>1, <2>2, <2>3, DoStep
<1>6. CallOK(k, s, cleanup, Do("EVP_PKEY_derive", {"context"}), kept, x1, x1)
  <2>1. Asks(k, "EVP_PKEY_derive") \subseteq x1.done
    BY NothingAsked DEF PlainOps
  <2>2. /\ {"context"} \subseteq kept.own \cup x1.own
        /\ x1.own = x1.own
        /\ x1.nul \subseteq x1.nul \ {""}
        /\ x1.done \subseteq x1.done \cup {"EVP_PKEY_derive"}
    BY <1>1, <1>2
  <2>3. Cleans(cleanup, kept.own \cup x1.own, x1.nul, Lost(k, s, "EVP_PKEY_derive"))
    <3>1. x1.nul = {}
      BY <1>1
    <3>2. {"context", "key"} \ {"key", "context"} = Lost(k, s, "EVP_PKEY_derive")
      OBVIOUS
    <3>3. Cleans(cleanup, {"context", "key"}, {}, {"context", "key"} \ {"key", "context"})
      BY <1>3, CleanSingles DEF cleanup
    <3> QED BY <1>2, <3>1, <3>2, <3>3
  <2> QED BY <2>1, <2>2, <2>3, DoStep
<1>7. Cleans(release, kept.own \cup x1.own, x1.nul, then.own)
  <2>1. Cleans(release, {"context", "key"}, x1.nul, {"context", "key"})
    BY CleanNone DEF release
  <2>2. then.own = {"context", "key"}
    BY <1>1
  <2> QED BY <1>2, <2>1, <2>2
<1>8. /\ x1.own = {} /\ x1.nul \subseteq {} /\ x1.done \subseteq kept.done
      /\ kept.own \cup {} \subseteq KfunPointers /\ {} \cap kept.own = {} /\ then.done \subseteq x1.done
  BY <1>1 DEF KfunPointers
<1>9. StageOK(k, s,
             Stage({},
                   <<Do("EVP_PKEY_derive_init", {"context"}),
                     Refer("EVP_PKEY_derive_set_peer", "context", "key"),
                     Do("EVP_PKEY_derive", {"context"})>>,
                   "Derive failed", cleanup, release),
             kept, then)
  BY <1>4, <1>5, <1>6, <1>7, <1>8, StageOf3
<1> QED BY <1>9 DEF DeriveStage, kept, then, cleanup, release

LEMMA EcVerifyStage ==
    ASSUME NEW k, NEW s, \A op : Lost(k, s, op) = {}
    PROVE  StageOK(k, s, EcVerify(<<>>).stages[1], At({}, {}, {}), At({"key"}, {}, {}))
<1> DEFINE kept == At({}, {}, {})
           then == At({"key"}, {}, {})
           cleanup == Chains(<<"key", "ec">>)
           release == <<>>
           x1 == At({}, {"key"}, {})
           x2 == At({"ec"}, {"key"}, {})
           x3 == At({"ec", "key"}, {}, {})
           x4 == At({"key"}, {}, {})
<1>1. /\ kept.own = {} /\ kept.done = {} /\ then.own = {"key"} /\ then.done = {}
      /\ x1.own = {} /\ x1.nul = {"key"} /\ x1.done = {}
      /\ x2.own = {"ec"} /\ x2.nul = {"key"} /\ x2.done = {}
      /\ x3.own = {"ec", "key"} /\ x3.nul = {} /\ x3.done = {}
      /\ x4.own = {"key"} /\ x4.nul = {} /\ x4.done = {}
  BY DEF At
<1>2. /\ kept.own \cup x1.own = {} /\ kept.own \cup x2.own = {"ec"}
      /\ kept.own \cup x3.own = {"ec", "key"} /\ kept.own \cup x4.own = {"key"}
  BY <1>1
<1>3. /\ {} \in SUBSET KfunPointers /\ {"ec"} \in SUBSET KfunPointers
      /\ {"ec", "key"} \in SUBSET KfunPointers /\ {"key"} \in SUBSET KfunPointers
  BY DEF KfunPointers
<1> HIDE DEF kept, then, cleanup, release, x1, x2, x3, x4
<1>4. CallOK(k, s, cleanup, New("EC_KEY_new_by_curve_name", "ec", {}), kept, x1, x2)
  <2>1. Asks(k, "EC_KEY_new_by_curve_name") \subseteq x1.done
    BY NothingAsked DEF PlainOps
  <2>2. /\ {} \subseteq kept.own \cup x1.own
        /\ "ec" \notin kept.own \cup x1.own
        /\ x2.own = x1.own \cup {"ec"}
        /\ x2.nul \subseteq x1.nul \ {"ec"}
        /\ x2.done \subseteq x1.done \cup {"EC_KEY_new_by_curve_name"}
    BY <1>1, <1>2
  <2>3. "ec" \in KfunPointers
    BY DEF KfunPointers
  <2>4. Cleans(cleanup, kept.own \cup x1.own, x1.nul \cup {"ec"}, Lost(k, s, "EC_KEY_new_by_curve_name"))
    <3>1. x1.nul \cup {"ec"} = {"key", "ec"}
      BY <1>1
    <3>2. {} \ {"key", "ec"} = Lost(k, s, "EC_KEY_new_by_curve_name")
      OBVIOUS
    <3>3. Cleans(cleanup, {}, {"key", "ec"}, {} \ {"key", "ec"})
      BY <1>3, CleanSingles DEF cleanup
    <3> QED BY <1>2, <3>1, <3>2, <3>3
  <2> QED BY <2>1, <2>2, <2>3, <2>4, NewStep
<1>5. CallOK(k, s, cleanup, Do("EC_KEY_oct2key", {"ec"}), kept, x2, x2)
  <2>1. Asks(k, "EC_KEY_oct2key") \subseteq x2.done
    BY NothingAsked DEF PlainOps
  <2>2. /\ {"ec"} \subseteq kept.own \cup x2.own
        /\ x2.own = x2.own
        /\ x2.nul \subseteq x2.nul \ {""}
        /\ x2.done \subseteq x2.done \cup {"EC_KEY_oct2key"}
    BY <1>1, <1>2
  <2>3. Cleans(cleanup, kept.own \cup x2.own, x2.nul, Lost(k, s, "EC_KEY_oct2key"))
    <3>1. x2.nul = {"key"}
      BY <1>1
    <3>2. {"ec"} \ {"key", "ec"} = Lost(k, s, "EC_KEY_oct2key")
      OBVIOUS
    <3>3. Cleans(cleanup, {"ec"}, {"key"}, {"ec"} \ {"key", "ec"})
      BY <1>3, CleanSingles DEF cleanup
    <3> QED BY <1>2, <3>1, <3>2, <3>3
  <2> QED BY <2>1, <2>2, <2>3, DoStep
<1>6. CallOK(k, s, cleanup, New("EVP_PKEY_new", "key", {}), kept, x2, x3)
  <2>1. Asks(k, "EVP_PKEY_new") \subseteq x2.done
    BY NothingAsked DEF PlainOps
  <2>2. /\ {} \subseteq kept.own \cup x2.own
        /\ "key" \notin kept.own \cup x2.own
        /\ x3.own = x2.own \cup {"key"}
        /\ x3.nul \subseteq x2.nul \ {"key"}
        /\ x3.done \subseteq x2.done \cup {"EVP_PKEY_new"}
    BY <1>1, <1>2
  <2>3. "key" \in KfunPointers
    BY DEF KfunPointers
  <2>4. Cleans(cleanup, kept.own \cup x2.own, x2.nul \cup {"key"}, Lost(k, s, "EVP_PKEY_new"))
    <3>1. x2.nul \cup {"key"} = {"key", "key"}
      BY <1>1
    <3>2. {"ec"} \ {"key", "ec"} = Lost(k, s, "EVP_PKEY_new")
      OBVIOUS
    <3>3. Cleans(cleanup, {"ec"}, {"key", "key"}, {"ec"} \ {"key", "ec"})
      BY <1>3, CleanSingles DEF cleanup
    <3> QED BY <1>2, <3>1, <3>2, <3>3
  <2> QED BY <2>1, <2>2, <2>3, <2>4, NewStep
<1>7. CallOK(k, s, cleanup, Give("EVP_PKEY_assign_EC_KEY", "key", "ec"), kept, x3, x4)
  <2>1. Asks(k, "EVP_PKEY_assign_EC_KEY") \subseteq x3.done
    BY NothingAsked DEF PlainOps
  <2>2. /\ {"key", "ec"} \subseteq kept.own \cup x3.own
        /\ "ec" \in x3.own \ kept.own
        /\ x4.own = x3.own \ {"ec"}
        /\ x4.nul \subseteq x3.nul \ {""}
        /\ x4.done \subseteq x3.done \cup {"EVP_PKEY_assign_EC_KEY"}
    BY <1>1, <1>2
  <2>3. Cleans(cleanup, kept.own \cup x3.own, x3.nul, Lost(k, s, "EVP_PKEY_assign_EC_KEY"))
    <3>1. x3.nul = {}
      BY <1>1
    <3>2. {"ec", "key"} \ {"key", "ec"} = Lost(k, s, "EVP_PKEY_assign_EC_KEY")
      OBVIOUS
    <3>3. Cleans(cleanup, {"ec", "key"}, {}, {"ec", "key"} \ {"key", "ec"})
      BY <1>3, CleanSingles DEF cleanup
    <3> QED BY <1>2, <3>1, <3>2, <3>3
  <2> QED BY <2>1, <2>2, <2>3, GiveStep
<1>8. Cleans(release, kept.own \cup x4.own, x4.nul, then.own)
  <2>1. Cleans(release, {"key"}, x4.nul, {"key"})
    BY CleanNone DEF release
  <2>2. then.own = {"key"}
    BY <1>1
  <2> QED BY <1>2, <2>1, <2>2
<1>9. /\ x1.own = {} /\ x1.nul \subseteq {"key"} /\ x1.done \subseteq kept.done
      /\ kept.own \cup {"key"} \subseteq KfunPointers /\ {"key"} \cap kept.own = {}
      /\ then.done \subseteq x4.done
  BY <1>1 DEF KfunPointers
<1>10. StageOK(k, s,
             Stage({"key"},
                   <<New("EC_KEY_new_by_curve_name", "ec", {}),
                     Do("EC_KEY_oct2key", {"ec"}),
                     New("EVP_PKEY_new", "key", {}),
                     Give("EVP_PKEY_assign_EC_KEY", "key", "ec")>>,
                   "Verify key failed", cleanup, release),
             kept, then)
  BY <1>4, <1>5, <1>6, <1>7, <1>8, <1>9, StageOf4
<1> QED BY <1>10 DEF EcVerify, Kfun, PublicEc, kept, then, cleanup, release

LEMMA EcxVerifyStage ==
    ASSUME NEW k, NEW s, \A op : Lost(k, s, op) = {}
    PROVE  StageOK(k, s, EcxVerify(<<>>).stages[1], At({}, {}, {}), At({"key"}, {}, {}))
<1> DEFINE kept == At({}, {}, {})
           then == At({"key"}, {}, {})
           cleanup == <<>>
           release == <<>>
           x1 == At({}, {}, {})
           x2 == At({"key"}, {}, {})
<1>1. /\ kept.own = {} /\ kept.done = {} /\ then.own = {"key"} /\ then.done = {}
      /\ x1.own = {} /\ x1.nul = {} /\ x1.done = {}
      /\ x2.own = {"key"} /\ x2.nul = {} /\ x2.done = {}
  BY DEF At
<1>2. kept.own \cup x1.own = {} /\ kept.own \cup x2.own = {"key"}
  BY <1>1
<1>3. {} \in SUBSET KfunPointers /\ {"key"} \in SUBSET KfunPointers
  BY DEF KfunPointers
<1> HIDE DEF kept, then, cleanup, release, x1, x2
<1>4. CallOK(k, s, cleanup, New("EVP_PKEY_new_raw_public_key", "key", {}), kept, x1, x2)
  <2>1. Asks(k, "EVP_PKEY_new_raw_public_key") \subseteq x1.done
    BY NothingAsked DEF PlainOps
  <2>2. /\ {} \subseteq kept.own \cup x1.own
        /\ "key" \notin kept.own \cup x1.own
        /\ x2.own = x1.own \cup {"key"}
        /\ x2.nul \subseteq x1.nul \ {"key"}
        /\ x2.done \subseteq x1.done \cup {"EVP_PKEY_new_raw_public_key"}
    BY <1>1, <1>2
  <2>3. "key" \in KfunPointers
    BY DEF KfunPointers
  <2>4. Cleans(cleanup, kept.own \cup x1.own, x1.nul \cup {"key"}, Lost(k, s, "EVP_PKEY_new_raw_public_key"))
    <3>1. x1.nul \cup {"key"} = {"key"}
      BY <1>1
    <3>2. Cleans(cleanup, {}, {"key"}, {})
      BY CleanNone DEF cleanup
    <3> QED BY <1>2, <3>1, <3>2
  <2> QED BY <2>1, <2>2, <2>3, <2>4, NewStep
<1>5. Cleans(release, kept.own \cup x2.own, x2.nul, then.own)
  <2>1. Cleans(release, {"key"}, x2.nul, {"key"})
    BY CleanNone DEF release
  <2>2. then.own = {"key"}
    BY <1>1
  <2> QED BY <1>2, <2>1, <2>2
<1>6. /\ x1.own = {} /\ x1.nul \subseteq {} /\ x1.done \subseteq kept.done
      /\ kept.own \cup {} \subseteq KfunPointers /\ {} \cap kept.own = {} /\ then.done \subseteq x2.done
  BY <1>1 DEF KfunPointers
<1>7. StageOK(k, s,
             Stage({},
                   <<New("EVP_PKEY_new_raw_public_key", "key", {})>>,
                   "Verify key failed", cleanup, release),
             kept, then)
  BY <1>4, <1>5, <1>6, StageOf1
<1> QED BY <1>7 DEF EcxVerify, Kfun, kept, then, cleanup, release

LEMMA VerifyStageOK ==
    ASSUME NEW k, NEW s, \A op : Lost(k, s, op) = {"key"}
    PROVE  StageOK(k, s, VerifyStage, At({"key"}, {}, {}), At({"key", "context"}, {}, {}))
<1> DEFINE kept == At({"key"}, {}, {})
           then == At({"key", "context"}, {}, {})
           cleanup == Chains(<<"context">>)
           release == <<>>
           x1 == At({}, {}, {})
           x2 == At({"context"}, {}, {})
<1>1. /\ kept.own = {"key"} /\ kept.done = {} /\ then.own = {"key", "context"} /\ then.done = {}
      /\ x1.own = {} /\ x1.nul = {} /\ x1.done = {}
      /\ x2.own = {"context"} /\ x2.nul = {} /\ x2.done = {}
  BY DEF At
<1>2. kept.own \cup x1.own = {"key"} /\ kept.own \cup x2.own = {"key", "context"}
  BY <1>1
<1>3. {"key"} \in SUBSET KfunPointers /\ {"key", "context"} \in SUBSET KfunPointers
  BY DEF KfunPointers
<1> HIDE DEF kept, then, cleanup, release, x1, x2
<1>4. CallOK(k, s, cleanup, New("EVP_MD_CTX_new", "context", {}), kept, x1, x2)
  <2>1. Asks(k, "EVP_MD_CTX_new") \subseteq x1.done
    BY NothingAsked DEF PlainOps
  <2>2. /\ {} \subseteq kept.own \cup x1.own
        /\ "context" \notin kept.own \cup x1.own
        /\ x2.own = x1.own \cup {"context"}
        /\ x2.nul \subseteq x1.nul \ {"context"}
        /\ x2.done \subseteq x1.done \cup {"EVP_MD_CTX_new"}
    BY <1>1, <1>2
  <2>3. "context" \in KfunPointers
    BY DEF KfunPointers
  <2>4. Cleans(cleanup, kept.own \cup x1.own, x1.nul \cup {"context"}, Lost(k, s, "EVP_MD_CTX_new"))
    <3>1. x1.nul \cup {"context"} = {"context"}
      BY <1>1
    <3>2. {"key"} \ {"context"} = Lost(k, s, "EVP_MD_CTX_new")
      OBVIOUS
    <3>3. Cleans(cleanup, {"key"}, {"context"}, {"key"} \ {"context"})
      BY <1>3, CleanSingles DEF cleanup
    <3> QED BY <1>2, <3>1, <3>2, <3>3
  <2> QED BY <2>1, <2>2, <2>3, <2>4, NewStep
<1>5. CallOK(k, s, cleanup, Refer("EVP_DigestVerifyInit", "context", "key"), kept, x2, x2)
  <2>1. Asks(k, "EVP_DigestVerifyInit") \subseteq x2.done
    BY NothingAsked DEF PlainOps
  <2>2. /\ {"context", "key"} \subseteq kept.own \cup x2.own
        /\ x2.own = x2.own
        /\ x2.nul \subseteq x2.nul \ {""}
        /\ x2.done \subseteq x2.done \cup {"EVP_DigestVerifyInit"}
    BY <1>1, <1>2
  <2>3. Cleans(cleanup, kept.own \cup x2.own, x2.nul, Lost(k, s, "EVP_DigestVerifyInit"))
    <3>1. x2.nul = {}
      BY <1>1
    <3>2. {"key", "context"} \ {"context"} = Lost(k, s, "EVP_DigestVerifyInit")
      OBVIOUS
    <3>3. Cleans(cleanup, {"key", "context"}, {}, {"key", "context"} \ {"context"})
      BY <1>3, CleanSingles DEF cleanup
    <3> QED BY <1>2, <3>1, <3>2, <3>3
  <2> QED BY <2>1, <2>2, <2>3, DoStep
<1>6. Cleans(release, kept.own \cup x2.own, x2.nul, then.own)
  <2>1. Cleans(release, {"key", "context"}, x2.nul, {"key", "context"})
    BY CleanNone DEF release
  <2>2. then.own = {"key", "context"}
    BY <1>1
  <2> QED BY <1>2, <2>1, <2>2
<1>7. /\ x1.own = {} /\ x1.nul \subseteq {} /\ x1.done \subseteq kept.done
      /\ kept.own \cup {} \subseteq KfunPointers /\ {} \cap kept.own = {} /\ then.done \subseteq x2.done
  BY <1>1 DEF KfunPointers
<1>8. StageOK(k, s,
             Stage({},
                   <<New("EVP_MD_CTX_new", "context", {}),
                     Refer("EVP_DigestVerifyInit", "context", "key")>>,
                   "Verify failed", cleanup, release),
             kept, then)
  BY <1>4, <1>5, <1>6, <1>7, StageOf2
<1> QED BY <1>8 DEF VerifyStage, kept, then, cleanup, release
-----------------------------------------------------------------------------
(* r is s, of length m, and t after it, of length size.                    *)
Joins(r, s, m, t, size) ==
    /\ IsSeq(r) /\ Len(r) = m + size
    /\ \A i \in 1 .. m : r[i] = s[i]
    /\ \A i \in m + 1 .. m + size : r[i] = t[i - m]
LEMMA JoinedOf ==
    ASSUME NEW s, NEW t, NEW m, NEW size, IsSeq(s), IsSeq(t), Len(s) = m, Len(t) = size
    PROVE  Joins(s \o t, s, m, t, size)
BY Joined DEF Joins

(* A cipher makes the calls that another one asks for before it.           *)
Asked(k, ops) == \A i \in 1 .. Len(ops) : Asks(k, ops[i]) \subseteq {ops[j] : j \in 1 .. i - 1}

LEMMA CtxStage ==
    ASSUME NEW k, NEW s, NEW ops, NEW error, IsSeq(ops), Asked(k, ops), \A op : Lost(k, s, op) = {}
    PROVE  StageOK(k, s, Stage({}, CtxCalls(ops), error, Ctx, <<>>),
                   At({}, {}, {}), At({"ctx"}, {}, {ops[i] : i \in 1 .. Len(ops)}))
<1> DEFINE size == Len(ops)
           first == <<New("EVP_CIPHER_CTX_new", "ctx", {})>>
           rest == [i \in DOMAIN ops |-> Do(ops[i], {"ctx"})]
           calls == CtxCalls(ops)
           Done(m) == {ops[i] : i \in 1 .. m}
           kept == At({}, {}, {})
           then == At({"ctx"}, {}, Done(size))
           at == [t \in 1 .. size + 2 |-> IF t = 1 THEN kept ELSE At({"ctx"}, {}, Done(t - 2))]
           st == Stage({}, calls, error, Ctx, <<>>)
<1>1. size \in Nat /\ DOMAIN ops = 1 .. size
  BY SeqDomain
<1>2. IsSeq(first) /\ Len(first) = 1 /\ first[1] = New("EVP_CIPHER_CTX_new", "ctx", {})
  BY Tuples
<1>3. IsSeq(rest) /\ Len(rest) = size /\ \A i \in 1 .. size : rest[i] = Do(ops[i], {"ctx"})
  <2>1. rest = [i \in 1 .. size |-> rest[i]] /\ \A i \in 1 .. size : rest[i] = Do(ops[i], {"ctx"})
    BY <1>1
  <2> HIDE DEF rest, size
  <2> QED BY <1>1, <2>1, OfFunction
<1>4. calls = first \o rest
  BY DEF CtxCalls
<1> HIDE DEF first, rest, calls
<1>5. IsSeq(calls) /\ Len(calls) = size + 1 /\ calls[1] = first[1]
      /\ \A i \in 2 .. size + 1 : calls[i] = rest[i - 1]
  <2> HIDE DEF size
  <2>1. Joins(calls, first, 1, rest, size)
    BY <1>2, <1>3, <1>4, JoinedOf
  <2>2. 1 \in 1 .. 1 /\ 1 + 1 = 2 /\ 1 + size = size + 1
    BY <1>1
  <2> QED BY <2>1, <2>2 DEF Joins
<1>6. /\ kept.own = {} /\ kept.nul = {} /\ kept.done = {} /\ then.own = {"ctx"} /\ then.done = Done(size)
      /\ at[1] = kept
      /\ \A t \in 2 .. size + 2 : at[t].own = {"ctx"} /\ at[t].nul = {} /\ at[t].done = Done(t - 2)
  <2>1. kept.own = {} /\ kept.nul = {} /\ kept.done = {} /\ then.own = {"ctx"} /\ then.done = Done(size)
    BY DEF At
  <2> HIDE DEF size, Done
  <2>2. ASSUME NEW t \in 2 .. size + 2 PROVE at[t].own = {"ctx"} /\ at[t].nul = {} /\ at[t].done = Done(t - 2)
    <3>1. t \in 1 .. size + 2 /\ t # 1
      BY <1>1
    <3>2. at[t] = At({"ctx"}, {}, Done(t - 2))
      BY <3>1
    <3> HIDE DEF at
    <3> QED BY <3>2 DEF At
  <2>3. at[1] = kept
    <3>1. 1 \in 1 .. size + 2
      BY <1>1
    <3> QED BY <3>1
  <2> HIDE DEF at
  <2> QED BY <2>1, <2>2, <2>3
<1> HIDE DEF kept, then, at
<1>7. {"ctx"} \in SUBSET KfunPointers /\ {} \in SUBSET KfunPointers /\ "ctx" \in KfunPointers
  BY DEF KfunPointers
<1>8. CallOK(k, s, Ctx, calls[1], kept, at[1], at[2])
  <2>1. Asks(k, "EVP_CIPHER_CTX_new") \subseteq at[1].done
    BY NothingAsked DEF PlainOps
  <2>2. 2 \in 2 .. size + 2
    BY <1>1
  <2>3. /\ {} \subseteq kept.own \cup at[1].own /\ "ctx" \notin kept.own \cup at[1].own
        /\ at[2].own = at[1].own \cup {"ctx"} /\ at[2].nul \subseteq at[1].nul \ {"ctx"}
        /\ at[2].done \subseteq at[1].done \cup {"EVP_CIPHER_CTX_new"}
    <3>1. Done(2 - 2) = {}
      OBVIOUS
    <3> HIDE DEF Done
    <3> QED BY <1>6, <2>2, <3>1
  <2>4. Cleans(Ctx, kept.own \cup at[1].own, at[1].nul \cup {"ctx"}, Lost(k, s, "EVP_CIPHER_CTX_new"))
    <3>1. kept.own \cup at[1].own = {} /\ at[1].nul \cup {"ctx"} = {"ctx"} /\ {} \ {"ctx"} = {}
      BY <1>6
    <3>2. Cleans(Ctx, {}, {"ctx"}, {} \ {"ctx"})
      BY <1>7, CleanSingles DEF Ctx
    <3> QED BY <3>1, <3>2
  <2> QED BY <1>2, <1>5, <1>7, <2>1, <2>3, <2>4, NewStep
<1>9. ASSUME NEW t \in 2 .. size + 1 PROVE CallOK(k, s, Ctx, calls[t], kept, at[t], at[t + 1])
  <2> DEFINE op == ops[t - 1]
  <2>1. t \in Nat /\ t - 1 \in 1 .. size /\ t \in 2 .. size + 2 /\ t + 1 \in 2 .. size + 2 /\ (t + 1) - 2 = t - 1
        /\ (t - 1) - 1 = t - 2 /\ t - 2 \in Nat
    BY <1>1
  <2>2. calls[t] = Do(op, {"ctx"})
    BY <1>3, <1>5, <2>1
  <2>3. Asks(k, op) \subseteq at[t].done
    BY <1>6, <2>1 DEF Asked
  <2>4. Done(t - 1) = Done(t - 2) \cup {op}
    <3>1. 1 .. t - 1 = 1 .. t - 2 \cup {t - 1}
      BY <2>1
    <3> QED BY <3>1
  <2> HIDE DEF op, Done
  <2>5. /\ {"ctx"} \subseteq kept.own \cup at[t].own /\ at[t + 1].own = at[t].own
        /\ at[t + 1].nul \subseteq at[t].nul \ {""} /\ at[t + 1].done \subseteq at[t].done \cup {op}
    BY <1>6, <2>1, <2>4
  <2>6. Cleans(Ctx, kept.own \cup at[t].own, at[t].nul, Lost(k, s, op))
    <3>1. kept.own \cup at[t].own = {"ctx"} /\ at[t].nul = {} /\ {"ctx"} \ {"ctx"} = {}
      BY <1>6, <2>1
    <3>2. Cleans(Ctx, {"ctx"}, {}, {"ctx"} \ {"ctx"})
      BY <1>7, CleanSingles DEF Ctx
    <3> QED BY <3>1, <3>2
  <2>7. PICK x, y : x = at[t] /\ y = at[t + 1]
    OBVIOUS
  <2>8. CallOK(k, s, Ctx, Do(op, {"ctx"}), kept, x, y)
    BY <2>3, <2>5, <2>6, <2>7, DoStep
  <2> QED BY <2>2, <2>7, <2>8
<1> HIDE DEF Done
<1>10. st.calls = calls /\ st.nulls = {} /\ st.cleanup = Ctx /\ st.release = <<>>
  BY DEF Stage
<1> HIDE DEF st
<1>11. Passes(k, s, st, kept, then, at)
  <2>1. \A t \in 1 .. Len(st.calls) : CallOK(k, s, st.cleanup, st.calls[t], kept, at[t], at[t + 1])
    <3> TAKE t \in 1 .. Len(st.calls)
    <3>1. t = 1 \/ t \in 2 .. size + 1
      BY <1>1, <1>5, <1>10
    <3> QED BY <1>8, <1>9, <1>10, <3>1
  <2>2. Len(st.calls) + 1 = size + 2 /\ size + 2 \in 2 .. size + 2 /\ (size + 2) - 2 = size
    BY <1>1, <1>5, <1>10
  <2>3. at[size + 2].own = {"ctx"} /\ at[size + 2].nul = {} /\ at[size + 2].done = Done(size)
    BY <1>6, <2>2
  <2>4. Cleans(<<>>, kept.own \cup at[size + 2].own, at[size + 2].nul, then.own)
    <3>1. kept.own \cup at[size + 2].own = {"ctx"} /\ then.own = {"ctx"}
      BY <1>6, <2>3
    <3> QED BY <3>1, CleanNone
  <2> QED BY <1>6, <1>10, <2>1, <2>2, <2>3, <2>4 DEF Passes
<1>12. StageOK(k, s, st, kept, then)
  BY <1>5, <1>6, <1>10, <1>11 DEF StageOK
<1> QED BY <1>12 DEF st, calls, kept, then, Done

(* A hash uses its context once for each argument.                         *)
LEMMA HashStage ==
    ASSUME NEW k, NEW s, NEW a \in Seq(Argument)
    PROVE  StageOK(k, s, Hash(a).stages[1], At({}, {}, {}), At({"ctx"}, {}, {}))
<1> DEFINE size == Len(a)
           first == <<NewUnchecked("EVP_MD_CTX_new", "ctx", {}), DoUnchecked("EVP_DigestInit_ex", {"ctx"})>>
           each == [i \in DOMAIN a |-> DoUnchecked("EVP_DigestUpdate", {"ctx"})]
           end == <<DoUnchecked("EVP_DigestFinal_ex", {"ctx"})>>
           calls == first \o each \o end
           kept == At({}, {}, {})
           then == At({"ctx"}, {}, {})
           at == [t \in 1 .. size + 4 |-> IF t = 1 THEN kept ELSE then]
           st == Stage({}, calls, "", <<>>, <<>>)
           Uses(c) == \E op \in PlainOps : c = DoUnchecked(op, {"ctx"})
<1>1. size \in Nat /\ DOMAIN a = 1 .. size
  OBVIOUS
<1>2. IsSeq(first) /\ Len(first) = 2 /\ first[1] = NewUnchecked("EVP_MD_CTX_new", "ctx", {}) /\ Uses(first[2])
  <2>1. IsSeq(first) /\ Len(first) = 2
    BY Tuples
  <2>2. /\ first[1] = NewUnchecked("EVP_MD_CTX_new", "ctx", {})
        /\ first[2] = DoUnchecked("EVP_DigestInit_ex", {"ctx"})
    OBVIOUS
  <2>3. "EVP_DigestInit_ex" \in PlainOps
    BY DEF PlainOps
  <2> QED BY <2>1, <2>2, <2>3
<1>3. IsSeq(each) /\ Len(each) = size /\ \A i \in 1 .. size : Uses(each[i])
  <2>1. each = [i \in 1 .. size |-> each[i]] /\ \A i \in 1 .. size : each[i] = DoUnchecked("EVP_DigestUpdate", {"ctx"})
    BY <1>1
  <2>2. "EVP_DigestUpdate" \in PlainOps
    BY DEF PlainOps
  <2> HIDE DEF each, size
  <2> QED BY <1>1, <2>1, <2>2, OfFunction
<1>4. IsSeq(end) /\ Len(end) = 1 /\ Uses(end[1])
  <2>1. "EVP_DigestFinal_ex" \in PlainOps
    BY DEF PlainOps
  <2> QED BY <2>1, Tuples
<1> HIDE DEF first, each, end
<1>5. IsSeq(first \o each) /\ Len(first \o each) = size + 2
      /\ (first \o each)[1] = first[1] /\ \A i \in 2 .. size + 2 : Uses((first \o each)[i])
  <2> HIDE DEF size, Uses
  <2>1. Joins(first \o each, first, 2, each, size)
    BY <1>2, <1>3, JoinedOf
  <2>2. \A i \in 2 .. size + 2 : i = 2 \/ (i \in 2 + 1 .. 2 + size /\ i - 2 \in 1 .. size)
    BY <1>1
  <2>3. 1 \in 1 .. 2 /\ 2 \in 1 .. 2 /\ 2 + size = size + 2
    BY <1>1
  <2> QED BY <1>2, <1>3, <2>1, <2>2, <2>3 DEF Joins
<1>6. IsSeq(calls) /\ Len(calls) = size + 3 /\ calls[1] = first[1] /\ \A i \in 2 .. size + 3 : Uses(calls[i])
  <2> DEFINE front == first \o each
  <2>1. calls = front \o end
    OBVIOUS
  <2> HIDE DEF front, calls
  <2>2. IsSeq(front) /\ Len(front) = size + 2 /\ front[1] = first[1] /\ \A i \in 2 .. size + 2 : Uses(front[i])
    BY <1>5 DEF front
  <2>3. Joins(calls, front, size + 2, end, 1)
    BY <1>4, <2>1, <2>2, JoinedOf
  <2>4. \A i \in 2 .. size + 3 : (i \in 2 .. size + 2 /\ i \in 1 .. size + 2)
                              \/ (i \in (size + 2) + 1 .. (size + 2) + 1 /\ i - (size + 2) = 1)
    BY <1>1
  <2>5. 1 \in 1 .. size + 2 /\ (size + 2) + 1 = size + 3
    BY <1>1
  <2> HIDE DEF size, Uses
  <2> QED BY <1>4, <2>2, <2>3, <2>4, <2>5 DEF Joins
<1> HIDE DEF calls
<1>7. /\ kept.own = {} /\ kept.nul = {} /\ kept.done = {} /\ then.own = {"ctx"} /\ then.nul = {} /\ then.done = {}
      /\ at[1] = kept /\ \A t \in 2 .. size + 4 : at[t] = then
  <2> HIDE DEF size
  <2>1. at[1] = kept
    <3>1. 1 \in 1 .. size + 4
      BY <1>1
    <3> QED BY <3>1
  <2>2. ASSUME NEW t \in 2 .. size + 4 PROVE at[t] = then
    <3>1. t \in 1 .. size + 4 /\ t # 1
      BY <1>1
    <3> QED BY <3>1
  <2> HIDE DEF at
  <2> QED BY <2>1, <2>2 DEF At
<1> HIDE DEF kept, then, at
<1>8. {"ctx"} \in SUBSET KfunPointers /\ "ctx" \in KfunPointers
  BY DEF KfunPointers
<1>9. CallOK(k, s, <<>>, calls[1], kept, at[1], at[2])
  <2>1. Asks(k, "EVP_MD_CTX_new") \subseteq at[1].done
    BY NothingAsked DEF PlainOps
  <2>2. 2 \in 2 .. size + 4
    BY <1>1
  <2>3. /\ {} \subseteq kept.own \cup at[1].own /\ "ctx" \notin kept.own \cup at[1].own
        /\ at[2].own = at[1].own \cup {"ctx"} /\ at[2].nul \subseteq at[1].nul \ {"ctx"}
        /\ at[2].done \subseteq at[1].done \cup {"EVP_MD_CTX_new"}
    BY <1>7, <2>2
  <2>4. PICK x, y : x = at[1] /\ y = at[2]
    OBVIOUS
  <2>5. CallOK(k, s, <<>>, NewUnchecked("EVP_MD_CTX_new", "ctx", {}), kept, x, y)
    BY <1>8, <2>1, <2>3, <2>4, NewOutStep
  <2> QED BY <1>2, <1>6, <2>4, <2>5
<1>10. ASSUME NEW t \in 2 .. size + 3 PROVE CallOK(k, s, <<>>, calls[t], kept, at[t], at[t + 1])
  <2>1. t \in 2 .. size + 4 /\ t + 1 \in 2 .. size + 4
    BY <1>1
  <2>2. PICK op \in PlainOps : calls[t] = DoUnchecked(op, {"ctx"})
    BY <1>6
  <2>3. Asks(k, op) \subseteq at[t].done
    BY NothingAsked
  <2>4. /\ {"ctx"} \subseteq kept.own \cup at[t].own /\ at[t + 1].own = at[t].own
        /\ at[t + 1].nul \subseteq at[t].nul \ {""} /\ at[t + 1].done \subseteq at[t].done \cup {op}
    BY <1>7, <2>1
  <2>5. PICK x, y : x = at[t] /\ y = at[t + 1]
    OBVIOUS
  <2>6. CallOK(k, s, <<>>, DoUnchecked(op, {"ctx"}), kept, x, y)
    BY <2>3, <2>4, <2>5, DoStep
  <2> QED BY <2>2, <2>5, <2>6
<1> HIDE DEF Uses
<1>11. st.calls = calls /\ st.nulls = {} /\ st.cleanup = <<>> /\ st.release = <<>>
  BY DEF Stage
<1> HIDE DEF st
<1>12. Passes(k, s, st, kept, then, at)
  <2>1. \A t \in 1 .. Len(st.calls) : CallOK(k, s, st.cleanup, st.calls[t], kept, at[t], at[t + 1])
    <3> TAKE t \in 1 .. Len(st.calls)
    <3>1. t = 1 \/ t \in 2 .. size + 3
      BY <1>1, <1>6, <1>11
    <3> QED BY <1>9, <1>10, <1>11, <3>1
  <2>2. Len(st.calls) + 1 = size + 4 /\ size + 4 \in 2 .. size + 4
    BY <1>1, <1>6, <1>11
  <2>3. at[size + 4] = then
    BY <1>7, <2>2
  <2>4. Cleans(<<>>, kept.own \cup at[size + 4].own, at[size + 4].nul, then.own)
    <3>1. kept.own \cup at[size + 4].own = {"ctx"} /\ then.own = {"ctx"}
      BY <1>7, <2>3
    <3> QED BY <3>1, CleanNone
  <2> QED BY <1>7, <1>11, <2>1, <2>2, <2>3, <2>4 DEF Passes
<1>13. StageOK(k, s, st, kept, then)
  BY <1>6, <1>7, <1>11, <1>12 DEF StageOK
<1>14. Hash(a).stages[1] = st
  BY DEF Hash, Kfun, st, calls, first, each, end
<1> QED BY <1>13, <1>14 DEF kept, then
-----------------------------------------------------------------------------
(* What the calls of a cipher ask for.                                     *)
LEMMA CipherAsks ==
    ASSUME NEW k
    PROVE  /\ Asks(k, "cipher") = {} /\ Asks(k, "ivlen") = {"cipher"} /\ Asks(k, "tag") = {"cipher"}
           /\ Asks(k, "total") = {"key"} /\ Asks(k, "text") = {"aad"} /\ Asks(k, "get tag") = {"final"}
           /\ k \in Encryptions => Asks(k, "final") = {"text"}
           /\ k \notin Encryptions => Asks(k, "final") = {"text", "tag"}
           /\ k \notin Ccm => Asks(k, "key") = {"cipher", "ivlen"} /\ Asks(k, "aad") = {"key"}
           /\ k \in Ccm => Asks(k, "key") = {"cipher", "ivlen", "tag"} /\ Asks(k, "aad") = {"key", "total"}
           /\ Asks(k, "") = {}
<1>1. \A op : op # "final" => Asks(k, op) = Requires(k, op)
  BY DEF Asks
<1>2. /\ Requires(k, "cipher") = {} /\ Requires(k, "ivlen") = {"cipher"} /\ Requires(k, "tag") = {"cipher"}
      /\ Requires(k, "total") = {"key"} /\ Requires(k, "text") = {"aad"} /\ Requires(k, "get tag") = {"final"}
      /\ Requires(k, "final") = {"text", "tag"} /\ Requires(k, "") = {}
  BY DEF Requires
<1>3. Requires(k, "key") = {"cipher", "ivlen"} \cup IF k \in Ccm THEN {"tag"} ELSE {}
  BY DEF Requires
<1>4. Requires(k, "aad") = {"key"} \cup IF k \in Ccm THEN {"total"} ELSE {}
  BY DEF Requires
<1>5. Asks(k, "final") = Requires(k, "final") \ IF k \in Encryptions THEN {"tag"} ELSE {}
  BY DEF Asks
<1>6. k \in Encryptions => Asks(k, "final") = {"text"}
  BY <1>2, <1>5
<1>7. k \notin Encryptions => Asks(k, "final") = {"text", "tag"}
  BY <1>2, <1>5
<1>8. k \notin Ccm => Asks(k, "key") = {"cipher", "ivlen"} /\ Asks(k, "aad") = {"key"}
  BY <1>1, <1>3, <1>4
<1>9. k \in Ccm => Asks(k, "key") = {"cipher", "ivlen", "tag"} /\ Asks(k, "aad") = {"key", "total"}
  BY <1>1, <1>3, <1>4
<1>10. /\ Asks(k, "cipher") = {} /\ Asks(k, "ivlen") = {"cipher"} /\ Asks(k, "tag") = {"cipher"}
       /\ Asks(k, "total") = {"key"} /\ Asks(k, "text") = {"aad"} /\ Asks(k, "get tag") = {"final"}
       /\ Asks(k, "") = {}
  BY <1>1, <1>2
<1> QED BY <1>6, <1>7, <1>8, <1>9, <1>10

LEMMA FinishIs ==
    /\ \A op, results, release : Finish(op, results, release).release = release /\ Finish(op, results, release).op = op
    /\ \A release : Return(release).release = release /\ Return(release).op = ""
BY DEF Finish, Return

(* What a kfun has before each stage, and at the end.                      *)
Sound(k, kf, kept) ==
    LET size == Len(kf.stages)
    IN  /\ kept[1].own = {} /\ kept[1].done = {}
        /\ \A s \in 1 .. size : StageOK(k, s, kf.stages[s], kept[s], kept[s + 1])
        /\ kept[size + 1].own \subseteq KfunPointers
        /\ Cleans(kf.finish.release, kept[size + 1].own, {}, {})
        /\ Asks(k, kf.finish.op) \subseteq kept[size + 1].done
        /\ \A op : Lost(k, size + 1, op) = {} /\ Lost(k, 2, op) \subseteq kept[2].own

LEMMA SoundOf0 ==
    ASSUME NEW k, NEW kf, NEW e1,
           kf.stages = <<>>, e1.own = {}, e1.done = {},
           e1.own \subseteq KfunPointers, Cleans(kf.finish.release, e1.own, {}, {}),
           Asks(k, kf.finish.op) \subseteq e1.done, \A op : Lost(k, 1, op) = {} /\ Lost(k, 2, op) = {}
    PROVE  \E kept : Sound(k, kf, kept)
<1> DEFINE stages == <<>>
           kept == <<e1>>
<1>1. Len(stages) = 0
  OBVIOUS
<1>2. kept[1] = e1
  OBVIOUS
<1>3. 0 + 1 = 1 /\ \A s \in 1 .. 0 : FALSE
  OBVIOUS
<1>4. kf.stages = stages
  OBVIOUS
<1> HIDE DEF stages, kept
<1>5. \A s \in 1 .. 0 : StageOK(k, s, kf.stages[s], kept[s], kept[s + 1])
  BY <1>3
<1>6. Len(kf.stages) = 0 /\ Len(kf.stages) + 1 = 1
  BY <1>1, <1>4
<1>7. Sound(k, kf, kept)
  BY <1>2, <1>5, <1>6 DEF Sound
<1> QED BY <1>7

LEMMA SoundOf1 ==
    ASSUME NEW k, NEW kf, NEW s1, NEW e1, NEW e2,
           kf.stages = <<s1>>, e1.own = {}, e1.done = {},
           StageOK(k, 1, s1, e1, e2),
           e2.own \subseteq KfunPointers, Cleans(kf.finish.release, e2.own, {}, {}),
           Asks(k, kf.finish.op) \subseteq e2.done, \A op : Lost(k, 2, op) = {}
    PROVE  \E kept : Sound(k, kf, kept)
<1> DEFINE stages == <<s1>>
           kept == <<e1, e2>>
<1>1. Len(stages) = 1 /\ stages[1] = s1
  OBVIOUS
<1>2. kept[1] = e1 /\ kept[2] = e2
  OBVIOUS
<1>3. 1 + 1 = 2 /\ \A s \in 1 .. 1 : s = 1
  OBVIOUS
<1>4. kf.stages = stages
  OBVIOUS
<1> HIDE DEF stages, kept
<1>5. \A s \in 1 .. 1 : StageOK(k, s, kf.stages[s], kept[s], kept[s + 1])
  <2>1. StageOK(k, 1, kf.stages[1], kept[1], kept[1 + 1])
    BY <1>1, <1>2, <1>4
  <2> QED BY <1>3, <2>1
<1>6. Len(kf.stages) = 1 /\ Len(kf.stages) + 1 = 2
  BY <1>1, <1>4
<1>7. Sound(k, kf, kept)
  BY <1>2, <1>5, <1>6 DEF Sound
<1> QED BY <1>7

LEMMA SoundOf2 ==
    ASSUME NEW k, NEW kf, NEW s1, NEW s2, NEW e1, NEW e2, NEW e3,
           kf.stages = <<s1, s2>>, e1.own = {}, e1.done = {},
           StageOK(k, 1, s1, e1, e2),
           StageOK(k, 2, s2, e2, e3),
           e3.own \subseteq KfunPointers, Cleans(kf.finish.release, e3.own, {}, {}),
           Asks(k, kf.finish.op) \subseteq e3.done, \A op : Lost(k, 3, op) = {} /\ Lost(k, 2, op) \subseteq e2.own
    PROVE  \E kept : Sound(k, kf, kept)
<1> DEFINE stages == <<s1, s2>>
           kept == <<e1, e2, e3>>
<1>1. Len(stages) = 2 /\ stages[1] = s1 /\ stages[2] = s2
  OBVIOUS
<1>2. kept[1] = e1 /\ kept[2] = e2 /\ kept[3] = e3
  OBVIOUS
<1>3. 2 + 1 = 3 /\ \A s \in 1 .. 2 : s = 1 \/ s = 2
  OBVIOUS
<1>4. kf.stages = stages
  OBVIOUS
<1> HIDE DEF stages, kept
<1>5. \A s \in 1 .. 2 : StageOK(k, s, kf.stages[s], kept[s], kept[s + 1])
  <2>1. StageOK(k, 1, kf.stages[1], kept[1], kept[1 + 1])
    BY <1>1, <1>2, <1>4
  <2>2. StageOK(k, 2, kf.stages[2], kept[2], kept[2 + 1])
    BY <1>1, <1>2, <1>4
  <2> QED BY <1>3, <2>1, <2>2
<1>6. Len(kf.stages) = 2 /\ Len(kf.stages) + 1 = 3
  BY <1>1, <1>4
<1>7. Sound(k, kf, kept)
  BY <1>2, <1>5, <1>6 DEF Sound
<1> QED BY <1>7

LEMMA SoundOf3 ==
    ASSUME NEW k, NEW kf, NEW s1, NEW s2, NEW s3, NEW e1, NEW e2, NEW e3, NEW e4,
           kf.stages = <<s1, s2, s3>>, e1.own = {}, e1.done = {},
           StageOK(k, 1, s1, e1, e2),
           StageOK(k, 2, s2, e2, e3),
           StageOK(k, 3, s3, e3, e4),
           e4.own \subseteq KfunPointers, Cleans(kf.finish.release, e4.own, {}, {}),
           Asks(k, kf.finish.op) \subseteq e4.done, \A op : Lost(k, 4, op) = {} /\ Lost(k, 2, op) \subseteq e2.own
    PROVE  \E kept : Sound(k, kf, kept)
<1> DEFINE stages == <<s1, s2, s3>>
           kept == <<e1, e2, e3, e4>>
<1>1. Len(stages) = 3 /\ stages[1] = s1 /\ stages[2] = s2 /\ stages[3] = s3
  OBVIOUS
<1>2. kept[1] = e1 /\ kept[2] = e2 /\ kept[3] = e3 /\ kept[4] = e4
  OBVIOUS
<1>3. 3 + 1 = 4 /\ \A s \in 1 .. 3 : s = 1 \/ s = 2 \/ s = 3
  OBVIOUS
<1>4. kf.stages = stages
  OBVIOUS
<1> HIDE DEF stages, kept
<1>5. \A s \in 1 .. 3 : StageOK(k, s, kf.stages[s], kept[s], kept[s + 1])
  <2>1. StageOK(k, 1, kf.stages[1], kept[1], kept[1 + 1])
    BY <1>1, <1>2, <1>4
  <2>2. StageOK(k, 2, kf.stages[2], kept[2], kept[2 + 1])
    BY <1>1, <1>2, <1>4
  <2>3. StageOK(k, 3, kf.stages[3], kept[3], kept[3 + 1])
    BY <1>1, <1>2, <1>4
  <2> QED BY <1>3, <2>1, <2>2, <2>3
<1>6. Len(kf.stages) = 3 /\ Len(kf.stages) + 1 = 4
  BY <1>1, <1>4
<1>7. Sound(k, kf, kept)
  BY <1>2, <1>5, <1>6 DEF Sound
<1> QED BY <1>7

LEMMA NoneLost ==
    ASSUME NEW k
    PROVE  /\ k \notin Signs \cup Derives => \A s, op : Lost(k, s, op) = {}
           /\ k \in Signs \cup Derives => \A op : Lost(k, 3, op) = {} /\ Lost(k, 4, op) = {}
           /\ k \in Signs => \A op : Lost(k, 2, op) = {"key"}
           /\ k \in Derives => \A op : Lost(k, 2, op) = {"context"}
           /\ Signs \cap Derives = {}
<1>1. Signs \cap Derives = {}
  BY DEF Signs, Derives
<1>2. "decrypt EC derive" \in Derives
  BY DEF Derives
<1>3. k \notin Signs \cup Derives => \A s, op : Lost(k, s, op) = {}
  BY <1>2 DEF Lost
<1>4. k \in Signs \cup Derives => \A op : Lost(k, 3, op) = {} /\ Lost(k, 4, op) = {}
  BY DEF Lost
<1>5. k \in Signs => \A op : Lost(k, 2, op) = {"key"}
  BY <1>1, <1>2 DEF Lost
<1>6. k \in Derives => \A op : Lost(k, 2, op) = {"context"}
  BY <1>1 DEF Lost
<1> QED BY <1>1, <1>3, <1>4, <1>5, <1>6

(* The calls of encryption, but for CCM.                                   *)
LEMMA Sealed ==
    ASSUME NEW k, k \in Encryptions, k \notin Ccm
    PROVE  LET l == <<"cipher", "ivlen", "key", "aad", "text", "final", "get tag">>
           IN  IsSeq(l) /\ Asked(k, l) /\ Asks(k, "") \subseteq {l[i] : i \in 1 .. Len(l)}
<1> DEFINE l == <<"cipher", "ivlen", "key", "aad", "text", "final", "get tag">>
<1>1. IsSeq(l) /\ Len(l) = 7
  <2>1. l \in Seq({"aad", "cipher", "final", "get tag", "ivlen", "key", "text"}) /\ Len(l) = 7
    OBVIOUS
  <2> QED BY <2>1 DEF IsSeq
<1>2. /\ l[1] = "cipher" /\ l[2] = "ivlen" /\ l[3] = "key" /\ l[4] = "aad" /\ l[5] = "text"
      /\ l[6] = "final" /\ l[7] = "get tag"
  OBVIOUS
<1>3. \A i \in 1 .. 7 : i = 1 \/ i = 2 \/ i = 3 \/ i = 4 \/ i = 5 \/ i = 6 \/ i = 7
  OBVIOUS
<1> HIDE DEF l
<1>4. ASSUME NEW i \in 1 .. 7 PROVE Asks(k, l[i]) \subseteq {l[j] : j \in 1 .. i - 1}
  <2>1. CASE i = 1
    <3>1. Asks(k, l[i]) = {}
      BY <1>2, <2>1, CipherAsks
    <3> QED BY <3>1
  <2>2. CASE i = 2
    <3>1. Asks(k, l[i]) = {"cipher"}
      BY <1>2, <2>2, CipherAsks
    <3>2. 1 \in 1 .. i - 1
      BY <2>2
    <3> QED BY <1>2, <3>1, <3>2
  <2>3. CASE i = 3
    <3>1. Asks(k, l[i]) = {"cipher", "ivlen"}
      BY <1>2, <2>3, CipherAsks
    <3>2. 1 \in 1 .. i - 1 /\ 2 \in 1 .. i - 1
      BY <2>3
    <3> QED BY <1>2, <3>1, <3>2
  <2>4. CASE i = 4
    <3>1. Asks(k, l[i]) = {"key"}
      BY <1>2, <2>4, CipherAsks
    <3>2. 3 \in 1 .. i - 1
      BY <2>4
    <3> QED BY <1>2, <3>1, <3>2
  <2>5. CASE i = 5
    <3>1. Asks(k, l[i]) = {"aad"}
      BY <1>2, <2>5, CipherAsks
    <3>2. 4 \in 1 .. i - 1
      BY <2>5
    <3> QED BY <1>2, <3>1, <3>2
  <2>6. CASE i = 6
    <3>1. Asks(k, l[i]) = {"text"}
      BY <1>2, <2>6, CipherAsks
    <3>2. 5 \in 1 .. i - 1
      BY <2>6
    <3> QED BY <1>2, <3>1, <3>2
  <2>7. CASE i = 7
    <3>1. Asks(k, l[i]) = {"final"}
      BY <1>2, <2>7, CipherAsks
    <3>2. 6 \in 1 .. i - 1
      BY <2>7
    <3> QED BY <1>2, <3>1, <3>2
  <2> QED BY <1>3, <2>1, <2>2, <2>3, <2>4, <2>5, <2>6, <2>7
<1>5. Asked(k, l)
  BY <1>1, <1>4 DEF Asked
<1>6. Asks(k, "") \subseteq {l[i] : i \in 1 .. Len(l)}
  <2>1. Asks(k, "") = {}
    BY CipherAsks
  <2> QED BY <2>1
<1> QED BY <1>1, <1>5, <1>6 DEF l

(* Those of CCM.                                                           *)
LEMMA SealedCcm ==
    ASSUME NEW k, k \in Encryptions, k \in Ccm
    PROVE  LET l == <<"cipher", "ivlen", "tag", "key", "total", "aad", "text", "final", "get tag">>
           IN  IsSeq(l) /\ Asked(k, l) /\ Asks(k, "") \subseteq {l[i] : i \in 1 .. Len(l)}
<1> DEFINE l == <<"cipher", "ivlen", "tag", "key", "total", "aad", "text", "final", "get tag">>
<1>1. IsSeq(l) /\ Len(l) = 9
  <2>1. l \in Seq({"aad", "cipher", "final", "get tag", "ivlen", "key", "tag", "text", "total"}) /\ Len(l) = 9
    OBVIOUS
  <2> QED BY <2>1 DEF IsSeq
<1>2. /\ l[1] = "cipher" /\ l[2] = "ivlen" /\ l[3] = "tag" /\ l[4] = "key" /\ l[5] = "total"
      /\ l[6] = "aad" /\ l[7] = "text" /\ l[8] = "final" /\ l[9] = "get tag"
  OBVIOUS
<1>3. \A i \in 1 .. 9 : i = 1 \/ i = 2 \/ i = 3 \/ i = 4 \/ i = 5 \/ i = 6 \/ i = 7 \/ i = 8 \/ i = 9
  OBVIOUS
<1> HIDE DEF l
<1>4. ASSUME NEW i \in 1 .. 9 PROVE Asks(k, l[i]) \subseteq {l[j] : j \in 1 .. i - 1}
  <2>1. CASE i = 1
    <3>1. Asks(k, l[i]) = {}
      BY <1>2, <2>1, CipherAsks
    <3> QED BY <3>1
  <2>2. CASE i = 2
    <3>1. Asks(k, l[i]) = {"cipher"}
      BY <1>2, <2>2, CipherAsks
    <3>2. 1 \in 1 .. i - 1
      BY <2>2
    <3> QED BY <1>2, <3>1, <3>2
  <2>3. CASE i = 3
    <3>1. Asks(k, l[i]) = {"cipher"}
      BY <1>2, <2>3, CipherAsks
    <3>2. 1 \in 1 .. i - 1
      BY <2>3
    <3> QED BY <1>2, <3>1, <3>2
  <2>4. CASE i = 4
    <3>1. Asks(k, l[i]) = {"cipher", "ivlen", "tag"}
      BY <1>2, <2>4, CipherAsks
    <3>2. 1 \in 1 .. i - 1 /\ 2 \in 1 .. i - 1 /\ 3 \in 1 .. i - 1
      BY <2>4
    <3> QED BY <1>2, <3>1, <3>2
  <2>5. CASE i = 5
    <3>1. Asks(k, l[i]) = {"key"}
      BY <1>2, <2>5, CipherAsks
    <3>2. 4 \in 1 .. i - 1
      BY <2>5
    <3> QED BY <1>2, <3>1, <3>2
  <2>6. CASE i = 6
    <3>1. Asks(k, l[i]) = {"key", "total"}
      BY <1>2, <2>6, CipherAsks
    <3>2. 4 \in 1 .. i - 1 /\ 5 \in 1 .. i - 1
      BY <2>6
    <3> QED BY <1>2, <3>1, <3>2
  <2>7. CASE i = 7
    <3>1. Asks(k, l[i]) = {"aad"}
      BY <1>2, <2>7, CipherAsks
    <3>2. 6 \in 1 .. i - 1
      BY <2>7
    <3> QED BY <1>2, <3>1, <3>2
  <2>8. CASE i = 8
    <3>1. Asks(k, l[i]) = {"text"}
      BY <1>2, <2>8, CipherAsks
    <3>2. 7 \in 1 .. i - 1
      BY <2>8
    <3> QED BY <1>2, <3>1, <3>2
  <2>9. CASE i = 9
    <3>1. Asks(k, l[i]) = {"final"}
      BY <1>2, <2>9, CipherAsks
    <3>2. 8 \in 1 .. i - 1
      BY <2>9
    <3> QED BY <1>2, <3>1, <3>2
  <2> QED BY <1>3, <2>1, <2>2, <2>3, <2>4, <2>5, <2>6, <2>7, <2>8, <2>9
<1>5. Asked(k, l)
  BY <1>1, <1>4 DEF Asked
<1>6. Asks(k, "") \subseteq {l[i] : i \in 1 .. Len(l)}
  <2>1. Asks(k, "") = {}
    BY CipherAsks
  <2> QED BY <2>1
<1> QED BY <1>1, <1>5, <1>6 DEF l

(* The calls of decryption, and what the last one asks for.                *)
LEMMA UnsealedGcm ==
    ASSUME NEW k, k \notin Encryptions, k \notin Ccm
    PROVE  LET l == <<"cipher", "ivlen", "key", "aad", "text", "tag">>
           IN  IsSeq(l) /\ Asked(k, l) /\ Asks(k, "final") \subseteq {l[i] : i \in 1 .. Len(l)}
<1> DEFINE l == <<"cipher", "ivlen", "key", "aad", "text", "tag">>
<1>1. IsSeq(l) /\ Len(l) = 6
  <2>1. l \in Seq({"aad", "cipher", "ivlen", "key", "tag", "text"}) /\ Len(l) = 6
    OBVIOUS
  <2> QED BY <2>1 DEF IsSeq
<1>2. l[1] = "cipher" /\ l[2] = "ivlen" /\ l[3] = "key" /\ l[4] = "aad" /\ l[5] = "text" /\ l[6] = "tag"
  OBVIOUS
<1>3. \A i \in 1 .. 6 : i = 1 \/ i = 2 \/ i = 3 \/ i = 4 \/ i = 5 \/ i = 6
  OBVIOUS
<1> HIDE DEF l
<1>4. ASSUME NEW i \in 1 .. 6 PROVE Asks(k, l[i]) \subseteq {l[j] : j \in 1 .. i - 1}
  <2>1. CASE i = 1
    <3>1. Asks(k, l[i]) = {}
      BY <1>2, <2>1, CipherAsks
    <3> QED BY <3>1
  <2>2. CASE i = 2
    <3>1. Asks(k, l[i]) = {"cipher"}
      BY <1>2, <2>2, CipherAsks
    <3>2. 1 \in 1 .. i - 1
      BY <2>2
    <3> QED BY <1>2, <3>1, <3>2
  <2>3. CASE i = 3
    <3>1. Asks(k, l[i]) = {"cipher", "ivlen"}
      BY <1>2, <2>3, CipherAsks
    <3>2. 1 \in 1 .. i - 1 /\ 2 \in 1 .. i - 1
      BY <2>3
    <3> QED BY <1>2, <3>1, <3>2
  <2>4. CASE i = 4
    <3>1. Asks(k, l[i]) = {"key"}
      BY <1>2, <2>4, CipherAsks
    <3>2. 3 \in 1 .. i - 1
      BY <2>4
    <3> QED BY <1>2, <3>1, <3>2
  <2>5. CASE i = 5
    <3>1. Asks(k, l[i]) = {"aad"}
      BY <1>2, <2>5, CipherAsks
    <3>2. 4 \in 1 .. i - 1
      BY <2>5
    <3> QED BY <1>2, <3>1, <3>2
  <2>6. CASE i = 6
    <3>1. Asks(k, l[i]) = {"cipher"}
      BY <1>2, <2>6, CipherAsks
    <3>2. 1 \in 1 .. i - 1
      BY <2>6
    <3> QED BY <1>2, <3>1, <3>2
  <2> QED BY <1>3, <2>1, <2>2, <2>3, <2>4, <2>5, <2>6
<1>5. Asked(k, l)
  BY <1>1, <1>4 DEF Asked
<1>6. Asks(k, "final") \subseteq {l[i] : i \in 1 .. Len(l)}
  <2>1. Asks(k, "final") = {"text", "tag"}
    BY CipherAsks
  <2>2. 5 \in 1 .. Len(l) /\ 6 \in 1 .. Len(l)
    BY <1>1
  <2> QED BY <1>2, <2>1, <2>2
<1> QED BY <1>1, <1>5, <1>6 DEF l

(* Those of ChaCha20-Poly1305.                                             *)
LEMMA UnsealedChacha ==
    ASSUME NEW k, k \notin Encryptions, k \notin Ccm
    PROVE  LET l == <<"cipher", "ivlen", "tag", "key", "aad", "text">>
           IN  IsSeq(l) /\ Asked(k, l) /\ Asks(k, "final") \subseteq {l[i] : i \in 1 .. Len(l)}
<1> DEFINE l == <<"cipher", "ivlen", "tag", "key", "aad", "text">>
<1>1. IsSeq(l) /\ Len(l) = 6
  <2>1. l \in Seq({"aad", "cipher", "ivlen", "key", "tag", "text"}) /\ Len(l) = 6
    OBVIOUS
  <2> QED BY <2>1 DEF IsSeq
<1>2. l[1] = "cipher" /\ l[2] = "ivlen" /\ l[3] = "tag" /\ l[4] = "key" /\ l[5] = "aad" /\ l[6] = "text"
  OBVIOUS
<1>3. \A i \in 1 .. 6 : i = 1 \/ i = 2 \/ i = 3 \/ i = 4 \/ i = 5 \/ i = 6
  OBVIOUS
<1> HIDE DEF l
<1>4. ASSUME NEW i \in 1 .. 6 PROVE Asks(k, l[i]) \subseteq {l[j] : j \in 1 .. i - 1}
  <2>1. CASE i = 1
    <3>1. Asks(k, l[i]) = {}
      BY <1>2, <2>1, CipherAsks
    <3> QED BY <3>1
  <2>2. CASE i = 2
    <3>1. Asks(k, l[i]) = {"cipher"}
      BY <1>2, <2>2, CipherAsks
    <3>2. 1 \in 1 .. i - 1
      BY <2>2
    <3> QED BY <1>2, <3>1, <3>2
  <2>3. CASE i = 3
    <3>1. Asks(k, l[i]) = {"cipher"}
      BY <1>2, <2>3, CipherAsks
    <3>2. 1 \in 1 .. i - 1
      BY <2>3
    <3> QED BY <1>2, <3>1, <3>2
  <2>4. CASE i = 4
    <3>1. Asks(k, l[i]) = {"cipher", "ivlen"}
      BY <1>2, <2>4, CipherAsks
    <3>2. 1 \in 1 .. i - 1 /\ 2 \in 1 .. i - 1
      BY <2>4
    <3> QED BY <1>2, <3>1, <3>2
  <2>5. CASE i = 5
    <3>1. Asks(k, l[i]) = {"key"}
      BY <1>2, <2>5, CipherAsks
    <3>2. 4 \in 1 .. i - 1
      BY <2>5
    <3> QED BY <1>2, <3>1, <3>2
  <2>6. CASE i = 6
    <3>1. Asks(k, l[i]) = {"aad"}
      BY <1>2, <2>6, CipherAsks
    <3>2. 5 \in 1 .. i - 1
      BY <2>6
    <3> QED BY <1>2, <3>1, <3>2
  <2> QED BY <1>3, <2>1, <2>2, <2>3, <2>4, <2>5, <2>6
<1>5. Asked(k, l)
  BY <1>1, <1>4 DEF Asked
<1>6. Asks(k, "final") \subseteq {l[i] : i \in 1 .. Len(l)}
  <2>1. Asks(k, "final") = {"text", "tag"}
    BY CipherAsks
  <2>2. 3 \in 1 .. Len(l) /\ 6 \in 1 .. Len(l)
    BY <1>1
  <2> QED BY <1>2, <2>1, <2>2
<1> QED BY <1>1, <1>5, <1>6 DEF l

(* Those of CCM, which decrypts and verifies with the text.                *)
LEMMA UnsealedCcm ==
    ASSUME NEW k, k \notin Encryptions, k \in Ccm
    PROVE  LET l == <<"cipher", "ivlen", "tag", "key", "total", "aad">>
           IN  IsSeq(l) /\ Asked(k, l) /\ Asks(k, "text") \subseteq {l[i] : i \in 1 .. Len(l)}
<1> DEFINE l == <<"cipher", "ivlen", "tag", "key", "total", "aad">>
<1>1. IsSeq(l) /\ Len(l) = 6
  <2>1. l \in Seq({"aad", "cipher", "ivlen", "key", "tag", "total"}) /\ Len(l) = 6
    OBVIOUS
  <2> QED BY <2>1 DEF IsSeq
<1>2. l[1] = "cipher" /\ l[2] = "ivlen" /\ l[3] = "tag" /\ l[4] = "key" /\ l[5] = "total" /\ l[6] = "aad"
  OBVIOUS
<1>3. \A i \in 1 .. 6 : i = 1 \/ i = 2 \/ i = 3 \/ i = 4 \/ i = 5 \/ i = 6
  OBVIOUS
<1> HIDE DEF l
<1>4. ASSUME NEW i \in 1 .. 6 PROVE Asks(k, l[i]) \subseteq {l[j] : j \in 1 .. i - 1}
  <2>1. CASE i = 1
    <3>1. Asks(k, l[i]) = {}
      BY <1>2, <2>1, CipherAsks
    <3> QED BY <3>1
  <2>2. CASE i = 2
    <3>1. Asks(k, l[i]) = {"cipher"}
      BY <1>2, <2>2, CipherAsks
    <3>2. 1 \in 1 .. i - 1
      BY <2>2
    <3> QED BY <1>2, <3>1, <3>2
  <2>3. CASE i = 3
    <3>1. Asks(k, l[i]) = {"cipher"}
      BY <1>2, <2>3, CipherAsks
    <3>2. 1 \in 1 .. i - 1
      BY <2>3
    <3> QED BY <1>2, <3>1, <3>2
  <2>4. CASE i = 4
    <3>1. Asks(k, l[i]) = {"cipher", "ivlen", "tag"}
      BY <1>2, <2>4, CipherAsks
    <3>2. 1 \in 1 .. i - 1 /\ 2 \in 1 .. i - 1 /\ 3 \in 1 .. i - 1
      BY <2>4
    <3> QED BY <1>2, <3>1, <3>2
  <2>5. CASE i = 5
    <3>1. Asks(k, l[i]) = {"key"}
      BY <1>2, <2>5, CipherAsks
    <3>2. 4 \in 1 .. i - 1
      BY <2>5
    <3> QED BY <1>2, <3>1, <3>2
  <2>6. CASE i = 6
    <3>1. Asks(k, l[i]) = {"key", "total"}
      BY <1>2, <2>6, CipherAsks
    <3>2. 4 \in 1 .. i - 1 /\ 5 \in 1 .. i - 1
      BY <2>6
    <3> QED BY <1>2, <3>1, <3>2
  <2> QED BY <1>3, <2>1, <2>2, <2>3, <2>4, <2>5, <2>6
<1>5. Asked(k, l)
  BY <1>1, <1>4 DEF Asked
<1>6. Asks(k, "text") \subseteq {l[i] : i \in 1 .. Len(l)}
  <2>1. Asks(k, "text") = {"aad"}
    BY CipherAsks
  <2>2. 6 \in 1 .. Len(l)
    BY <1>1
  <2> QED BY <1>2, <2>1, <2>2
<1> QED BY <1>1, <1>5, <1>6 DEF l

-----------------------------------------------------------------------------
(* Each kfun is sound.                                                     *)
LEMMA MaskSound ==
    ASSUME NEW k, NEW a, k \notin Signs \cup Derives
    PROVE  \E kept : Sound(k, MaskXor(a), kept)
<1> DEFINE kf == MaskXor(a)
           release == <<>>
<1>0. \E e1 : e1 = At({}, {}, {})
  OBVIOUS
<1>1. PICK e1 : e1 = At({}, {}, {})
  BY <1>0
<1>2. e1.own = {} /\ e1.done = {} /\ e1.own = {} /\ e1.done = {}
  BY <1>1 DEF At
<1>3. kf.stages = <<>>
  BY DEF MaskXor, Kfun
<1>4. kf.finish.release = release /\ kf.finish.op = ""
  <2>1. kf.finish = Return(release)
    BY DEF MaskXor, Kfun
  <2> HIDE DEF release, kf
  <2> QED BY <2>1, FinishIs
<1>5. Cleans(release, e1.own, {}, {}) /\ e1.own \subseteq KfunPointers
  <2>1. {} \in SUBSET KfunPointers
    BY DEF KfunPointers
  <2> QED BY <1>2, <2>1, CleanNone
<1>6. Asks(k, kf.finish.op) \subseteq e1.done
  BY <1>2, <1>4, CipherAsks
<1>7. \A op : Lost(k, 1, op) = {} /\ Lost(k, 2, op) = {}
  BY NoneLost
<1>8. Cleans(kf.finish.release, e1.own, {}, {})
  BY <1>4, <1>5
<1> HIDE DEF kf
<1>9. \E kept : Sound(k, kf, kept)
  BY <1>2, <1>3, <1>5, <1>6, <1>7, <1>8, SoundOf0
<1> QED BY <1>9 DEF kf

LEMMA RandomSound ==
    ASSUME NEW k, NEW a, k \notin Signs \cup Derives
    PROVE  \E kept : Sound(k, SecureRandom(a), kept)
<1> DEFINE kf == SecureRandom(a)
           s1 == Stage({}, <<Do("RAND_bytes", {})>>, "OpenSSL", <<>>, <<>>)
           release == <<>>
<1>0. \E e1, e2 : e1 = At({}, {}, {}) /\ e2 = At({}, {}, {})
  OBVIOUS
<1>1. PICK e1, e2 : e1 = At({}, {}, {}) /\ e2 = At({}, {}, {})
  BY <1>0
<1>2. e1.own = {} /\ e1.done = {} /\ e2.own = {} /\ e2.done = {}
  BY <1>1 DEF At
<1>3. kf.stages = <<s1>>
  BY DEF SecureRandom, Kfun
<1>4. kf.finish.release = release /\ kf.finish.op = ""
  <2>1. kf.finish = Return(release)
    BY DEF SecureRandom, Kfun
  <2> HIDE DEF release, kf
  <2> QED BY <2>1, FinishIs
<1>5. StageOK(k, 1, s1, e1, e2)
  <2>1. \A op : Lost(k, 1, op) = {}
    BY NoneLost
  <2> QED BY <1>1, <2>1, RandomStage
<1>6. Cleans(release, e2.own, {}, {}) /\ e2.own \subseteq KfunPointers
  <2>1. {} \in SUBSET KfunPointers
    BY DEF KfunPointers
  <2> QED BY <1>2, <2>1, CleanNone
<1>7. Asks(k, kf.finish.op) \subseteq e2.done
  BY <1>2, <1>4, CipherAsks
<1>8. \A op : Lost(k, 2, op) = {}
  BY NoneLost
<1>9. Cleans(kf.finish.release, e2.own, {}, {})
  BY <1>4, <1>6
<1> HIDE DEF kf, s1
<1>10. \E kept : Sound(k, kf, kept)
  BY <1>2, <1>3, <1>5, <1>6, <1>7, <1>8, <1>9, SoundOf1
<1> QED BY <1>10 DEF kf

LEMMA HashSound ==
    ASSUME NEW k, NEW a \in Seq(Argument), k \notin Signs \cup Derives
    PROVE  \E kept : Sound(k, Hash(a), kept)
<1> DEFINE kf == Hash(a)
           s1 == Hash(a).stages[1]
           release == Chains(<<"ctx">>)
<1>0. \E e1, e2 : e1 = At({}, {}, {}) /\ e2 = At({"ctx"}, {}, {})
  OBVIOUS
<1>1. PICK e1, e2 : e1 = At({}, {}, {}) /\ e2 = At({"ctx"}, {}, {})
  BY <1>0
<1>2. e1.own = {} /\ e1.done = {} /\ e2.own = {"ctx"} /\ e2.done = {}
  BY <1>1 DEF At
<1>3. kf.stages = <<s1>>
  BY DEF Hash, Kfun
<1>4. kf.finish.release = release /\ kf.finish.op = ""
  <2>1. kf.finish = Return(release)
    BY DEF Hash, Kfun, Ctx
  <2> HIDE DEF release, kf
  <2> QED BY <2>1, FinishIs
<1>5. StageOK(k, 1, s1, e1, e2)
  <2>1. StageOK(k, 1, Hash(a).stages[1], At({}, {}, {}), At({"ctx"}, {}, {}))
    <3>1. \A op : Lost(k, 1, op) = {}
      BY NoneLost
    <3> QED BY <3>1, HashStage
  <2> QED BY <1>1, <2>1
<1>6. Cleans(release, e2.own, {}, {}) /\ e2.own \subseteq KfunPointers
  <2>1. {"ctx"} \in SUBSET KfunPointers
    BY DEF KfunPointers
  <2>2. Cleans(release, {"ctx"}, {}, {"ctx"} \ {"ctx"})
    BY <2>1, CleanSingles
  <2>3. {"ctx"} \ {"ctx"} = {}
    OBVIOUS
  <2> QED BY <1>2, <2>1, <2>2, <2>3
<1>7. Asks(k, kf.finish.op) \subseteq e2.done
  BY <1>2, <1>4, CipherAsks
<1>8. \A op : Lost(k, 2, op) = {}
  BY NoneLost
<1>9. Cleans(kf.finish.release, e2.own, {}, {})
  BY <1>4, <1>6
<1> HIDE DEF kf, s1
<1>10. \E kept : Sound(k, kf, kept)
  BY <1>2, <1>3, <1>5, <1>6, <1>7, <1>8, <1>9, SoundOf1
<1> QED BY <1>10 DEF kf

LEMMA EcKeySound ==
    ASSUME NEW k, NEW a, k \notin Signs \cup Derives
    PROVE  \E kept : Sound(k, EcKey(a), kept)
<1> DEFINE kf == EcKey(a)
           s1 == EcKey(<<>>).stages[1]
           s2 == EcKey(<<>>).stages[2]
           release == Chains(<<"p", "key", "context">>)
<1>0. \E e1, e2, e3 :
        /\ e1 = At({}, {}, {}) /\ e2 = At({"context", "key"}, {}, {})
        /\ e3 = At({"context", "key", "p"}, {}, {})
  OBVIOUS
<1>1. PICK e1, e2, e3 :
        /\ e1 = At({}, {}, {}) /\ e2 = At({"context", "key"}, {}, {})
        /\ e3 = At({"context", "key", "p"}, {}, {})
  BY <1>0
<1>2. e1.own = {} /\ e1.done = {} /\ e3.own = {"context", "key", "p"} /\ e3.done = {}
  BY <1>1 DEF At
<1>3. kf.stages = <<s1, s2>>
  BY DEF EcKey, Kfun
<1>4. kf.finish.release = release /\ kf.finish.op = ""
  <2>1. kf.finish = Return(release)
    BY DEF EcKey, Kfun
  <2> HIDE DEF release, kf
  <2> QED BY <2>1, FinishIs
<1>5. StageOK(k, 1, s1, e1, e2)
  <2>1. \A op : Lost(k, 1, op) = {}
    BY NoneLost
  <2> QED BY <1>1, <2>1, EcKeyStage
<1>6. StageOK(k, 2, s2, e2, e3)
  <2>1. \A op : Lost(k, 2, op) = {}
    BY NoneLost
  <2> QED BY <1>1, <2>1, EcBufferStage
<1>7. Cleans(release, e3.own, {}, {}) /\ e3.own \subseteq KfunPointers
  <2>1. {"context", "key", "p"} \in SUBSET KfunPointers
    BY DEF KfunPointers
  <2>2. Cleans(release, {"context", "key", "p"}, {}, {"context", "key", "p"} \ {"p", "key", "context"})
    BY <2>1, CleanSingles
  <2>3. {"context", "key", "p"} \ {"p", "key", "context"} = {}
    OBVIOUS
  <2> QED BY <1>2, <2>1, <2>2, <2>3
<1>8. Asks(k, kf.finish.op) \subseteq e3.done
  BY <1>2, <1>4, CipherAsks
<1>9. \A op : Lost(k, 3, op) = {} /\ Lost(k, 2, op) \subseteq e2.own
  <2>1. e2.own = {"context", "key"}
    BY <1>1 DEF At
  <2>2. \A op : Lost(k, 3, op) = {} /\ (Lost(k, 2, op) = {"context", "key"} \/ Lost(k, 2, op) = {})
    BY NoneLost
  <2> QED BY <2>1, <2>2
<1>10. Cleans(kf.finish.release, e3.own, {}, {})
  BY <1>4, <1>7
<1> HIDE DEF kf, s1, s2
<1>11. \E kept : Sound(k, kf, kept)
  BY <1>2, <1>3, <1>5, <1>6, <1>7, <1>8, <1>9, <1>10, SoundOf2
<1> QED BY <1>11 DEF kf

LEMMA EcxKeySound ==
    ASSUME NEW k, NEW a, k \notin Signs \cup Derives
    PROVE  \E kept : Sound(k, EcxKey(a), kept)
<1> DEFINE kf == EcxKey(a)
           s1 == EcxKey(<<>>).stages[1]
           s2 == EcxKey(<<>>).stages[2]
           release == Chains(<<"key", "context">>)
<1>0. \E e1, e2, e3 :
        /\ e1 = At({}, {}, {}) /\ e2 = At({"context", "key"}, {}, {})
        /\ e3 = At({"context", "key"}, {}, {})
  OBVIOUS
<1>1. PICK e1, e2, e3 :
        /\ e1 = At({}, {}, {}) /\ e2 = At({"context", "key"}, {}, {})
        /\ e3 = At({"context", "key"}, {}, {})
  BY <1>0
<1>2. e1.own = {} /\ e1.done = {} /\ e3.own = {"context", "key"} /\ e3.done = {}
  BY <1>1 DEF At
<1>3. kf.stages = <<s1, s2>>
  BY DEF EcxKey, Kfun
<1>4. kf.finish.release = release /\ kf.finish.op = ""
  <2>1. kf.finish = Return(release)
    BY DEF EcxKey, Kfun
  <2> HIDE DEF release, kf
  <2> QED BY <2>1, FinishIs
<1>5. StageOK(k, 1, s1, e1, e2)
  <2>1. \A op : Lost(k, 1, op) = {}
    BY NoneLost
  <2> QED BY <1>1, <2>1, EcxKeyStage
<1>6. StageOK(k, 2, s2, e2, e3)
  <2>1. \A op : Lost(k, 2, op) = {}
    BY NoneLost
  <2> QED BY <1>1, <2>1, EcxRawStage
<1>7. Cleans(release, e3.own, {}, {}) /\ e3.own \subseteq KfunPointers
  <2>1. {"context", "key"} \in SUBSET KfunPointers
    BY DEF KfunPointers
  <2>2. Cleans(release, {"context", "key"}, {}, {"context", "key"} \ {"key", "context"})
    BY <2>1, CleanSingles
  <2>3. {"context", "key"} \ {"key", "context"} = {}
    OBVIOUS
  <2> QED BY <1>2, <2>1, <2>2, <2>3
<1>8. Asks(k, kf.finish.op) \subseteq e3.done
  BY <1>2, <1>4, CipherAsks
<1>9. \A op : Lost(k, 3, op) = {} /\ Lost(k, 2, op) \subseteq e2.own
  <2>1. e2.own = {"context", "key"}
    BY <1>1 DEF At
  <2>2. \A op : Lost(k, 3, op) = {} /\ (Lost(k, 2, op) = {"context", "key"} \/ Lost(k, 2, op) = {})
    BY NoneLost
  <2> QED BY <2>1, <2>2
<1>10. Cleans(kf.finish.release, e3.own, {}, {})
  BY <1>4, <1>7
<1> HIDE DEF kf, s1, s2
<1>11. \E kept : Sound(k, kf, kept)
  BY <1>2, <1>3, <1>5, <1>6, <1>7, <1>8, <1>9, <1>10, SoundOf2
<1> QED BY <1>11 DEF kf

LEMMA EcSignSound ==
    ASSUME NEW k, NEW a, k \in Signs, \A op : Lost(k, 1, op) = {}
    PROVE  \E kept : Sound(k, EcSign(a), kept)
<1> DEFINE kf == EcSign(a)
           s1 == EcSign(<<>>).stages[1]
           s2 == SignStage
           release == Chains(<<"context", "key">>)
<1>0. \E e1, e2, e3 : e1 = At({}, {}, {}) /\ e2 = At({"key"}, {}, {}) /\ e3 = At({"key", "context"}, {}, {})
  OBVIOUS
<1>1. PICK e1, e2, e3 : e1 = At({}, {}, {}) /\ e2 = At({"key"}, {}, {}) /\ e3 = At({"key", "context"}, {}, {})
  BY <1>0
<1>2. e1.own = {} /\ e1.done = {} /\ e3.own = {"key", "context"} /\ e3.done = {}
  BY <1>1 DEF At
<1>3. kf.stages = <<s1, s2>>
  BY DEF EcSign, Kfun
<1>4. kf.finish.release = release /\ kf.finish.op = ""
  <2>1. kf.finish = Return(release)
    BY DEF EcSign, Kfun
  <2> HIDE DEF release, kf
  <2> QED BY <2>1, FinishIs
<1>5. StageOK(k, 1, s1, e1, e2)
  <2>1. \A op : Lost(k, 1, op) = {}
    BY NoneLost
  <2> QED BY <1>1, <2>1, EcSignStage
<1>6. StageOK(k, 2, s2, e2, e3)
  <2>1. \A op : Lost(k, 2, op) = {"key"}
    BY NoneLost
  <2> QED BY <1>1, <2>1, SignStageOK
<1>7. Cleans(release, e3.own, {}, {}) /\ e3.own \subseteq KfunPointers
  <2>1. {"key", "context"} \in SUBSET KfunPointers
    BY DEF KfunPointers
  <2>2. Cleans(release, {"key", "context"}, {}, {"key", "context"} \ {"context", "key"})
    BY <2>1, CleanSingles
  <2>3. {"key", "context"} \ {"context", "key"} = {}
    OBVIOUS
  <2> QED BY <1>2, <2>1, <2>2, <2>3
<1>8. Asks(k, kf.finish.op) \subseteq e3.done
  BY <1>2, <1>4, CipherAsks
<1>9. \A op : Lost(k, 3, op) = {} /\ Lost(k, 2, op) \subseteq e2.own
  <2>1. e2.own = {"key"}
    BY <1>1 DEF At
  <2>2. \A op : Lost(k, 3, op) = {} /\ (Lost(k, 2, op) = {"key"} \/ Lost(k, 2, op) = {})
    BY NoneLost
  <2> QED BY <2>1, <2>2
<1>10. Cleans(kf.finish.release, e3.own, {}, {})
  BY <1>4, <1>7
<1> HIDE DEF kf, s1, s2
<1>11. \E kept : Sound(k, kf, kept)
  BY <1>2, <1>3, <1>5, <1>6, <1>7, <1>8, <1>9, <1>10, SoundOf2
<1> QED BY <1>11 DEF kf

LEMMA EcxSignSound ==
    ASSUME NEW k, NEW a, k \in Signs, \A op : Lost(k, 1, op) = {}
    PROVE  \E kept : Sound(k, EcxSign(a), kept)
<1> DEFINE kf == EcxSign(a)
           s1 == EcxSign(<<>>).stages[1]
           s2 == SignStage
           release == Chains(<<"context", "key">>)
<1>0. \E e1, e2, e3 : e1 = At({}, {}, {}) /\ e2 = At({"key"}, {}, {}) /\ e3 = At({"key", "context"}, {}, {})
  OBVIOUS
<1>1. PICK e1, e2, e3 : e1 = At({}, {}, {}) /\ e2 = At({"key"}, {}, {}) /\ e3 = At({"key", "context"}, {}, {})
  BY <1>0
<1>2. e1.own = {} /\ e1.done = {} /\ e3.own = {"key", "context"} /\ e3.done = {}
  BY <1>1 DEF At
<1>3. kf.stages = <<s1, s2>>
  BY DEF EcxSign, Kfun
<1>4. kf.finish.release = release /\ kf.finish.op = ""
  <2>1. kf.finish = Return(release)
    BY DEF EcxSign, Kfun
  <2> HIDE DEF release, kf
  <2> QED BY <2>1, FinishIs
<1>5. StageOK(k, 1, s1, e1, e2)
  <2>1. \A op : Lost(k, 1, op) = {}
    BY NoneLost
  <2> QED BY <1>1, <2>1, EcxSignStage
<1>6. StageOK(k, 2, s2, e2, e3)
  <2>1. \A op : Lost(k, 2, op) = {"key"}
    BY NoneLost
  <2> QED BY <1>1, <2>1, SignStageOK
<1>7. Cleans(release, e3.own, {}, {}) /\ e3.own \subseteq KfunPointers
  <2>1. {"key", "context"} \in SUBSET KfunPointers
    BY DEF KfunPointers
  <2>2. Cleans(release, {"key", "context"}, {}, {"key", "context"} \ {"context", "key"})
    BY <2>1, CleanSingles
  <2>3. {"key", "context"} \ {"context", "key"} = {}
    OBVIOUS
  <2> QED BY <1>2, <2>1, <2>2, <2>3
<1>8. Asks(k, kf.finish.op) \subseteq e3.done
  BY <1>2, <1>4, CipherAsks
<1>9. \A op : Lost(k, 3, op) = {} /\ Lost(k, 2, op) \subseteq e2.own
  <2>1. e2.own = {"key"}
    BY <1>1 DEF At
  <2>2. \A op : Lost(k, 3, op) = {} /\ (Lost(k, 2, op) = {"key"} \/ Lost(k, 2, op) = {})
    BY NoneLost
  <2> QED BY <2>1, <2>2
<1>10. Cleans(kf.finish.release, e3.own, {}, {})
  BY <1>4, <1>7
<1> HIDE DEF kf, s1, s2
<1>11. \E kept : Sound(k, kf, kept)
  BY <1>2, <1>3, <1>5, <1>6, <1>7, <1>8, <1>9, <1>10, SoundOf2
<1> QED BY <1>11 DEF kf

LEMMA EcVerifySound ==
    ASSUME NEW k, NEW a, k \in Signs, \A op : Lost(k, 1, op) = {}
    PROVE  \E kept : Sound(k, EcVerify(a), kept)
<1> DEFINE kf == EcVerify(a)
           s1 == EcVerify(<<>>).stages[1]
           s2 == VerifyStage
           release == Chains(<<"context", "key">>)
<1>0. \E e1, e2, e3 : e1 = At({}, {}, {}) /\ e2 = At({"key"}, {}, {}) /\ e3 = At({"key", "context"}, {}, {})
  OBVIOUS
<1>1. PICK e1, e2, e3 : e1 = At({}, {}, {}) /\ e2 = At({"key"}, {}, {}) /\ e3 = At({"key", "context"}, {}, {})
  BY <1>0
<1>2. e1.own = {} /\ e1.done = {} /\ e3.own = {"key", "context"} /\ e3.done = {}
  BY <1>1 DEF At
<1>3. kf.stages = <<s1, s2>>
  BY DEF EcVerify, Kfun
<1>4. kf.finish.release = release /\ kf.finish.op = "EVP_DigestVerify"
  <2>1. PICK results : kf.finish = Finish("EVP_DigestVerify", results, release)
    BY DEF EcVerify, Kfun
  <2> HIDE DEF release, kf
  <2> QED BY <2>1 DEF Finish
<1>5. StageOK(k, 1, s1, e1, e2)
  <2>1. \A op : Lost(k, 1, op) = {}
    BY NoneLost
  <2> QED BY <1>1, <2>1, EcVerifyStage
<1>6. StageOK(k, 2, s2, e2, e3)
  <2>1. \A op : Lost(k, 2, op) = {"key"}
    BY NoneLost
  <2> QED BY <1>1, <2>1, VerifyStageOK
<1>7. Cleans(release, e3.own, {}, {}) /\ e3.own \subseteq KfunPointers
  <2>1. {"key", "context"} \in SUBSET KfunPointers
    BY DEF KfunPointers
  <2>2. Cleans(release, {"key", "context"}, {}, {"key", "context"} \ {"context", "key"})
    BY <2>1, CleanSingles
  <2>3. {"key", "context"} \ {"context", "key"} = {}
    OBVIOUS
  <2> QED BY <1>2, <2>1, <2>2, <2>3
<1>8. Asks(k, kf.finish.op) \subseteq e3.done
  BY <1>2, <1>4, NothingAsked DEF PlainOps
<1>9. \A op : Lost(k, 3, op) = {} /\ Lost(k, 2, op) \subseteq e2.own
  <2>1. e2.own = {"key"}
    BY <1>1 DEF At
  <2>2. \A op : Lost(k, 3, op) = {} /\ (Lost(k, 2, op) = {"key"} \/ Lost(k, 2, op) = {})
    BY NoneLost
  <2> QED BY <2>1, <2>2
<1>10. Cleans(kf.finish.release, e3.own, {}, {})
  BY <1>4, <1>7
<1> HIDE DEF kf, s1, s2
<1>11. \E kept : Sound(k, kf, kept)
  BY <1>2, <1>3, <1>5, <1>6, <1>7, <1>8, <1>9, <1>10, SoundOf2
<1> QED BY <1>11 DEF kf

LEMMA EcxVerifySound ==
    ASSUME NEW k, NEW a, k \in Signs, \A op : Lost(k, 1, op) = {}
    PROVE  \E kept : Sound(k, EcxVerify(a), kept)
<1> DEFINE kf == EcxVerify(a)
           s1 == EcxVerify(<<>>).stages[1]
           s2 == VerifyStage
           release == Chains(<<"context", "key">>)
<1>0. \E e1, e2, e3 : e1 = At({}, {}, {}) /\ e2 = At({"key"}, {}, {}) /\ e3 = At({"key", "context"}, {}, {})
  OBVIOUS
<1>1. PICK e1, e2, e3 : e1 = At({}, {}, {}) /\ e2 = At({"key"}, {}, {}) /\ e3 = At({"key", "context"}, {}, {})
  BY <1>0
<1>2. e1.own = {} /\ e1.done = {} /\ e3.own = {"key", "context"} /\ e3.done = {}
  BY <1>1 DEF At
<1>3. kf.stages = <<s1, s2>>
  BY DEF EcxVerify, Kfun
<1>4. kf.finish.release = release /\ kf.finish.op = "EVP_DigestVerify"
  <2>1. PICK results : kf.finish = Finish("EVP_DigestVerify", results, release)
    BY DEF EcxVerify, Kfun
  <2> HIDE DEF release, kf
  <2> QED BY <2>1 DEF Finish
<1>5. StageOK(k, 1, s1, e1, e2)
  <2>1. \A op : Lost(k, 1, op) = {}
    BY NoneLost
  <2> QED BY <1>1, <2>1, EcxVerifyStage
<1>6. StageOK(k, 2, s2, e2, e3)
  <2>1. \A op : Lost(k, 2, op) = {"key"}
    BY NoneLost
  <2> QED BY <1>1, <2>1, VerifyStageOK
<1>7. Cleans(release, e3.own, {}, {}) /\ e3.own \subseteq KfunPointers
  <2>1. {"key", "context"} \in SUBSET KfunPointers
    BY DEF KfunPointers
  <2>2. Cleans(release, {"key", "context"}, {}, {"key", "context"} \ {"context", "key"})
    BY <2>1, CleanSingles
  <2>3. {"key", "context"} \ {"context", "key"} = {}
    OBVIOUS
  <2> QED BY <1>2, <2>1, <2>2, <2>3
<1>8. Asks(k, kf.finish.op) \subseteq e3.done
  BY <1>2, <1>4, NothingAsked DEF PlainOps
<1>9. \A op : Lost(k, 3, op) = {} /\ Lost(k, 2, op) \subseteq e2.own
  <2>1. e2.own = {"key"}
    BY <1>1 DEF At
  <2>2. \A op : Lost(k, 3, op) = {} /\ (Lost(k, 2, op) = {"key"} \/ Lost(k, 2, op) = {})
    BY NoneLost
  <2> QED BY <2>1, <2>2
<1>10. Cleans(kf.finish.release, e3.own, {}, {})
  BY <1>4, <1>7
<1> HIDE DEF kf, s1, s2
<1>11. \E kept : Sound(k, kf, kept)
  BY <1>2, <1>3, <1>5, <1>6, <1>7, <1>8, <1>9, <1>10, SoundOf2
<1> QED BY <1>11 DEF kf

LEMMA EcDeriveSound ==
    ASSUME NEW k, NEW a, k \in Derives, k = "decrypt EC derive"
    PROVE  \E kept : Sound(k, EcDerive(a), kept)
<1> DEFINE kf == EcDerive(a)
           s1 == EcDerive(<<>>).stages[1]
           s2 == EcDerive(<<>>).stages[2]
           s3 == DeriveStage
           release == Chains(<<"key", "context">>)
<1>0. \E e1, e2, e3, e4 :
        /\ e1 = At({}, {}, {}) /\ e2 = At({"context"}, {}, {}) /\ e3 = At({"context", "key"}, {}, {})
        /\ e4 = At({"context", "key"}, {}, {})
  OBVIOUS
<1>1. PICK e1, e2, e3, e4 :
        /\ e1 = At({}, {}, {}) /\ e2 = At({"context"}, {}, {}) /\ e3 = At({"context", "key"}, {}, {})
        /\ e4 = At({"context", "key"}, {}, {})
  BY <1>0
<1>2. e1.own = {} /\ e1.done = {} /\ e4.own = {"context", "key"} /\ e4.done = {}
  BY <1>1 DEF At
<1>3. kf.stages = <<s1, s2, s3>>
  BY DEF EcDerive, Kfun
<1>4. kf.finish.release = release /\ kf.finish.op = ""
  <2>1. kf.finish = Return(release)
    BY DEF EcDerive, Kfun
  <2> HIDE DEF release, kf
  <2> QED BY <2>1, FinishIs
<1>5. StageOK(k, 1, s1, e1, e2)
  BY <1>1, EcDeriveStage
<1>6. StageOK(k, 2, s2, e2, e3)
  <2>1. \A op : Lost(k, 2, op) = {"context"}
    BY NoneLost
  <2> QED BY <1>1, <2>1, EcPeerStage
<1>7. StageOK(k, 3, s3, e3, e4)
  <2>1. \A op : Lost(k, 3, op) = {}
    BY NoneLost
  <2> QED BY <1>1, <2>1, DeriveStageOK
<1>8. Cleans(release, e4.own, {}, {}) /\ e4.own \subseteq KfunPointers
  <2>1. {"context", "key"} \in SUBSET KfunPointers
    BY DEF KfunPointers
  <2>2. Cleans(release, {"context", "key"}, {}, {"context", "key"} \ {"key", "context"})
    BY <2>1, CleanSingles
  <2>3. {"context", "key"} \ {"key", "context"} = {}
    OBVIOUS
  <2> QED BY <1>2, <2>1, <2>2, <2>3
<1>9. Asks(k, kf.finish.op) \subseteq e4.done
  BY <1>2, <1>4, CipherAsks
<1>10. \A op : Lost(k, 4, op) = {} /\ Lost(k, 2, op) \subseteq e2.own
  <2>1. e2.own = {"context"}
    BY <1>1 DEF At
  <2>2. \A op : Lost(k, 4, op) = {} /\ (Lost(k, 2, op) = {"context"} \/ Lost(k, 2, op) = {})
    BY NoneLost
  <2> QED BY <2>1, <2>2
<1>11. Cleans(kf.finish.release, e4.own, {}, {})
  BY <1>4, <1>8
<1> HIDE DEF kf, s1, s2, s3
<1>12. \E kept : Sound(k, kf, kept)
  BY <1>2, <1>3, <1>5, <1>6, <1>7, <1>8, <1>9, <1>10, <1>11, SoundOf3
<1> QED BY <1>12 DEF kf

LEMMA EcxDeriveSound ==
    ASSUME NEW k, NEW a, k \in Derives, \A op : Lost(k, 1, op) = {}
    PROVE  \E kept : Sound(k, EcxDerive(a), kept)
<1> DEFINE kf == EcxDerive(a)
           s1 == EcxDerive(<<>>).stages[1]
           s2 == EcxDerive(<<>>).stages[2]
           s3 == DeriveStage
           release == Chains(<<"key", "context">>)
<1>0. \E e1, e2, e3, e4 :
        /\ e1 = At({}, {}, {}) /\ e2 = At({"context"}, {}, {}) /\ e3 = At({"context", "key"}, {}, {})
        /\ e4 = At({"context", "key"}, {}, {})
  OBVIOUS
<1>1. PICK e1, e2, e3, e4 :
        /\ e1 = At({}, {}, {}) /\ e2 = At({"context"}, {}, {}) /\ e3 = At({"context", "key"}, {}, {})
        /\ e4 = At({"context", "key"}, {}, {})
  BY <1>0
<1>2. e1.own = {} /\ e1.done = {} /\ e4.own = {"context", "key"} /\ e4.done = {}
  BY <1>1 DEF At
<1>3. kf.stages = <<s1, s2, s3>>
  BY DEF EcxDerive, Kfun
<1>4. kf.finish.release = release /\ kf.finish.op = ""
  <2>1. kf.finish = Return(release)
    BY DEF EcxDerive, Kfun
  <2> HIDE DEF release, kf
  <2> QED BY <2>1, FinishIs
<1>5. StageOK(k, 1, s1, e1, e2)
  <2>1. \A op : Lost(k, 1, op) = {}
    BY NoneLost
  <2> QED BY <1>1, <2>1, EcxDeriveStage
<1>6. StageOK(k, 2, s2, e2, e3)
  <2>1. \A op : Lost(k, 2, op) = {"context"}
    BY NoneLost
  <2> QED BY <1>1, <2>1, EcxPeerStage
<1>7. StageOK(k, 3, s3, e3, e4)
  <2>1. \A op : Lost(k, 3, op) = {}
    BY NoneLost
  <2> QED BY <1>1, <2>1, DeriveStageOK
<1>8. Cleans(release, e4.own, {}, {}) /\ e4.own \subseteq KfunPointers
  <2>1. {"context", "key"} \in SUBSET KfunPointers
    BY DEF KfunPointers
  <2>2. Cleans(release, {"context", "key"}, {}, {"context", "key"} \ {"key", "context"})
    BY <2>1, CleanSingles
  <2>3. {"context", "key"} \ {"key", "context"} = {}
    OBVIOUS
  <2> QED BY <1>2, <2>1, <2>2, <2>3
<1>9. Asks(k, kf.finish.op) \subseteq e4.done
  BY <1>2, <1>4, CipherAsks
<1>10. \A op : Lost(k, 4, op) = {} /\ Lost(k, 2, op) \subseteq e2.own
  <2>1. e2.own = {"context"}
    BY <1>1 DEF At
  <2>2. \A op : Lost(k, 4, op) = {} /\ (Lost(k, 2, op) = {"context"} \/ Lost(k, 2, op) = {})
    BY NoneLost
  <2> QED BY <2>1, <2>2
<1>11. Cleans(kf.finish.release, e4.own, {}, {})
  BY <1>4, <1>8
<1> HIDE DEF kf, s1, s2, s3
<1>12. \E kept : Sound(k, kf, kept)
  BY <1>2, <1>3, <1>5, <1>6, <1>7, <1>8, <1>9, <1>10, <1>11, SoundOf3
<1> QED BY <1>12 DEF kf

LEMMA EncryptGcmSound ==
    ASSUME NEW k, NEW a, NEW length, k \in Encryptions, k \notin Ccm, k \notin Signs \cup Derives
    PROVE  \E kept : Sound(k, EncryptAesGcm(a, length), kept)
<1> DEFINE kf == EncryptAesGcm(a, length)
           s1 == Stage({}, CtxCalls(<<"cipher", "ivlen", "key", "aad", "text", "final", "get tag">>), "Encryption failed", Ctx, <<>>)
           release == Chains(<<"ctx">>)
<1>0. \E e1, e2 :
        /\ e1 = At({}, {}, {})
        /\ e2 = At({"ctx"}, {}, {<<"cipher", "ivlen", "key", "aad", "text", "final", "get tag">>[i] : i \in 1 .. Len(<<"cipher", "ivlen", "key", "aad", "text", "final", "get tag">>)})
  OBVIOUS
<1>1. PICK e1, e2 :
        /\ e1 = At({}, {}, {})
        /\ e2 = At({"ctx"}, {}, {<<"cipher", "ivlen", "key", "aad", "text", "final", "get tag">>[i] : i \in 1 .. Len(<<"cipher", "ivlen", "key", "aad", "text", "final", "get tag">>)})
  BY <1>0
<1>2. /\ e1.own = {} /\ e1.done = {} /\ e2.own = {"ctx"}
      /\ e2.done = {<<"cipher", "ivlen", "key", "aad", "text", "final", "get tag">>[i] : i \in 1 .. Len(<<"cipher", "ivlen", "key", "aad", "text", "final", "get tag">>)}
  BY <1>1 DEF At
<1>3. kf.stages = <<s1>>
  BY DEF EncryptAesGcm, Kfun
<1>4. kf.finish.release = release /\ kf.finish.op = ""
  <2>1. kf.finish = Return(release)
    BY DEF EncryptAesGcm, Kfun, Ctx
  <2> HIDE DEF release, kf
  <2> QED BY <2>1, FinishIs
<1>5. StageOK(k, 1, s1, e1, e2)
  <2> DEFINE l == <<"cipher", "ivlen", "key", "aad", "text", "final", "get tag">>
  <2>1. IsSeq(l) /\ Asked(k, l)
    BY Sealed
  <2>3. PICK error : error = "Encryption failed"
    OBVIOUS
  <2> HIDE DEF l
  <2>2. StageOK(k, 1, Stage({}, CtxCalls(l), error, Ctx, <<>>), At({}, {}, {}), At({"ctx"}, {}, {l[i] : i \in 1 .. Len(l)}))
    <3>1. \A op : Lost(k, 1, op) = {}
      BY NoneLost
    <3> QED BY <2>1, <3>1, CtxStage
  <2> QED BY <1>1, <2>2, <2>3 DEF l
<1>6. Cleans(release, e2.own, {}, {}) /\ e2.own \subseteq KfunPointers
  <2>1. {"ctx"} \in SUBSET KfunPointers
    BY DEF KfunPointers
  <2>2. Cleans(release, {"ctx"}, {}, {"ctx"} \ {"ctx"})
    BY <2>1, CleanSingles
  <2>3. {"ctx"} \ {"ctx"} = {}
    OBVIOUS
  <2> QED BY <1>2, <2>1, <2>2, <2>3
<1>7. Asks(k, kf.finish.op) \subseteq e2.done
  BY <1>2, <1>4, CipherAsks
<1>8. \A op : Lost(k, 2, op) = {}
  BY NoneLost
<1>9. Cleans(kf.finish.release, e2.own, {}, {})
  BY <1>4, <1>6
<1> HIDE DEF kf, s1
<1>10. \E kept : Sound(k, kf, kept)
  BY <1>2, <1>3, <1>5, <1>6, <1>7, <1>8, <1>9, SoundOf1
<1> QED BY <1>10 DEF kf

LEMMA EncryptChachaSound ==
    ASSUME NEW k, NEW a, k \in Encryptions, k \notin Ccm, k \notin Signs \cup Derives
    PROVE  \E kept : Sound(k, EncryptChacha20(a), kept)
<1> DEFINE kf == EncryptChacha20(a)
           s1 == Stage({}, CtxCalls(<<"cipher", "ivlen", "key", "aad", "text", "final", "get tag">>), "Encryption failed", Ctx, <<>>)
           release == Chains(<<"ctx">>)
<1>0. \E e1, e2 :
        /\ e1 = At({}, {}, {})
        /\ e2 = At({"ctx"}, {}, {<<"cipher", "ivlen", "key", "aad", "text", "final", "get tag">>[i] : i \in 1 .. Len(<<"cipher", "ivlen", "key", "aad", "text", "final", "get tag">>)})
  OBVIOUS
<1>1. PICK e1, e2 :
        /\ e1 = At({}, {}, {})
        /\ e2 = At({"ctx"}, {}, {<<"cipher", "ivlen", "key", "aad", "text", "final", "get tag">>[i] : i \in 1 .. Len(<<"cipher", "ivlen", "key", "aad", "text", "final", "get tag">>)})
  BY <1>0
<1>2. /\ e1.own = {} /\ e1.done = {} /\ e2.own = {"ctx"}
      /\ e2.done = {<<"cipher", "ivlen", "key", "aad", "text", "final", "get tag">>[i] : i \in 1 .. Len(<<"cipher", "ivlen", "key", "aad", "text", "final", "get tag">>)}
  BY <1>1 DEF At
<1>3. kf.stages = <<s1>>
  BY DEF EncryptChacha20, Kfun
<1>4. kf.finish.release = release /\ kf.finish.op = ""
  <2>1. kf.finish = Return(release)
    BY DEF EncryptChacha20, Kfun, Ctx
  <2> HIDE DEF release, kf
  <2> QED BY <2>1, FinishIs
<1>5. StageOK(k, 1, s1, e1, e2)
  <2> DEFINE l == <<"cipher", "ivlen", "key", "aad", "text", "final", "get tag">>
  <2>1. IsSeq(l) /\ Asked(k, l)
    BY Sealed
  <2>3. PICK error : error = "Encryption failed"
    OBVIOUS
  <2> HIDE DEF l
  <2>2. StageOK(k, 1, Stage({}, CtxCalls(l), error, Ctx, <<>>), At({}, {}, {}), At({"ctx"}, {}, {l[i] : i \in 1 .. Len(l)}))
    <3>1. \A op : Lost(k, 1, op) = {}
      BY NoneLost
    <3> QED BY <2>1, <3>1, CtxStage
  <2> QED BY <1>1, <2>2, <2>3 DEF l
<1>6. Cleans(release, e2.own, {}, {}) /\ e2.own \subseteq KfunPointers
  <2>1. {"ctx"} \in SUBSET KfunPointers
    BY DEF KfunPointers
  <2>2. Cleans(release, {"ctx"}, {}, {"ctx"} \ {"ctx"})
    BY <2>1, CleanSingles
  <2>3. {"ctx"} \ {"ctx"} = {}
    OBVIOUS
  <2> QED BY <1>2, <2>1, <2>2, <2>3
<1>7. Asks(k, kf.finish.op) \subseteq e2.done
  BY <1>2, <1>4, CipherAsks
<1>8. \A op : Lost(k, 2, op) = {}
  BY NoneLost
<1>9. Cleans(kf.finish.release, e2.own, {}, {})
  BY <1>4, <1>6
<1> HIDE DEF kf, s1
<1>10. \E kept : Sound(k, kf, kept)
  BY <1>2, <1>3, <1>5, <1>6, <1>7, <1>8, <1>9, SoundOf1
<1> QED BY <1>10 DEF kf

LEMMA EncryptCcmSound ==
    ASSUME NEW k, NEW a, k \in Encryptions, k \in Ccm, k \notin Signs \cup Derives
    PROVE  \E kept : Sound(k, EncryptAesCcm(a), kept)
<1> DEFINE kf == EncryptAesCcm(a)
           s1 == Stage({}, CtxCalls(<<"cipher", "ivlen", "tag", "key", "total", "aad", "text", "final", "get tag">>), "Encryption failed", Ctx, <<>>)
           release == Chains(<<"ctx">>)
<1>0. \E e1, e2 :
        /\ e1 = At({}, {}, {})
        /\ e2 = At({"ctx"}, {}, {<<"cipher", "ivlen", "tag", "key", "total", "aad", "text", "final", "get tag">>[i] : i \in 1 .. Len(<<"cipher", "ivlen", "tag", "key", "total", "aad", "text", "final", "get tag">>)})
  OBVIOUS
<1>1. PICK e1, e2 :
        /\ e1 = At({}, {}, {})
        /\ e2 = At({"ctx"}, {}, {<<"cipher", "ivlen", "tag", "key", "total", "aad", "text", "final", "get tag">>[i] : i \in 1 .. Len(<<"cipher", "ivlen", "tag", "key", "total", "aad", "text", "final", "get tag">>)})
  BY <1>0
<1>2. /\ e1.own = {} /\ e1.done = {} /\ e2.own = {"ctx"}
      /\ e2.done = {<<"cipher", "ivlen", "tag", "key", "total", "aad", "text", "final", "get tag">>[i] : i \in 1 .. Len(<<"cipher", "ivlen", "tag", "key", "total", "aad", "text", "final", "get tag">>)}
  BY <1>1 DEF At
<1>3. kf.stages = <<s1>>
  BY DEF EncryptAesCcm, Kfun
<1>4. kf.finish.release = release /\ kf.finish.op = ""
  <2>1. kf.finish = Return(release)
    BY DEF EncryptAesCcm, Kfun, Ctx
  <2> HIDE DEF release, kf
  <2> QED BY <2>1, FinishIs
<1>5. StageOK(k, 1, s1, e1, e2)
  <2> DEFINE l == <<"cipher", "ivlen", "tag", "key", "total", "aad", "text", "final", "get tag">>
  <2>1. IsSeq(l) /\ Asked(k, l)
    BY SealedCcm
  <2>3. PICK error : error = "Encryption failed"
    OBVIOUS
  <2> HIDE DEF l
  <2>2. StageOK(k, 1, Stage({}, CtxCalls(l), error, Ctx, <<>>), At({}, {}, {}), At({"ctx"}, {}, {l[i] : i \in 1 .. Len(l)}))
    <3>1. \A op : Lost(k, 1, op) = {}
      BY NoneLost
    <3> QED BY <2>1, <3>1, CtxStage
  <2> QED BY <1>1, <2>2, <2>3 DEF l
<1>6. Cleans(release, e2.own, {}, {}) /\ e2.own \subseteq KfunPointers
  <2>1. {"ctx"} \in SUBSET KfunPointers
    BY DEF KfunPointers
  <2>2. Cleans(release, {"ctx"}, {}, {"ctx"} \ {"ctx"})
    BY <2>1, CleanSingles
  <2>3. {"ctx"} \ {"ctx"} = {}
    OBVIOUS
  <2> QED BY <1>2, <2>1, <2>2, <2>3
<1>7. Asks(k, kf.finish.op) \subseteq e2.done
  BY <1>2, <1>4, CipherAsks
<1>8. \A op : Lost(k, 2, op) = {}
  BY NoneLost
<1>9. Cleans(kf.finish.release, e2.own, {}, {})
  BY <1>4, <1>6
<1> HIDE DEF kf, s1
<1>10. \E kept : Sound(k, kf, kept)
  BY <1>2, <1>3, <1>5, <1>6, <1>7, <1>8, <1>9, SoundOf1
<1> QED BY <1>10 DEF kf

LEMMA DecryptGcmSound ==
    ASSUME NEW k, NEW a, NEW length, k \notin Encryptions, k \notin Ccm, k \notin Signs \cup Derives
    PROVE  \E kept : Sound(k, DecryptAesGcm(a, length), kept)
<1> DEFINE kf == DecryptAesGcm(a, length)
           s1 == Stage({}, CtxCalls(<<"cipher", "ivlen", "key", "aad", "text", "tag">>), "Decryption failed", Ctx, <<>>)
           release == Chains(<<"ctx">>)
<1>0. \E e1, e2 :
        /\ e1 = At({}, {}, {})
        /\ e2 = At({"ctx"}, {}, {<<"cipher", "ivlen", "key", "aad", "text", "tag">>[i] : i \in 1 .. Len(<<"cipher", "ivlen", "key", "aad", "text", "tag">>)})
  OBVIOUS
<1>1. PICK e1, e2 :
        /\ e1 = At({}, {}, {})
        /\ e2 = At({"ctx"}, {}, {<<"cipher", "ivlen", "key", "aad", "text", "tag">>[i] : i \in 1 .. Len(<<"cipher", "ivlen", "key", "aad", "text", "tag">>)})
  BY <1>0
<1>2. /\ e1.own = {} /\ e1.done = {} /\ e2.own = {"ctx"}
      /\ e2.done = {<<"cipher", "ivlen", "key", "aad", "text", "tag">>[i] : i \in 1 .. Len(<<"cipher", "ivlen", "key", "aad", "text", "tag">>)}
  BY <1>1 DEF At
<1>3. kf.stages = <<s1>>
  BY DEF DecryptAesGcm, Kfun
<1>4. kf.finish.release = release /\ kf.finish.op = "final"
  <2>1. PICK results : kf.finish = Finish("final", results, release)
    BY DEF DecryptAesGcm, Kfun, Ctx
  <2> HIDE DEF release, kf
  <2> QED BY <2>1 DEF Finish
<1>5. StageOK(k, 1, s1, e1, e2)
  <2> DEFINE l == <<"cipher", "ivlen", "key", "aad", "text", "tag">>
  <2>1. IsSeq(l) /\ Asked(k, l)
    BY UnsealedGcm
  <2>3. PICK error : error = "Decryption failed"
    OBVIOUS
  <2> HIDE DEF l
  <2>2. StageOK(k, 1, Stage({}, CtxCalls(l), error, Ctx, <<>>), At({}, {}, {}), At({"ctx"}, {}, {l[i] : i \in 1 .. Len(l)}))
    <3>1. \A op : Lost(k, 1, op) = {}
      BY NoneLost
    <3> QED BY <2>1, <3>1, CtxStage
  <2> QED BY <1>1, <2>2, <2>3 DEF l
<1>6. Cleans(release, e2.own, {}, {}) /\ e2.own \subseteq KfunPointers
  <2>1. {"ctx"} \in SUBSET KfunPointers
    BY DEF KfunPointers
  <2>2. Cleans(release, {"ctx"}, {}, {"ctx"} \ {"ctx"})
    BY <2>1, CleanSingles
  <2>3. {"ctx"} \ {"ctx"} = {}
    OBVIOUS
  <2> QED BY <1>2, <2>1, <2>2, <2>3
<1>7. Asks(k, kf.finish.op) \subseteq e2.done
  BY <1>2, <1>4, UnsealedGcm
<1>8. \A op : Lost(k, 2, op) = {}
  BY NoneLost
<1>9. Cleans(kf.finish.release, e2.own, {}, {})
  BY <1>4, <1>6
<1> HIDE DEF kf, s1
<1>10. \E kept : Sound(k, kf, kept)
  BY <1>2, <1>3, <1>5, <1>6, <1>7, <1>8, <1>9, SoundOf1
<1> QED BY <1>10 DEF kf

LEMMA DecryptChachaSound ==
    ASSUME NEW k, NEW a, k \notin Encryptions, k \notin Ccm, k \notin Signs \cup Derives
    PROVE  \E kept : Sound(k, DecryptChacha20(a), kept)
<1> DEFINE kf == DecryptChacha20(a)
           s1 == Stage({}, CtxCalls(<<"cipher", "ivlen", "tag", "key", "aad", "text">>), "Decryption failed", Ctx, <<>>)
           release == Chains(<<"ctx">>)
<1>0. \E e1, e2 :
        /\ e1 = At({}, {}, {})
        /\ e2 = At({"ctx"}, {}, {<<"cipher", "ivlen", "tag", "key", "aad", "text">>[i] : i \in 1 .. Len(<<"cipher", "ivlen", "tag", "key", "aad", "text">>)})
  OBVIOUS
<1>1. PICK e1, e2 :
        /\ e1 = At({}, {}, {})
        /\ e2 = At({"ctx"}, {}, {<<"cipher", "ivlen", "tag", "key", "aad", "text">>[i] : i \in 1 .. Len(<<"cipher", "ivlen", "tag", "key", "aad", "text">>)})
  BY <1>0
<1>2. /\ e1.own = {} /\ e1.done = {} /\ e2.own = {"ctx"}
      /\ e2.done = {<<"cipher", "ivlen", "tag", "key", "aad", "text">>[i] : i \in 1 .. Len(<<"cipher", "ivlen", "tag", "key", "aad", "text">>)}
  BY <1>1 DEF At
<1>3. kf.stages = <<s1>>
  BY DEF DecryptChacha20, Kfun
<1>4. kf.finish.release = release /\ kf.finish.op = "final"
  <2>1. PICK results : kf.finish = Finish("final", results, release)
    BY DEF DecryptChacha20, Kfun, Ctx
  <2> HIDE DEF release, kf
  <2> QED BY <2>1 DEF Finish
<1>5. StageOK(k, 1, s1, e1, e2)
  <2> DEFINE l == <<"cipher", "ivlen", "tag", "key", "aad", "text">>
  <2>1. IsSeq(l) /\ Asked(k, l)
    BY UnsealedChacha
  <2>3. PICK error : error = "Decryption failed"
    OBVIOUS
  <2> HIDE DEF l
  <2>2. StageOK(k, 1, Stage({}, CtxCalls(l), error, Ctx, <<>>), At({}, {}, {}), At({"ctx"}, {}, {l[i] : i \in 1 .. Len(l)}))
    <3>1. \A op : Lost(k, 1, op) = {}
      BY NoneLost
    <3> QED BY <2>1, <3>1, CtxStage
  <2> QED BY <1>1, <2>2, <2>3 DEF l
<1>6. Cleans(release, e2.own, {}, {}) /\ e2.own \subseteq KfunPointers
  <2>1. {"ctx"} \in SUBSET KfunPointers
    BY DEF KfunPointers
  <2>2. Cleans(release, {"ctx"}, {}, {"ctx"} \ {"ctx"})
    BY <2>1, CleanSingles
  <2>3. {"ctx"} \ {"ctx"} = {}
    OBVIOUS
  <2> QED BY <1>2, <2>1, <2>2, <2>3
<1>7. Asks(k, kf.finish.op) \subseteq e2.done
  BY <1>2, <1>4, UnsealedChacha
<1>8. \A op : Lost(k, 2, op) = {}
  BY NoneLost
<1>9. Cleans(kf.finish.release, e2.own, {}, {})
  BY <1>4, <1>6
<1> HIDE DEF kf, s1
<1>10. \E kept : Sound(k, kf, kept)
  BY <1>2, <1>3, <1>5, <1>6, <1>7, <1>8, <1>9, SoundOf1
<1> QED BY <1>10 DEF kf

LEMMA DecryptCcmSound ==
    ASSUME NEW k, NEW a, k \notin Encryptions, k \in Ccm, k \notin Signs \cup Derives
    PROVE  \E kept : Sound(k, DecryptAesCcm(a), kept)
<1> DEFINE kf == DecryptAesCcm(a)
           s1 == Stage({}, CtxCalls(<<"cipher", "ivlen", "tag", "key", "total", "aad">>), "Decryption failed", Ctx, <<>>)
           release == Chains(<<"ctx">>)
<1>0. \E e1, e2 :
        /\ e1 = At({}, {}, {})
        /\ e2 = At({"ctx"}, {}, {<<"cipher", "ivlen", "tag", "key", "total", "aad">>[i] : i \in 1 .. Len(<<"cipher", "ivlen", "tag", "key", "total", "aad">>)})
  OBVIOUS
<1>1. PICK e1, e2 :
        /\ e1 = At({}, {}, {})
        /\ e2 = At({"ctx"}, {}, {<<"cipher", "ivlen", "tag", "key", "total", "aad">>[i] : i \in 1 .. Len(<<"cipher", "ivlen", "tag", "key", "total", "aad">>)})
  BY <1>0
<1>2. /\ e1.own = {} /\ e1.done = {} /\ e2.own = {"ctx"}
      /\ e2.done = {<<"cipher", "ivlen", "tag", "key", "total", "aad">>[i] : i \in 1 .. Len(<<"cipher", "ivlen", "tag", "key", "total", "aad">>)}
  BY <1>1 DEF At
<1>3. kf.stages = <<s1>>
  BY DEF DecryptAesCcm, Kfun
<1>4. kf.finish.release = release /\ kf.finish.op = "text"
  <2>1. PICK results : kf.finish = Finish("text", results, release)
    BY DEF DecryptAesCcm, Kfun, Ctx
  <2> HIDE DEF release, kf
  <2> QED BY <2>1 DEF Finish
<1>5. StageOK(k, 1, s1, e1, e2)
  <2> DEFINE l == <<"cipher", "ivlen", "tag", "key", "total", "aad">>
  <2>1. IsSeq(l) /\ Asked(k, l)
    BY UnsealedCcm
  <2>3. PICK error : error = "Decryption failed"
    OBVIOUS
  <2> HIDE DEF l
  <2>2. StageOK(k, 1, Stage({}, CtxCalls(l), error, Ctx, <<>>), At({}, {}, {}), At({"ctx"}, {}, {l[i] : i \in 1 .. Len(l)}))
    <3>1. \A op : Lost(k, 1, op) = {}
      BY NoneLost
    <3> QED BY <2>1, <3>1, CtxStage
  <2> QED BY <1>1, <2>2, <2>3 DEF l
<1>6. Cleans(release, e2.own, {}, {}) /\ e2.own \subseteq KfunPointers
  <2>1. {"ctx"} \in SUBSET KfunPointers
    BY DEF KfunPointers
  <2>2. Cleans(release, {"ctx"}, {}, {"ctx"} \ {"ctx"})
    BY <2>1, CleanSingles
  <2>3. {"ctx"} \ {"ctx"} = {}
    OBVIOUS
  <2> QED BY <1>2, <2>1, <2>2, <2>3
<1>7. Asks(k, kf.finish.op) \subseteq e2.done
  BY <1>2, <1>4, UnsealedCcm
<1>8. \A op : Lost(k, 2, op) = {}
  BY NoneLost
<1>9. Cleans(kf.finish.release, e2.own, {}, {})
  BY <1>4, <1>6
<1> HIDE DEF kf, s1
<1>10. \E kept : Sound(k, kf, kept)
  BY <1>2, <1>3, <1>5, <1>6, <1>7, <1>8, <1>9, SoundOf1
<1> QED BY <1>10 DEF kf

LEMMA CertificateSound ==
    ASSUME NEW k, NEW a \in Seq(Argument), k \notin Signs \cup Derives
    PROVE  \E kept : Sound(k, VerifyCertificate(a), kept)
<1> DEFINE kf == VerifyCertificate(a)
           first == Stage({}, <<New("d2i_X509", "certificate", {})>>, "Bad certificate", <<>>, <<>>)
           second == Stage({}, <<New("sk_X509_new_reserve", "stack", {})>>, "SSL stack error",
                           Chains(<<"certificate">>), <<>>)
           opened == <<first, second>>
           each == [i \in 1 .. Len(a) - 2 |-> Intermediate]
           last == <<StoreStage>>
           stages == kf.stages
<1>1. PICK m \in Nat : 1 .. Len(a) - 2 = 1 .. m
  <2>1. CASE Len(a) - 2 < 0
    BY <2>1
  <2>2. CASE Len(a) - 2 >= 0
    <3>1. Len(a) - 2 \in Nat
      BY <2>2
    <3> QED BY <3>1
  <2> QED BY <2>1, <2>2
<1>2. IsSeq(each) /\ Len(each) = m /\ \A i \in 1 .. m : each[i] = Intermediate
  <2>1. each = [i \in 1 .. m |-> each[i]] /\ \A i \in 1 .. m : each[i] = Intermediate
    BY <1>1
  <2> HIDE DEF each
  <2> QED BY <2>1, OfFunction
<1>3. IsSeq(opened) /\ Len(opened) = 2 /\ opened[1] = first /\ opened[2] = second
  <2> HIDE DEF first, second
  <2>1. opened[1] = first /\ opened[2] = second
    OBVIOUS
  <2> QED BY <2>1, Tuples
<1>4. IsSeq(last) /\ Len(last) = 1 /\ last[1] = StoreStage
  BY Tuples
<1>5. stages = opened \o each \o last
  BY DEF VerifyCertificate, Kfun
<1> HIDE DEF opened, each, last, stages
<1>6. Joins(opened \o each, opened, 2, each, m)
  BY <1>2, <1>3, JoinedOf
<1>7. IsSeq(opened \o each) /\ Len(opened \o each) = 2 + m
  BY <1>6 DEF Joins
<1>8. Joins(stages, opened \o each, 2 + m, last, 1)
  BY <1>4, <1>5, <1>7, JoinedOf
<1>9. /\ Len(stages) = m + 3 /\ stages[1] = first /\ stages[2] = second /\ stages[m + 3] = StoreStage
      /\ \A i \in 3 .. m + 2 : stages[i] = Intermediate
  <2>1. /\ 1 \in 1 .. 2 + m /\ 2 \in 1 .. 2 + m /\ 1 \in 1 .. 2 /\ 2 \in 1 .. 2
        /\ m + 3 \in (2 + m) + 1 .. (2 + m) + 1 /\ (m + 3) - (2 + m) = 1 /\ (2 + m) + 1 = m + 3
    OBVIOUS
  <2>2. \A i \in 3 .. m + 2 : i \in 1 .. 2 + m /\ i \in 2 + 1 .. 2 + m /\ i - 2 \in 1 .. m
    OBVIOUS
  <2>3. stages[1] = first /\ stages[2] = second
    BY <1>3, <1>6, <1>8, <2>1 DEF Joins
  <2>4. stages[m + 3] = StoreStage /\ Len(stages) = m + 3
    BY <1>4, <1>8, <2>1 DEF Joins
  <2>5. ASSUME NEW i \in 3 .. m + 2 PROVE stages[i] = Intermediate
    <3>1. stages[i] = (opened \o each)[i]
      BY <1>8, <2>2 DEF Joins
    <3>2. (opened \o each)[i] = each[i - 2]
      BY <1>6, <2>2 DEF Joins
    <3> QED BY <1>2, <2>2, <3>1, <3>2
  <2> QED BY <2>3, <2>4, <2>5
<1> DEFINE none == At({}, {}, {})
           one == At({"certificate"}, {}, {})
           two == At({"certificate", "stack"}, {}, {})
           all == At({"certificate", "stack", "store", "context"}, {}, {})
           kept == [t \in 1 .. m + 4 |-> IF t = 1 THEN none ELSE IF t = 2 THEN one ELSE IF t <= m + 3 THEN two ELSE all]
<1>10. /\ none.own = {} /\ none.done = {} /\ all.own = {"certificate", "stack", "store", "context"}
       /\ all.done = {}
  BY DEF At
<1>11. \A op : Lost(k, 1, op) = {}
  BY NoneLost
<1>12. /\ StageOK(k, 1, first, none, one) /\ StageOK(k, 2, second, one, two) /\ StageOK(k, m + 3, StoreStage, two, all)
       /\ \A i \in 3 .. m + 2 : StageOK(k, i, Intermediate, two, two)
  <2>1. \A s, op : Lost(k, s, op) = {}
    BY NoneLost
  <2>2. StageOK(k, 1, first, none, one)
    BY <2>1, CertificateStage
  <2>3. StageOK(k, 2, second, one, two)
    BY <2>1, StackStage
  <2>4. \A s : StageOK(k, s, StoreStage, two, all)
    BY <2>1, StoreStageOK
  <2>5. \A s : StageOK(k, s, Intermediate, two, two)
    BY <2>1, IntermediateStage
  <2> QED BY <2>2, <2>3, <2>4, <2>5
<1> HIDE DEF none, one, two, all, first, second
<1>13. /\ kept[1] = none /\ kept[2] = one /\ kept[m + 4] = all /\ (m + 3) + 1 = m + 4
       /\ \A t \in 3 .. m + 3 : kept[t] = two
  <2>1. /\ 1 \in 1 .. m + 4 /\ 2 \in 1 .. m + 4 /\ m + 4 \in 1 .. m + 4 /\ m + 4 # 1 /\ m + 4 # 2
        /\ ~(m + 4 <= m + 3)
    OBVIOUS
  <2>2. \A t \in 3 .. m + 3 : t \in 1 .. m + 4 /\ t # 1 /\ t # 2 /\ t <= m + 3
    OBVIOUS
  <2> QED BY <2>1, <2>2
<1> HIDE DEF kept
<1>14. \A s \in 1 .. m + 3 : StageOK(k, s, stages[s], kept[s], kept[s + 1])
  <2> TAKE s \in 1 .. m + 3
  <2>1. CASE s = 1
    BY <1>9, <1>12, <1>13, <2>1
  <2>2. CASE s = 2
    <3>1. 3 \in 3 .. m + 3 /\ s + 1 = 3
      BY <2>2
    <3> QED BY <1>9, <1>12, <1>13, <2>2, <3>1
  <2>3. CASE s \in 3 .. m + 2
    <3>1. s \in 3 .. m + 3 /\ s + 1 \in 3 .. m + 3
      BY <2>3
    <3> QED BY <1>9, <1>12, <1>13, <2>3, <3>1
  <2>4. CASE s = m + 3
    <3>1. s \in 3 .. m + 3 /\ s + 1 = m + 4
      BY <2>4
    <3> QED BY <1>9, <1>12, <1>13, <2>4, <3>1
  <2>5. s = 1 \/ s = 2 \/ s \in 3 .. m + 2 \/ s = m + 3
    OBVIOUS
  <2> QED BY <2>1, <2>2, <2>3, <2>4, <2>5
<1>15. kf.finish.release = VerifyAll /\ Asks(k, kf.finish.op) = {}
  <2>1. PICK results : kf.finish = Finish("X509_verify_cert", results, VerifyAll)
    BY DEF VerifyCertificate, Kfun
  <2> HIDE DEF kf
  <2>2. kf.finish.release = VerifyAll /\ kf.finish.op = "X509_verify_cert"
    BY <2>1 DEF Finish
  <2>3. Asks(k, "X509_verify_cert") = {}
    BY NothingAsked DEF PlainOps
  <2> QED BY <2>2, <2>3
<1>16. Cleans(VerifyAll, all.own, {}, {}) /\ all.own \subseteq KfunPointers
  <2> DEFINE names == {"certificate", "stack", "store", "context"}
  <2>1. names \in SUBSET KfunPointers
    BY DEF KfunPointers
  <2>2. Cleans(Chains(<<"context", "store", "stack", "certificate">>), names, {},
               names \ {"context", "store", "stack", "certificate"})
    <3>1. /\ "context" \in names \cup {} /\ "store" \in names \cup {} /\ "stack" \in names \cup {}
          /\ "certificate" \in names \cup {}
      OBVIOUS
    <3>2. "certificate" \notin {"context", "store", "stack"}
      OBVIOUS
    <3> HIDE DEF names
    <3> QED BY <2>1, <3>1, <3>2, CleanSingles
  <2>3. names \ {"context", "store", "stack", "certificate"} = {}
    OBVIOUS
  <2> QED BY <1>10, <2>1, <2>2, <2>3 DEF VerifyAll
<1>17. \A op : Lost(k, (m + 3) + 1, op) = {} /\ Lost(k, 2, op) = {}
  BY NoneLost
<1>18. Sound(k, kf, kept)
  <2> HIDE DEF kf
  <2>1. kf.stages = stages
    BY DEF stages
  <2>2. kept[(m + 3) + 1] = all
    BY <1>13
  <2> QED BY <1>9, <1>10, <1>13, <1>14, <1>15, <1>16, <1>17, <2>1, <2>2 DEF Sound
<1> QED BY <1>18 DEF kf

(* This one may also forget an ec, when a call of its first stage fails.   *)
EcDerives == {"decrypt EC derive"}
LEMMA FirstKeeps == ASSUME NEW k, k \notin EcDerives PROVE \A s, op : s # 2 => Lost(k, s, op) = {}
BY DEF Lost, EcDerives

(* For any kfun and arguments.                                             *)
LEMMA KfunSound == ASSUME NEW k \in Kfuns, NEW a \in Seq(Argument) PROVE \E kept : Sound(k, Kf(k, a), kept)
<1> DEFINE Plain == k \notin Signs \cup Derives
<1>1. CASE k \in {"hash", "secure_random", "verify_certificate", "mask_xor", "encrypt EC key", "encrypt ECX key"}
  <2>1. Plain
    BY <1>1 DEF Signs, Derives
  <2>2. CASE k = "hash"
    BY <2>1, <2>2, HashSound DEF Kf
  <2>3. CASE k = "secure_random"
    BY <2>1, <2>3, RandomSound DEF Kf
  <2>4. CASE k = "verify_certificate"
    BY <2>1, <2>4, CertificateSound DEF Kf
  <2>5. CASE k = "mask_xor"
    BY <2>1, <2>5, MaskSound DEF Kf
  <2>6. CASE k = "encrypt EC key"
    BY <2>1, <2>6, EcKeySound DEF Kf
  <2>7. CASE k = "encrypt ECX key"
    BY <2>1, <2>7, EcxKeySound DEF Kf
  <2> QED BY <1>1, <2>2, <2>3, <2>4, <2>5, <2>6, <2>7
<1>2. CASE k \in {"encrypt AES-128-GCM", "encrypt AES-256-GCM", "encrypt ChaCha20-Poly1305", "encrypt AES-128-CCM",
                  "decrypt AES-128-GCM", "decrypt AES-256-GCM", "decrypt ChaCha20-Poly1305", "decrypt AES-128-CCM"}
  <2>1. Plain
    BY <1>2 DEF Signs, Derives
  <2>2. CASE k = "encrypt AES-128-GCM"
    <3>1. k \in Encryptions /\ k \notin Ccm
      BY <2>2 DEF Encryptions, Ccm
    <3> QED BY <2>1, <2>2, <3>1, EncryptGcmSound DEF Kf
  <2>3. CASE k = "encrypt AES-256-GCM"
    <3>1. k \in Encryptions /\ k \notin Ccm
      BY <2>3 DEF Encryptions, Ccm
    <3> QED BY <2>1, <2>3, <3>1, EncryptGcmSound DEF Kf
  <2>4. CASE k = "encrypt ChaCha20-Poly1305"
    <3>1. k \in Encryptions /\ k \notin Ccm
      BY <2>4 DEF Encryptions, Ccm
    <3> QED BY <2>1, <2>4, <3>1, EncryptChachaSound DEF Kf
  <2>5. CASE k = "encrypt AES-128-CCM"
    <3>1. k \in Encryptions /\ k \in Ccm
      BY <2>5 DEF Encryptions, Ccm
    <3> QED BY <2>1, <2>5, <3>1, EncryptCcmSound DEF Kf
  <2>6. CASE k = "decrypt AES-128-GCM"
    <3>1. k \notin Encryptions /\ k \notin Ccm
      BY <2>6 DEF Encryptions, Ccm
    <3> QED BY <2>1, <2>6, <3>1, DecryptGcmSound DEF Kf
  <2>7. CASE k = "decrypt AES-256-GCM"
    <3>1. k \notin Encryptions /\ k \notin Ccm
      BY <2>7 DEF Encryptions, Ccm
    <3> QED BY <2>1, <2>7, <3>1, DecryptGcmSound DEF Kf
  <2>8. CASE k = "decrypt ChaCha20-Poly1305"
    <3>1. k \notin Encryptions /\ k \notin Ccm
      BY <2>8 DEF Encryptions, Ccm
    <3> QED BY <2>1, <2>8, <3>1, DecryptChachaSound DEF Kf
  <2>9. CASE k = "decrypt AES-128-CCM"
    <3>1. k \notin Encryptions /\ k \in Ccm
      BY <2>9 DEF Encryptions, Ccm
    <3> QED BY <2>1, <2>9, <3>1, DecryptCcmSound DEF Kf
  <2> QED BY <1>2, <2>2, <2>3, <2>4, <2>5, <2>6, <2>7, <2>8, <2>9
<1>3. CASE k \in Signs
  <2>1. \A op : Lost(k, 1, op) = {}
    <3>1. k \notin EcDerives
      BY <1>3 DEF Signs, EcDerives
    <3> QED BY <3>1, FirstKeeps
  <2>2. CASE k = "encrypt EC sign"
    BY <1>3, <2>1, <2>2, EcSignSound DEF Kf
  <2>3. CASE k = "encrypt ECX sign"
    BY <1>3, <2>1, <2>3, EcxSignSound DEF Kf
  <2>4. CASE k = "decrypt EC verify"
    BY <1>3, <2>1, <2>4, EcVerifySound DEF Kf
  <2>5. CASE k = "decrypt ECX verify"
    BY <1>3, <2>1, <2>5, EcxVerifySound DEF Kf
  <2> QED BY <1>3, <2>2, <2>3, <2>4, <2>5 DEF Signs
<1>4. CASE k \in Derives
  <2>2. CASE k = "decrypt EC derive"
    BY <1>4, <2>2, EcDeriveSound DEF Kf
  <2>3. CASE k = "decrypt ECX derive"
    <3>1. k \notin EcDerives
      BY <2>3 DEF EcDerives
    <3>2. \A op : Lost(k, 1, op) = {}
      BY <3>1, FirstKeeps
    <3> QED BY <1>4, <2>3, <3>2, EcxDeriveSound DEF Kf
  <2> QED BY <1>4, <2>2, <2>3 DEF Derives
<1> QED BY <1>1, <1>2, <1>3, <1>4 DEF Kfuns, Signs, Derives

-----------------------------------------------------------------------------
(* A kfun at a call: it has the objects that it kept and those that it got *)
(* in this stage, but for one that is null and has not been looked at yet. *)
Got(q, names) == {p \in names : q[p] # Null}
(* p is null after an allocation that the third call of the stage tests.   *)
Late(st, t, q, p) ==
    q[p] = Null /\ st = StoreStage /\ ((p = "store" /\ t \in {2, 3}) \/ (p = "context" /\ t = 3))
(* Before call t of stage s it has what it kept, own, and what x says.     *)
Has(s, t, st, own, x, q, held, did) ==
    /\ own \subseteq KfunPointers /\ x.own \cup x.nul \subseteq KfunPointers
    /\ held = Things(q, own \cup Got(q, x.own))
    /\ \A p \in own : Object(q, p) /\ (s = 2 => q[p] = <<1, p>>)
    /\ \A p \in x.own : q[p] = <<s, p>> \/ Late(st, t, q, p)
    /\ \A p \in x.nul : q[p] = Null
    /\ x.done \subseteq did
Stands(k, s, t, st, kept, then, at, q, held, did) ==
    /\ Passes(k, s, st, kept, then, at) /\ IsSeq(st.calls) /\ t \in 1 .. Len(st.calls) + 1
    /\ Has(s, t, st, kept.own, at[t], q, held, did)

LEMMA NotNull == ASSUME NEW s, NEW p \in KfunPointers PROVE <<s, p>> # Null
<1>1. p # "null"
  BY ObjectsDiffer
<1>2. <<s, p>> # <<0, "null">>
  BY <1>1
<1> QED BY <1>2 DEF Null

LEMMA LateNext ==
    \A st, t, q, r, p : Late(st, t, q, p) /\ r[p] = q[p] /\ t # 3 => Late(st, t + 1, r, p)
<1> SUFFICES ASSUME NEW st, NEW t, NEW q, NEW r, NEW p, Late(st, t, q, p), r[p] = q[p], t # 3
             PROVE  Late(st, t + 1, r, p)
  OBVIOUS
<1>1. p = "store" /\ t = 2 /\ st = StoreStage /\ q[p] = Null
  BY DEF Late
<1>2. t + 1 = 3
  BY <1>1
<1> QED BY <1>1, <1>2 DEF Late

(* The pointers named are the same in both.                                *)
Agree(q, r, names) == \A p \in names : r[p] = q[p]
LEMMA SameThings ==
    ASSUME NEW q, NEW r, NEW names, Agree(q, r, names) PROVE Things(r, names) = Things(q, names)
<1>1. \A o : o \in Things(r, names) <=> o \in Things(q, names)
  BY DEF Things, Agree
<1> QED BY <1>1

(* A call succeeds.                                                        *)
LEMMA HasNext ==
    ASSUME NEW k, NEW s \in Nat, NEW t \in Nat, NEW st, NEW kept, NEW x, NEW y, NEW c, NEW cleanup,
           NEW q, NEW r, NEW held, NEW did,
           q = [p \in KfunPointers |-> q[p]],
           Has(s, t, st, kept.own, x, q, held, did), CallOK(k, s, cleanup, c, kept, x, y),
           \A p \in x.own : Late(st, t, q, p) => t # 3,
           r = IF c.gets = "" THEN q ELSE [q EXCEPT ![c.gets] = <<s, c.gets>>]
    PROVE  Has(s, t + 1, st, kept.own, y, r,
               (held \cup IF c.gets = "" THEN {} ELSE {<<s, c.gets>>}) \ IF c.moves THEN {r[c.held]} ELSE {},
               did \cup {c.op})
<1> DEFINE own == kept.own
           names == own \cup Got(q, x.own)
           held2 == (held \cup IF c.gets = "" THEN {} ELSE {<<s, c.gets>>}) \ IF c.moves THEN {r[c.held]} ELSE {}
<1>0. \A p : q[p] = <<s, p>> => Object(q, p)
  <2>1. \A p : <<s, p>> \in Nat \X {p}
    OBVIOUS
  <2> QED BY <2>1 DEF Object
<1>1. /\ own \subseteq KfunPointers /\ x.own \cup x.nul \subseteq KfunPointers
      /\ held = Things(q, names)
      /\ \A p \in own : Object(q, p) /\ (s = 2 => q[p] = <<1, p>>)
      /\ \A p \in x.own : q[p] = <<s, p>> \/ Late(st, t, q, p)
      /\ \A p \in x.nul : q[p] = Null
      /\ x.done \subseteq did
  BY DEF Has
<1>2. /\ c.gets = "" \/ c.gets \in KfunPointers \ (own \cup x.own)
      /\ c.moves => c.gets = "" /\ c.held \in x.own \ own
      /\ y.own = IF c.moves THEN x.own \ {c.held} ELSE x.own \cup ({c.gets} \ {""})
      /\ y.nul \subseteq x.nul \ {c.gets}
      /\ y.done \subseteq x.done \cup IF c.checked = "later" THEN {} ELSE {c.op}
  BY DEF CallOK
<1>3. y.done \subseteq did \cup {c.op}
  BY <1>1, <1>2
<1>4. \A p : Late(st, t, q, p) /\ r[p] = q[p] /\ t # 3 => Late(st, t + 1, r, p)
  BY LateNext
<1>5. \A p \in names : p \in KfunPointers /\ Object(q, p)
  <2>1. \A p \in Got(q, x.own) : p \in x.own /\ q[p] = <<s, p>>
    BY <1>1 DEF Got, Late
  <2> QED BY <1>1, <1>0, <2>1
<1>6. CASE c.gets # ""
  <2>1. PICK g : g = c.gets
    OBVIOUS
  <2>2. g \in KfunPointers /\ g \notin own /\ g \notin x.own /\ ~c.moves /\ {g} \ {""} = {g}
    BY <1>2, <1>6, <2>1
  <2>3. y.own = x.own \cup {g} /\ held2 = held \cup {<<s, g>>} /\ r = [q EXCEPT ![g] = <<s, g>>]
    BY <1>2, <1>6, <2>1, <2>2
  <2>4. r[g] = <<s, g>> /\ \A p \in KfunPointers : p # g => r[p] = q[p]
    BY <2>2, <2>3
  <2> HIDE DEF held2, names
  <2>5. Got(r, y.own) = Got(q, x.own) \cup {g}
    <3>0. <<s, g>> # Null
      BY <2>2, NotNull
    <3>1. r[g] # Null
      BY <2>4, <3>0
    <3>2. \A p \in x.own : r[p] = q[p]
      BY <1>1, <2>2, <2>4
    <3> QED BY <2>3, <3>1, <3>2 DEF Got
  <2>6. \A p \in names : r[p] = q[p]
    BY <1>5, <2>2, <2>4 DEF names, Got
  <2>7. held2 = Things(r, own \cup Got(r, y.own))
    <3>1. own \cup Got(r, y.own) = names \cup {g}
      BY <2>5 DEF names
    <3>2. Things(r, names \cup {g}) = Things(q, names) \cup {<<s, g>>}
      <4>1. Things(r, names) = Things(q, names)
        <5>1. Agree(q, r, names)
          BY <2>6 DEF Agree
        <5> QED BY <5>1, SameThings
      <4>2. Things(r, names \cup {g}) = Things(r, names) \cup {r[g]}
        BY DEF Things
      <4> QED BY <2>4, <4>1, <4>2
    <3> QED BY <1>1, <2>3, <3>1, <3>2
  <2>8. \A p \in own : Object(r, p) /\ (s = 2 => r[p] = <<1, p>>)
    <3>1. \A p \in own : r[p] = q[p]
      BY <1>1, <2>2, <2>4
    <3> QED BY <1>1, <3>1 DEF Object
  <2>9. \A p \in y.own : r[p] = <<s, p>> \/ Late(st, t + 1, r, p)
    <3> TAKE p \in y.own
    <3>1. CASE p = g
      BY <2>4, <3>1
    <3>2. CASE p # g
      <4>1. p \in x.own /\ r[p] = q[p]
        BY <1>1, <2>3, <2>4, <3>2
      <4> QED BY <1>1, <1>4, <4>1
    <3> QED BY <3>1, <3>2
  <2>10. \A p \in y.nul : r[p] = Null
    <3> TAKE p \in y.nul
    <3>1. p \in x.nul /\ p # g
      BY <1>2, <2>1
    <3>2. q[p] = Null
      BY <1>1, <3>1
    <3>3. r[p] = q[p]
      BY <1>1, <2>4, <3>1
    <3> QED BY <3>2, <3>3
  <2>11. y.own \cup y.nul \subseteq KfunPointers
    BY <1>1, <1>2, <2>2, <2>3
  <2> QED BY <1>1, <1>3, <2>7, <2>8, <2>9, <2>10, <2>11 DEF Has, held2
<1>7. CASE c.gets = ""
  <2>1. r = q /\ y.nul \subseteq x.nul
    BY <1>2, <1>7
  <2>2. held2 = held \ IF c.moves THEN {q[c.held]} ELSE {}
    BY <1>7, <2>1
  <2>3. y.own = IF c.moves THEN x.own \ {c.held} ELSE x.own
    <3>1. x.own \cup ({c.gets} \ {""}) = x.own
      BY <1>7
    <3> QED BY <1>2, <3>1
  <2> HIDE DEF held2, names
  <2>4. y.own \subseteq x.own /\ y.own \cup y.nul \subseteq KfunPointers
    BY <1>1, <2>1, <2>3
  <2>5. held2 = Things(q, own \cup Got(q, y.own))
    <3>1. CASE c.moves
      <4>1. PICK h : h = c.held
        OBVIOUS
      <4>2. h \in x.own /\ h \notin own /\ h \in KfunPointers /\ y.own = x.own \ {h} /\ held2 = held \ {q[h]}
        BY <1>1, <1>2, <2>2, <2>3, <3>1, <4>1
      <4>3. own \cup Got(q, y.own) = names \ {h}
        BY <4>2 DEF names, Got
      <4>4. \A p \in names : p # h => q[p] # q[h]
        <5> TAKE p \in names
        <5> HAVE p # h
        <5>1. Object(q, p) /\ q[p] # Null
          BY <1>5, ObjectsDiffer
        <5>2. q[h] = Null \/ Object(q, h)
          BY <1>0, <1>1, <4>2 DEF Late
        <5> QED BY <5>1, <5>2, ObjectsDiffer
      <4>5. Things(q, names) \ {q[h]} = Things(q, names \ {h})
        BY <4>4 DEF Things
      <4> QED BY <1>1, <4>2, <4>3, <4>5
    <3>2. CASE ~c.moves
      <4>1. y.own = x.own /\ held2 = held
        BY <2>2, <2>3, <3>2
      <4> QED BY <1>1, <4>1 DEF names
    <3> QED BY <3>1, <3>2
  <2>6. \A p \in y.own : q[p] = <<s, p>> \/ Late(st, t + 1, q, p)
    BY <1>1, <1>4, <2>1, <2>4
  <2>7. \A p \in y.nul : q[p] = Null
    BY <1>1, <2>1
  <2>8. Has(s, t + 1, st, own, y, q, held2, did \cup {c.op})
    BY <1>1, <1>3, <2>4, <2>5, <2>6, <2>7 DEF Has
  <2> QED BY <2>1, <2>8 DEF held2
<1> QED BY <1>6, <1>7

LEMMA LateIs ==
    \A q, p : q[p] = Null =>
      (p = "store" => Late(StoreStage, 2, q, p)) /\ (p = "context" => Late(StoreStage, 3, q, p))
BY DEF Late

(* A call fails that is looked at later.                                   *)
LEMMA HasIgnored ==
    ASSUME NEW s \in Nat, NEW t, NEW st, NEW own, NEW x, NEW y, NEW g, NEW q, NEW r, NEW held, NEW did,
           st = StoreStage, (t = 1 /\ g = "store") \/ (t = 2 /\ g = "context"),
           g \in KfunPointers, g \notin own \cup x.own,
           y.own = x.own \cup {g}, y.nul \subseteq x.nul \ {g}, y.done \subseteq x.done,
           q = [p \in KfunPointers |-> q[p]], Has(s, t, st, own, x, q, held, did),
           r = [q EXCEPT ![g] = Null]
    PROVE  Has(s, t + 1, st, own, y, r, held, did)
<1>1. /\ own \subseteq KfunPointers /\ x.own \cup x.nul \subseteq KfunPointers
      /\ held = Things(q, own \cup Got(q, x.own))
      /\ \A p \in own : Object(q, p) /\ (s = 2 => q[p] = <<1, p>>)
      /\ \A p \in x.own : q[p] = <<s, p>> \/ Late(st, t, q, p)
      /\ \A p \in x.nul : q[p] = Null
      /\ x.done \subseteq did
  BY DEF Has
<1>2. r[g] = Null /\ \A p \in KfunPointers : p # g => r[p] = q[p]
  OBVIOUS
<1>3. \A p \in own \cup x.own : p # g /\ r[p] = q[p]
  BY <1>1, <1>2
<1>4. Got(r, y.own) = Got(q, x.own)
  BY <1>2, <1>3 DEF Got
<1>5. held = Things(r, own \cup Got(r, y.own))
  <2>1. PICK names : names = own \cup Got(q, x.own)
    OBVIOUS
  <2>2. \A p \in names : p \in own \cup x.own
    BY <2>1 DEF Got
  <2>3. Agree(q, r, names)
    BY <1>3, <2>2 DEF Agree
  <2>4. Things(r, names) = Things(q, names)
    BY <2>3, SameThings
  <2>5. names = own \cup Got(r, y.own)
    BY <1>4, <2>1
  <2> QED BY <1>1, <2>1, <2>4, <2>5
<1>6. \A p \in own : Object(r, p) /\ (s = 2 => r[p] = <<1, p>>)
  BY <1>1, <1>3 DEF Object
<1>7. \A p \in y.own : r[p] = <<s, p>> \/ Late(st, t + 1, r, p)
  <2> TAKE p \in y.own
  <2>1. (t = 1 => t + 1 = 2) /\ (t = 2 => t + 1 = 3)
    OBVIOUS
  <2>2. CASE p = g
    <3>1. r[p] = Null
      BY <1>2, <2>2
    <3> QED BY <2>1, <2>2, <3>1, LateIs
  <2>3. CASE p # g
    <3>1. p \in x.own /\ r[p] = q[p]
      BY <1>3, <2>3
    <3>2. Late(st, t, q, p) => Late(st, t + 1, r, p)
      BY <2>1, <3>1 DEF Late
    <3> QED BY <1>1, <3>1, <3>2
  <2> QED BY <2>2, <2>3
<1>8. \A p \in y.nul : r[p] = Null
  BY <1>1, <1>2
<1>9. y.own \cup y.nul \subseteq KfunPointers /\ y.done \subseteq did
  BY <1>1
<1> QED BY <1>1, <1>5, <1>6, <1>7, <1>8, <1>9 DEF Has

(* There is no null pointer that is looked at later.                       *)
Firm(st, t, q, x) == \A p \in x.own : ~Late(st, t, q, p)

(* With nothing to look at later, it owns what it has.                     *)
Owns(s, names, x, q, held) ==
    /\ held = Things(q, names) /\ names \subseteq KfunPointers
    /\ \A p \in names : Object(q, p)
    /\ \A p \in x.own : q[p] = <<s, p>>

LEMMA Owning ==
    ASSUME NEW s \in Nat, NEW t, NEW st, NEW own, NEW x, NEW q, NEW held, NEW did,
           Has(s, t, st, own, x, q, held, did), Firm(st, t, q, x)
    PROVE  Owns(s, own \cup x.own, x, q, held)
<1>1. /\ own \subseteq KfunPointers /\ x.own \cup x.nul \subseteq KfunPointers
      /\ held = Things(q, own \cup Got(q, x.own))
      /\ \A p \in own : Object(q, p)
      /\ \A p \in x.own : q[p] = <<s, p>> \/ Late(st, t, q, p)
  BY DEF Has
<1>2. \A p \in x.own : q[p] = <<s, p>>
  BY <1>1 DEF Firm
<1>3. \A p \in x.own : <<s, p>> # Null /\ <<s, p>> \in Nat \X {p}
  BY <1>1, NotNull
<1>4. Got(q, x.own) = x.own
  BY <1>2, <1>3 DEF Got
<1>5. \A p \in x.own : Object(q, p)
  BY <1>2, <1>3 DEF Object
<1> QED BY <1>1, <1>2, <1>4, <1>5 DEF Owns

(* Freeing the chains of r leaves what remains, which r has as q had it.   *)
Freed(names, q, r, held, chains, remains) ==
    /\ FreeAll([owned |-> held, fault |-> "none"], r, chains) = [owned |-> Things(r, remains), fault |-> "none"]
    /\ remains \subseteq names
    /\ \A p \in remains : r[p] = q[p]

(* It frees chains after a call that may have set a pointer to null.       *)
LEMMA Freeing ==
    ASSUME NEW s \in Nat, NEW t, NEW st, NEW own, NEW x, NEW q, NEW r, NEW held, NEW did, NEW none, NEW chains, NEW remains,
           Has(s, t, st, own, x, q, held, did), Firm(st, t, q, x),
           none \subseteq KfunPointers \ (own \cup x.own),
           \A p \in KfunPointers : r[p] = IF p \in none THEN Null ELSE q[p],
           Cleans(chains, own \cup x.own, x.nul \cup none, remains)
    PROVE  Freed(own \cup x.own, q, r, held, chains, remains)
<1> DEFINE names == own \cup x.own
           nulls == x.nul \cup none
<1>1. /\ held = Things(q, names) /\ names \subseteq KfunPointers
      /\ \A p \in names : Object(q, p)
  <2>1. Owns(s, own \cup x.own, x, q, held)
    BY Owning
  <2> QED BY <2>1 DEF Owns
<1>2. \A p \in x.nul : p \in KfunPointers /\ q[p] = Null
  BY DEF Has
<1>3. \A p \in names : r[p] = q[p]
  BY <1>1
<1>4. \A p \in nulls : r[p] = Null
  BY <1>2
<1> HIDE DEF names, nulls
<1>5. held = Things(r, names)
  <2>1. Agree(q, r, names)
    BY <1>3 DEF Agree
  <2> QED BY <1>1, <2>1, SameThings
<1>6. \A p \in names : Object(r, p)
  BY <1>1, <1>3 DEF Object
<1>7. Cleans(chains, names, nulls, remains)
  BY DEF names, nulls
<1>8. FreeAll([owned |-> Things(r, names), fault |-> "none"], r, chains) = [owned |-> Things(r, remains), fault |-> "none"]
  BY <1>1, <1>4, <1>6, <1>7, FreeThings
<1>9. remains \subseteq names
  BY <1>7 DEF Cleans
<1> QED BY <1>3, <1>5, <1>8, <1>9 DEF names, Freed
-----------------------------------------------------------------------------
(* If some of the objects that chains of one pointer would free are not    *)
(* there, their pointers null, the chains free the others.                 *)
LEMMA FewerSingles ==
    ASSUME NEW l, IsSeq(l), \A i, j \in 1 .. Len(l) : l[i] = l[j] => i = j,
           NEW names \in SUBSET KfunPointers, NEW nulls, NEW gone, Cleans(Chains(l), names, nulls, {})
    PROVE  Cleans(Chains(l), names \ gone, nulls \cup gone, {})
<1> DEFINE size == Len(l)
           c == Chains(l)
<1>1. size \in Nat /\ DOMAIN l = 1 .. size
  BY SeqDomain
<1>2. c = [i \in 1 .. size |-> <<l[i]>>]
  BY <1>1 DEF Chains
<1>3. Len(c) = size
  <2>1. c = [i \in 1 .. size |-> c[i]]
    BY <1>2
  <2> HIDE DEF c, size
  <2> QED BY <1>1, <2>1, OfFunction
<1>4. \A i \in 1 .. size : DOMAIN c[i] = 1 .. 1 /\ c[i][1] = l[i]
  <2> TAKE i \in 1 .. size
  <2>1. c[i] = <<l[i]>>
    BY <1>2
  <2>2. IsSeq(<<l[i]>>) /\ Len(<<l[i]>>) = 1 /\ <<l[i]>>[1] = l[i]
    BY Tuples
  <2> HIDE DEF c
  <2> QED BY <2>1, <2>2, SeqDomain
<1> HIDE DEF c
<1>5. PICK w : Picks(w, c, names, nulls) /\ {} = names \ {w[i] : i \in 1 .. size}
  BY <1>3 DEF Cleans, c
<1>6. \A i \in 1 .. size : (w[i] = l[i] /\ l[i] \in names) \/ (w[i] \notin names /\ l[i] \in nulls)
  <2> TAKE i \in 1 .. size
  <2>1. 1 \in DOMAIN c[i] /\ c[i][1] = l[i] /\ \A j \in DOMAIN c[i] : j = 1
    BY <1>4
  <2>2. "" \notin names
    BY ObjectsDiffer
  <2>3. w[i] = "" => l[i] \in nulls
    BY <1>3, <1>5, <2>1 DEF Picks
  <2>4. w[i] # "" => w[i] \in names /\ \E j \in DOMAIN c[i] : c[i][j] = w[i]
    BY <1>3, <1>5 DEF Picks
  <2> QED BY <2>1, <2>2, <2>3, <2>4
<1>7. \A i \in 1 .. size : l[i] \in (names \ gone) \cup (nulls \cup gone)
  BY <1>6
<1>8. \A p \in names : \E i \in 1 .. size : p = l[i]
  BY <1>5, <1>6
<1>9. Cleans(Chains(l), names \ gone, nulls \cup gone, (names \ gone) \ {l[i] : i \in 1 .. Len(l)})
  <2>1. names \ gone \in SUBSET KfunPointers
    OBVIOUS
  <2>2. \A i \in 1 .. Len(l) : l[i] \in (names \ gone) \cup (nulls \cup gone)
    BY <1>7
  <2> QED BY <2>1, <2>2, Singles
<1>10. (names \ gone) \ {l[i] : i \in 1 .. Len(l)} = {}
  BY <1>8
<1> QED BY <1>9, <1>10

(* A pointer that is looked at later is null.                              *)
LEMMA FreeingLater ==
    ASSUME NEW s \in Nat, NEW t, NEW st, NEW own, NEW x, NEW q, NEW held, NEW did,
           Has(s, t, st, own, x, q, held, did), Cleans(VerifyAll, own \cup x.own, x.nul, {})
    PROVE  FreeAll([owned |-> held, fault |-> "none"], q, VerifyAll) = [owned |-> {}, fault |-> "none"]
<1> DEFINE all == own \cup x.own
           gone == {p \in x.own : q[p] = Null}
           names == all \ gone
           nulls == x.nul \cup gone
           l == <<"context", "store", "stack", "certificate">>
<1>1. /\ all \in SUBSET KfunPointers
      /\ held = Things(q, own \cup Got(q, x.own))
      /\ \A p \in own : p \in KfunPointers /\ Object(q, p)
      /\ \A p \in x.own : q[p] = <<s, p>> \/ Late(st, t, q, p)
      /\ \A p \in x.nul : q[p] = Null
  BY DEF Has
<1>2. own \cup Got(q, x.own) = names
  <2>1. \A p \in own : q[p] # Null
    BY <1>1, ObjectsDiffer
  <2> QED BY <2>1 DEF Got
<1>3. \A p \in names : Object(q, p)
  <2>1. \A p : <<s, p>> \in Nat \X {p}
    OBVIOUS
  <2>2. \A p \in names : p \in own \/ q[p] = <<s, p>>
    BY <1>1 DEF Late
  <2> HIDE DEF names
  <2> QED BY <1>1, <2>1, <2>2 DEF Object
<1>4. \A p \in nulls : q[p] = Null
  BY <1>1
<1>5. Cleans(VerifyAll, names, nulls, {})
  <2>1. IsSeq(l) /\ Len(l) = 4
    <3>1. l \in Seq({"context", "store", "stack", "certificate"}) /\ Len(l) = 4
      OBVIOUS
    <3> QED BY <3>1 DEF IsSeq
  <2>2. l[1] = "context" /\ l[2] = "store" /\ l[3] = "stack" /\ l[4] = "certificate"
    OBVIOUS
  <2>3. \A i \in 1 .. 4 : i = 1 \/ i = 2 \/ i = 3 \/ i = 4
    OBVIOUS
  <2>4. VerifyAll = Chains(l)
    BY DEF VerifyAll
  <2> HIDE DEF l, all, gone
  <2>5. \A i, j \in 1 .. Len(l) : l[i] = l[j] => i = j
    BY <2>1, <2>2, <2>3
  <2>6. Cleans(Chains(l), all, x.nul, {})
    BY <2>4 DEF all
  <2>7. Cleans(Chains(l), all \ gone, x.nul \cup gone, {})
    BY <1>1, <2>1, <2>5, <2>6, FewerSingles
  <2> QED BY <2>4, <2>7
<1> HIDE DEF names, nulls
<1>6. names \in SUBSET KfunPointers
  BY <1>1 DEF names
<1>7. FreeAll([owned |-> Things(q, names), fault |-> "none"], q, VerifyAll) = [owned |-> Things(q, {}), fault |-> "none"]
  BY <1>3, <1>4, <1>5, <1>6, FreeThings
<1>8. Things(q, {}) = {}
  BY DEF Things
<1> QED BY <1>1, <1>2, <1>7, <1>8

(* What is lost are objects of the first stage.                            *)
LEMMA LostThings ==
    ASSUME NEW k, NEW s \in Nat, NEW t, NEW st, NEW own, NEW x, NEW q, NEW r, NEW held, NEW did, NEW op,
           Has(s, t, st, own, x, q, held, did), Firm(st, t, q, x), s = 1 => own = {}, s = 2 => Lost(k, 2, op) \subseteq own,
           Lost(k, s, op) \subseteq own \cup x.own, \A p \in Lost(k, s, op) : r[p] = q[p]
    PROVE  Things(r, Lost(k, s, op)) = {<<1, p>> : p \in Lost(k, s, op)}
<1>1. CASE s = 1
  <2>1. Owns(s, own \cup x.own, x, q, held)
    BY Owning
  <2>2. \A p \in Lost(k, s, op) : r[p] = <<1, p>>
    BY <1>1, <2>1 DEF Owns
  <2> QED BY <2>2 DEF Things
<1>2. CASE s = 2
  <2>1. \A p \in own : q[p] = <<1, p>>
    BY <1>2 DEF Has
  <2>2. \A p \in Lost(k, s, op) : r[p] = <<1, p>>
    BY <1>2, <2>1
  <2> QED BY <2>2 DEF Things
<1>3. CASE s # 1 /\ s # 2
  <2>1. Lost(k, s, op) = {}
    BY <1>3 DEF Lost
  <2> QED BY <2>1 DEF Things
<1> QED BY <1>1, <1>2, <1>3

(* A stage is entered.                                                     *)
LEMMA Entered ==
    ASSUME NEW k, NEW s \in Nat, NEW st, NEW kept, NEW then, NEW at, NEW q, NEW r, NEW held, NEW did,
           Passes(k, s, st, kept, then, at), IsSeq(st.calls),
           kept.own \cup st.nulls \subseteq KfunPointers, st.nulls \cap kept.own = {},
           held = Things(q, kept.own), \A p \in kept.own : Object(q, p) /\ (s = 2 => q[p] = <<1, p>>),
           kept.done \subseteq did,
           r = [p \in KfunPointers |-> IF p \in st.nulls THEN Null ELSE q[p]]
    PROVE  Stands(k, s, 1, st, kept, then, at, r, held, did)
<1>1. at[1].own = {} /\ at[1].nul \subseteq st.nulls /\ at[1].done \subseteq kept.done
  BY DEF Passes
<1>2. \A p \in kept.own : r[p] = q[p]
  OBVIOUS
<1>3. \A p \in at[1].nul : r[p] = Null
  BY <1>1
<1>4. held = Things(r, kept.own)
  <2>1. Agree(q, r, kept.own)
    BY <1>2 DEF Agree
  <2> QED BY <2>1, SameThings
<1>5. \A p \in kept.own : Object(r, p) /\ (s = 2 => r[p] = <<1, p>>)
  BY <1>2 DEF Object
<1>6. kept.own \cup Got(r, at[1].own) = kept.own
  BY <1>1 DEF Got
<1>7. /\ kept.own \subseteq KfunPointers /\ at[1].own \cup at[1].nul \subseteq KfunPointers
      /\ at[1].done \subseteq did
  BY <1>1
<1>8. Has(s, 1, st, kept.own, at[1], r, held, did)
  BY <1>1, <1>3, <1>4, <1>5, <1>6, <1>7 DEF Has
<1>9. 1 \in 1 .. Len(st.calls) + 1
  <2>1. Len(st.calls) \in Nat
    BY SeqDomain
  <2> QED BY <2>1
<1> QED BY <1>8, <1>9 DEF Stands
-----------------------------------------------------------------------------
(* The last stage of verify_certificate.                                   *)
LEMMA StoreUses ==
    /\ \A i \in 1 .. 5 : ~StoreStage.calls[i].moves
    /\ StoreStage.calls[1].uses = {} /\ StoreStage.calls[2].uses = {}
    /\ StoreStage.cleanup = VerifyAll
<1> DEFINE c == <<NewLater("X509_STORE_new", "store"), NewLater("X509_STORE_CTX_new", "context"),
                  Do("X509_STORE_set_default_paths", {"store"}),
                  Do("X509_STORE_CTX_init", {"context", "store", "certificate", "stack"}),
                  Do("X509_STORE_CTX_set_purpose", {"context"})>>
<1>1. \A op, p : NewLater(op, p).uses = {} /\ NewLater(op, p).moves = FALSE
  BY DEF NewLater, Call
<1>2. \A op, uses : Do(op, uses).moves = FALSE
  BY DEF Do, Call
<1>3. StoreStage.calls = c /\ StoreStage.cleanup = VerifyAll
  BY DEF StoreStage, Stage
<1>4. c[1].uses = {} /\ c[2].uses = {} /\ c[1].moves = FALSE /\ c[2].moves = FALSE
  BY <1>1
<1>5. c[3].moves = FALSE /\ c[4].moves = FALSE /\ c[5].moves = FALSE
  <2>1. c[3].moves = FALSE
    BY <1>2
  <2>2. c[4].moves = FALSE
    BY <1>2
  <2>3. c[5].moves = FALSE
    BY <1>2
  <2> QED BY <2>1, <2>2, <2>3
<1>6. \A i \in 1 .. 5 : i = 1 \/ i = 2 \/ i = 3 \/ i = 4 \/ i = 5
  OBVIOUS
<1> HIDE DEF c
<1> QED BY <1>3, <1>4, <1>5, <1>6

(* A call with a result that is checked at once, or that uses something,   *)
(* is made when there is nothing left to look at.                          *)
LEMMA Settled ==
    ASSUME NEW t, NEW st, NEW q, NEW x,
           st = StoreStage /\ t = 3 => q["store"] # Null /\ q["context"] # Null, st = StoreStage => t # 2
    PROVE  Firm(st, t, q, x)
BY DEF Firm, Late

LEMMA BlameNone ==
    /\ Blame([fault |-> "none"], "none").fault = "none"
    /\ \A own : Blame([owned |-> own, fault |-> "none"], "none") = [owned |-> own, fault |-> "none"]
<1>1. Blame([fault |-> "none"], "none").fault = "none"
  BY DEF Blame
<1>2. ASSUME NEW own PROVE Blame([owned |-> own, fault |-> "none"], "none") = [owned |-> own, fault |-> "none"]
  BY DEF Blame
<1> QED BY <1>1, <1>2

LEMMA NotWrong ==
    ASSUME NEW uses, NEW op,
           \A p \in uses : p \in KfunPointers /\ Object(ptr, p) /\ ptr[p] \in owned,
           Asks(kfun, op) \subseteq made
    PROVE  Wrong(uses, op) = "none"
<1>1. \A p \in uses : ptr[p] \notin {Null, Unset}
  BY ObjectsDiffer
<1>2. \A p \in uses : ptr[p] \in Live(owned)
  BY DEF Live, Held
<1> QED BY <1>1, <1>2 DEF Wrong

(* What a kfun has that runs.                                              *)
Runs(k, kf, kept, s, t, q, held, did) ==
    \/ /\ s \in 1 .. Len(kf.stages)
       /\ \E at : Stands(k, s, t, kf.stages[s], kept[s], kept[s + 1], at, q, held, did)
    \/ /\ s = Len(kf.stages) + 1
       /\ held = Things(q, kept[s].own) /\ \A p \in kept[s].own : Object(q, p)
       /\ kept[s].done \subseteq did

(* Nothing is wrong, and there is nothing but what the kfun has to have.   *)
SoundInv ==
    /\ fault = "none"
    /\ answer # "" => owned = Forgotten
    /\ kfun = "none" => stage = 0 /\ answer = ""
    /\ stage = 0 => owned = {}
    /\ Running /\ stage # 0 =>
         \E kept : Sound(kfun, This, kept) /\ Runs(kfun, This, kept, stage, step, ptr, owned, made)

LEMMA EnterRuns ==
    ASSUME NEW k, NEW kf, NEW kept, NEW s \in Nat, NEW q, NEW r, NEW held, NEW did,
           Sound(k, kf, kept), IsSeq(kf.stages), s \in 1 .. Len(kf.stages) + 1,
           held = Things(q, kept[s].own), \A p \in kept[s].own : Object(q, p) /\ (s = 2 => q[p] = <<1, p>>),
           kept[s].done \subseteq did,
           r = IF s \in DOMAIN kf.stages
                 THEN [p \in KfunPointers |-> IF p \in kf.stages[s].nulls THEN Null ELSE q[p]] ELSE q
    PROVE  Runs(k, kf, kept, s, 1, r, held, did)
<1>1. Len(kf.stages) \in Nat /\ DOMAIN kf.stages = 1 .. Len(kf.stages)
  BY SeqDomain
<1>2. CASE s \in 1 .. Len(kf.stages)
  <2>1. PICK st : st = kf.stages[s]
    OBVIOUS
  <2>2. PICK e, f : e = kept[s] /\ f = kept[s + 1]
    OBVIOUS
  <2>3. StageOK(k, s, st, e, f)
    BY <1>2, <2>1, <2>2 DEF Sound
  <2>4. PICK at : Passes(k, s, st, e, f, at)
    BY <2>3 DEF StageOK
  <2>5. r = [p \in KfunPointers |-> IF p \in st.nulls THEN Null ELSE q[p]]
    BY <1>1, <1>2, <2>1
  <2>6. Stands(k, s, 1, st, e, f, at, r, held, did)
    BY <2>2, <2>3, <2>4, <2>5, Entered DEF StageOK
  <2> QED BY <1>2, <2>1, <2>2, <2>6 DEF Runs
<1>3. CASE s = Len(kf.stages) + 1
  <2>1. r = q
    BY <1>1, <1>3
  <2> QED BY <1>3, <2>1 DEF Runs
<1> QED BY <1>1, <1>2, <1>3

(* What is forgotten, in terms of the call that failed.                    *)
LeftBy(k, s, failed) ==
    CASE k \in Signs /\ s = 2 -> {<<1, "key">>}
      [] k \in Derives /\ s = 2 -> {<<1, "context">>}
      [] k \in EcDerives /\ s = 1 /\ "EVP_PKEY_assign_EC_KEY" \in failed -> {<<1, "ec">>}
      [] OTHER -> {}

LEMMA ForgottenIs ==
    /\ Forgotten = LeftBy(kfun, stage, refused)
    /\ Forgotten' = LeftBy(kfun', stage', refused')
<1>1. Forgotten = LeftBy(kfun, stage, refused)
  BY DEF Forgotten, LeftBy, Signs, Derives, EcDerives
<1>2. Forgotten' = LeftBy(kfun', stage', refused')
  BY DEF Forgotten, LeftBy, Signs, Derives, EcDerives
<1> QED BY <1>1, <1>2

LEMMA LeftIs ==
    ASSUME NEW k, NEW s, NEW failed
    PROVE  /\ (\A op : Lost(k, s, op) = {}) => LeftBy(k, s, failed) = {}
           /\ s = 0 => LeftBy(k, s, failed) = {}
           /\ \A op : failed = {op} => LeftBy(k, s, failed) = {<<1, p>> : p \in Lost(k, s, op)}
<1>1. \A op : Lost(k, s, op) = CASE k \in Signs /\ s = 2 -> {"key"}
                    [] k \in Derives /\ s = 2 -> {"context"}
                    [] k \in EcDerives /\ s = 1 /\ op = "EVP_PKEY_assign_EC_KEY" -> {"ec"}
                    [] OTHER -> {}
  BY DEF Lost, EcDerives
<1>2. Signs \cap Derives = {} /\ Signs \cap EcDerives = {}
  BY DEF Signs, Derives, EcDerives
<1>3. CASE k \in Signs /\ s = 2
  BY <1>1, <1>2, <1>3 DEF LeftBy
<1>4. CASE k \in Derives /\ s = 2
  BY <1>1, <1>2, <1>4 DEF LeftBy
<1>5. CASE k \in EcDerives /\ s = 1
  BY <1>1, <1>2, <1>5 DEF LeftBy
<1>6. CASE ~(k \in Signs /\ s = 2) /\ ~(k \in Derives /\ s = 2) /\ ~(k \in EcDerives /\ s = 1)
  BY <1>1, <1>6 DEF LeftBy
<1> QED BY <1>3, <1>4, <1>5, <1>6
-----------------------------------------------------------------------------
(* Where a kfun is in a stage.                                             *)
LEMMA Standing ==
    ASSUME GenuineInv, SoundInv, Running, stage \in DOMAIN This.stages
    PROVE  /\ IsSeq(This.stages) /\ Len(This.stages) \in Nat /\ stage \in 1 .. Len(This.stages)
           /\ \E kept, at :
                /\ Sound(kfun, This, kept)
                /\ Stands(kfun, stage, step, This.stages[stage], kept[stage], kept[stage + 1], at, ptr, owned, made)
<1>1. kfun \in Kfuns /\ args \in Seq(Argument)
  BY Calling
<1>2. IsSeq(This.stages) /\ Len(This.stages) \in Nat /\ stage \in 1 .. Len(This.stages)
  BY <1>1, AtStage DEF This
<1>3. stage # 0 /\ stage # Len(This.stages) + 1
  BY <1>2
<1>4. PICK kept : Sound(kfun, This, kept) /\ Runs(kfun, This, kept, stage, step, ptr, owned, made)
  BY <1>3 DEF SoundInv
<1> QED BY <1>2, <1>3, <1>4 DEF Runs

(* And at a call.                                                          *)
Placed(k, kf, s, t, st, c, kept, at, q, held, did) ==
    /\ Sound(k, kf, kept) /\ IsSeq(kf.stages) /\ Len(kf.stages) \in Nat
    /\ s \in 1 .. Len(kf.stages) /\ st = kf.stages[s]
    /\ Stands(k, s, t, st, kept[s], kept[s + 1], at, q, held, did)
    /\ Len(st.calls) \in Nat /\ t \in 1 .. Len(st.calls) /\ c = st.calls[t]
    /\ CallOK(k, s, st.cleanup, c, kept[s], at[t], at[t + 1])
    /\ Has(s, t, st, kept[s].own, at[t], q, held, did)
LEMMA Placing ==
    ASSUME GenuineInv, SoundInv, Running, AtCall
    PROVE  \E kept, at : Placed(kfun, This, stage, step, This.stages[stage], This.stages[stage].calls[step],
                                kept, at, ptr, owned, made)
<1>1. stage \in DOMAIN This.stages /\ step \in DOMAIN This.stages[stage].calls
  BY DEF AtCall
<1>2. IsSeq(This.stages) /\ Len(This.stages) \in Nat /\ stage \in 1 .. Len(This.stages)
  BY <1>1, Standing
<1>3. PICK kept, at :
        /\ Sound(kfun, This, kept)
        /\ Stands(kfun, stage, step, This.stages[stage], kept[stage], kept[stage + 1], at, ptr, owned, made)
  BY <1>1, Standing
<1>4. PICK st : st = This.stages[stage]
  OBVIOUS
<1>5. IsSeq(st.calls) /\ Passes(kfun, stage, st, kept[stage], kept[stage + 1], at)
      /\ Has(stage, step, st, kept[stage].own, at[step], ptr, owned, made)
  BY <1>3, <1>4 DEF Stands
<1>6. Len(st.calls) \in Nat /\ step \in 1 .. Len(st.calls)
  BY <1>1, <1>4, <1>5, SeqDomain
<1>7. CallOK(kfun, stage, st.cleanup, st.calls[step], kept[stage], at[step], at[step + 1])
  BY <1>5, <1>6 DEF Passes
<1> QED BY <1>2, <1>3, <1>4, <1>5, <1>6, <1>7 DEF Placed

(* The calls that are looked at later are the first two of the last stage  *)
(* of verify_certificate.                                                  *)
LEMMA LaterCalls ==
    ASSUME GenuineInv, Running, AtCall
    PROVE  LET st == This.stages[stage]
           IN  /\ st.calls[step].checked = "later" => st = StoreStage /\ (step = 1 \/ step = 2)
               /\ st = StoreStage => step \in 1 .. 5 /\ kfun = "verify_certificate"
               /\ st # StoreStage => \A i \in 1 .. Len(st.calls) : st.calls[i].checked # "later"
               /\ st.calls[step].checked = "at once" => st.error # ""
<1>1. stage \in DOMAIN This.stages /\ step \in DOMAIN This.stages[stage].calls
  BY DEF AtCall
<1>2. PICK st : st = This.stages[stage]
  OBVIOUS
<1>3. PromptStage(st) \/ (kfun = "verify_certificate" /\ st = StoreStage)
  BY <1>1, <1>2, Calling
<1>4. CASE st = StoreStage
  <2>1. step \in 1 .. 5 /\ \A i \in 1 .. 5 : i \in 3 .. 5 \/ i = 1 \/ i = 2
    <3>1. step \in 1 .. 5
      BY <1>1, <1>2, <1>4, StoreCalls
    <3>2. \A i \in 1 .. 5 : i \in 3 .. 5 \/ i = 1 \/ i = 2
      OBVIOUS
    <3> QED BY <3>1, <3>2
  <2>2. ~PromptStage(st)
    <3>1. 1 \in 1 .. Len(st.calls)
      <4>1. 1 \in 1 .. 5
        OBVIOUS
      <4>2. Len(st.calls) = 5
        BY <1>4, StoreCalls
      <4> QED BY <4>1, <4>2
    <3> QED BY <1>4, <3>1, StoreCalls DEF PromptStage, PromptCalls, Prompt
  <2>3. st.calls[step].checked = "later" => step = 1 \/ step = 2
    BY <1>4, <2>1, StoreCalls
  <2> QED BY <1>2, <1>3, <1>4, <2>1, <2>2, <2>3, StoreCalls
<1>5. CASE st # StoreStage
  <2>1. PromptStage(st)
    BY <1>3, <1>5
  <2>2. step \in 1 .. Len(st.calls)
    BY <1>1, <1>2, <2>1, SeqDomain DEF PromptStage, PromptCalls
  <2>3. \A i \in 1 .. Len(st.calls) : st.calls[i].checked # "later"
    BY <2>1 DEF PromptStage, PromptCalls, Prompt
  <2>4. st.calls[step].checked = "at once" => st.error # ""
    BY <2>1, <2>2 DEF PromptStage, Ignored
  <2> QED BY <1>2, <1>5, <2>2, <2>3, <2>4
<1> QED BY <1>4, <1>5

(* A call is made when there is nothing left to look at, or it uses        *)
(* nothing.                                                                *)
LEMMA Seen ==
    ASSUME GenuineInv, Running, AtCall, ~NullSeen
    PROVE  LET st == This.stages[stage]
           IN  /\ st = StoreStage /\ step = 3 => ptr["store"] # Null /\ ptr["context"] # Null
               /\ (\A x : Firm(st, step, ptr, x)) \/ (st = StoreStage /\ step = 2)
<1>1. PICK st : st = This.stages[stage]
  OBVIOUS
<1>2. ASSUME st = StoreStage, step = 3 PROVE ptr["store"] # Null /\ ptr["context"] # Null
  <2>1. 3 \in 3 .. 5 /\ st.calls[step] = StoreStage.calls[3]
    BY <1>2
  <2>2. st.calls[step].checked = "at once"
    BY <2>1, StoreCalls
  <2>3. 1 \in 1 .. step - 1 /\ 2 \in 1 .. step - 1
    BY <1>2
  <2>4. \A i \in 1 .. step - 1 : ~(st.calls[i].checked = "later" /\ ptr[st.calls[i].gets] = Null)
    BY <1>1, <2>2 DEF NullSeen
  <2> QED BY <1>2, <2>3, <2>4, StoreCalls
<1>3. CASE ~(st = StoreStage /\ step = 2)
  BY <1>1, <1>2, <1>3, Settled
<1>4. CASE st = StoreStage /\ step = 2
  BY <1>1, <1>2, <1>4
<1> QED BY <1>3, <1>4
-----------------------------------------------------------------------------
(* A call is right: it uses objects that are there.                        *)
LEMMA CallRight ==
    ASSUME GenuineInv, SoundInv, Running, AtCall, ~NullSeen
    PROVE  Wrong(This.stages[stage].calls[step].uses, This.stages[stage].calls[step].op) = "none"
<1>1. PICK st, c : st = This.stages[stage] /\ c = st.calls[step]
  OBVIOUS
<1>2. PICK kept, at : Placed(kfun, This, stage, step, st, c, kept, at, ptr, owned, made)
  BY <1>1, Placing
<1>3. PICK own, x : own = kept[stage].own /\ x = at[step]
  OBVIOUS
<1>4. stage \in Nat /\ c.uses \subseteq own \cup x.own /\ Asks(kfun, c.op) \subseteq x.done
      /\ Has(stage, step, st, own, x, ptr, owned, made)
  <2>1. stage \in Nat
    BY <1>2 DEF Placed
  <2>2. c.uses \subseteq own \cup x.own /\ Asks(kfun, c.op) \subseteq x.done
    <3>1. CallOK(kfun, stage, st.cleanup, c, kept[stage], x, at[step + 1])
      BY <1>2, <1>3 DEF Placed
    <3> QED BY <1>3, <3>1 DEF CallOK
  <2>3. Has(stage, step, st, own, x, ptr, owned, made)
    BY <1>2, <1>3 DEF Placed
  <2> QED BY <2>1, <2>2, <2>3
<1>5. Asks(kfun, c.op) \subseteq made
  BY <1>4 DEF Has
<1>6. CASE Firm(st, step, ptr, x)
  <2>1. Owns(stage, own \cup x.own, x, ptr, owned)
    BY <1>4, <1>6, Owning
  <2>2. \A p \in c.uses : p \in KfunPointers /\ Object(ptr, p) /\ ptr[p] \in owned
    BY <1>4, <2>1 DEF Owns, Things
  <2> QED BY <1>1, <1>5, <2>2, NotWrong
<1>7. CASE st = StoreStage /\ step = 2
  <2>1. c.uses = {}
    BY <1>1, <1>7, StoreUses
  <2> QED BY <1>1, <1>5, <2>1, NotWrong
<1> QED BY <1>1, <1>6, <1>7, Seen

(* A call succeeds.                                                        *)
LEMMA SuccessSound == ASSUME GenuineInv, SoundInv, CallSucceeds PROVE SoundInv'
<1>1. Running /\ AtCall /\ ~NullSeen /\ stage # 0 /\ answer = "" /\ kfun # "none" /\ fault = "none"
  <2>1. Running /\ AtCall /\ ~NullSeen
    BY DEF CallSucceeds
  <2>2. stage # 0
    BY <2>1, Standing DEF AtCall
  <2> QED BY <2>1, <2>2 DEF Running, SoundInv
<1>2. PICK k, kf, s, t : k = kfun /\ kf = This /\ s = stage /\ t = step
  OBVIOUS
<1>3. PICK st, c, q, held, did : st = kf.stages[s] /\ c = st.calls[t] /\ q = ptr /\ held = owned /\ did = made
  OBVIOUS
<1>4. PICK kept, at : Placed(k, kf, s, t, st, c, kept, at, q, held, did)
  BY <1>1, <1>2, <1>3, Placing
<1>5. PICK r : r = IF c.gets = "" THEN q ELSE [q EXCEPT ![c.gets] = <<s, c.gets>>]
  OBVIOUS
<1>6. /\ ptr' = r
      /\ owned' = (held \cup IF c.gets = "" THEN {} ELSE {<<s, c.gets>>}) \ IF c.moves THEN {r[c.held]} ELSE {}
      /\ fault' = Blame([fault |-> fault], Wrong(c.uses, c.op)).fault
      /\ made' = did \cup {c.op}
      /\ step' = t + 1
      /\ UNCHANGED <<kfun, args, stage, refused, answer>>
  BY <1>2, <1>3, <1>5 DEF CallSucceeds
<1>7. fault' = "none"
  <2>1. Wrong(c.uses, c.op) = "none"
    BY <1>1, <1>2, <1>3, CallRight
  <2> QED BY <1>1, <1>6, <2>1, BlameNone
<1>8. PICK own, x, y : own = kept[s].own /\ x = at[t] /\ y = at[t + 1]
  OBVIOUS
<1>9. Has(s, t + 1, st, kept[s].own, at[t + 1], ptr', owned', made')
  <2>1. s \in Nat /\ t \in Nat
    BY <1>4 DEF Placed
  <2>2. q = [p \in KfunPointers |-> q[p]]
    BY <1>3 DEF GenuineInv, CallTypes
  <2>3. \A p \in x.own : Late(st, t, q, p) => t # 3
    <3>1. st = StoreStage /\ t = 3 => q["store"] # Null /\ q["context"] # Null
      BY <1>1, <1>2, <1>3, Seen
    <3> QED BY <3>1 DEF Late
  <2>4. PICK e, cleanup : e = kept[s] /\ cleanup = st.cleanup
    OBVIOUS
  <2>5. Has(s, t, st, e.own, x, q, held, did) /\ CallOK(k, s, cleanup, c, e, x, y)
    BY <1>4, <1>8, <2>4 DEF Placed
  <2>6. Has(s, t + 1, st, e.own, y, r,
            (held \cup IF c.gets = "" THEN {} ELSE {<<s, c.gets>>}) \ IF c.moves THEN {r[c.held]} ELSE {},
            did \cup {c.op})
    BY <1>5, <2>1, <2>2, <2>3, <2>5, HasNext
  <2> QED BY <1>6, <1>8, <2>4, <2>6
<1>10. Stands(k, s, t + 1, st, kept[s], kept[s + 1], at, ptr', owned', made')
  <2>1. t + 1 \in 1 .. Len(st.calls) + 1
    BY <1>4 DEF Placed
  <2>2. Passes(k, s, st, kept[s], kept[s + 1], at) /\ IsSeq(st.calls)
    BY <1>4 DEF Placed, Stands
  <2> QED BY <1>9, <2>1, <2>2 DEF Stands
<1>11. Runs(k, kf, kept, s, t + 1, ptr', owned', made')
  <2>1. s \in 1 .. Len(kf.stages) /\ st = kf.stages[s]
    BY <1>4 DEF Placed
  <2> QED BY <1>10, <2>1 DEF Runs
<1>12. This' = kf /\ kfun' = k /\ stage' = s
  BY <1>2, <1>6 DEF This
<1>13. Sound(k, kf, kept)
  BY <1>4 DEF Placed
<1>14. \E e : Sound(kfun', This', e) /\ Runs(kfun', This', e, stage', step', ptr', owned', made')
  BY <1>6, <1>11, <1>12, <1>13
<1> QED BY <1>1, <1>6, <1>7, <1>14 DEF SoundInv
(* A call fails, and the error exit frees what there is.                   *)
LEMMA FailSound == ASSUME GenuineInv, SoundInv, CallFails PROVE SoundInv'
<1>1. /\ Running /\ AtCall /\ ~NullSeen /\ stage # 0 /\ answer = "" /\ kfun # "none" /\ fault = "none"
      /\ This.stages[stage].calls[step].checked = "at once"
  <2>1. Running /\ AtCall /\ ~NullSeen /\ This.stages[stage].calls[step].checked = "at once"
    BY DEF CallFails
  <2>2. stage # 0
    <3>1. stage \in DOMAIN This.stages
      BY <2>1 DEF AtCall
    <3>2. stage \in 1 .. Len(This.stages) /\ Len(This.stages) \in Nat
      BY <2>1, <3>1, Standing
    <3> QED BY <3>2
  <2> QED BY <2>1, <2>2 DEF Running, SoundInv
<1>2. PICK k, kf, s, t : k = kfun /\ kf = This /\ s = stage /\ t = step
  OBVIOUS
<1>3. PICK st, c, q, held, did : st = kf.stages[s] /\ c = st.calls[t] /\ q = ptr /\ held = owned /\ did = made
  OBVIOUS
<1>4. PICK kept, at : Placed(k, kf, s, t, st, c, kept, at, q, held, did)
  BY <1>1, <1>2, <1>3, Placing
<1>5. PICK r : r = IF c.gets = "" THEN q ELSE [q EXCEPT ![c.gets] = Null]
  OBVIOUS
<1>6. Wrong(c.uses, c.op) = "none"
  BY <1>1, <1>2, <1>3, CallRight
<1>7. PICK own, x, none, lost :
        /\ own = kept[s].own /\ x = at[t] /\ none = {c.gets} \ {""} /\ lost = Lost(k, s, c.op)
  OBVIOUS
<1>8. /\ ptr' = r
      /\ refused' = refused \cup {c.op}
      /\ Frees(Blame([owned |-> held, fault |-> fault], Wrong(c.uses, c.op)), r, st.cleanup)
      /\ answer' = st.error
      /\ UNCHANGED <<kfun, args, stage, step, holds, made>>
  BY <1>2, <1>3, <1>5 DEF CallFails
<1>9. Frees([owned |-> held, fault |-> "none"], r, st.cleanup)
  <2>1. Blame([owned |-> held, fault |-> fault], Wrong(c.uses, c.op)) = [owned |-> held, fault |-> "none"]
    BY <1>1, <1>6, BlameNone
  <2> QED BY <1>8, <2>1
<1>10. c.checked = "at once" /\ Firm(st, t, q, x)
  <2>1. c.checked = "at once"
    BY <1>1, <1>2, <1>3
  <2>2. ~(st = StoreStage /\ t = 2)
    BY <2>1, <1>3, StoreCalls
  <2> QED BY <1>1, <1>2, <1>3, <2>1, <2>2, Seen
<1>11. /\ CallOK(k, s, st.cleanup, c, kept[s], x, at[t + 1])
       /\ Has(s, t, st, own, x, q, held, did) /\ s \in Nat /\ Sound(k, kf, kept)
  <2>1. CallOK(k, s, st.cleanup, c, kept[s], x, at[t + 1]) /\ Has(s, t, st, own, x, q, held, did)
    BY <1>4, <1>7 DEF Placed
  <2>2. s \in Nat /\ Sound(k, kf, kept)
    BY <1>4 DEF Placed
  <2> QED BY <2>1, <2>2
<1>12. /\ none \subseteq KfunPointers \ (own \cup x.own)
       /\ Cleans(st.cleanup, own \cup x.own, x.nul \cup none, lost)
  BY <1>7, <1>10, <1>11 DEF CallOK
<1>13. \A p \in KfunPointers : r[p] = IF p \in none THEN Null ELSE q[p]
  <2>1. q = [p \in KfunPointers |-> q[p]]
    BY <1>3 DEF GenuineInv, CallTypes
  <2>2. "" \notin KfunPointers
    BY ObjectsDiffer
  <2> QED BY <1>5, <1>7, <2>1, <2>2
<1>14. /\ FreeAll([owned |-> held, fault |-> "none"], r, st.cleanup) = [owned |-> Things(r, lost), fault |-> "none"]
       /\ lost \subseteq own \cup x.own
       /\ \A p \in lost : r[p] = q[p]
  <2>1. PICK cleanup : cleanup = st.cleanup
    OBVIOUS
  <2>2. Freed(own \cup x.own, q, r, held, cleanup, lost)
    BY <1>10, <1>11, <1>12, <1>13, <2>1, Freeing
  <2> QED BY <2>1, <2>2 DEF Freed
<1>15. owned' = Things(r, lost) /\ fault' = "none"
  BY <1>9, <1>14 DEF Frees
<1>16. Things(r, lost) = {<<1, p>> : p \in lost}
  <2>1. s = 1 => own = {}
    BY <1>7, <1>11 DEF Sound
  <2>2. s = 2 => Lost(k, 2, c.op) \subseteq own
    BY <1>7, <1>11 DEF Sound
  <2>3. PICK op : op = c.op
    OBVIOUS
  <2>4. Lost(k, s, op) \subseteq own \cup x.own /\ \A p \in Lost(k, s, op) : r[p] = q[p]
    BY <1>7, <1>14, <2>3
  <2>5. s = 2 => Lost(k, 2, op) \subseteq own
    BY <2>2, <2>3
  <2>6. /\ s \in Nat /\ Has(s, t, st, own, x, q, held, did) /\ Firm(st, t, q, x)
        /\ Lost(k, s, op) \subseteq own \cup x.own
    BY <1>10, <1>11, <2>4
  <2>7. Things(r, Lost(k, s, op)) = {<<1, p>> : p \in Lost(k, s, op)}
    BY <2>1, <2>4, <2>5, <2>6, LostThings
  <2> QED BY <1>7, <2>3, <2>7
<1>17. Forgotten' = {<<1, p>> : p \in lost}
  <2>1. Forgotten' = LeftBy(k, s, refused')
    BY <1>2, <1>8, ForgottenIs
  <2>2. CASE refused = {}
    <3>1. refused' = {c.op}
      BY <1>8, <2>2
    <3> QED BY <1>7, <2>1, <3>1, LeftIs
  <2>3. CASE refused # {}
    <3>1. k = "verify_certificate"
      BY <1>1, <1>2, <2>3 DEF GenuineInv, Pending
    <3>2. k \notin Signs \cup Derives
      BY <3>1 DEF Signs, Derives
    <3>3. \A op : Lost(k, s, op) = {}
      BY <3>2, NoneLost
    <3>4. lost = {} /\ Forgotten' = {}
      BY <1>7, <2>1, <3>3, LeftIs
    <3> QED BY <3>4
  <2> QED BY <2>2, <2>3
<1>18. answer' # ""
  BY <1>1, <1>2, <1>3, <1>8, <1>10, LaterCalls
<1> QED BY <1>1, <1>8, <1>15, <1>16, <1>17, <1>18 DEF SoundInv, Running
(* A call fails that is looked at later.                                   *)
LEMMA IgnoredSound == ASSUME UncheckedFail = FALSE, GenuineInv, SoundInv, FailureIgnored PROVE SoundInv'
<1>1. /\ Running /\ AtCall /\ stage # 0 /\ answer = "" /\ kfun # "none" /\ fault = "none"
      /\ This.stages[stage].calls[step].checked = "later"
  <2>1. Running /\ AtCall /\ This.stages[stage].calls[step].checked = "later"
    BY UncheckedFail = FALSE DEF FailureIgnored
  <2>2. stage # 0
    <3>1. stage \in DOMAIN This.stages
      BY <2>1 DEF AtCall
    <3>2. stage \in 1 .. Len(This.stages) /\ Len(This.stages) \in Nat
      BY <2>1, <3>1, Standing
    <3> QED BY <3>2
  <2> QED BY <2>1, <2>2 DEF Running, SoundInv
<1>2. PICK k, kf, s, t : k = kfun /\ kf = This /\ s = stage /\ t = step
  OBVIOUS
<1>3. PICK st, c, q, held, did : st = kf.stages[s] /\ c = st.calls[t] /\ q = ptr /\ held = owned /\ did = made
  OBVIOUS
<1>4. PICK kept, at : Placed(k, kf, s, t, st, c, kept, at, q, held, did)
  BY <1>1, <1>2, <1>3, Placing
<1>5. c.checked = "later" /\ st = StoreStage /\ (t = 1 \/ t = 2)
  BY <1>1, <1>2, <1>3, LaterCalls
<1>6. ~NullSeen
  BY <1>1 DEF NullSeen
<1>7. Wrong(c.uses, c.op) = "none"
  BY <1>1, <1>2, <1>3, <1>6, CallRight
<1>8. PICK g : g = c.gets
  OBVIOUS
<1>9. ((t = 1 /\ g = "store") \/ (t = 2 /\ g = "context")) /\ g \in KfunPointers
  <2>1. "store" \in KfunPointers /\ "context" \in KfunPointers
    BY DEF KfunPointers
  <2>2. (t = 1 /\ g = "store") \/ (t = 2 /\ g = "context")
    BY <1>3, <1>5, <1>8, StoreCalls
  <2> QED BY <2>1, <2>2
<1>10. "" # g
  BY <1>9, ObjectsDiffer
<1>11. PICK r : r = [q EXCEPT ![g] = Null]
  OBVIOUS
<1>12. /\ ptr' = r
       /\ fault' = Blame([fault |-> fault], Wrong(c.uses, c.op)).fault
       /\ step' = t + 1
       /\ UNCHANGED <<kfun, args, stage, owned, made, answer>>
  <2>1. /\ ptr' = IF c.gets = "" \/ c.checked = "out" THEN ptr ELSE [ptr EXCEPT ![c.gets] = Null]
        /\ fault' = Blame([fault |-> fault], Wrong(c.uses, c.op)).fault
        /\ step' = t + 1
        /\ UNCHANGED <<kfun, args, stage, owned, made, answer>>
    BY <1>2, <1>3 DEF FailureIgnored
  <2>2. ~(c.gets = "" \/ c.checked = "out")
    BY <1>5, <1>8, <1>10
  <2> QED BY <1>3, <1>8, <1>11, <2>1, <2>2
<1>13. fault' = "none"
  BY <1>1, <1>7, <1>12, BlameNone
<1>14. PICK own, x, y : own = kept[s].own /\ x = at[t] /\ y = at[t + 1]
  OBVIOUS
<1>15. Has(s, t + 1, st, own, y, r, held, did)
  <2>1. CallOK(k, s, st.cleanup, c, kept[s], x, y) /\ Has(s, t, st, own, x, q, held, did)
    BY <1>4, <1>14 DEF Placed
  <2>2. s \in Nat
    BY <1>4 DEF Placed
  <2>3. q = [p \in KfunPointers |-> q[p]]
    BY <1>3 DEF GenuineInv, CallTypes
  <2>4. ~c.moves
    <3>1. 1 \in 1 .. 5 /\ 2 \in 1 .. 5
      OBVIOUS
    <3> QED BY <1>3, <1>5, <3>1, StoreUses
  <2>5. /\ g \notin own \cup x.own /\ y.own = x.own \cup {g} /\ y.nul \subseteq x.nul \ {g}
        /\ y.done \subseteq x.done
    <3>1. c.gets = "" \/ c.gets \in KfunPointers \ (own \cup x.own)
      BY <1>14, <2>1 DEF CallOK
    <3>2. y.own = x.own \cup ({c.gets} \ {""}) /\ y.nul \subseteq x.nul \ {c.gets}
      BY <2>1, <2>4 DEF CallOK
    <3>3. y.done \subseteq x.done \cup {}
      BY <1>5, <2>1 DEF CallOK
    <3> QED BY <1>8, <1>10, <3>1, <3>2, <3>3
  <2> QED BY <1>5, <1>9, <1>11, <2>1, <2>2, <2>3, <2>5, HasIgnored
<1>16. Stands(k, s, t + 1, st, kept[s], kept[s + 1], at, r, held, did)
  <2>1. t + 1 \in 1 .. Len(st.calls) + 1
    BY <1>4 DEF Placed
  <2>2. Passes(k, s, st, kept[s], kept[s + 1], at) /\ IsSeq(st.calls)
    BY <1>4 DEF Placed, Stands
  <2> QED BY <1>14, <1>15, <2>1, <2>2 DEF Stands
<1>17. Runs(k, kf, kept, s, t + 1, r, held, did) /\ Sound(k, kf, kept)
  <2>1. s \in 1 .. Len(kf.stages) /\ st = kf.stages[s] /\ Sound(k, kf, kept)
    BY <1>4 DEF Placed
  <2> QED BY <1>16, <2>1 DEF Runs
<1>18. This' = kf /\ kfun' = k /\ stage' = s /\ owned' = held /\ made' = did
  BY <1>2, <1>3, <1>12 DEF This
<1>19. \E e : Sound(kfun', This', e) /\ Runs(kfun', This', e, stage', step', ptr', owned', made')
  BY <1>12, <1>17, <1>18
<1> QED BY <1>1, <1>12, <1>13, <1>19 DEF SoundInv

(* A null pointer is looked at, and the error exit frees the rest.         *)
LEMMA LaterSound == ASSUME GenuineInv, SoundInv, LaterSeen PROVE SoundInv'
<1>1. /\ Running /\ AtCall /\ NullSeen /\ stage # 0 /\ answer = "" /\ kfun # "none" /\ fault = "none"
      /\ This.stages[stage].calls[step].checked = "at once"
  <2>1. Running /\ AtCall /\ NullSeen
    BY DEF LaterSeen
  <2>2. stage # 0
    <3>1. stage \in DOMAIN This.stages
      BY <2>1 DEF AtCall
    <3>2. stage \in 1 .. Len(This.stages) /\ Len(This.stages) \in Nat
      BY <2>1, <3>1, Standing
    <3> QED BY <3>2
  <2>3. This.stages[stage].calls[step].checked = "at once"
    BY <2>1 DEF NullSeen
  <2> QED BY <2>1, <2>2, <2>3 DEF Running, SoundInv
<1>2. PICK k, kf, s, t : k = kfun /\ kf = This /\ s = stage /\ t = step
  OBVIOUS
<1>3. PICK st, c, q, held, did : st = kf.stages[s] /\ c = st.calls[t] /\ q = ptr /\ held = owned /\ did = made
  OBVIOUS
<1>4. PICK kept, at : Placed(k, kf, s, t, st, c, kept, at, q, held, did)
  BY <1>1, <1>2, <1>3, Placing
<1>5. PICK i \in 1 .. t - 1 : st.calls[i].checked = "later" /\ q[st.calls[i].gets] = Null
  BY <1>1, <1>2, <1>3 DEF NullSeen
<1>6. st = StoreStage /\ t \in 1 .. 5 /\ k = "verify_certificate"
  <2>1. i \in 1 .. Len(st.calls)
    BY <1>4 DEF Placed
  <2>2. st = StoreStage
    BY <1>1, <1>2, <1>3, <1>5, <2>1, LaterCalls
  <2> QED BY <1>1, <1>2, <1>3, <2>2, LaterCalls
<1>7. t \in 3 .. 5
  <2>1. t # 1 /\ t # 2
    BY <1>1, <1>2, <1>3, <1>6, StoreCalls
  <2> QED BY <1>6, <2>1
<1>8. PICK own, x : own = kept[s].own /\ x = at[t]
  OBVIOUS
<1>9. /\ CallOK(k, s, st.cleanup, c, kept[s], x, at[t + 1]) /\ Has(s, t, st, own, x, q, held, did)
       /\ s \in Nat
  <2>1. CallOK(k, s, st.cleanup, c, kept[s], x, at[t + 1]) /\ Has(s, t, st, own, x, q, held, did)
    BY <1>4, <1>8 DEF Placed
  <2>2. s \in Nat
    BY <1>4 DEF Placed
  <2> QED BY <2>1, <2>2
<1>10. k \notin Signs \cup Derives
  BY <1>6 DEF Signs, Derives
<1>11. Cleans(VerifyAll, own \cup x.own, x.nul, {})
  <2>1. c.checked = "at once" /\ st.cleanup = VerifyAll
    BY <1>1, <1>2, <1>3, <1>6, StoreUses
  <2>2. Cleans(VerifyAll, own \cup x.own, x.nul \cup ({c.gets} \ {""}), Lost(k, s, c.op))
    BY <1>8, <1>9, <2>1 DEF CallOK
  <2>3. Lost(k, s, c.op) = {}
    BY <1>10, NoneLost
  <2>4. x.nul \cup ({c.gets} \ {""}) = x.nul
    <3>1. c.gets = ""
      BY <1>3, <1>6, <1>7, StoreCalls
    <3> QED BY <3>1
  <2> QED BY <2>2, <2>3, <2>4
<1>12. FreeAll([owned |-> held, fault |-> "none"], q, VerifyAll) = [owned |-> {}, fault |-> "none"]
  BY <1>9, <1>11, FreeingLater
<1>13. /\ Frees([owned |-> held, fault |-> "none"], q, VerifyAll)
       /\ answer' = st.error
       /\ UNCHANGED <<kfun, args, stage, step, ptr, holds, made, refused>>
  BY <1>1, <1>2, <1>3, <1>6, StoreUses DEF LaterSeen
<1>14. owned' = {} /\ fault' = "none"
  BY <1>12, <1>13 DEF Frees
<1>15. Forgotten' = {}
  <2>1. \A op : Lost(k, s, op) = {}
    BY <1>10, NoneLost
  <2>2. Forgotten' = LeftBy(k, s, refused')
    BY <1>2, <1>13, ForgottenIs
  <2> QED BY <2>1, <2>2, LeftIs
<1>16. answer' # ""
  BY <1>6, <1>13, StoreCalls
<1> QED BY <1>1, <1>13, <1>14, <1>15, <1>16 DEF SoundInv, Running
(* All calls of a stage are made.                                          *)
LEMMA DoneSound == ASSUME GenuineInv, SoundInv, StageDone PROVE SoundInv'
<1>1. Running /\ stage \in DOMAIN This.stages /\ ~AtCall /\ answer = "" /\ kfun # "none" /\ fault = "none"
  BY DEF StageDone, Running, SoundInv
<1>2. PICK k, kf, s, t : k = kfun /\ kf = This /\ s = stage /\ t = step
  OBVIOUS
<1>3. PICK st, q, held, did : st = kf.stages[s] /\ q = ptr /\ held = owned /\ did = made
  OBVIOUS
<1>4. IsSeq(kf.stages) /\ Len(kf.stages) \in Nat /\ s \in 1 .. Len(kf.stages) /\ s \in Nat
  <2>1. IsSeq(kf.stages) /\ Len(kf.stages) \in Nat /\ s \in 1 .. Len(kf.stages)
    BY <1>1, <1>2, Standing
  <2> QED BY <2>1
<1>5. PICK kept, at : Sound(k, kf, kept) /\ Stands(k, s, t, st, kept[s], kept[s + 1], at, q, held, did)
  BY <1>1, <1>2, <1>3, Standing
<1>6. PICK e, f : e = kept[s] /\ f = kept[s + 1]
  OBVIOUS
<1>7. /\ Passes(k, s, st, e, f, at) /\ IsSeq(st.calls) /\ t \in 1 .. Len(st.calls) + 1
      /\ Has(s, t, st, e.own, at[t], q, held, did)
  BY <1>5, <1>6 DEF Stands
<1>8. t = Len(st.calls) + 1
  <2>1. t \notin 1 .. Len(st.calls) /\ Len(st.calls) \in Nat
    <3>1. DOMAIN st.calls = 1 .. Len(st.calls) /\ Len(st.calls) \in Nat
      BY <1>7, SeqDomain
    <3> QED BY <1>1, <1>2, <1>3, <3>1 DEF AtCall
  <2> QED BY <1>7, <2>1
<1>9. PICK x : x = at[t]
  OBVIOUS
<1>10. Firm(st, t, q, x)
  <2>1. st = StoreStage => t = 6
    <3> HAVE st = StoreStage
    <3>1. Len(st.calls) = 5
      BY StoreCalls
    <3> QED BY <1>8, <3>1
  <2>2. st = StoreStage => t # 2 /\ t # 3
    BY <2>1
  <2> QED BY <2>2, Settled
<1>11. Cleans(st.release, e.own \cup x.own, x.nul, f.own) /\ f.done \subseteq x.done
  BY <1>7, <1>8, <1>9 DEF Passes
<1>12. Freed(e.own \cup x.own, q, q, held, st.release, f.own)
  <2>1. PICK none : none = {}
    OBVIOUS
  <2>2. \A p \in KfunPointers : q[p] = IF p \in none THEN Null ELSE q[p]
    BY <2>1
  <2>3. PICK release, own, remains : release = st.release /\ own = e.own /\ remains = f.own
    OBVIOUS
  <2>4. x.nul \cup none = x.nul
    BY <2>1
  <2>5. Cleans(release, own \cup x.own, x.nul \cup none, remains) /\ Has(s, t, st, own, x, q, held, did)
    BY <1>7, <1>9, <1>11, <2>3, <2>4
  <2>6. none \subseteq KfunPointers \ (own \cup x.own)
    BY <2>1
  <2>7. s \in Nat
    BY <1>4
  <2>8. Freed(own \cup x.own, q, q, held, release, remains)
    BY <1>10, <2>2, <2>5, <2>6, <2>7, Freeing
  <2> QED BY <2>3, <2>8
<1>13. /\ Frees([owned |-> held, fault |-> "none"], q, st.release)
       /\ Enter(s + 1, q)
       /\ UNCHANGED <<kfun, args, holds, made, refused, answer>>
  BY <1>1, <1>2, <1>3 DEF StageDone
<1>14. owned' = Things(q, f.own) /\ fault' = "none"
  BY <1>12, <1>13 DEF Frees, Freed
<1>15. Owns(s, e.own \cup x.own, x, q, held)
  BY <1>4, <1>7, <1>9, <1>10, Owning
<1>16. \A p \in f.own : Object(q, p) /\ (s + 1 = 2 => q[p] = <<1, p>>)
  <2>1. \A p \in f.own : p \in e.own \cup x.own
    BY <1>12 DEF Freed
  <2>2. s = 1 => e.own = {}
    BY <1>5, <1>6 DEF Sound
  <2>3. s + 1 = 2 => s = 1
    BY <1>4
  <2> QED BY <1>15, <2>1, <2>2, <2>3 DEF Owns
<1>17. f.done \subseteq did
  BY <1>7, <1>9, <1>11 DEF Has
<1>18. /\ ptr' = IF s + 1 \in DOMAIN kf.stages
                   THEN [p \in KfunPointers |-> IF p \in kf.stages[s + 1].nulls THEN Null ELSE q[p]] ELSE q
       /\ stage' = s + 1 /\ step' = 1
  BY <1>2, <1>13 DEF Enter
<1>19. Runs(k, kf, kept, s + 1, 1, ptr', owned', did)
  <2>1. PICK u, r, remains : u = s + 1 /\ r = ptr' /\ remains = owned'
    OBVIOUS
  <2>2. u \in Nat /\ u \in 1 .. Len(kf.stages) + 1
    BY <1>4, <2>1
  <2>3. remains = Things(q, kept[u].own) /\ (\A p \in kept[u].own : Object(q, p) /\ (u = 2 => q[p] = <<1, p>>))
        /\ kept[u].done \subseteq did
    BY <1>6, <1>14, <1>16, <1>17, <2>1
  <2>4. r = IF u \in DOMAIN kf.stages
              THEN [p \in KfunPointers |-> IF p \in kf.stages[u].nulls THEN Null ELSE q[p]] ELSE q
    BY <1>18, <2>1
  <2>5. Runs(k, kf, kept, u, 1, r, remains, did)
    BY <1>4, <1>5, <2>2, <2>3, <2>4, EnterRuns
  <2> QED BY <2>1, <2>5
<1>20. This' = kf /\ kfun' = k /\ made' = did /\ stage' # 0
  <2>1. stage' # 0
    BY <1>4, <1>18
  <2> QED BY <1>2, <1>3, <1>13, <2>1 DEF This
<1>21. \E g : Sound(kfun', This', g) /\ Runs(kfun', This', g, stage', step', ptr', owned', made')
  BY <1>5, <1>18, <1>19, <1>20
<1> QED BY <1>1, <1>13, <1>14, <1>20, <1>21 DEF SoundInv

(* The last call says what the answer is.                                  *)
LEMMA FinishSound == ASSUME GenuineInv, SoundInv, Finished PROVE SoundInv'
<1>1. Running /\ stage = Len(This.stages) + 1 /\ answer = "" /\ kfun # "none" /\ fault = "none"
  BY DEF Finished, Running, SoundInv
<1>2. PICK k, kf, s : k = kfun /\ kf = This /\ s = stage
  OBVIOUS
<1>3. PICK q, held, did : q = ptr /\ held = owned /\ did = made
  OBVIOUS
<1>4. kfun \in Kfuns /\ args \in Seq(Argument)
  BY <1>1 DEF GenuineInv, CallTypes
<1>5. Len(kf.stages) \in Nat /\ s = Len(kf.stages) + 1 /\ s # 0
  <2>1. Len(kf.stages) \in Nat
    BY <1>2, <1>4, AtStage DEF This
  <2>2. s = Len(kf.stages) + 1
    BY <1>1, <1>2
  <2>3. \A m \in Nat : m + 1 # 0
    OBVIOUS
  <2> QED BY <2>1, <2>2, <2>3
<1>6. PICK kept : Sound(k, kf, kept) /\ Runs(k, kf, kept, s, step, q, held, did)
  BY <1>1, <1>2, <1>3, <1>5 DEF SoundInv
<1>7. PICK names : names = kept[s].own
  OBVIOUS
<1>8. held = Things(q, names) /\ (\A p \in names : Object(q, p)) /\ kept[s].done \subseteq did
  <2>1. s \notin 1 .. Len(kf.stages)
    BY <1>5
  <2> QED BY <1>6, <1>7, <2>1 DEF Runs
<1>9. /\ names \in SUBSET KfunPointers
      /\ Cleans(kf.finish.release, names, {}, {})
      /\ Asks(k, kf.finish.op) \subseteq did
      /\ \A op : Lost(k, s, op) = {}
  BY <1>5, <1>6, <1>7, <1>8 DEF Sound
<1>10. FreeAll([owned |-> held, fault |-> "none"], q, kf.finish.release) = [owned |-> {}, fault |-> "none"]
  <2>1. PICK none : none = {}
    OBVIOUS
  <2>2. \A p \in none : q[p] = Null
    BY <2>1
  <2>3. PICK release : release = kf.finish.release
    OBVIOUS
  <2>4. Cleans(release, names, none, none)
    BY <1>9, <2>1, <2>3
  <2>5. FreeAll([owned |-> Things(q, names), fault |-> "none"], q, release) = [owned |-> Things(q, none), fault |-> "none"]
    BY <1>8, <1>9, <2>2, <2>4, FreeThings
  <2>6. Things(q, none) = {}
    BY <2>1 DEF Things
  <2> QED BY <1>8, <2>3, <2>5, <2>6
<1>11. Wrong({}, kf.finish.op) = "none"
  BY <1>2, <1>3, <1>9, NotWrong
<1>12. /\ \E r \in kf.finish.results : answer' = r
       /\ Frees([owned |-> held, fault |-> "none"], q, kf.finish.release)
       /\ UNCHANGED <<kfun, args, stage, step, ptr, holds, made>>
  <2>1. PICK what : what = IF kf.finish.op = "" THEN "none" ELSE Wrong({}, kf.finish.op)
    OBVIOUS
  <2>2. what = "none"
    BY <1>11, <2>1
  <2>3. /\ \E r \in kf.finish.results : answer' = r
        /\ Frees(Blame([owned |-> held, fault |-> fault], what), q, kf.finish.release)
        /\ UNCHANGED <<kfun, args, stage, step, ptr, holds, made>>
    BY <1>2, <1>3, <2>1 DEF Finished
  <2>4. Blame([owned |-> held, fault |-> fault], what) = [owned |-> held, fault |-> "none"]
    BY <1>1, <2>2, BlameNone
  <2> QED BY <2>3, <2>4
<1>13. owned' = {} /\ fault' = "none"
  BY <1>10, <1>12 DEF Frees
<1>14. Forgotten' = {}
  <2>1. Forgotten' = LeftBy(k, s, refused')
    BY <1>2, <1>12, ForgottenIs
  <2> QED BY <1>9, <2>1, LeftIs
<1>15. answer' # ""
  BY <1>2, <1>4, <1>12, KfunShape DEF This
<1> QED BY <1>1, <1>2, <1>5, <1>12, <1>13, <1>14, <1>15 DEF SoundInv, Running
(* The arguments are checked, and the first stage is entered.              *)
LEMMA CheckSound == ASSUME GenuineInv, SoundInv, CheckArguments PROVE SoundInv'
<1>1. Running /\ stage = 0 /\ answer = "" /\ kfun # "none" /\ fault = "none" /\ owned = {}
  BY DEF CheckArguments, Running, SoundInv
<1>2. UNCHANGED <<kfun, args, owned, holds, made, refused, fault>>
  BY DEF CheckArguments
<1>3. UNCHANGED <<stage, step, ptr>> \/ (Enter(1, ptr) /\ UNCHANGED answer)
  BY DEF CheckArguments
<1>4. CASE UNCHANGED <<stage, step, ptr>>
  <2>1. Forgotten' = {}
    <3>1. Forgotten' = LeftBy(kfun', stage', refused') /\ stage' = 0
      BY <1>1, <1>4, ForgottenIs
    <3> QED BY <3>1, LeftIs
  <2> QED BY <1>1, <1>2, <1>4, <2>1 DEF SoundInv
<1>5. CASE Enter(1, ptr) /\ UNCHANGED answer
  <2>1. PICK k, kf, q, did : k = kfun /\ kf = This /\ q = ptr /\ did = made
    OBVIOUS
  <2>2. kfun \in Kfuns /\ args \in Seq(Argument)
    BY <1>1 DEF GenuineInv, CallTypes
  <2>3. PICK kept : Sound(k, kf, kept)
    BY <2>1, <2>2, KfunSound DEF This
  <2>4. IsSeq(kf.stages) /\ Len(kf.stages) \in Nat
    BY <2>1, <2>2, AtStage DEF This
  <2>5. /\ ptr' = IF 1 \in DOMAIN kf.stages
                    THEN [p \in KfunPointers |-> IF p \in kf.stages[1].nulls THEN Null ELSE q[p]] ELSE q
        /\ stage' = 1 /\ step' = 1
    BY <1>5, <2>1 DEF Enter
  <2>6. PICK r, none : r = ptr' /\ none = {}
    OBVIOUS
  <2>7. Runs(k, kf, kept, 1, 1, r, none, did)
    <3>1. kept[1].own = {} /\ kept[1].done = {}
      BY <2>3 DEF Sound
    <3>2. none = Things(q, kept[1].own)
      BY <2>6, <3>1 DEF Things
    <3>3. (\A p \in kept[1].own : Object(q, p) /\ (1 = 2 => q[p] = <<1, p>>)) /\ kept[1].done \subseteq did
      BY <3>1
    <3>4. 1 \in Nat /\ 1 \in 1 .. Len(kf.stages) + 1
      BY <2>4
    <3> QED BY <2>3, <2>4, <2>5, <2>6, <3>2, <3>3, <3>4, EnterRuns
  <2>8. This' = kf /\ kfun' = k /\ made' = did /\ owned' = none
    BY <1>1, <1>2, <2>1, <2>6 DEF This
  <2>9. \E g : Sound(kfun', This', g) /\ Runs(kfun', This', g, stage', step', ptr', owned', made')
    BY <2>3, <2>5, <2>6, <2>7, <2>8
  <2>10. stage' # 0 /\ kfun' # "none" /\ fault' = "none" /\ answer' = ""
    <3>1. stage' # 0
      <4>1. 1 # 0
        OBVIOUS
      <4> QED BY <2>5, <4>1
    <3>2. kfun' # "none" /\ fault' = "none"
      BY <1>1, <1>2
    <3>3. answer' = ""
      BY <1>1, <1>5
    <3> QED BY <3>1, <3>2, <3>3
  <2> QED BY <2>9, <2>10 DEF SoundInv
<1> QED BY <1>3, <1>4, <1>5

LEMMA SoundInit == CallIdle => SoundInv
<1> SUFFICES ASSUME CallIdle PROVE SoundInv
  OBVIOUS
<1>1. kfun = "none" /\ stage = 0 /\ owned = {} /\ fault = "none" /\ answer = ""
  BY DEF CallIdle
<1> QED BY <1>1 DEF SoundInv

LEMMA NextSound == ASSUME UncheckedFail = FALSE, GenuineInv, SoundInv, CallNext PROVE SoundInv'
<1>1. ASSUME NEW k \in Kfuns, NEW a \in Seq(Argument), Called(k, a) PROVE SoundInv'
  <2>1. kfun = "none" /\ kfun' = k /\ UNCHANGED <<stage, owned, fault, answer>>
    BY <1>1 DEF Called
  <2>2. stage = 0 /\ answer = "" /\ owned = {} /\ fault = "none"
    BY <2>1 DEF SoundInv
  <2>3. k # "none"
    BY DEF Kfuns
  <2> QED BY <2>1, <2>2, <2>3 DEF SoundInv
<1>2. CASE CallStep
  BY <1>2, CheckSound, SuccessSound, FailSound, IgnoredSound, LaterSound, DoneSound, FinishSound DEF CallStep
<1> QED BY <1>1, <1>2 DEF CallNext

LEMMA SoundAlways == ASSUME UncheckedFail = FALSE PROVE CallSpec => [](GenuineInv /\ SoundInv)
<1>1. GenuineInv /\ SoundInv /\ [CallNext]_callVars => GenuineInv' /\ SoundInv'
  <2> SUFFICES ASSUME GenuineInv, SoundInv, [CallNext]_callVars PROVE GenuineInv' /\ SoundInv'
    OBVIOUS
  <2>1. CASE CallNext
    BY <2>1, NextGenuine, NextSound
  <2>2. CASE UNCHANGED callVars
    <3>1. /\ kfun' = kfun /\ args' = args /\ stage' = stage /\ step' = step /\ ptr' = ptr /\ owned' = owned
          /\ made' = made /\ refused' = refused /\ fault' = fault /\ answer' = answer
      BY <2>2 DEF callVars
    <3>2. GenuineInv'
      BY <3>1 DEF GenuineInv, CallTypes, Pending, Genuine, This
    <3>3. This' = This
      BY <3>1 DEF This
    <3>4. Forgotten' = Forgotten
      BY <3>1, ForgottenIs
    <3>5. SoundInv'
      BY <3>1, <3>3, <3>4 DEF SoundInv, Running
    <3> QED BY <3>2, <3>5
  <2> QED BY <2>1, <2>2
<1> QED BY <1>1, CallInit, SoundInit, PTL DEF CallSpec

(* A kfun of crypto.c never uses, overwrites or frees what it does not     *)
(* have, and asks OpenSSL for the steps of a cipher in their order: for    *)
(* any arguments, any number of certificates and of strings to hash, and   *)
(* whichever of the calls fail whose results are checked.                  *)
THEOREM CallsAreSound == ASSUME UncheckedFail = FALSE PROVE CallSpec => []CallsSound
<1>1. SoundInv => CallsSound
  BY DEF SoundInv, CallsSound
<1> QED BY <1>1, SoundAlways, PTL

(* However it ends, it has freed all but what the error exits of a         *)
(* signature, a verification and a derivation forget.                      *)
THEOREM NothingElseIsLeft == ASSUME UncheckedFail = FALSE PROVE CallSpec => []NothingLeft
<1>1. SoundInv => NothingLeft
  BY DEF SoundInv, NothingLeft
<1> QED BY <1>1, SoundAlways, PTL
=============================================================================
