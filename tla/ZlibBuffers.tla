---------------------------- MODULE ZlibBuffers ----------------------------
(* process() of zlib.c: the list of buffers in which the output of one     *)
(* call of deflate() or inflate() collects, until it becomes an array of   *)
(* strings.  The first buffer is on the stack, the others come from        *)
(* malloc(); the list is linked from the last to the first.                *)
EXTENDS Naturals

CONSTANTS
    Size,         \* of a buffer (65535)
    MaxOutbufs,   \* MAX_OUTBUFS (1032)
    MaxTotal      \* bound on the output of a call

ASSUME SizeAssumption       == Size \in Nat \ {0}
ASSUME MaxOutbufsAssumption == MaxOutbufs \in Nat /\ MaxOutbufs > 1
ASSUME MaxTotalAssumption   == MaxTotal \in Nat

VARIABLES
    pc,           \* where process() is
    n, buf, next, \* its variables
    link, data,   \* the buffers: next in the list; first byte and number of bytes
    heap,         \* the buffers that malloc() returned and that are not freed
    misuse,       \* a buffer was freed or read that was not there to be
    total, left,  \* bytes of output of this call, and those yet to come
    array         \* the result

vars == <<pc, n, buf, next, link, data, heap, misuse, total, left, array>>

Stack == 0
None == MaxOutbufs       \* the null pointer
Buffers == 0 .. MaxOutbufs - 1
Chunk == [first : 0 .. MaxTotal, size : 0 .. Size]
NoChunk == [first |-> 0, size |-> 0]

TypeOK ==
    /\ pc \in {"func", "overflow", "array", "toolarge", "done"}
    /\ n \in 0 .. MaxOutbufs
    /\ {buf, next} \subseteq Buffers \cup {None}
    /\ link \in [Buffers -> Buffers \cup {None}]
    /\ data \in [Buffers -> Chunk]
    /\ heap \subseteq Buffers \ {Stack}
    /\ misuse \in BOOLEAN
    /\ {total, left} \subseteq 0 .. MaxTotal
    /\ array \in [Buffers -> Chunk]

Init ==
    /\ pc = "func" /\ n = 1
    /\ buf = Stack /\ next = None
    /\ link = [b \in Buffers |-> None]
    /\ data = [b \in Buffers |-> NoChunk]
    /\ heap = {} /\ misuse = FALSE
    /\ total \in 0 .. MaxTotal /\ left = total
    /\ array = [b \in Buffers |-> NoChunk]

Valid(b) == b = Stack \/ b \in heap
Free(b) == heap' = heap \ {b}

(* func() fills the buffer and there may be more: another one is added,     *)
(* a fresh one from malloc(), or the output is too large.                  *)
FillWith(isLast) ==
    /\ pc = "func" /\ left >= Size
    /\ data' = [data EXCEPT ![buf] = [first |-> total - left, size |-> Size]]
    /\ left' = left - Size
    /\ IF isLast
         THEN pc' = "overflow" /\ UNCHANGED <<n, buf, next, link, heap>>
         ELSE /\ buf' = n /\ heap' = heap \cup {n}
              /\ link' = [link EXCEPT ![n] = buf]
              /\ next' = buf
              /\ n' = n + 1
              /\ UNCHANGED pc
    /\ UNCHANGED <<misuse, total, array>>

Fill == FillWith(n >= MaxOutbufs)

(* A mutant: buffers up to and including the last in the list are freed.   *)
Overflow_FreesAll ==
    /\ pc = "overflow"
    /\ Free(buf) /\ misuse' = (misuse \/ buf \notin heap)
    /\ IF next = None
         THEN pc' = "toolarge" /\ UNCHANGED <<buf, next>>
         ELSE /\ buf' = next /\ next' = link[next]
              /\ UNCHANGED pc
    /\ UNCHANGED <<n, link, data, total, left, array>>

(* One round of the loop that frees the list: it ends before the buffer    *)
(* without a next one, which is that on the stack.                         *)
Overflow ==
    /\ pc = "overflow"
    /\ Free(buf)
    /\ misuse' = (misuse \/ buf \notin heap \/ ~Valid(next))
    /\ buf' = next
    /\ next' = link[next]
    /\ pc' = IF next' = None THEN "toolarge" ELSE pc
    /\ UNCHANGED <<n, link, data, total, left, array>>

(* A mutant: an empty last buffer is part of the result.                   *)
Last_KeepsEmpty ==
    /\ pc = "func" /\ left < Size
    /\ data' = [data EXCEPT ![buf] = [first |-> total - left, size |-> left]]
    /\ left' = 0
    /\ pc' = "array"
    /\ UNCHANGED <<n, buf, next, link, heap, misuse, total, array>>

(* func() does not fill the buffer: it was the last one, and is dropped     *)
(* if it is empty.                                                         *)
Last ==
    /\ pc = "func" /\ left < Size
    /\ data' = [data EXCEPT ![buf] = [first |-> total - left, size |-> left]]
    /\ left' = 0
    /\ IF left = 0
         THEN /\ n' = n - 1
              /\ IF n' # 0
                   THEN /\ next' = link[buf] /\ buf' = next' /\ Free(buf)
                        /\ misuse' = (misuse \/ buf \notin heap)
                        /\ pc' = "array"
                   ELSE pc' = "done" /\ UNCHANGED <<buf, next, heap, misuse>>
         ELSE pc' = "array" /\ UNCHANGED <<n, buf, next, heap, misuse>>
    /\ UNCHANGED <<link, total, array>>

(* A mutant: the buffers are not freed.                                    *)
Collect_Keeps ==
    /\ pc = "array"
    /\ array' = [array EXCEPT ![n - 1] = data[buf]]
    /\ n' = n - 1
    /\ IF n' = 0 THEN pc' = "done" /\ UNCHANGED <<buf, next>>
       ELSE next' = link[buf] /\ buf' = next' /\ UNCHANGED pc
    /\ UNCHANGED <<link, data, heap, misuse, total, left>>

(* One round of the loop that makes the array, from its end.               *)
Collect ==
    /\ pc = "array"
    /\ array' = [array EXCEPT ![n - 1] = data[buf]]
    /\ n' = n - 1
    /\ misuse' = (misuse \/ ~Valid(buf) \/ (n' # 0 /\ buf \notin heap))
    /\ IF n' = 0 THEN pc' = "done" /\ UNCHANGED <<buf, next, heap>>
       ELSE next' = link[buf] /\ buf' = next' /\ Free(buf) /\ UNCHANGED pc
    /\ UNCHANGED <<link, data, total, left>>

Next == Fill \/ Overflow \/ Last \/ Collect

Fairness == WF_vars(Next)
Spec == Init /\ [][Next]_vars /\ Fairness

-----------------------------------------------------------------------------
(* Every buffer that is freed or read is there: nothing is freed twice,    *)
(* read after it was freed, and the buffer on the stack is never freed.    *)
NoMisuse == ~misuse

(* When process() returns it has freed every buffer.                       *)
NoLeak == pc \in {"toolarge", "done"} => heap = {}

(* The array has all bytes of the output in order, in strings that are     *)
(* full but for the last, which is not empty.                              *)
Strings == (total + Size - 1) \div Size
ArrayIsOutput ==
    pc = "done" =>
        /\ Strings <= MaxOutbufs
        /\ \A i \in 0 .. Strings - 1 :
              array[i] = [first |-> i * Size,
                          size |-> IF (i + 1) * Size <= total THEN Size ELSE total - i * Size]
        /\ \A i \in Buffers : i >= Strings => array[i] = NoChunk

(* Only output that fills all buffers is refused.                          *)
RefusedIfTooLarge == pc = "toolarge" => total >= MaxOutbufs * Size

(* The call ends.                                                          *)
Returns == <>(pc \in {"toolarge", "done"})
=============================================================================
