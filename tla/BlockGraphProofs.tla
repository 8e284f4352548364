------------------------- MODULE BlockGraphProofs -------------------------
(* Whatever the function: blocks partition its code; after the first pass  *)
(* code is left and entered only where blocks end and start; the second    *)
(* finds the contexts of blocks, and the third their edges.                *)
EXTENDS BlockGraph, SequenceTheorems, FiniteSetTheorems, WellFoundedInduction, TLAPS

(* The instructions: only their names change.                              *)
CodeOK ==
    /\ code \in Seq([op : Ops \cup {"caught", "endcatch", "endrlimits"}, to : Seq(Nat), arg : Args])
    /\ Len(code) \in Nat \ {0}
    /\ \A i \in Addr : \A j \in 1 .. Len(code[i].to) : code[i].to[j] \in Addr
    /\ code[N].op \notin {"branch", "catch"}

BlocksOK ==
    /\ last \in [Addr -> 0 .. N] /\ next \in [Addr -> 0 .. N]
    /\ phase \in {"pass1", "pass2"} => to \in [Addr -> Seq(Addr)]

(* Where the first two passes are.                                         *)
CursorOK ==
    /\ phase \in {"pass1", "pass2", "pass3", "pass4", "graph"}
    /\ phase = "pass1" => list = <<>>
    /\ phase \in {"pass1", "pass2"} =>
         list \in Seq(Addr) /\ cur \in Addr /\ at \in 1 .. N + 1 /\ k \in Nat \ {0}

(* How far the first pass has come.                                        *)
SplitAt(i) == \A j \in 1 .. Len(code[i].to) : code[i].to[j] \in Blocks
Progress ==
    phase = "pass1" =>
      /\ \A i \in Addr : i < at /\ code[i].to # <<>> => SplitAt(i) /\ (i < N => i + 1 \in Blocks)
      /\ at <= N => \A j \in 1 .. Len(code[at].to) : j < k => code[at].to[j] \in Blocks

IInv == CodeOK /\ BlocksOK /\ CursorOK /\ Partition /\ Progress /\ Straight

-----------------------------------------------------------------------------
(* Every instruction is in one block.                                      *)
LEMMA Found ==
    ASSUME CodeOK, BlocksOK, Partition, NEW a \in Addr
    PROVE  Find(a) \in Blocks /\ Find(a) <= a /\ a <= last[Find(a)]
  BY DEF Find, Partition

(* A block that is cut in two.                                             *)
LEMMA SplitKeepsPartition ==
    ASSUME CodeOK, BlocksOK, Partition, NEW a \in Addr, Len(code') = Len(code),
           last' = LastAfter(a), next' = NextAfter(a)
    PROVE  /\ last' \in [Addr -> 0 .. N] /\ next' \in [Addr -> 0 .. N]
           /\ Blocks' = Blocks \cup {a} /\ Partition'
<1> DEFINE f == Find(a)
<1>1. f \in Blocks /\ f <= a /\ a <= last[f]
  BY Found
<1>2. f \in Addr /\ last[f] \in 0 .. N /\ next[f] \in 0 .. N /\ N \in Nat /\ N' = N /\ Addr' = Addr /\ Addr = 1 .. N
  BY <1>1 DEF Blocks, BlocksOK, CodeOK, N, Addr
<1>3. /\ last' = [last EXCEPT ![f] = IF f = a THEN @ ELSE a - 1, ![a] = last[f]]
      /\ next' = [next EXCEPT ![f] = IF f = a THEN @ ELSE a, ![a] = next[f]]
  BY DEF LastAfter, NextAfter
<1> HIDE DEF f
<1>4. CASE f = a
  <2>1. last' = last /\ next' = next
    BY <1>2, <1>3, <1>4 DEF BlocksOK
  <2>2. Blocks' = Blocks /\ a \in Blocks
    BY <2>1, <1>1, <1>2, <1>4 DEF Blocks
  <2> QED
    BY <2>1, <2>2, <1>2 DEF Partition, BlocksOK
<1>5. CASE f # a
  <2>0. f \in Nat /\ a \in Nat /\ f < a /\ last[f] \in Nat
    BY <1>1, <1>2, <1>5
  <2>1. a \notin Blocks
    BY <2>0, <1>1, <1>2 DEF Partition
  <2>a. last' = [last EXCEPT ![f] = a - 1, ![a] = last[f]] /\ next' = [next EXCEPT ![f] = a, ![a] = next[f]]
    BY <1>3, <1>5
  <2>b. a - 1 \in 0 .. N /\ a \in 0 .. N /\ a \in Addr /\ f \in Addr
    BY <1>2, <2>0
  <2>c. last \in [Addr -> 0 .. N] /\ next \in [Addr -> 0 .. N]
    BY DEF BlocksOK
  <2>2. /\ last' \in [Addr -> 0 .. N] /\ next' \in [Addr -> 0 .. N]
        /\ last'[f] = a - 1 /\ last'[a] = last[f] /\ next'[f] = a /\ next'[a] = next[f]
        /\ \A b \in Addr \ {f, a} : last'[b] = last[b] /\ next'[b] = next[b]
    BY <2>a, <2>b, <2>c, <1>2, <1>5
  <2>3. Blocks' = Blocks \cup {a}
    <3>1. last'[f] # 0 /\ last'[a] # 0 /\ last[f] # 0
      BY <2>0, <2>2, <1>1, <1>2
    <3>2. \A b \in Addr : last'[b] # 0 <=> last[b] # 0 \/ b = a
      BY <3>1, <2>2
    <3> QED
      BY <3>2, <2>b, <1>2 DEF Blocks
  <2>4. 1 \in Blocks'
    BY <2>3 DEF Partition
  <2>5. ASSUME NEW b \in Blocks'
        PROVE  /\ b <= last'[b] /\ next'[b] = IF last'[b] = N THEN 0 ELSE last'[b] + 1
               /\ (next'[b] # 0 => next'[b] \in Blocks')
               /\ \A c \in Blocks' : b < c => last'[b] < c
    <3>1. b \in Addr /\ Blocks \subseteq Addr
      BY <2>3 DEF Blocks
    <3>2. /\ f <= last[f] /\ next[f] = IF last[f] = N THEN 0 ELSE last[f] + 1
          /\ (next[f] # 0 => next[f] \in Blocks) /\ \A c \in Blocks : f < c => last[f] < c
      BY <1>1 DEF Partition
    <3>3. CASE b = f
      <4>1. last'[b] = a - 1 /\ next'[b] = a /\ a \in Blocks' /\ N \in Nat /\ a <= N
        BY <3>3, <2>2, <2>3, <1>2
      <4>2. \A c \in Blocks' : b < c => c = a \/ a < c
        <5> SUFFICES ASSUME NEW c \in Blocks', b < c, c # a PROVE a < c
          OBVIOUS
        <5>0. c \in Blocks
          BY <2>3
        <5>1. c \in Nat /\ last[f] < c
          BY <5>0, <3>1, <3>2, <3>3, <1>2
        <5> QED
          BY <5>1, <2>0, <1>1
      <4>3. b <= a - 1 /\ a - 1 # N /\ a = a - 1 + 1
        BY <4>1, <2>0, <3>3
      <4>4. \A c \in Blocks' : b < c => a - 1 < c
        <5> SUFFICES ASSUME NEW c \in Blocks', b < c PROVE a - 1 < c
          OBVIOUS
        <5> QED
          BY <4>2, <2>0, <2>3, <3>1, <1>2
      <4> QED
        BY <4>1, <4>3, <4>4
    <3>4. CASE b = a
      <4>1. last'[b] = last[f] /\ next'[b] = next[f] /\ b <= last[f]
        BY <3>4, <2>2, <1>1
      <4>2. \A c \in Blocks' : b < c => last[f] < c
        <5> SUFFICES ASSUME NEW c \in Blocks', b < c PROVE last[f] < c
          OBVIOUS
        <5>0. c \in Blocks
          BY <2>3, <3>4, <2>0
        <5>1. c \in Nat /\ f < c
          BY <5>0, <3>1, <3>4, <2>0, <1>2
        <5> QED
          BY <5>0, <5>1, <3>2
      <4> QED
        BY <4>1, <4>2, <3>2, <2>3
    <3>5. CASE b # f /\ b # a
      <4>1. /\ b \in Blocks /\ last'[b] = last[b] /\ next'[b] = next[b] /\ last[b] \in Nat /\ b \in Nat
        BY <3>1, <3>5, <2>2, <2>3, <1>2 DEF BlocksOK
      <4>2. /\ b <= last[b] /\ next[b] = IF last[b] = N THEN 0 ELSE last[b] + 1
            /\ (next[b] # 0 => next[b] \in Blocks) /\ \A c \in Blocks : b < c => last[b] < c
        BY <4>1 DEF Partition
      <4>3. b < a => last[b] < a
        <5>1. CASE b < f
          BY <5>1, <4>1, <4>2, <2>0, <1>1
        <5>2. CASE f < b
          BY <5>2, <3>2, <4>1, <4>2, <2>0, <1>1
        <5> QED
          BY <5>1, <5>2, <3>5, <4>1, <2>0
      <4> QED
        BY <4>1, <4>2, <4>3, <2>3
    <3> QED
      BY <3>3, <3>4, <3>5
  <2>6. ASSUME NEW x \in Addr
        PROVE  \E b \in Blocks' : b <= x /\ x <= last'[b]
    <3>1. PICK b \in Blocks : b <= x /\ x <= last[b]
      BY DEF Partition
    <3>2. b \in Addr /\ x \in Nat /\ b \in Nat
      BY <1>2 DEF Blocks
    <3>3. CASE b = f /\ x < a
      BY <3>1, <3>2, <3>3, <2>0, <2>2, <2>3
    <3>4. CASE b = f /\ ~(x < a)
      BY <3>1, <3>2, <3>4, <2>0, <2>2, <2>3
    <3>5. CASE b # f
      BY <3>1, <3>2, <3>5, <2>1, <2>2, <2>3
    <3> QED
      BY <3>3, <3>4, <3>5
  <2> QED
    BY <2>2, <2>3, <2>4, <2>5, <2>6, <1>2 DEF Partition
<1> QED
  BY <1>4, <1>5

(* The lists of blocks that follow stay lists of instructions.             *)
LEMMA ToAfterType ==
    ASSUME CodeOK, BlocksOK, Partition, NEW a \in Addr, to \in [Addr -> Seq(Addr)]
    PROVE  ToAfter(a) \in [Addr -> Seq(Addr)]
<1>1. Find(a) \in Addr /\ <<>> \in Seq(Addr)
  BY Found DEF Blocks
<1> QED
  BY <1>1 DEF ToAfter

-----------------------------------------------------------------------------
LEMMA InitInv == Init => IInv
<1> SUFFICES ASSUME Init PROVE IInv
  OBVIOUS
<1>1. PICK p \in Programs : code = WithCaught(p)
  BY DEF Init
<1>2. /\ p \in Seq([op : Ops, to : Seq(Nat), arg : Args]) /\ p # <<>> /\ Len(p) \in Nat
      /\ \A i \in 1 .. Len(p) : p[i] \in [op : Ops, to : Seq(Nat), arg : Args]
  <2>1. p \in Seq([op : Ops, to : Seq(Nat), arg : Args]) /\ WellFormed(p)
    BY ProgramsAssumption
  <2>2. p # <<>>
    BY <2>1 DEF WellFormed
  <2> QED
    BY <2>1, <2>2, ElementOfSeq, LenProperties
<1>3. \A i \in 1 .. Len(p) :
         /\ \A j \in 1 .. Len(p[i].to) : p[i].to[j] \in 1 .. Len(p)
         /\ p[i].op = "catch" => i + 2 \in 1 .. Len(p)
         /\ p[i].op = "operand" => i - 1 \in 1 .. Len(p)
  <2> TAKE i \in 1 .. Len(p)
  <2>1. Targets(p, i) \subseteq 1 .. Len(p)
    BY ProgramsAssumption DEF WellFormed
  <2>2. /\ p[i].op = "catch" => i < Len(p) /\ i # Len(p) - 1
        /\ i = 1 => p[i].op # "operand"
    BY ProgramsAssumption DEF WellFormed
  <2>3. \A j \in 1 .. Len(p[i].to) : (p[i].to)[j] \in 1 .. Len(p)
    BY <2>1 DEF Targets
  <2>4. Len(p) \in Nat
    BY <1>2
  <2>5. p[i].op = "catch" => i + 2 \in 1 .. Len(p)
    BY <2>2, <2>4
  <2>6. p[i].op = "operand" => i - 1 \in 1 .. Len(p)
    BY <2>2, <2>4
  <2> QED
    BY <2>3, <2>5, <2>6
<1>4. /\ code = [i \in 1 .. Len(p) |-> code[i]] /\ Len(code) = Len(p)
      /\ \A i \in 1 .. Len(p) : code[i] = WithCaught(p)[i]
  BY <1>1, <1>2 DEF WithCaught
<1>5. \A i \in 1 .. Len(p) :
         /\ code[i] \in [op : Ops \cup {"caught", "endcatch", "endrlimits"}, to : Seq(Nat), arg : Args]
         /\ \A j \in 1 .. Len(code[i].to) : code[i].to[j] \in 1 .. Len(p)
  <2> TAKE i \in 1 .. Len(p)
  <2>1. p[i] \in [op : Ops, to : Seq(Nat), arg : Args]
    BY <1>2
  <2>2. code[i] = [op |-> IF p[i].op = "operand" THEN "caught" ELSE p[i].op,
                   to |-> IF p[i].op = "catch" THEN <<i + 2>>
                          ELSE IF p[i].op = "operand" THEN p[i - 1].to ELSE p[i].to,
                   arg |-> p[i].arg]
    BY <1>4 DEF WithCaught
  <2>3. CASE p[i].op = "catch"
    <3>1. code[i].to = <<i + 2>> /\ i + 2 \in Nat /\ i + 2 \in 1 .. Len(p) /\ code[i].op \in Ops /\ code[i].arg \in Args
      BY <2>1, <2>2, <2>3, <1>3
    <3>2. <<i + 2>> \in Seq(Nat) /\ Len(<<i + 2>>) = 1 /\ <<i + 2>>[1] = i + 2
      BY <3>1
    <3>3. \A j \in 1 .. Len(code[i].to) : j = 1
      BY <3>1, <3>2
    <3>4. \A j \in 1 .. Len(code[i].to) : code[i].to[j] \in 1 .. Len(p)
      BY <3>1, <3>2, <3>3
    <3> QED
      BY <3>1, <3>2, <3>4, <2>2
  <2>4. CASE p[i].op = "operand"
    <3>1. i - 1 \in 1 .. Len(p) /\ p[i - 1] \in [op : Ops, to : Seq(Nat), arg : Args]
      BY <2>4, <1>2, <1>3
    <3>2. code[i].to = p[i - 1].to /\ code[i].op = "caught" /\ code[i].arg = p[i].arg
      BY <2>2, <2>4
    <3>3. p[i - 1].to \in Seq(Nat) /\ p[i].arg \in Args
      BY <3>1, <2>1
    <3>4. \A j \in 1 .. Len(p[i - 1].to) : p[i - 1].to[j] \in 1 .. Len(p)
      BY <3>1, <1>3
    <3> QED
      BY <3>2, <3>3, <3>4, <2>2
  <2>5. CASE p[i].op # "catch" /\ p[i].op # "operand"
    <3>1. code[i].to = p[i].to /\ code[i].op = p[i].op /\ code[i].arg = p[i].arg
      BY <2>2, <2>5
    <3>2. p[i].to \in Seq(Nat) /\ p[i].arg \in Args /\ p[i].op \in Ops
      BY <2>1
    <3>3. \A j \in 1 .. Len(p[i].to) : p[i].to[j] \in 1 .. Len(p)
      BY <1>3
    <3> QED
      BY <3>1, <3>2, <3>3, <2>2
  <2> QED
    BY <2>3, <2>4, <2>5
<1>6. CodeOK
  <2>1. Len(p) # 0
    BY <1>2
  <2>2. code \in Seq([op : Ops \cup {"caught", "endcatch", "endrlimits"}, to : Seq(Nat), arg : Args])
    BY <1>2, <1>4, <1>5
  <2>3. p[Len(p)].op \in {"jump", "switch", "return"} /\ Len(p) \in 1 .. Len(p)
    BY <1>2, <2>1, ProgramsAssumption DEF WellFormed
  <2>4. code[Len(p)].op = p[Len(p)].op
    BY <2>3, <1>4 DEF WithCaught
  <2> QED
    BY <1>2, <1>4, <1>5, <2>1, <2>2, <2>3, <2>4 DEF CodeOK, N, Addr
<1>7. N \in Nat \ {0} /\ 1 \in Addr /\ Addr = 1 .. N
  BY <1>6 DEF CodeOK, N, Addr
<1>8. BlocksOK
  <2>1. <<>> \in Seq(Addr)
    OBVIOUS
  <2> QED
    BY <2>1, <1>7 DEF Init, BlocksOK
<1>9. CursorOK
  <2>1. <<>> \in Seq(Addr)
    OBVIOUS
  <2> QED
    BY <2>1, <1>7 DEF Init, CursorOK
<1>10. Blocks = {1} /\ last[1] = N /\ next[1] = 0
  BY <1>7 DEF Init, Blocks
<1>11. Partition
  BY <1>7, <1>10 DEF Partition
<1>12. Progress /\ Straight
  BY <1>6, <1>7 DEF Init, Progress, Straight, CodeOK
<1> QED
  BY <1>6, <1>8, <1>9, <1>11, <1>12 DEF IInv

(* What is left when neither blocks nor instructions' targets change.      *)
LEMMA SameBlocks ==
    ASSUME IInv, last' = last, next' = next, code' = code
    PROVE  /\ CodeOK' /\ Partition' /\ Blocks' = Blocks /\ N' = N /\ Addr' = Addr
           /\ (phase' # "pass1" /\ phase # "pass1" => Straight')
  BY DEF IInv, CodeOK, Partition, Blocks, N, Addr, Straight

LEMMA TargetsInCode ==
    ASSUME CodeOK, NEW i \in Addr
    PROVE  code[i].to \in Seq(Addr) /\ Len(code[i].to) \in Nat
<1>1. code[i] \in [op : Ops \cup {"caught", "endcatch", "endrlimits"}, to : Seq(Nat), arg : Args]
  BY ElementOfSeq DEF CodeOK, N, Addr
<1>2. code[i].to \in Seq(Nat) /\ Len(code[i].to) \in Nat
  BY <1>1
<1>3. \A j \in 1 .. Len(code[i].to) : code[i].to[j] \in Addr
  BY DEF CodeOK
<1> DEFINE t == code[i].to
<1>4. t \in Seq(Nat) /\ \A j \in 1 .. Len(t) : t[j] \in Addr
  BY <1>2, <1>3
<1> HIDE DEF t
<1>5. t \in Seq(Addr)
  BY <1>4
<1> QED
  BY <1>2, <1>5 DEF t

LEMMA SplitTargetInv ==
    ASSUME IInv, SplitTarget
    PROVE  IInv'
<1>1. /\ phase = "pass1" /\ phase' = phase /\ at' = at /\ k' = k + 1 /\ cur' = cur /\ list' = list /\ code' = code
      /\ at <= N /\ at \in Addr /\ k \in 1 .. Len(code[at].to) /\ N' = N /\ Addr' = Addr
      /\ last' = LastAfter(code[at].to[k]) /\ next' = NextAfter(code[at].to[k]) /\ to' = ToAfter(code[at].to[k])
  BY TargetsInCode DEF IInv, CursorOK, SplitTarget, Split, N, Addr
<1>2. code[at].to[k] \in Addr
  BY <1>1 DEF IInv, CodeOK
<1> DEFINE a == code[at].to[k]
<1>3. /\ last' \in [Addr -> 0 .. N] /\ next' \in [Addr -> 0 .. N]
      /\ Blocks' = Blocks \cup {a} /\ Partition'
  BY <1>1, <1>2, SplitKeepsPartition DEF IInv
<1>4. to' \in [Addr -> Seq(Addr)]
  BY <1>1, <1>2, ToAfterType DEF IInv, BlocksOK
<1>5. CodeOK' /\ BlocksOK' /\ CursorOK'
  <2>1. CodeOK'
    BY <1>1 DEF IInv, CodeOK, N, Addr
  <2>2. BlocksOK'
    BY <1>1, <1>3, <1>4 DEF BlocksOK
  <2>3. k' \in Nat \ {0}
    BY <1>1 DEF IInv, CursorOK
  <2> QED
    BY <2>1, <2>2, <2>3, <1>1 DEF IInv, CursorOK
<1>6. Progress'
  <2>1. /\ \A i \in Addr : i < at /\ code[i].to # <<>> => SplitAt(i) /\ (i < N => i + 1 \in Blocks)
        /\ \A j \in 1 .. Len(code[at].to) : j < k => code[at].to[j] \in Blocks
    BY <1>1 DEF IInv, Progress
  <2>2. \A j \in 1 .. Len(code[at].to) : j < k + 1 => j < k \/ j = k
    BY <1>1 DEF IInv, CursorOK
  <2>3. \A j \in 1 .. Len(code[at].to) : j < k + 1 => code[at].to[j] \in Blocks'
    BY <2>1, <2>2, <1>3
  <2> QED
    BY <2>1, <2>3, <1>1, <1>3 DEF Progress, SplitAt
<1> QED
  BY <1>1, <1>3, <1>5, <1>6 DEF IInv, Straight

LEMMA SetFollowInv ==
    ASSUME IInv, SetFollow
    PROVE  IInv'
<1>1. /\ phase = "pass1" /\ phase' = phase /\ at' = at + 1 /\ k' = 1 /\ cur' = cur /\ list' = list /\ code' = code
      /\ at <= N /\ at \in Addr /\ k > Len(code[at].to) /\ N' = N /\ Addr' = Addr /\ Addr = 1 .. N /\ N \in Nat
  BY DEF IInv, CursorOK, SetFollow, N, Addr, CodeOK
<1>2. Follow(at) \in Seq(Addr)
  <2>1. code[at].to \in Seq(Addr)
    BY <1>1, TargetsInCode DEF IInv
  <2>2. at + 1 \in Addr => <<at + 1>> \o code[at].to \in Seq(Addr)
    BY <2>1
  <2>3. code[at].op \in {"branch", "catch"} => at + 1 \in Addr
    BY <1>1 DEF IInv, CodeOK
  <2> QED
    BY <2>1, <2>2, <2>3 DEF Follow
<1>3. SplitAt(at)
  BY <1>1, TargetsInCode DEF IInv, Progress, SplitAt, CursorOK
<1>4. /\ last' \in [Addr -> 0 .. N] /\ next' \in [Addr -> 0 .. N] /\ to' \in [Addr -> Seq(Addr)]
      /\ Blocks \subseteq Blocks' /\ Partition' /\ (at < N => at + 1 \in Blocks')
  <2>1. CASE at < N
    <3>1. at + 1 \in Addr /\ last' = LastAfter(at + 1) /\ next' = NextAfter(at + 1)
          /\ to' = [ToAfter(at + 1) EXCEPT ![Find(at)] = Follow(at)]
      BY <2>1, <1>1 DEF SetFollow
    <3>2. /\ last' \in [Addr -> 0 .. N] /\ next' \in [Addr -> 0 .. N]
          /\ Blocks' = Blocks \cup {at + 1} /\ Partition'
      BY <1>1, <3>1, SplitKeepsPartition DEF IInv
    <3>3. ToAfter(at + 1) \in [Addr -> Seq(Addr)]
      BY <1>1, <3>1, ToAfterType DEF IInv, BlocksOK
    <3> QED
      BY <1>2, <3>1, <3>2, <3>3
  <2>2. CASE ~(at < N)
    BY <2>2, <1>1, <1>2, SameBlocks DEF SetFollow, IInv, BlocksOK
  <2> QED
    BY <2>1, <2>2
<1>5. CodeOK' /\ BlocksOK' /\ CursorOK'
  <2>1. CodeOK'
    BY <1>1 DEF IInv, CodeOK, N, Addr
  <2>2. BlocksOK'
    BY <1>1, <1>4 DEF BlocksOK
  <2>3. at' \in 1 .. N + 1 /\ k' \in Nat \ {0}
    BY <1>1
  <2> QED
    BY <2>1, <2>2, <2>3, <1>1 DEF IInv, CursorOK
<1>6. Progress'
  <2>1. \A i \in Addr : i < at /\ code[i].to # <<>> => SplitAt(i) /\ (i < N => i + 1 \in Blocks)
    BY <1>1 DEF IInv, Progress
  <2>2. \A i \in Addr : i < at + 1 => i < at \/ i = at
    BY <1>1
  <2>3. \A i \in Addr : i < at + 1 /\ code[i].to # <<>> => SplitAt(i) /\ (i < N => i + 1 \in Blocks')
    BY <2>1, <2>2, <1>3, <1>4
  <2>4. \A i \in Addr : SplitAt(i) => SplitAt(i)'
    BY <1>1, <1>4 DEF SplitAt
  <2>5. \A j \in 1 .. Len(code'[at'].to) : ~(j < k')
    BY <1>1
  <2> QED
    BY <2>3, <2>4, <2>5, <1>1 DEF Progress
<1> QED
  BY <1>1, <1>4, <1>5, <1>6 DEF IInv, Straight

LEMMA SkipPlainInv ==
    ASSUME IInv, SkipPlain
    PROVE  IInv'
<1>1. /\ phase = "pass1" /\ phase' = phase /\ at' = at + 1 /\ k' = 1 /\ cur' = cur /\ list' = list
      /\ code' = code /\ last' = last /\ next' = next /\ to' = to
      /\ at <= N /\ at \in Addr /\ code[at].to = <<>> /\ Addr = 1 .. N /\ N \in Nat
  BY DEF IInv, CursorOK, SkipPlain, graph, N, Addr, CodeOK
<1>2. CodeOK' /\ Partition' /\ Blocks' = Blocks /\ N' = N /\ Addr' = Addr
  BY <1>1, SameBlocks
<1>3. BlocksOK' /\ CursorOK' /\ Straight'
  <2>1. at' \in 1 .. N + 1 /\ k' \in Nat \ {0}
    BY <1>1
  <2> QED
    BY <1>1, <1>2, <2>1 DEF IInv, BlocksOK, CursorOK, Straight
<1>4. Progress'
  <2>1. \A i \in Addr : i < at /\ code[i].to # <<>> => SplitAt(i) /\ (i < N => i + 1 \in Blocks)
    BY <1>1 DEF IInv, Progress
  <2>2. \A i \in Addr : i < at + 1 => i < at \/ i = at
    BY <1>1
  <2>3. \A i \in Addr : SplitAt(i) => SplitAt(i)'
    BY <1>1, <1>2 DEF SplitAt
  <2>4. \A j \in 1 .. Len(code'[at'].to) : ~(j < k')
    BY <1>1
  <2> QED
    BY <2>1, <2>2, <2>3, <2>4, <1>1, <1>2 DEF Progress
<1> QED
  BY <1>2, <1>3, <1>4 DEF IInv

LEMMA Pass1DoneInv ==
    ASSUME IInv, Pass1Done
    PROVE  IInv'
<1>1. /\ phase = "pass1" /\ phase' = "pass2" /\ at' = 1 /\ k' = 1 /\ cur' = 1 /\ list' = list
      /\ code' = code /\ last' = last /\ next' = next /\ to' = to /\ list = <<>>
      /\ at > N /\ at \in 1 .. N + 1 /\ Addr = 1 .. N /\ N \in Nat \ {0}
  BY DEF IInv, CursorOK, Pass1Done, N, Addr, CodeOK
<1>2. CodeOK' /\ Partition' /\ Blocks' = Blocks /\ N' = N /\ Addr' = Addr
  BY <1>1, SameBlocks
<1>3. <<>> \in Seq(Addr) /\ 1 \in Addr /\ 1 \in 1 .. N + 1
  BY <1>1
<1>4. BlocksOK' /\ CursorOK' /\ Progress'
  BY <1>1, <1>2, <1>3 DEF IInv, BlocksOK, CursorOK, Progress
<1>5. Straight'
  <2>1. \A i \in Addr : i < at
    BY <1>1
  <2>2. \A i \in Addr : code[i].to # <<>> => SplitAt(i) /\ (i < N => i + 1 \in Blocks)
    BY <1>1, <2>1 DEF IInv, Progress
  <2> QED
    BY <1>1, <1>2, <2>2 DEF Straight, SplitAt
<1> QED
  BY <1>2, <1>4, <1>5 DEF IInv

(* A step of the second pass may cut a block after a RETURN.               *)
LEMMA ScanInv ==
    ASSUME IInv, Scan
    PROVE  IInv'
<1>1. /\ phase = "pass2" /\ phase' = phase /\ at' = at + 1 /\ k' = 1 /\ cur' = cur /\ list' = list
      /\ at <= last[cur] /\ cur \in Addr /\ last[cur] \in 0 .. N /\ at \in Addr /\ Addr = 1 .. N /\ N \in Nat
  BY DEF IInv, BlocksOK, CursorOK, Scan, N, Addr, CodeOK
<1>2. \/ code' = code /\ last' = last /\ next' = next /\ to' = to
      \/ code' = code /\ at # last[cur] /\ Split(at + 1)
      \/ /\ \E o \in {"endcatch", "endrlimits"} : code' = [code EXCEPT ![at].op = o]
         /\ last' = last /\ next' = next /\ to' = to
  BY Zenon DEF Scan, Push, Returns
<1>3. /\ CodeOK' /\ Len(code') = Len(code) /\ N' = N /\ Addr' = Addr
      /\ \A i \in Addr : code'[i].to = code[i].to
  <2>1. CASE code' = code
    BY <2>1 DEF IInv, CodeOK, N, Addr
  <2>2. CASE \E o \in {"endcatch", "endrlimits"} : code' = [code EXCEPT ![at].op = o]
    <3>1. PICK o \in {"endcatch", "endrlimits"} : code' = [code EXCEPT ![at].op = o]
      BY <2>2
    <3> DEFINE T == [op : Ops \cup {"caught", "endcatch", "endrlimits"}, to : Seq(Nat), arg : Args]
               e == [code[at] EXCEPT !.op = o]
    <3>2. code \in Seq(T) /\ at \in 1 .. Len(code) /\ code[at] \in T
      BY <1>1, ElementOfSeq DEF IInv, CodeOK, N, Addr
    <3>3. e \in T /\ e.to = code[at].to /\ e.op = o
      BY <3>2
    <3>4. code' = [code EXCEPT ![at] = e]
      BY <3>1
    <3> HIDE DEF T, e
    <3>5. /\ code' \in Seq(T) /\ Len(code') = Len(code)
          /\ \A i \in 1 .. Len(code) : code'[i] = IF i = at THEN e ELSE code[i]
      BY <3>2, <3>3, <3>4, ExceptSeq
    <3>6. N' = N /\ Addr' = Addr /\ \A i \in Addr : code'[i].to = code[i].to /\ code'[i].op \in {code[i].op, o}
      BY <3>3, <3>5 DEF N, Addr
    <3>7. CodeOK'
      <4>1. N \in Addr /\ N' = Len(code') /\ Len(code) \in Nat \ {0}
        BY <1>1 DEF IInv, CodeOK, N, Addr
      <4>2. code'[N].op \notin {"branch", "catch"}
        BY <4>1, <3>6 DEF IInv, CodeOK
      <4> QED
        BY <3>5, <3>6, <4>1, <4>2 DEF IInv, CodeOK, T
    <3> QED
      BY <3>5, <3>6, <3>7
  <2> QED
    BY <1>2, <2>1, <2>2
<1>4. /\ last' \in [Addr -> 0 .. N] /\ next' \in [Addr -> 0 .. N] /\ to' \in [Addr -> Seq(Addr)]
      /\ Blocks \subseteq Blocks' /\ Partition'
  <2>1. CASE last' = last /\ next' = next /\ to' = to
    <3>1. Blocks' = Blocks
      BY <2>1, <1>3 DEF Blocks
    <3> QED
      BY <2>1, <3>1, <1>1, <1>3 DEF IInv, BlocksOK, Partition
  <2>2. CASE at # last[cur] /\ Split(at + 1)
    <3>1. at + 1 \in Addr /\ last' = LastAfter(at + 1) /\ next' = NextAfter(at + 1) /\ to' = ToAfter(at + 1)
      BY <2>2, <1>1 DEF Split
    <3> QED
      BY <1>1, <1>3, <3>1, SplitKeepsPartition, ToAfterType DEF IInv, BlocksOK
  <2> QED
    BY <1>2, <2>1, <2>2
<1>5. BlocksOK' /\ CursorOK' /\ Progress'
  <2>1. at' \in 1 .. N + 1 /\ k' \in Nat \ {0}
    BY <1>1
  <2> QED
    BY <2>1, <1>1, <1>3, <1>4 DEF IInv, BlocksOK, CursorOK, Progress
<1>6. Straight'
  BY <1>1, <1>3, <1>4 DEF IInv, Straight
<1> QED
  BY <1>3, <1>4, <1>5, <1>6 DEF IInv

LEMMA SuccessorsType ==
    ASSUME IInv, phase = "pass2"
    PROVE  Successors \in Seq(Addr)
<1>1. to[cur] \in Seq(Addr) /\ next[cur] \in 0 .. N /\ N \in Nat /\ Addr = 1 .. N
  BY DEF IInv, BlocksOK, CursorOK, CodeOK, N, Addr
<1>2. next[cur] # 0 => <<next[cur]>> \in Seq(Addr)
  BY <1>1
<1>3. <<>> \in Seq(Addr)
  OBVIOUS
<1> QED
  BY <1>1, <1>2, <1>3 DEF Successors

LEMMA VisitOnceInv ==
    ASSUME IInv, VisitOnce
    PROVE  IInv'
<1>1. /\ phase = "pass2" /\ phase' = phase /\ k \in 1 .. Len(Successors) /\ k' = k + 1 /\ cur' = cur /\ at' = at
      /\ code' = code /\ last' = last /\ next' = next /\ to' = to
      /\ list' = list \/ list' = ToVisit(Successors[k])
  <2>1. Len(Successors) \in Nat
    BY SuccessorsType DEF VisitOnce
  <2> QED
    BY <2>1 DEF IInv, CursorOK, VisitOnce
<1>2. CodeOK' /\ Partition' /\ Blocks' = Blocks /\ N' = N /\ Addr' = Addr /\ Straight'
  BY <1>1, SameBlocks
<1>3. list' \in Seq(Addr)
  <2>1. Successors[k] \in Addr
    BY <1>1, SuccessorsType
  <2>2. list \in Seq(Addr)
    BY <1>1 DEF IInv, CursorOK
  <2>3. <<Successors[k]>> \in Seq(Addr)
    BY <2>1
  <2>4. <<Successors[k]>> \o list \in Seq(Addr)
    BY <2>2, <2>3, ConcatProperties
  <2> QED
    BY <1>1, <2>2, <2>4 DEF ToVisit, Listed
<1> QED
  BY <1>1, <1>2, <1>3 DEF IInv, BlocksOK, CursorOK, Progress

LEMMA Visited2Inv ==
    ASSUME IInv, Visited2
    PROVE  IInv'
<1>1. /\ phase = "pass2" /\ phase' \in {"pass2", "pass3"} /\ at' = cur'
      /\ code' = code /\ last' = last /\ next' = next /\ to' = to
      /\ phase' = "pass2" => list # <<>> /\ cur' = Head(list) /\ list' = Tail(list) /\ k' = 1
  BY DEF Visited2, NextVisit
<1>2. CodeOK' /\ Partition' /\ Blocks' = Blocks /\ N' = N /\ Addr' = Addr /\ Straight'
  BY <1>1, SameBlocks
<1>3. phase' = "pass2" => list' \in Seq(Addr) /\ cur' \in Addr /\ at' \in 1 .. N + 1 /\ k' \in Nat \ {0}
  <2>1. list \in Seq(Addr) /\ Addr = 1 .. N /\ N \in Nat
    BY <1>1 DEF IInv, CursorOK, CodeOK, N, Addr
  <2> SUFFICES ASSUME phase' = "pass2"
               PROVE  list' \in Seq(Addr) /\ cur' \in Addr /\ at' \in 1 .. N + 1 /\ k' \in Nat \ {0}
    OBVIOUS
  <2>2. list # <<>> /\ cur' = Head(list) /\ list' = Tail(list) /\ k' = 1
    BY <1>1
  <2>3. list' \in Seq(Addr) /\ cur' \in Addr
    BY <2>1, <2>2
  <2>4. at' = cur'
    BY <1>1
  <2> QED
    BY <2>1, <2>2, <2>3, <2>4
<1> QED
  BY <1>1, <1>2, <1>3 DEF IInv, BlocksOK, CursorOK, Progress

(* The other passes leave the blocks alone.                                *)
LEMMA EdgesInv ==
    ASSUME IInv, Thread \/ CountEdge \/ Visited3 \/ BackEdge \/ Visited4
    PROVE  IInv'
<1>1. /\ phase \in {"pass3", "pass4"} /\ phase' \in {"pass3", "pass4", "graph"}
      /\ code' = code /\ last' = last /\ next' = next
  BY DEF Thread, CountEdge, Visited3, BackEdge, Visited4, NextVisit, graph
<1>2. CodeOK' /\ Partition' /\ Blocks' = Blocks /\ N' = N /\ Addr' = Addr /\ Straight'
  BY <1>1, SameBlocks
<1> QED
  BY <1>1, <1>2 DEF IInv, BlocksOK, CursorOK, Progress

LEMMA StepInv == IInv /\ [Next]_blockVars => IInv'
<1> SUFFICES ASSUME IInv, [Next]_blockVars PROVE IInv'
  OBVIOUS
<1>1. CASE UNCHANGED blockVars
  <2>1. /\ code' = code /\ last' = last /\ next' = next /\ to' = to
        /\ phase' = phase /\ list' = list /\ cur' = cur /\ at' = at /\ k' = k
    BY <1>1 DEF blockVars, graph, cursor
  <2>2. CodeOK' /\ Partition' /\ Blocks' = Blocks /\ N' = N /\ Addr' = Addr
    BY <2>1, SameBlocks
  <2>3. BlocksOK' /\ CursorOK' /\ Progress' /\ Straight'
    BY <2>1, <2>2 DEF IInv, BlocksOK, CursorOK, Progress, SplitAt, Straight
  <2> QED
    BY <2>2, <2>3 DEF IInv
<1> QED
  BY <1>1, SplitTargetInv, SetFollowInv, SkipPlainInv, Pass1DoneInv, ScanInv, VisitOnceInv, Visited2Inv, EdgesInv
     DEF Next

-----------------------------------------------------------------------------
THEOREM Invariance == Spec => []IInv
  BY InitInv, StepInv, PTL DEF Spec

(* Whatever splits a function's code goes through, its blocks follow one   *)
(* another in order and have every instruction (Block::split).             *)
THEOREM BlocksPartition == Spec => []Partition
<1>1. IInv => Partition
  BY DEF IInv
<1> QED
  BY <1>1, Invariance, PTL

(* Every jump leads to the start of a block and ends its own, whatever the *)
(* code (Block::pass1).                                                    *)
THEOREM CodeIsStraight == Spec => []Straight
<1>1. IInv => Straight
  BY DEF IInv
<1> QED
  BY <1>1, Invariance, PTL

-----------------------------------------------------------------------------
(* What the interpreter executes: the least set that has the start of the  *)
(* function and the steps from what is in it.                              *)
Begin == <<1, <<>>>>
Further(p, S) == S \cup UNION {Steps(p, e[1], e[2]) : e \in {e \in S : e[1] \in 1 .. Len(p)}}
Levels(p, R, m) == R = [n \in 0 .. m |-> IF n = 0 THEN {Begin} ELSE Further(p, R[n - 1])]

LEMMA LeastNumber == ASSUME NEW T \in SUBSET Nat, T # {} PROVE \E x \in T : \A y \in T : x <= y
<1> DEFINE R == OpToRel(<, Nat)
<1>1. IsWellFoundedOn(R, Nat)
  BY NatLessThanWellFounded
<1>2. PICK x \in T : \A y \in T : ~(<<y, x>> \in R)
  <2> HIDE DEF R
  <2> QED
    BY <1>1, WFMin
<1>3. \A y \in T : ~(y < x)
  BY <1>2 DEF OpToRel
<1>4. \A y \in T : x <= y
  <2> TAKE y \in T
  <2>1. x \in Nat /\ y \in Nat /\ ~(y < x)
    BY <1>2, <1>3
  <2> QED
    BY <2>1
<1> QED
  BY <1>2, <1>4

LEMMA LevelsExist == ASSUME NEW p, NEW m \in Nat PROVE \E R : Levels(p, R, m)
<1> DEFINE T == {x \in Nat : ~\E R : Levels(p, R, x)}
<1> SUFFICES T = {}
  OBVIOUS
<1> SUFFICES ASSUME T # {} PROVE FALSE
  OBVIOUS
<1>1. PICK x \in T : \A y \in T : x <= y
  <2>1. T \in SUBSET Nat
    OBVIOUS
  <2> HIDE DEF T
  <2> QED
    BY <2>1, LeastNumber
<1>2. CASE x = 0
  <2> DEFINE R == [n \in 0 .. 0 |-> {Begin}]
  <2>1. Levels(p, R, 0)
    BY DEF Levels
  <2> QED
    BY <1>1, <1>2, <2>1
<1>3. CASE x # 0
  <2>1. x \in Nat /\ x - 1 \in Nat /\ ~(x <= x - 1)
    BY <1>1, <1>3
  <2>2. PICK R : Levels(p, R, x - 1)
    BY <1>1, <2>1
  <2> DEFINE Q == [n \in 0 .. x |-> IF n < x THEN R[n] ELSE Further(p, R[x - 1])]
  <2>3. \A n \in 0 .. x : Q[n] = IF n = 0 THEN {Begin} ELSE Further(p, Q[n - 1])
    <3> TAKE n \in 0 .. x
    <3>1. CASE n = 0
      BY <2>1, <2>2, <3>1, <1>3 DEF Levels
    <3>2. CASE n # 0 /\ n < x
      <4>1. n \in 0 .. x - 1 /\ n - 1 \in 0 .. x /\ n - 1 < x
        BY <2>1, <3>2
      <4>2. R[n] = Further(p, R[n - 1])
        BY <2>2, <3>2, <4>1 DEF Levels
      <4> QED
        BY <3>2, <4>1, <4>2
    <3>3. CASE n = x
      <4>1. x - 1 \in 0 .. x /\ x - 1 < x
        BY <2>1
      <4> QED
        BY <1>3, <2>1, <3>3, <4>1
    <3> QED
      BY <2>1, <3>1, <3>2, <3>3
  <2>4. Levels(p, Q, x)
    BY <2>3 DEF Levels
  <2> QED
    BY <1>1, <2>4
<1> QED
  BY <1>2, <1>3

LEMMA ExecutedLevels ==
    ASSUME NEW p, Len(p) \in Nat
    PROVE  \E R : Levels(p, R, Len(p)) /\ Executed(p) = R[Len(p)]
<1> DEFINE R == CHOOSE R : Levels(p, R, Len(p))
<1>1. Levels(p, R, Len(p))
  BY LevelsExist
<1>2. Executed(p) = R[Len(p)]
  BY DEF Executed, Levels, Further, Begin
<1> QED
  BY <1>1, <1>2

LEMMA ExecutedLeast ==
    ASSUME NEW p, Len(p) \in Nat, NEW S, Begin \in S,
           \A e \in S : e[1] \in 1 .. Len(p) => Steps(p, e[1], e[2]) \subseteq S
    PROVE  Executed(p) \subseteq S
<1>1. PICK R : Levels(p, R, Len(p)) /\ Executed(p) = R[Len(p)]
  BY ExecutedLevels
<1> DEFINE T == {n \in 0 .. Len(p) : ~(R[n] \subseteq S)}
<1> SUFFICES ASSUME T # {} PROVE FALSE
  BY <1>1
<1>2. PICK n \in T : \A y \in T : n <= y
  <2>1. T \in SUBSET Nat
    OBVIOUS
  <2> HIDE DEF T
  <2> QED
    BY <2>1, LeastNumber
<1>3. n \in 0 .. Len(p) /\ R[n] = IF n = 0 THEN {Begin} ELSE Further(p, R[n - 1])
  BY <1>1, <1>2 DEF Levels
<1>4. CASE n = 0
  BY <1>2, <1>3, <1>4
<1>5. CASE n # 0
  <2>1. n - 1 \in 0 .. Len(p) /\ ~(n <= n - 1)
    BY <1>3, <1>5
  <2>2. R[n - 1] \subseteq S
    BY <1>2, <2>1
  <2>3. Further(p, R[n - 1]) \subseteq S
    BY <2>2 DEF Further
  <2> QED
    BY <1>2, <1>3, <1>5, <2>3
<1> QED
  BY <1>4, <1>5

LEMMA ExecutedBegins == ASSUME NEW p, Len(p) \in Nat PROVE Begin \in Executed(p)
<1>1. PICK R : Levels(p, R, Len(p)) /\ Executed(p) = R[Len(p)]
  BY ExecutedLevels
<1> DEFINE T == {n \in 0 .. Len(p) : Begin \notin R[n]}
<1> SUFFICES ASSUME T # {} PROVE FALSE
  BY <1>1
<1>2. PICK n \in T : \A y \in T : n <= y
  <2>1. T \in SUBSET Nat
    OBVIOUS
  <2> HIDE DEF T
  <2> QED
    BY <2>1, LeastNumber
<1>3. n \in 0 .. Len(p) /\ R[n] = IF n = 0 THEN {Begin} ELSE Further(p, R[n - 1])
  BY <1>1, <1>2 DEF Levels
<1>4. CASE n = 0
  BY <1>2, <1>3, <1>4
<1>5. CASE n # 0
  <2>1. n - 1 \in 0 .. Len(p) /\ ~(n <= n - 1)
    BY <1>3, <1>5
  <2>2. Begin \in R[n - 1]
    BY <1>2, <2>1
  <2> QED
    BY <1>2, <1>3, <1>5, <2>2 DEF Further
<1> QED
  BY <1>4, <1>5

-----------------------------------------------------------------------------
(* Contexts: their names and the innermost catch, as one is added or taken *)
(* off.                                                                    *)
LEMMA Greatest ==
    ASSUME NEW m \in Nat, NEW C \in SUBSET (1 .. m), C # {}
    PROVE  \E x \in C : \A y \in C : y <= x
<1> DEFINE T == {x \in Nat : \A y \in C : y <= x}
<1>1. T \in SUBSET Nat /\ m \in T
  OBVIOUS
<1>2. PICK x \in T : \A y \in T : x <= y
  <2> HIDE DEF T
  <2> QED
    BY <1>1, LeastNumber
<1>3. x \in Nat /\ \A y \in C : y \in Nat /\ y >= 1 /\ y <= x
  BY <1>2
<1>4. x \in C
  <2> SUFFICES ASSUME x \notin C PROVE FALSE
    OBVIOUS
  <2>1. PICK z \in C : TRUE
    OBVIOUS
  <2>2. x - 1 \in Nat /\ ~(x <= x - 1)
    BY <1>3, <2>1
  <2>3. \A y \in C : y <= x - 1
    <3> TAKE y \in C
    <3>1. y # x /\ y \in Nat /\ y <= x
      BY <1>3
    <3> QED
      BY <1>3, <3>1
  <2>4. x - 1 \in T
    BY <2>2, <2>3
  <2> QED
    BY <1>2, <2>2, <2>4
<1> QED
  BY <1>3, <1>4

LEMMA InnerNone ==
    ASSUME NEW c, \A i \in 1 .. Len(c) : c[i] = 0
    PROVE  InnerCatch(c) = 0
  BY DEF InnerCatch

LEMMA InnerIs ==
    ASSUME NEW c, Len(c) \in Nat, NEW j \in 1 .. Len(c), c[j] # 0,
           \A i \in 1 .. Len(c) : i > j => c[i] = 0
    PROVE  InnerCatch(c) = c[j]
<1> DEFINE catches == {i \in 1 .. Len(c) : c[i] # 0}
           m == CHOOSE i \in catches : \A l \in catches : l <= i
<1>1. j \in catches /\ \A l \in catches : l <= j
  <2> SUFFICES ASSUME NEW l \in catches PROVE l <= j
    OBVIOUS
  <2>1. l \in Nat /\ j \in Nat /\ ~(l > j)
    OBVIOUS
  <2> QED
    BY <2>1
<1>2. m \in catches /\ \A l \in catches : l <= m
  <2> HIDE DEF catches
  <2> QED
    BY <1>1
<1>3. m = j
  <2>1. m \in Nat /\ j \in Nat /\ m <= j /\ j <= m
    BY <1>1, <1>2
  <2> HIDE DEF m
  <2> QED
    BY <2>1
<1>4. InnerCatch(c) = IF catches = {} THEN 0 ELSE c[m]
  BY DEF InnerCatch
<1> HIDE DEF catches, m
<1> QED
  BY <1>1, <1>3, <1>4

LEMMA ContextPushed ==
    ASSUME NEW c \in Seq(Nat), NEW x \in Nat
    PROVE  /\ Names(Append(c, x)) = Append(Names(c), IF x = 0 THEN "rlimits" ELSE "catch")
           /\ InnerCatch(Append(c, x)) = IF x = 0 THEN InnerCatch(c) ELSE x
           /\ Append(c, x) \in Seq(Nat)
<1> DEFINE a == Append(c, x)
<1>1. /\ a \in Seq(Nat) /\ Len(a) = Len(c) + 1 /\ a[Len(c) + 1] = x /\ Len(c) \in Nat
      /\ \A i \in 1 .. Len(c) : a[i] = c[i]
  OBVIOUS
<1>2. \A i \in 1 .. Len(a) : i \in 1 .. Len(c) \/ i = Len(c) + 1
  BY <1>1
<1>3. \A i \in 1 .. Len(c) : i \in 1 .. Len(a)
  BY <1>1
<1> HIDE DEF a
<1>4. Names(a) = Append(Names(c), IF x = 0 THEN "rlimits" ELSE "catch")
  <2> DEFINE S == {"rlimits", "catch"}
             s == Names(c)
             w == IF x = 0 THEN "rlimits" ELSE "catch"
  <2>1. s = [i \in 1 .. Len(c) |-> s[i]] /\ \A i \in 1 .. Len(c) : s[i] = IF c[i] = 0 THEN "rlimits" ELSE "catch"
    BY DEF Names
  <2>2. s \in Seq(S) /\ Len(s) = Len(c) /\ w \in S
    BY <1>1, <2>1
  <2> HIDE DEF s, w, S
  <2>3. /\ Append(s, w) = [i \in 1 .. Len(c) + 1 |-> Append(s, w)[i]]
        /\ Append(s, w)[Len(c) + 1] = w /\ \A i \in 1 .. Len(c) : Append(s, w)[i] = s[i]
    <3>1. /\ Append(s, w) \in Seq(S) /\ Len(Append(s, w)) = Len(c) + 1
          /\ Append(s, w)[Len(c) + 1] = w /\ \A i \in 1 .. Len(c) : Append(s, w)[i] = s[i]
      BY <2>2, AppendProperties
    <3>2. \A z \in Seq(S) : z = [i \in 1 .. Len(z) |-> z[i]]
      OBVIOUS
    <3> QED
      BY <3>1, <3>2
  <2>4. \A i \in 1 .. Len(c) + 1 : Append(s, w)[i] = IF a[i] = 0 THEN "rlimits" ELSE "catch"
    <3> TAKE i \in 1 .. Len(c) + 1
    <3>1. CASE i \in 1 .. Len(c)
      BY <1>1, <2>1, <2>3, <3>1
    <3>2. CASE i = Len(c) + 1
      BY <1>1, <2>3, <3>2 DEF w
    <3> QED
      BY <1>1, <1>2, <3>1, <3>2
  <2>5. Append(s, w) = Names(a)
    BY <1>1, <2>3, <2>4 DEF Names
  <2> QED
    BY <2>5 DEF s, w
<1>5. InnerCatch(a) = IF x = 0 THEN InnerCatch(c) ELSE x
  <2>1. CASE x # 0
    <3>1. PICK j : j = Len(c) + 1
      OBVIOUS
    <3>2. Len(a) \in Nat /\ j \in 1 .. Len(a) /\ a[j] # 0 /\ a[j] = x
      BY <1>1, <2>1, <3>1
    <3>3. \A i \in 1 .. Len(a) : i > j => a[i] = 0
      BY <1>1, <3>1
    <3>4. InnerCatch(a) = a[j]
      BY <3>2, <3>3, InnerIs
    <3> QED
      BY <2>1, <3>2, <3>4
  <2>2. CASE x = 0 /\ \A i \in 1 .. Len(c) : c[i] = 0
    <3>1. \A i \in 1 .. Len(a) : a[i] = 0
      BY <1>1, <1>2, <2>2
    <3> QED
      BY <2>2, <3>1, InnerNone
  <2>3. CASE x = 0 /\ \E i \in 1 .. Len(c) : c[i] # 0
    <3> DEFINE C == {i \in 1 .. Len(c) : c[i] # 0}
    <3>1. PICK j \in C : \A i \in C : i <= j
      <4>1. C \in SUBSET (1 .. Len(c)) /\ C # {}
        BY <2>3
      <4> HIDE DEF C
      <4> QED
        BY <1>1, <4>1, Greatest
    <3>2. j \in 1 .. Len(c) /\ c[j] # 0 /\ j \in 1 .. Len(a) /\ a[j] = c[j] /\ j < Len(c) + 1
      BY <1>1, <1>3, <3>1
    <3>3. \A i \in 1 .. Len(c) : i > j => c[i] = 0
      <4> TAKE i \in 1 .. Len(c)
      <4>1. CASE i \in C
        <5>1. i <= j /\ i \in Nat /\ j \in Nat
          BY <3>1, <3>2, <4>1
        <5> QED
          BY <5>1
      <4> QED
        BY <4>1
    <3>4. \A i \in 1 .. Len(a) : i > j => a[i] = 0
      BY <1>1, <1>2, <2>3, <3>3
    <3>5. InnerCatch(a) = a[j]
      <4>1. Len(a) \in Nat /\ j \in 1 .. Len(a) /\ a[j] # 0
        BY <1>1, <3>2
      <4> QED
        BY <3>4, <4>1, InnerIs
    <3>6. InnerCatch(c) = c[j]
      BY <1>1, <3>2, <3>3, InnerIs
    <3> QED
      BY <2>3, <3>2, <3>5, <3>6
  <2> QED
    BY <2>1, <2>2, <2>3
<1> QED
  BY <1>1, <1>4, <1>5 DEF a

LEMMA ContextPopped ==
    ASSUME NEW c \in Seq(Nat), c # <<>>
    PROVE  /\ Pop(c) \in Seq(Nat) /\ c = Append(Pop(c), Top(c)) /\ Top(c) \in Nat
           /\ Pop(c) = SubSeq(c, 1, Len(c) - 1)
           /\ Names(c) # <<>> /\ Pop(Names(c)) = Names(Pop(c))
           /\ Top(Names(c)) = IF Top(c) = 0 THEN "rlimits" ELSE "catch"
           /\ Top(c) = 0 => InnerCatch(Pop(c)) = InnerCatch(c)
           /\ Top(c) # 0 => InnerCatch(c) = Top(c)
<1>1. /\ Len(c) \in Nat /\ Len(c) > 0 /\ Len(c) \in 1 .. Len(c) /\ Len(c) - 1 \in Nat
      /\ Pop(c) \in Seq(Nat) /\ Len(Pop(c)) = Len(c) - 1
      /\ \A i \in 1 .. Len(c) - 1 : Pop(c)[i] = c[i]
  <2>1. Len(c) \in Nat /\ Len(c) # 0
    BY EmptySeq
  <2>2. Len(c) > 0 /\ Len(c) \in 1 .. Len(c) /\ Len(c) - 1 \in Nat /\ Len(c) - 1 <= Len(c)
    BY <2>1
  <2> DEFINE m == Len(c) - 1
  <2>3. m \in Nat /\ \A i \in 1 .. m : i \in 1 .. Len(c)
    BY <2>1, <2>2
  <2> HIDE DEF m
  <2>4. SubSeq(c, 1, m) \in Seq(Nat) /\ Len(SubSeq(c, 1, m)) = m /\ \A i \in 1 .. m : SubSeq(c, 1, m)[i] = c[i]
    BY <2>1, <2>3
  <2> QED
    BY <2>1, <2>2, <2>4 DEF Pop, m
<1>2. Top(c) \in Nat
  BY <1>1 DEF Top
<1>3. c = Append(Pop(c), Top(c))
  <2> DEFINE s == Pop(c)
             w == Top(c)
  <2>1. s \in Seq(Nat) /\ w \in Nat /\ Len(s) = Len(c) - 1 /\ w = c[Len(c)] /\ \A i \in 1 .. Len(c) - 1 : s[i] = c[i]
    BY <1>1, <1>2 DEF Top
  <2> HIDE DEF s, w
  <2>2. Append(s, w) \in Seq(Nat) /\ Len(Append(s, w)) = Len(c)
    BY <1>1, <2>1
  <2>3. \A i \in 1 .. Len(c) : Append(s, w)[i] = c[i]
    BY <1>1, <2>1
  <2>4. Append(s, w) = c
    BY <2>2, <2>3, SeqEqual
  <2> QED
    BY <2>4 DEF s, w
<1> DEFINE q == Pop(c)
           t == Top(c)
<1>4. /\ Names(c) = Append(Names(q), IF t = 0 THEN "rlimits" ELSE "catch")
      /\ InnerCatch(c) = IF t = 0 THEN InnerCatch(q) ELSE t
  <2> HIDE DEF q, t
  <2>1. q \in Seq(Nat) /\ t \in Nat /\ c = Append(q, t)
    BY <1>1, <1>2, <1>3 DEF q, t
  <2> QED
    BY <2>1, ContextPushed
<1>5. Names(q) \in Seq({"rlimits", "catch"}) /\ Len(Names(q)) \in Nat
  <2>1. Len(q) \in Nat
    BY <1>1
  <2> QED
    BY <2>1 DEF Names
<1> HIDE DEF q, t
<1>6. /\ Names(c) # <<>> /\ Pop(Names(c)) = Names(q)
      /\ Top(Names(c)) = IF t = 0 THEN "rlimits" ELSE "catch"
  <2> DEFINE s == Names(q)
             w == IF t = 0 THEN "rlimits" ELSE "catch"
  <2>1. s \in Seq({"rlimits", "catch"}) /\ w \in {"rlimits", "catch"} /\ Names(c) = Append(s, w)
    BY <1>4, <1>5
  <2> HIDE DEF s, w
  <2>2. Append(s, w) # <<>> /\ SubSeq(Append(s, w), 1, Len(Append(s, w)) - 1) = s
        /\ Append(s, w)[Len(Append(s, w))] = w
    BY <2>1, AppendProperties
  <2> QED
    BY <2>1, <2>2 DEF Pop, Top, s, w
<1> QED
  BY <1>1, <1>2, <1>3, <1>4, <1>6 DEF q, t, Pop

LEMMA ContextEmpty == Names(<<>>) = <<>> /\ InnerCatch(<<>>) = 0
<1>1. Len(<<>>) = 0
  OBVIOUS
<1>2. \A i \in 1 .. Len(<<>>) : FALSE
  BY <1>1
<1>3. InnerCatch(<<>>) = 0
  BY <1>2, InnerNone
<1>4. Names(<<>>) = <<>>
  BY <1>1 DEF Names
<1> QED
  BY <1>3, <1>4

-----------------------------------------------------------------------------
(* In a balanced function each configuration has contexts the handlers of  *)
(* which are executed in those around them.                                *)
LEMMA SamePrefix ==
    ASSUME NEW s \in Seq(Nat), NEW t \in Seq(Nat), NEW m \in Nat, m <= Len(s), m <= Len(t),
           \A i \in 1 .. m : s[i] = t[i]
    PROVE  SubSeq(s, 1, m) = SubSeq(t, 1, m) /\ SubSeq(s, 1, m) \in Seq(Nat)
<1>1. Len(s) \in Nat /\ Len(t) \in Nat
  OBVIOUS
<1>2. \A i \in 1 .. m : i \in 1 .. Len(s) /\ i \in 1 .. Len(t)
  BY <1>1
<1>3. SubSeq(s, 1, m) \in Seq(Nat) /\ Len(SubSeq(s, 1, m)) = m /\ \A i \in 1 .. m : SubSeq(s, 1, m)[i] = s[i]
  BY <1>1, <1>2
<1>4. SubSeq(t, 1, m) \in Seq(Nat) /\ Len(SubSeq(t, 1, m)) = m /\ \A i \in 1 .. m : SubSeq(t, 1, m)[i] = t[i]
  BY <1>1, <1>2
<1>5. \A i \in 1 .. m : SubSeq(s, 1, m)[i] = SubSeq(t, 1, m)[i]
  BY <1>3, <1>4
<1> QED
  BY <1>3, <1>4, <1>5, SeqEqual

LEMMA StepKinds ==
    ASSUME NEW p, NEW i, NEW c, NEW d \in Steps(p, i, c)
    PROVE  \E x : \/ d = <<x, c>>
                  \/ d = <<x, Append(c, i + 1)>> /\ <<i + 1, c>> \in Steps(p, i, c)
                  \/ d = <<x, Append(c, 0)>>
                  \/ d = <<x, Pop(c)>> /\ c # <<>>
<1>1. CASE p[i].op = "catch"
  <2>1. Steps(p, i, c) = {<<i + 1, c>>, <<i + 2, Append(c, i + 1)>>}
    BY <1>1 DEF Steps
  <2> QED
    BY <2>1
<1>2. CASE p[i].op \in {"jump", "caught", "switch"}
  <2>1. Steps(p, i, c) = {<<j, c>> : j \in Targets(p, i)}
    BY <1>2 DEF Steps
  <2> QED
    BY <2>1
<1>3. CASE p[i].op = "branch"
  <2>1. Steps(p, i, c) = {<<i + 1, c>>, <<p[i].to[1], c>>}
    BY <1>3 DEF Steps
  <2> QED
    BY <2>1
<1>4. CASE p[i].op = "rlimits"
  <2>1. Steps(p, i, c) = {<<i + 1, Append(c, 0)>>}
    BY <1>4 DEF Steps
  <2> QED
    BY <2>1
<1>5. CASE p[i].op = "return"
  <2>1. Steps(p, i, c) = IF c = <<>> THEN {} ELSE {<<i + 1, Pop(c)>>}
    BY <1>5 DEF Steps
  <2> QED
    BY <2>1
<1>6. CASE p[i].op \notin {"catch", "jump", "caught", "switch", "branch", "rlimits", "return"}
  <2>1. Steps(p, i, c) = {<<i + 1, c>>}
    BY <1>6 DEF Steps
  <2> QED
    BY <2>1
<1> QED
  BY <1>1, <1>2, <1>3, <1>4, <1>5, <1>6

Enclosed(p, c) == \A j \in 1 .. Len(c) : c[j] # 0 => <<c[j], SubSeq(c, 1, j - 1)>> \in Executed(p)
Configuration(p, e) ==
    e = <<e[1], e[2]>> /\ e[1] \in 1 .. Len(p) /\ e[2] \in Seq(Nat) /\ Enclosed(p, e[2])

LEMMA EnclosedPushed ==
    ASSUME NEW p, NEW c \in Seq(Nat), Enclosed(p, c), NEW x \in Nat, x # 0 => <<x, c>> \in Executed(p)
    PROVE  Append(c, x) \in Seq(Nat) /\ Enclosed(p, Append(c, x))
<1> DEFINE a == Append(c, x)
<1>1. /\ a \in Seq(Nat) /\ Len(a) = Len(c) + 1 /\ a[Len(c) + 1] = x /\ Len(c) \in Nat
      /\ \A i \in 1 .. Len(c) : a[i] = c[i]
  OBVIOUS
<1> HIDE DEF a
<1>2. ASSUME NEW j \in 1 .. Len(a), a[j] # 0 PROVE <<a[j], SubSeq(a, 1, j - 1)>> \in Executed(p)
  <2>1. j - 1 \in Nat /\ j - 1 <= Len(c) /\ j - 1 <= Len(a) /\ (j \in 1 .. Len(c) \/ j = Len(c) + 1)
    BY <1>1
  <2>2. \A i \in 1 .. j - 1 : a[i] = c[i]
    BY <1>1, <2>1
  <2>3. SubSeq(a, 1, j - 1) = SubSeq(c, 1, j - 1)
    BY <1>1, <2>1, <2>2, SamePrefix
  <2>4. CASE j \in 1 .. Len(c)
    BY <1>1, <1>2, <2>3, <2>4 DEF Enclosed
  <2>5. CASE j = Len(c) + 1
    <3>1. SubSeq(c, 1, Len(c)) = c /\ j - 1 = Len(c)
      BY <1>1, <2>5
    <3> QED
      BY <1>1, <1>2, <2>3, <2>5, <3>1
  <2> QED
    BY <2>1, <2>4, <2>5
<1> QED
  BY <1>1, <1>2 DEF Enclosed, a

LEMMA EnclosedPopped ==
    ASSUME NEW p, NEW c \in Seq(Nat), c # <<>>, Enclosed(p, c)
    PROVE  /\ Pop(c) \in Seq(Nat) /\ Enclosed(p, Pop(c))
           /\ Top(c) # 0 => <<Top(c), Pop(c)>> \in Executed(p)
<1> DEFINE q == Pop(c)
           t == Top(c)
<1>1. q \in Seq(Nat) /\ t \in Nat /\ c = Append(q, t)
  BY ContextPopped
<1> HIDE DEF q, t
<1>2. /\ Len(q) \in Nat /\ Len(c) = Len(q) + 1 /\ c[Len(c)] = t
      /\ \A i \in 1 .. Len(q) : c[i] = q[i]
  BY <1>1
<1>3. ASSUME NEW j \in 1 .. Len(q), q[j] # 0 PROVE <<q[j], SubSeq(q, 1, j - 1)>> \in Executed(p)
  <2>1. j - 1 \in Nat /\ j - 1 <= Len(c) /\ j - 1 <= Len(q) /\ j \in 1 .. Len(c) /\ c[j] = q[j]
    BY <1>2
  <2>2. \A i \in 1 .. j - 1 : c[i] = q[i]
    BY <1>2, <2>1
  <2>3. SubSeq(q, 1, j - 1) = SubSeq(c, 1, j - 1)
    BY <1>1, <2>1, <2>2, SamePrefix
  <2> QED
    BY <1>3, <2>1, <2>3 DEF Enclosed
<1>4. ASSUME t # 0 PROVE <<t, q>> \in Executed(p)
  <2>1. Len(c) \in 1 .. Len(c) /\ Len(c) - 1 = Len(q) /\ Len(q) <= Len(c)
    BY <1>2
  <2>2. SubSeq(c, 1, Len(q)) = SubSeq(q, 1, Len(q))
    BY <1>1, <1>2, <2>1, SamePrefix
  <2>3. SubSeq(q, 1, Len(q)) = q
    BY <1>1, <1>2
  <2> QED
    BY <1>2, <1>4, <2>1, <2>2, <2>3 DEF Enclosed
<1> QED
  BY <1>1, <1>3, <1>4 DEF Enclosed, q, t

LEMMA ExecutedShape ==
    ASSUME NEW p, Len(p) \in Nat, Balanced(p)
    PROVE  \A e \in Executed(p) : Configuration(p, e)
<1> DEFINE S == {e \in Executed(p) : Configuration(p, e)}
<1>1. \A e \in Executed(p) : e[1] \in 1 .. Len(p) /\ Steps(p, e[1], e[2]) \subseteq Executed(p)
  BY DEF Balanced
<1>2. Begin \in S
  <2>1. Begin \in Executed(p)
    BY ExecutedBegins
  <2>2. Begin[1] = 1 /\ Begin[2] = <<>> /\ Begin = <<Begin[1], Begin[2]>> /\ <<>> \in Seq(Nat)
    BY DEF Begin
  <2>3. Enclosed(p, <<>>)
    <3>1. \A j \in 1 .. Len(<<>>) : FALSE
      OBVIOUS
    <3> QED
      BY <3>1 DEF Enclosed
  <2> QED
    BY <1>1, <2>1, <2>2, <2>3 DEF Configuration
<1>3. ASSUME NEW e \in S, NEW d \in Steps(p, e[1], e[2]) PROVE d \in S
  <2>1. d \in Executed(p) /\ d[1] \in 1 .. Len(p)
    BY <1>1
  <2>2. e \in Executed(p) /\ e[1] \in Nat /\ e[2] \in Seq(Nat) /\ Enclosed(p, e[2])
    <3>1. e \in Executed(p) /\ e[1] \in 1 .. Len(p) /\ e[2] \in Seq(Nat) /\ Enclosed(p, e[2])
      BY DEF Configuration
    <3> QED
      BY <3>1
  <2>3. PICK x : \/ d = <<x, e[2]>>
                 \/ d = <<x, Append(e[2], e[1] + 1)>> /\ <<e[1] + 1, e[2]>> \in Steps(p, e[1], e[2])
                 \/ d = <<x, Append(e[2], 0)>>
                 \/ d = <<x, Pop(e[2])>> /\ e[2] # <<>>
    BY StepKinds
  <2>4. d = <<d[1], d[2]>> /\ d[2] \in {e[2], Append(e[2], e[1] + 1), Append(e[2], 0), Pop(e[2])}
    BY <2>3
  <2>5. d[2] \in Seq(Nat) /\ Enclosed(p, d[2])
    <3>1. CASE d = <<x, e[2]>>
      BY <2>2, <3>1
    <3>2. CASE d = <<x, Append(e[2], e[1] + 1)>> /\ <<e[1] + 1, e[2]>> \in Steps(p, e[1], e[2])
      <4>1. <<e[1] + 1, e[2]>> \in Executed(p) /\ e[1] + 1 \in Nat
        BY <1>1, <2>2, <3>2
      <4> QED
        BY <2>2, <3>2, <4>1, EnclosedPushed
    <3>3. CASE d = <<x, Append(e[2], 0)>>
      BY <2>2, <3>3, EnclosedPushed
    <3>4. CASE d = <<x, Pop(e[2])>> /\ e[2] # <<>>
      BY <2>2, <3>4, EnclosedPopped
    <3> QED
      BY <2>3, <3>1, <3>2, <3>3, <3>4
  <2> QED
    BY <2>1, <2>4, <2>5 DEF Configuration
<1>4. \A e \in S : e[1] \in 1 .. Len(p) => Steps(p, e[1], e[2]) \subseteq S
  <2> HIDE DEF S
  <2> QED
    BY <1>3
<1>5. Executed(p) \subseteq S
  <2> HIDE DEF S
  <2> QED
    BY <1>2, <1>4, ExecutedLeast
<1> QED
  BY <1>5

-----------------------------------------------------------------------------
(* What is executed in this function.                                      *)
Configs == Executed(Original)
Renamed == {"endcatch", "endrlimits"}

(* Instructions lead somewhere else, or to the next.                       *)
OpsOK ==
    \A i \in Addr :
      /\ code[i].to # <<>> => code[i].op \in {"jump", "branch", "switch", "catch", "caught"}
      /\ code[i].op \in {"jump", "switch", "caught"} => code[i].to # <<>>
      /\ code[i].op \in {"jump", "branch"} => Len(code[i].to) = 1
      /\ code[i].op = "branch" => i < N
      /\ code[i].op = "catch" => code[i].to = <<i + 2>> /\ i + 2 <= N

(* The blocks that follow are those of the last instruction, if the first  *)
(* pass has come that far.                                                 *)
FollowOK ==
    phase \in {"pass1", "pass2"} =>
      \A b \in Blocks : to[b] = IF phase = "pass1" /\ last[b] >= at THEN <<>> ELSE Follow(last[b])

Unvisited ==
    phase = "pass1" =>
      /\ \A b \in Addr : sp[b] = Invalid /\ caught[b] = 0
      /\ \A i \in Addr : code[i].op \notin Renamed
      /\ here = <<>> /\ handler = 0

(* A block is known once it has been put on the list, with the contexts    *)
(* that it is executed in; and so is every handler in them.                *)
Known(b) == sp[b] # Invalid
Handlers(c) == \A j \in 1 .. Len(c) : c[j] # 0 => Known(c[j])
In(e, names, inner) == names = Names(e[2]) /\ inner = InnerCatch(e[2]) /\ Handlers(e[2])
KnownOK ==
    /\ Known(1)
    /\ \A b \in Addr : Known(b) => b \in Blocks /\ \E e \in Configs : e[1] = b /\ In(e, sp[b], caught[b])

InList(b) == \E j \in 1 .. Len(list) : list[j] = b
ListOK ==
    /\ \A j \in 1 .. Len(list) : Known(list[j]) /\ list[j] # cur
    /\ \A i, j \in 1 .. Len(list) : list[i] = list[j] => i = j

(* What has not been visited is as it was.                                 *)
FreshOK ==
    /\ \A b \in Blocks : ~Known(b) \/ InList(b) => \A i \in b .. last[b] : code[i].op \notin Renamed
    /\ \A i \in at .. last[cur] : code[i].op \notin Renamed

(* Where the pass is, in the block that it visits or after it.             *)
Ending(e) ==
    IF code[last[cur]].op = "catch"
      THEN here = Append(Names(e[2]), "catch") /\ handler = InnerCatch(e[2])
      ELSE \A d \in Steps(Original, e[1], e[2]) : here = Names(d[2]) /\ handler = InnerCatch(d[2])
HereOK ==
    /\ cur \in Blocks /\ Known(cur) /\ cur <= at /\ at <= last[cur] + 1
    /\ at <= last[cur] => \E e \in Configs : e[1] = at /\ In(e, here, handler)
    /\ at > last[cur] => \E e \in Configs : e[1] = last[cur] /\ Handlers(e[2]) /\ Ending(e)

(* What it has done: every RETURN is named, and the blocks that follow are *)
(* known.                                                                  *)
NamedFrom(lo, hi) ==
    \A e \in Configs : e[1] \in lo .. hi /\ Original[e[1]].op = "return" => code[e[1]].op = Ended(e[2])
NextKnown(i) == \A e \in Configs : e[1] = i => \A d \in Steps(Original, i, e[2]) : Known(d[1])
DoneOK ==
    /\ NamedFrom(cur, at - 1)
    /\ at > last[cur] => \A j \in 1 .. Len(Successors) : j < k => Known(Successors[j])
    /\ \A b \in Blocks : Known(b) /\ b # cur /\ ~InList(b) => NamedFrom(b, last[b]) /\ NextKnown(last[b])

Pass2OK == phase = "pass2" => KnownOK /\ ListOK /\ FreshOK /\ HereOK /\ DoneOK

TablesOK == DOMAIN sp = Addr /\ DOMAIN caught = Addr
ContextInv ==
    Balanced(Original) /\ TablesOK /\ OpsOK /\ FollowOK /\ Unvisited /\ Pass2OK /\ ContextsRight

-----------------------------------------------------------------------------
LEMMA OriginalIs ==
    ASSUME CodeOK
    PROVE  /\ N \in Nat \ {0} /\ Addr = 1 .. N /\ Len(Original) = N /\ DOMAIN Original = Addr
           /\ \A i \in Addr :
                /\ Original[i].to = code[i].to /\ Original[i].arg = code[i].arg
                /\ Original[i].op = IF code[i].op \in Renamed THEN "return" ELSE code[i].op
<1>1. N \in Nat \ {0} /\ Addr = 1 .. N
  BY DEF CodeOK, N, Addr
<1>2. \A i \in Addr : code[i] \in [op : Ops \cup {"caught", "endcatch", "endrlimits"}, to : Seq(Nat), arg : Args]
  BY ElementOfSeq DEF CodeOK, N, Addr
<1>3. \A i \in Addr :
         Original[i] = [code[i] EXCEPT !.op = IF @ \in {"endcatch", "endrlimits"} THEN "return" ELSE @]
  BY DEF Original
<1>4. Len(Original) = N /\ DOMAIN Original = Addr
  BY <1>1 DEF Original
<1>5. ASSUME NEW i \in Addr
      PROVE  /\ Original[i].to = code[i].to /\ Original[i].arg = code[i].arg
             /\ Original[i].op = IF code[i].op \in Renamed THEN "return" ELSE code[i].op
  <2> DEFINE T == [op : Ops \cup {"caught", "endcatch", "endrlimits"}, to : Seq(Nat), arg : Args]
             r == code[i]
             o == IF r.op \in Renamed THEN "return" ELSE r.op
  <2>1. r \in T /\ Original[i] = [r EXCEPT !.op = o]
    BY <1>2, <1>3 DEF Renamed
  <2> HIDE DEF r, o
  <2>2. [r EXCEPT !.op = o].to = r.to /\ [r EXCEPT !.op = o].arg = r.arg /\ [r EXCEPT !.op = o].op = o
    BY <2>1
  <2> QED
    BY <2>1, <2>2 DEF r, o
<1> QED
  BY <1>1, <1>4, <1>5

LEMMA ConfigsAre ==
    ASSUME CodeOK, Balanced(Original)
    PROVE  /\ Begin \in Configs
           /\ \A e \in Configs :
                /\ e = <<e[1], e[2]>> /\ e[1] \in Addr /\ e[2] \in Seq(Nat) /\ Enclosed(Original, e[2])
                /\ Steps(Original, e[1], e[2]) \subseteq Configs
                /\ \A f \in Configs : e[1] = f[1] => e[2] = f[2]
<1>1. Len(Original) \in Nat /\ 1 .. Len(Original) = Addr
  BY OriginalIs
<1>2. \A e \in Configs : Configuration(Original, e)
  BY <1>1, ExecutedShape DEF Configs
<1>3. \A e \in Configs : /\ Steps(Original, e[1], e[2]) \subseteq Configs
                         /\ \A f \in Configs : e[1] = f[1] => e[2] = f[2]
  BY DEF Balanced, Configs
<1> QED
  BY <1>1, <1>2, <1>3, ExecutedBegins DEF Configuration, Configs

(* Steps, by the instruction as it is called now.                          *)
LEMMA StepsAre ==
    ASSUME CodeOK, NEW i \in Addr, NEW c
    PROVE  LET steps == Steps(Original, i, c)
               o == code[i].op
           IN  /\ o = "catch" => steps = {<<i + 1, c>>, <<i + 2, Append(c, i + 1)>>}
               /\ o \in {"jump", "caught", "switch"} =>
                    steps = {<<code[i].to[j], c>> : j \in 1 .. Len(code[i].to)}
               /\ o = "branch" => steps = {<<i + 1, c>>, <<code[i].to[1], c>>}
               /\ o = "rlimits" => steps = {<<i + 1, Append(c, 0)>>}
               /\ o \in {"return"} \cup Renamed => steps = IF c = <<>> THEN {} ELSE {<<i + 1, Pop(c)>>}
               /\ o \notin {"catch", "jump", "caught", "switch", "branch", "rlimits", "return"} \cup Renamed =>
                    steps = {<<i + 1, c>>}
<1>1. /\ Original[i].to = code[i].to
      /\ Original[i].op = IF code[i].op \in Renamed THEN "return" ELSE code[i].op
  BY OriginalIs
<1>2. Targets(Original, i) = {code[i].to[j] : j \in 1 .. Len(code[i].to)}
  BY <1>1 DEF Targets
<1>3. CASE code[i].op = "catch"
  <2>1. Original[i].op = "catch"
    BY <1>1, <1>3 DEF Renamed
  <2> QED
    BY <1>3, <2>1 DEF Steps, Renamed
<1>4. CASE code[i].op \in {"jump", "caught", "switch"}
  <2>1. Original[i].op = code[i].op
    BY <1>1, <1>4 DEF Renamed
  <2>2. Steps(Original, i, c) = {<<j, c>> : j \in Targets(Original, i)}
    BY <1>4, <2>1 DEF Steps
  <2>3. Steps(Original, i, c) = {<<code[i].to[j], c>> : j \in 1 .. Len(code[i].to)}
    BY <1>2, <2>2
  <2> QED
    BY <1>4, <2>3 DEF Renamed
<1>5. CASE code[i].op = "branch"
  <2>1. Original[i].op = "branch"
    BY <1>1, <1>5 DEF Renamed
  <2> QED
    BY <1>1, <1>5, <2>1 DEF Steps, Renamed
<1>6. CASE code[i].op = "rlimits"
  <2>1. Original[i].op = "rlimits"
    BY <1>1, <1>6 DEF Renamed
  <2> QED
    BY <1>6, <2>1 DEF Steps, Renamed
<1>7. CASE code[i].op \in {"return"} \cup Renamed
  <2>1. Original[i].op = "return"
    BY <1>1, <1>7
  <2>2. Steps(Original, i, c) = IF c = <<>> THEN {} ELSE {<<i + 1, Pop(c)>>}
    BY <2>1 DEF Steps
  <2> QED
    BY <1>7, <2>2 DEF Renamed
<1>8. CASE code[i].op \notin {"catch", "jump", "caught", "switch", "branch", "rlimits", "return"} \cup Renamed
  <2>1. Original[i].op = code[i].op
    BY <1>1, <1>8
  <2>2. Steps(Original, i, c) = {<<i + 1, c>>}
    BY <1>8, <2>1 DEF Steps
  <2> QED
    BY <1>8, <2>2
<1> QED
  BY <1>3, <1>4, <1>5, <1>6, <1>7, <1>8

(* The function is the same as long as only RETURNs are renamed.           *)
LEMMA SameCode ==
    ASSUME code' = code
    PROVE  N' = N /\ Addr' = Addr /\ Original' = Original /\ Configs' = Configs
  BY DEF N, Addr, Original, Configs

LEMMA SameOriginal ==
    ASSUME Original' = Original
    PROVE  Configs' = Configs /\ Balanced(Original)' = Balanced(Original)
  BY DEF Configs

LEMMA NamesValid == ASSUME NEW c \in Seq(Nat) PROVE Names(c) # Invalid
<1> SUFFICES ASSUME Names(c) = Invalid PROVE FALSE
  OBVIOUS
<1>1. Len(c) \in Nat /\ Names(c) = [j \in 1 .. Len(c) |-> IF c[j] = 0 THEN "rlimits" ELSE "catch"]
  BY DEF Names
<1>2. Len(Names(c)) = Len(c) /\ Len(Names(c)) = 1 /\ Names(c)[1] = "invalid"
  <2>1. Len(Names(c)) = Len(c)
    BY <1>1
  <2>2. Len(Invalid) = 1 /\ Invalid[1] = "invalid"
    BY DEF Invalid
  <2> QED
    BY <2>1, <2>2
<1>3. 1 \in 1 .. Len(c)
  BY <1>1, <1>2
<1>4. Names(c)[1] \in {"rlimits", "catch"}
  BY <1>1, <1>3
<1> QED
  BY <1>2, <1>4

LEMMA NoNames == ASSUME NEW c \in Seq(Nat) PROVE Names(c) = <<>> <=> c = <<>>
<1>1. Names(<<>>) = <<>>
  BY ContextEmpty
<1>2. c # <<>> => Names(c) # <<>>
  BY ContextPopped
<1> QED
  BY <1>1, <1>2

LEMMA BlockIs ==
    ASSUME CodeOK, BlocksOK, Partition, NEW b \in Blocks
    PROVE  /\ b \in Addr /\ last[b] \in Addr /\ b \in Nat /\ last[b] \in Nat /\ b <= last[b]
           /\ next[b] = IF last[b] = N THEN 0 ELSE last[b] + 1
           /\ next[b] # 0 => next[b] \in Blocks
<1>1. b \in Addr /\ last[b] \in 0 .. N /\ last[b] # 0 /\ N \in Nat /\ Addr = 1 .. N
  BY DEF Blocks, BlocksOK, CodeOK, N, Addr
<1>2. b <= last[b] /\ next[b] = (IF last[b] = N THEN 0 ELSE last[b] + 1) /\ (next[b] # 0 => next[b] \in Blocks)
  BY DEF Partition
<1> QED
  BY <1>1, <1>2

(* A block is the only one that an instruction of it is in.                *)
LEMMA OneBlock ==
    ASSUME CodeOK, BlocksOK, Partition, NEW b \in Blocks, NEW q \in Blocks, NEW i \in Nat,
           b <= i, i <= last[b], q <= i, i <= last[q]
    PROVE  b = q
<1>1. b \in Nat /\ q \in Nat /\ last[b] \in Nat /\ last[q] \in Nat
  BY BlockIs
<1>2. (b < q => last[b] < q) /\ (q < b => last[q] < b)
  BY DEF Partition
<1> QED
  BY <1>1, <1>2

-----------------------------------------------------------------------------
LEMMA InitContext == ASSUME Init PROVE ContextInv
<1>1. PICK p \in Programs : code = WithCaught(p)
  BY DEF Init
<1>2. CodeOK
  BY InitInv DEF IInv
<1>3. /\ p \in Seq([op : Ops, to : Seq(Nat), arg : Args]) /\ WellFormed(p) /\ Balanced(WithCaught(p))
      /\ N = Len(p) /\ N \in Nat \ {0} /\ Addr = 1 .. N
      /\ \A i \in Addr : p[i] \in [op : Ops, to : Seq(Nat), arg : Args]
  <2>1. p \in Seq([op : Ops, to : Seq(Nat), arg : Args]) /\ WellFormed(p) /\ Balanced(WithCaught(p))
    BY ProgramsAssumption, BalancedAssumption
  <2>2. Len(p) \in Nat /\ \A i \in 1 .. Len(p) : p[i] \in [op : Ops, to : Seq(Nat), arg : Args]
    BY <2>1, ElementOfSeq, LenProperties
  <2>3. N = Len(p)
    BY <1>1, <2>2 DEF N, WithCaught
  <2> QED
    BY <1>2, <2>1, <2>2, <2>3 DEF CodeOK, N, Addr
<1>4. \A i \in Addr : /\ code[i].op = IF p[i].op = "operand" THEN "caught" ELSE p[i].op
                      /\ code[i].to = IF p[i].op = "catch" THEN <<i + 2>>
                                      ELSE IF p[i].op = "operand" THEN p[i - 1].to ELSE p[i].to
  BY <1>1, <1>3 DEF WithCaught
<1>5. \A i \in Addr : /\ code[i].op \notin Renamed
                      /\ p[i].op # "caught"
  BY <1>3, <1>4, OpsAssumption DEF Renamed
<1>6. OpsOK
  <2> SUFFICES ASSUME NEW i \in Addr
               PROVE  /\ code[i].to # <<>> => code[i].op \in {"jump", "branch", "switch", "catch", "caught"}
                      /\ code[i].op \in {"jump", "switch", "caught"} => code[i].to # <<>>
                      /\ code[i].op \in {"jump", "branch"} => Len(code[i].to) = 1
                      /\ code[i].op = "branch" => i < N
                      /\ code[i].op = "catch" => code[i].to = <<i + 2>> /\ i + 2 <= N
    BY DEF OpsOK
  <2>1. /\ \A x \in 1 .. Len(p) :
              /\ CASE p[x].op \in {"jump", "branch", "catch"} -> Len(p[x].to) = 1
                   [] p[x].op = "switch" -> p[x].to # <<>>
                   [] OTHER -> p[x].to = <<>>
              /\ p[x].op = "catch" <=> x < Len(p) /\ p[x + 1].op = "operand"
              /\ x = 1 => p[x].op # "operand"
              /\ x = Len(p) - 1 => p[x].op # "catch"
        /\ p[Len(p)].op \in {"jump", "switch", "return"}
    BY <1>3 DEF WellFormed
  <2>2. i \in 1 .. Len(p) /\ i \in Nat /\ 1 <= i /\ i <= N
    BY <1>3
  <2>3. CASE p[i].op = "operand"
    <3>1. i - 1 \in 1 .. Len(p) /\ i - 1 < Len(p) /\ (i - 1) + 1 = i
      BY <1>3, <2>1, <2>2, <2>3
    <3>2. p[i - 1].op = "catch"
      BY <2>1, <2>3, <3>1
    <3>3. Len(p[i - 1].to) = 1
      BY <2>1, <3>1, <3>2
    <3>4. code[i].op = "caught" /\ code[i].to = p[i - 1].to
      BY <1>4, <2>3
    <3>5. \A t : Len(t) = 1 => t # <<>>
      OBVIOUS
    <3>6. p[i - 1].to # <<>>
      BY <3>3, <3>5
    <3> QED
      BY <2>2, <3>4, <3>6
  <2>4. CASE p[i].op = "catch"
    <3>1. i < Len(p) /\ i # Len(p) - 1
      BY <2>1, <2>2, <2>4
    <3>2. i + 2 <= N
      BY <1>3, <2>2, <3>1
    <3> QED
      BY <1>4, <2>4, <3>2
  <2>5. CASE p[i].op \notin {"operand", "catch"}
    <3>1. code[i].op = p[i].op /\ code[i].to = p[i].to /\ p[i].op # "caught"
      BY <1>4, <1>5, <2>5
    <3>2. i = N => p[i].op # "branch"
      BY <1>3, <2>1
    <3>3. p[i].op = "jump" => Len(p[i].to) = 1
      BY <2>1, <2>2
    <3>4. p[i].op = "branch" => Len(p[i].to) = 1
      BY <2>1, <2>2
    <3>5. p[i].op = "switch" => p[i].to # <<>>
      BY <2>1, <2>2
    <3>6. p[i].op \notin {"jump", "branch", "switch"} => p[i].to = <<>>
      BY <2>1, <2>2, <2>5
    <3>7. Len(p[i].to) = 1 => p[i].to # <<>>
      OBVIOUS
    <3> QED
      BY <1>3, <2>2, <2>5, <3>1, <3>2, <3>3, <3>4, <3>5, <3>6, <3>7
  <2> QED
    BY <2>3, <2>4, <2>5
<1>7. Original = code
  <2>1. DOMAIN Original = 1 .. N /\ Len(Original) = N
    BY <1>2, OriginalIs
  <2>2. \A i \in Addr : Original[i] = code[i]
    <3> SUFFICES ASSUME NEW i \in Addr PROVE Original[i] = code[i]
      OBVIOUS
    <3> DEFINE T == [op : Ops \cup {"caught", "endcatch", "endrlimits"}, to : Seq(Nat), arg : Args]
               r == code[i]
    <3>1. r \in T /\ Original[i] = [r EXCEPT !.op = r.op]
      BY <1>2, <1>5, ElementOfSeq DEF CodeOK, N, Addr, Original, Renamed
    <3> HIDE DEF r
    <3>2. [r EXCEPT !.op = r.op] = r
      BY <3>1
    <3> QED
      BY <3>1, <3>2 DEF r
  <2>3. code = [i \in Addr |-> code[i]] /\ Original = [i \in Addr |-> Original[i]]
    BY <1>1, <1>3 DEF WithCaught, Original
  <2> QED
    BY <2>2, <2>3
<1>8. phase = "pass1" /\ at = 1 /\ Blocks = {1} /\ last[1] = N /\ to[1] = <<>> /\ here = <<>> /\ handler = 0
      /\ DOMAIN sp = Addr /\ DOMAIN caught = Addr /\ \A b \in Addr : sp[b] = Invalid /\ caught[b] = 0
  BY <1>3 DEF Init, Blocks
<1>9. FollowOK
  BY <1>3, <1>8 DEF FollowOK
<1>10. Unvisited
  BY <1>5, <1>8 DEF Unvisited
<1> QED
  BY <1>1, <1>3, <1>6, <1>7, <1>8, <1>9, <1>10 DEF ContextInv, TablesOK, Pass2OK, ContextsRight

(* What a split does: nothing where a block starts; and otherwise that     *)
(* block ends before and a new one takes over its end.                     *)
LEMMA SplitEffect ==
    ASSUME CodeOK, BlocksOK, Partition, to \in [Addr -> Seq(Addr)], NEW a \in Addr, Len(code') = Len(code),
           last' = LastAfter(a), next' = NextAfter(a)
    PROVE  \/ /\ a \in Blocks /\ Blocks' = Blocks /\ last' = last /\ next' = next /\ ToAfter(a) = to
           \/ \E f \in Blocks :
                /\ a \notin Blocks /\ Blocks' = Blocks \cup {a} /\ f < a /\ a <= last[f] /\ Find(a) = f
                /\ last'[f] = a - 1 /\ last'[a] = last[f]
                /\ ToAfter(a)[f] = <<>> /\ ToAfter(a)[a] = to[f]
                /\ \A b \in Blocks \ {f} : last'[b] = last[b] /\ ToAfter(a)[b] = to[b]
<1> DEFINE f == Find(a)
<1>1. f \in Blocks /\ f <= a /\ a <= last[f]
  BY Found
<1>2. /\ f \in Addr /\ last[f] \in Nat /\ f \in Nat /\ a \in Nat /\ Blocks \subseteq Addr
      /\ last \in [Addr -> 0 .. N] /\ next \in [Addr -> 0 .. N]
  BY <1>1, BlockIs DEF Blocks, BlocksOK, Addr
<1>3. /\ last' = [last EXCEPT ![f] = IF f = a THEN @ ELSE a - 1, ![a] = last[f]]
      /\ next' = [next EXCEPT ![f] = IF f = a THEN @ ELSE a, ![a] = next[f]]
      /\ ToAfter(a) = [to EXCEPT ![f] = IF f = a THEN @ ELSE <<>>, ![a] = to[f]]
  BY DEF LastAfter, NextAfter, ToAfter
<1>4. Blocks' = Blocks \cup {a}
  BY SplitKeepsPartition
<1> HIDE DEF f
<1>5. CASE f = a
  <2>1. last' = last /\ next' = next /\ ToAfter(a) = to
    BY <1>2, <1>3, <1>5
  <2> QED
    BY <1>1, <1>4, <1>5, <2>1
<1>6. CASE f # a
  <2>1. f < a
    BY <1>1, <1>2, <1>6
  <2>2. a \notin Blocks
    <3> SUFFICES ASSUME a \in Blocks PROVE FALSE
      OBVIOUS
    <3>1. a <= last[a]
      BY DEF Partition
    <3> QED
      BY <1>1, <1>2, <1>6, <3>1, OneBlock
  <2>3. /\ last'[f] = a - 1 /\ last'[a] = last[f]
        /\ ToAfter(a)[f] = <<>> /\ ToAfter(a)[a] = to[f]
        /\ \A b \in Blocks \ {f} : last'[b] = last[b] /\ ToAfter(a)[b] = to[b]
    BY <1>2, <1>3, <1>6, <2>2
  <2> QED
    BY <1>1, <1>4, <2>1, <2>2, <2>3 DEF f
<1> QED
  BY <1>5, <1>6

(* Nothing of the contexts is at stake before the second pass.             *)
LEMMA FirstPass ==
    ASSUME ContextInv, phase = "pass1", phase' = "pass1", code' = code, sp' = sp, caught' = caught,
           here' = here, handler' = handler, FollowOK'
    PROVE  ContextInv'
<1>1. N' = N /\ Addr' = Addr /\ Original' = Original
  BY SameCode
<1>2. Balanced(Original)' /\ TablesOK' /\ OpsOK' /\ Unvisited'
  BY <1>1 DEF ContextInv, TablesOK, OpsOK, Unvisited
<1> QED
  BY <1>2 DEF ContextInv, Pass2OK, ContextsRight

LEMMA NoFollow ==
    ASSUME CodeOK, OpsOK, NEW i \in Addr, code[i].to = <<>>
    PROVE  Follow(i) = <<>>
<1>1. code[i].op # "branch" /\ code[i].op # "catch"
  <2>1. code[i].op = "catch" => code[i].to = <<i + 2>>
    BY DEF OpsOK
  <2>2. code[i].op = "branch" => Len(code[i].to) = 1
    BY DEF OpsOK
  <2>3. Len(<<>>) = 0 /\ <<i + 2>> # <<>>
    OBVIOUS
  <2> QED
    BY <2>1, <2>2, <2>3
<1> QED
  BY <1>1 DEF Follow

LEMMA SplitTargetContext ==
    ASSUME IInv, ContextInv, SplitTarget
    PROVE  ContextInv'
<1> DEFINE a == code[at].to[k]
<1>1. /\ phase = "pass1" /\ phase' = phase /\ at' = at /\ code' = code /\ sp' = sp /\ caught' = caught
      /\ here' = here /\ handler' = handler /\ at \in Addr /\ a \in Addr /\ N' = N /\ Addr' = Addr
      /\ last' = LastAfter(a) /\ next' = NextAfter(a) /\ to' = ToAfter(a) /\ to \in [Addr -> Seq(Addr)]
  <2>1. at \in Addr /\ k \in 1 .. Len(code[at].to)
    BY TargetsInCode DEF IInv, CursorOK, SplitTarget, N, Addr
  <2> QED
    BY <2>1 DEF IInv, CodeOK, BlocksOK, SplitTarget, Split, N, Addr
<1> HIDE DEF a
<1>2. \A b \in Blocks : to[b] = IF last[b] >= at THEN <<>> ELSE Follow(last[b])
  BY <1>1 DEF ContextInv, FollowOK
<1>3. \A i : Follow(i)' = Follow(i)
  BY <1>1 DEF Follow
<1>4. ASSUME NEW b \in Blocks'
      PROVE  to'[b] = IF last'[b] >= at THEN <<>> ELSE Follow(last'[b])
  <2>1. CASE a \in Blocks /\ Blocks' = Blocks /\ last' = last /\ ToAfter(a) = to
    BY <1>1, <1>2, <2>1
  <2>2. CASE \E f \in Blocks :
                /\ a \notin Blocks /\ Blocks' = Blocks \cup {a} /\ f < a /\ a <= last[f]
                /\ last'[f] = a - 1 /\ last'[a] = last[f]
                /\ ToAfter(a)[f] = <<>> /\ ToAfter(a)[a] = to[f]
                /\ \A q \in Blocks \ {f} : last'[q] = last[q] /\ ToAfter(a)[q] = to[q]
    <3>1. PICK f \in Blocks :
                /\ a \notin Blocks /\ Blocks' = Blocks \cup {a} /\ f < a /\ a <= last[f]
                /\ last'[f] = a - 1 /\ last'[a] = last[f]
                /\ ToAfter(a)[f] = <<>> /\ ToAfter(a)[a] = to[f]
                /\ \A q \in Blocks \ {f} : last'[q] = last[q] /\ ToAfter(a)[q] = to[q]
      BY <2>2
    <3>2. f \in Nat /\ f \in Addr /\ a \in Nat /\ at \in Nat /\ N \in Nat /\ Addr = 1 .. N
      <4>1. f \in Nat /\ f \in Addr
        BY BlockIs DEF IInv
      <4>2. N \in Nat /\ Addr = 1 .. N
        BY OriginalIs DEF IInv
      <4> QED
        BY <1>1, <4>1, <4>2
    <3>3. Follow(a - 1) = <<>> \/ a - 1 >= at
      <4> SUFFICES ASSUME ~(a - 1 >= at) PROVE Follow(a - 1) = <<>>
        OBVIOUS
      <4>1. a - 1 \in Addr /\ a - 1 < at /\ a - 1 < N /\ (a - 1) + 1 = a
        BY <1>1, <3>1, <3>2
      <4>2. code[a - 1].to = <<>>
        BY <1>1, <3>1, <4>1 DEF IInv, Progress
      <4> QED
        BY <4>1, <4>2, NoFollow DEF IInv, ContextInv
    <3> QED
      BY <1>1, <1>2, <3>1, <3>3
  <2> QED
    BY <1>1, <2>1, <2>2, SplitEffect DEF IInv
<1>5. FollowOK'
  BY <1>1, <1>3, <1>4 DEF FollowOK
<1> QED
  BY <1>1, <1>5, FirstPass

LEMMA SetFollowContext ==
    ASSUME IInv, ContextInv, SetFollow
    PROVE  ContextInv'
<1>1. /\ phase = "pass1" /\ phase' = phase /\ at' = at + 1 /\ code' = code /\ sp' = sp /\ caught' = caught
      /\ here' = here /\ handler' = handler /\ at \in Addr /\ at \in Nat /\ N' = N /\ Addr' = Addr
      /\ N \in Nat /\ Addr = 1 .. N /\ at <= N /\ to \in [Addr -> Seq(Addr)]
  <2>1. /\ phase = "pass1" /\ phase' = phase /\ at' = at + 1 /\ code' = code /\ sp' = sp /\ caught' = caught
        /\ here' = here /\ handler' = handler /\ at <= N
    BY DEF SetFollow
  <2>2. at \in 1 .. N + 1 /\ to \in [Addr -> Seq(Addr)]
    BY <2>1 DEF IInv, BlocksOK, CursorOK
  <2>3. N \in Nat /\ Addr = 1 .. N /\ N' = N /\ Addr' = Addr
    BY <2>1, OriginalIs, SameCode DEF IInv
  <2> QED
    BY <2>1, <2>2, <2>3
<1> DEFINE g == Find(at)
<1>2. g \in Blocks /\ g <= at /\ at <= last[g] /\ g \in Addr
  BY <1>1, Found, BlockIs DEF IInv
<1>3. /\ at < N => /\ last' = LastAfter(at + 1) /\ next' = NextAfter(at + 1)
                   /\ to' = [ToAfter(at + 1) EXCEPT ![g] = Follow(at)]
      /\ ~(at < N) => last' = last /\ to' = [to EXCEPT ![g] = Follow(at)]
  BY DEF SetFollow
<1> HIDE DEF g
<1>4. \A b \in Blocks : to[b] = IF last[b] >= at THEN <<>> ELSE Follow(last[b])
  BY <1>1 DEF ContextInv, FollowOK
<1>5. \A i : Follow(i)' = Follow(i)
  BY <1>1 DEF Follow
<1>6. \A b \in Blocks : /\ b \in Nat /\ last[b] \in Nat /\ b \in Addr /\ b <= last[b] /\ last[b] <= N
                        /\ (b # g => last[b] # at)
  <2> TAKE b \in Blocks
  <2>1. b \in Nat /\ last[b] \in Nat /\ b \in Addr /\ b <= last[b] /\ last[b] \in Addr
    BY BlockIs DEF IInv
  <2>2. ASSUME last[b] = at PROVE b = g
    BY <1>1, <1>2, <2>1, <2>2, OneBlock DEF IInv
  <2> QED
    BY <1>1, <2>1, <2>2
<1>7. ASSUME NEW b \in Blocks'
      PROVE  to'[b] = IF last'[b] >= at + 1 THEN <<>> ELSE Follow(last'[b])
  <2>1. CASE ~(at < N)
    <3>1. b \in Blocks /\ last' = last /\ at = N
      BY <1>1, <1>3, <2>1 DEF Blocks
    <3>2. last[b] \in Nat /\ last[b] <= N /\ (b # g => last[b] # N) /\ b \in Addr
      BY <1>6, <3>1
    <3>3. to'[b] = IF b = g THEN Follow(at) ELSE to[b]
      BY <1>1, <1>3, <2>1, <3>2
    <3>4. b = g => last[b] = at
      BY <1>1, <1>2, <3>1, <3>2
    <3> QED
      BY <1>1, <1>4, <3>1, <3>2, <3>3, <3>4
  <2>2. CASE at < N
    <3> DEFINE a == at + 1
    <3>0. a = at + 1
      OBVIOUS
    <3>1. a \in Addr /\ last' = LastAfter(a) /\ next' = NextAfter(a) /\ to' = [ToAfter(a) EXCEPT ![g] = Follow(at)]
          /\ ToAfter(a) \in [Addr -> Seq(Addr)] /\ Len(code') = Len(code)
      <4>1. a \in Addr /\ last' = LastAfter(a) /\ next' = NextAfter(a) /\ to' = [ToAfter(a) EXCEPT ![g] = Follow(at)]
        BY <1>1, <1>3, <2>2
      <4> HIDE DEF a
      <4> QED
        BY <1>1, <4>1, ToAfterType DEF IInv
    <3> HIDE DEF a
    <3>2. Blocks' = Blocks \cup {a}
      BY <3>1, SplitKeepsPartition DEF IInv
    <3>3. b \in Addr
      BY <1>6, <3>1, <3>2
    <3>4. to'[b] = IF b = g THEN Follow(at) ELSE ToAfter(a)[b]
      BY <3>1, <3>3
    <3>5. CASE a \in Blocks /\ Blocks' = Blocks /\ last' = last /\ ToAfter(a) = to
      <4>1. g < a
        BY <1>2, <1>1, <1>6, <3>0
      <4>2. last[g] < a
        BY <1>2, <3>5, <4>1 DEF IInv, Partition
      <4>3. last[g] = at
        <5>1. last[g] \in Nat
          BY <1>2, <1>6
        <5> QED
          BY <1>1, <1>2, <3>0, <4>2, <5>1
      <4>4. last[b] \in Nat /\ (b # g => last[b] # at)
        BY <1>6, <3>5
      <4>5. (last[b] >= at + 1) <=> (last[b] >= at /\ last[b] # at)
        BY <1>1, <4>4
      <4> QED
        BY <1>1, <1>4, <3>4, <3>5, <4>3, <4>4, <4>5
    <3>6. CASE \E f \in Blocks :
                /\ a \notin Blocks /\ Blocks' = Blocks \cup {a} /\ f < a /\ a <= last[f]
                /\ last'[f] = a - 1 /\ last'[a] = last[f]
                /\ ToAfter(a)[f] = <<>> /\ ToAfter(a)[a] = to[f]
                /\ \A q \in Blocks \ {f} : last'[q] = last[q] /\ ToAfter(a)[q] = to[q]
      <4>1. PICK f \in Blocks :
                /\ a \notin Blocks /\ Blocks' = Blocks \cup {a} /\ f < a /\ a <= last[f]
                /\ last'[f] = a - 1 /\ last'[a] = last[f]
                /\ ToAfter(a)[f] = <<>> /\ ToAfter(a)[a] = to[f]
                /\ \A q \in Blocks \ {f} : last'[q] = last[q] /\ ToAfter(a)[q] = to[q]
        BY <3>6
      <4>2. f <= at /\ at <= last[f] /\ a - 1 = at
        BY <1>1, <1>6, <3>0, <4>1
      <4>3. f = g
        BY <1>1, <1>2, <4>2, OneBlock DEF IInv
      <4>4. CASE b = g
        <5>1. last'[b] = at /\ ~(at >= at + 1)
          BY <1>1, <4>1, <4>2, <4>3, <4>4
        <5> QED
          BY <3>4, <4>4, <5>1
      <4>5. CASE b = a
        <5>1. last'[b] >= at + 1 /\ last[g] >= at /\ b # g
          BY <1>1, <1>2, <1>6, <3>0, <4>1, <4>3, <4>5
        <5>2. to'[b] = to[g]
          BY <3>4, <4>1, <4>3, <4>5, <5>1
        <5> QED
          BY <1>2, <1>4, <5>1, <5>2
      <4>6. CASE b # g /\ b # a
        <5>1. b \in Blocks /\ last'[b] = last[b] /\ to'[b] = to[b]
          BY <3>4, <4>1, <4>3, <4>6
        <5>2. last[b] \in Nat /\ last[b] # at
          BY <1>6, <4>6, <5>1
        <5>3. (last[b] >= at + 1) <=> (last[b] >= at)
          BY <1>1, <5>2
        <5> QED
          BY <1>4, <5>1, <5>3
      <4> QED
        BY <4>4, <4>5, <4>6
    <3> QED
      BY <1>1, <3>1, <3>5, <3>6, SplitEffect DEF IInv
  <2> QED
    BY <2>1, <2>2
<1>8. FollowOK'
  BY <1>1, <1>5, <1>7 DEF FollowOK
<1> QED
  BY <1>1, <1>8, FirstPass

LEMMA SkipPlainContext ==
    ASSUME IInv, ContextInv, SkipPlain
    PROVE  ContextInv'
<1>1. /\ phase = "pass1" /\ phase' = phase /\ at' = at + 1 /\ code' = code /\ sp' = sp /\ caught' = caught
      /\ here' = here /\ handler' = handler /\ at \in Addr /\ at \in Nat /\ last' = last /\ to' = to
      /\ code[at].to = <<>> /\ Blocks' = Blocks
  BY DEF IInv, CodeOK, CursorOK, SkipPlain, graph, N, Addr, Blocks
<1>2. \A b \in Blocks : to[b] = IF last[b] >= at THEN <<>> ELSE Follow(last[b])
  BY <1>1 DEF ContextInv, FollowOK
<1>3. \A i : Follow(i)' = Follow(i)
  BY <1>1 DEF Follow
<1>4. Follow(at) = <<>>
  BY <1>1, NoFollow DEF IInv, ContextInv
<1>5. ASSUME NEW b \in Blocks
      PROVE  to[b] = IF last[b] >= at + 1 THEN <<>> ELSE Follow(last[b])
  <2>1. last[b] \in Nat
    BY BlockIs DEF IInv
  <2>2. (last[b] >= at) <=> (last[b] >= at + 1 \/ last[b] = at)
    BY <1>1, <2>1
  <2> QED
    BY <1>2, <1>4, <2>2
<1>6. FollowOK'
  BY <1>1, <1>3, <1>5 DEF FollowOK
<1> QED
  BY <1>1, <1>6, FirstPass

LEMMA Pass1DoneContext ==
    ASSUME IInv, ContextInv, Pass1Done
    PROVE  ContextInv'
<1>1. /\ phase = "pass1" /\ phase' = "pass2" /\ code' = code /\ last' = last /\ next' = next /\ to' = to
      /\ sp' = [sp EXCEPT ![1] = <<>>] /\ caught' = caught /\ list' = <<>> /\ here' = <<>> /\ handler' = 0
      /\ cur' = 1 /\ at' = 1 /\ k' = 1 /\ at > N /\ at \in Nat
  BY DEF IInv, CursorOK, Pass1Done, ContextInv, Unvisited
<1>2. N' = N /\ Addr' = Addr /\ Original' = Original /\ Configs' = Configs /\ Blocks' = Blocks
  BY <1>1, SameCode DEF Blocks
<1>3. /\ N \in Nat /\ 1 \in Addr /\ DOMAIN sp = Addr /\ DOMAIN caught = Addr
      /\ 1 \in Blocks /\ 1 <= last[1] /\ last[1] \in Nat
  BY OriginalIs, BlockIs DEF IInv, Partition, ContextInv, TablesOK
<1>4. /\ \A b \in Addr : sp'[b] = IF b = 1 THEN <<>> ELSE Invalid
      /\ \A b \in Addr : caught[b] = 0
      /\ \A i \in Addr : code[i].op \notin Renamed
  BY <1>1, <1>3 DEF ContextInv, Unvisited
<1>5. \A b \in Addr : Known(b)' <=> b = 1
  <2>1. <<>> # Invalid
    BY DEF Invalid
  <2> QED
    BY <1>4, <2>1 DEF Known
<1>6. KnownOK'
  <2>1. Begin \in Configs /\ Begin[1] = 1 /\ Begin[2] = <<>>
    BY ConfigsAre DEF IInv, ContextInv, Begin
  <2>2. In(Begin, <<>>, 0)'
    <3>1. \A j \in 1 .. Len(<<>>) : FALSE
      OBVIOUS
    <3> QED
      BY <2>1, <3>1, ContextEmpty DEF In, Handlers
  <2>3. sp'[1] = <<>> /\ caught'[1] = 0
    BY <1>1, <1>3, <1>4
  <2> QED
    BY <1>2, <1>3, <1>5, <2>1, <2>2, <2>3 DEF KnownOK
<1>7. ListOK'
  <2>1. \A j \in 1 .. Len(<<>>) : FALSE
    OBVIOUS
  <2> QED
    BY <1>1, <2>1 DEF ListOK
<1>8. FreshOK'
  <2>1. \A b \in Blocks : \A i \in b .. last[b] : i \in Addr
    <3> TAKE b \in Blocks
    <3>1. b \in Addr /\ last[b] \in Addr
      BY BlockIs DEF IInv
    <3> QED
      BY <3>1, OriginalIs DEF IInv
  <2> QED
    BY <1>1, <1>2, <1>3, <1>4, <2>1 DEF FreshOK
<1>9. HereOK'
  <2>1. \E e \in Configs : e[1] = 1 /\ In(e, <<>>, 0)'
    <3>1. Begin \in Configs /\ Begin[1] = 1 /\ Begin[2] = <<>>
      BY ConfigsAre DEF IInv, ContextInv, Begin
    <3>2. \A j \in 1 .. Len(<<>>) : FALSE
      OBVIOUS
    <3> QED
      BY <3>1, <3>2, ContextEmpty DEF In, Handlers
  <2>2. ~(1 > last[1]) /\ 1 <= last[1] + 1 /\ 1 <= 1
    BY <1>3
  <2> QED
    BY <1>1, <1>2, <1>3, <1>5, <2>1, <2>2 DEF HereOK
<1>10. DoneOK'
  <2>1. NamedFrom(1, 0)'
    <3>1. \A i : ~(i \in 1 .. 0)
      OBVIOUS
    <3> QED
      BY <3>1 DEF NamedFrom
  <2>2. ~(1 > last[1]) /\ 1 - 1 = 0
    BY <1>3
  <2>3. \A b \in Blocks : b \in Addr
    BY DEF Blocks
  <2> QED
    BY <1>1, <1>2, <1>5, <2>1, <2>2, <2>3 DEF DoneOK
<1>11. FollowOK'
  <2>1. \A b \in Blocks : to[b] = IF last[b] >= at THEN <<>> ELSE Follow(last[b])
    BY <1>1 DEF ContextInv, FollowOK
  <2>2. \A b \in Blocks : ~(last[b] >= at)
    <3> TAKE b \in Blocks
    <3>1. last[b] \in 1 .. N
      BY BlockIs, OriginalIs DEF IInv
    <3> QED
      BY <1>1, <1>3, <3>1
  <2>3. \A i : Follow(i)' = Follow(i)
    BY <1>1 DEF Follow
  <2> QED
    BY <1>1, <1>2, <2>1, <2>2, <2>3 DEF FollowOK
<1>12. Balanced(Original)' /\ TablesOK' /\ OpsOK'
  BY <1>1, <1>2, <1>3 DEF ContextInv, TablesOK, OpsOK
<1> QED
  BY <1>1, <1>6, <1>7, <1>8, <1>9, <1>10, <1>11, <1>12 DEF ContextInv, Unvisited, Pass2OK, ContextsRight

LEMMA HasTargets ==
    ASSUME CodeOK, OpsOK, NEW i \in Addr
    PROVE  code[i].to # <<>> <=> code[i].op \in {"jump", "branch", "switch", "catch", "caught"}
<1>1. /\ code[i].to # <<>> => code[i].op \in {"jump", "branch", "switch", "catch", "caught"}
      /\ code[i].op \in {"jump", "switch", "caught"} => code[i].to # <<>>
      /\ code[i].op = "branch" => Len(code[i].to) = 1
      /\ code[i].op = "catch" => code[i].to = <<i + 2>>
  BY DEF OpsOK
<1>2. Len(<<>>) = 0 /\ <<i + 2>> # <<>>
  OBVIOUS
<1> QED
  BY <1>1, <1>2

(* Before its end a block only goes on.                                    *)
LEMMA InsideBlock ==
    ASSUME IInv, phase # "pass1", NEW b \in Blocks, NEW i \in Nat, b <= i, i < last[b]
    PROVE  i \in Addr /\ i + 1 \in Addr /\ i + 1 \notin Blocks /\ code[i].to = <<>>
<1>1. b \in Nat /\ last[b] \in 1 .. N /\ N \in Nat /\ Addr = 1 .. N /\ b \in 1 .. N
  BY BlockIs, OriginalIs DEF IInv
<1>2. i \in Addr /\ i + 1 \in Addr /\ i < N
  BY <1>1
<1>3. i + 1 \notin Blocks
  <2> SUFFICES ASSUME i + 1 \in Blocks PROVE FALSE
    OBVIOUS
  <2>1. b < i + 1
    BY <1>1
  <2>2. last[b] < i + 1
    BY <2>1 DEF IInv, Partition
  <2> QED
    BY <1>1, <2>2
<1>4. code[i].to = <<>>
  BY <1>2, <1>3 DEF IInv, Straight
<1> QED
  BY <1>2, <1>3, <1>4

LEMMA InBlock ==
    ASSUME CodeOK, BlocksOK, Partition, NEW b \in Blocks, NEW i \in b .. last[b]
    PROVE  i \in Addr /\ i \in Nat /\ b <= i /\ i <= last[b]
<1>1. b \in 1 .. N /\ last[b] \in 1 .. N /\ N \in Nat /\ Addr = 1 .. N
  BY BlockIs, OriginalIs
<1> QED
  BY <1>1

(* A RETURN is named.                                                      *)
LEMMA Rename ==
    ASSUME CodeOK, at \in Addr, code[at].op = "return", NEW o \in Renamed, code' = [code EXCEPT ![at].op = o]
    PROVE  /\ Original' = Original /\ N' = N /\ Addr' = Addr
           /\ code'[at].op = o /\ code'[at].to = code[at].to
           /\ \A i \in Addr \ {at} : code'[i] = code[i]
<1> DEFINE T == [op : Ops \cup {"caught", "endcatch", "endrlimits"}, to : Seq(Nat), arg : Args]
           r == code[at]
           s == [r EXCEPT !.op = o]
<1>1. code \in Seq(T) /\ at \in 1 .. Len(code) /\ r \in T /\ Addr = 1 .. Len(code) /\ o \in {"endcatch", "endrlimits"}
  BY ElementOfSeq DEF CodeOK, N, Addr, Renamed
<1>2. /\ s \in T /\ s.op = o /\ s.to = r.to
      /\ [s EXCEPT !.op = "return"] = [r EXCEPT !.op = "return"] /\ [r EXCEPT !.op = r.op] = r /\ r.op = "return"
  BY <1>1
<1>3. code' = [code EXCEPT ![at] = s]
  OBVIOUS
<1> HIDE DEF T, r, s
<1>4. Len(code') = Len(code) /\ \A i \in 1 .. Len(code) : code'[i] = IF i = at THEN s ELSE code[i]
  BY <1>1, <1>2, <1>3, ExceptSeq
<1>5. N' = N /\ Addr' = Addr
  BY <1>4 DEF N, Addr
<1>6. \A i \in Addr : [code'[i] EXCEPT !.op = IF @ \in {"endcatch", "endrlimits"} THEN "return" ELSE @]
                    = [code[i] EXCEPT !.op = IF @ \in {"endcatch", "endrlimits"} THEN "return" ELSE @]
  <2> TAKE i \in Addr
  <2>1. CASE i # at
    BY <1>1, <1>4, <2>1
  <2>2. CASE i = at
    <3>1. code'[i] = s /\ code[i] = r
      BY <1>1, <1>4, <2>2 DEF r
    <3>2. [s EXCEPT !.op = IF @ \in {"endcatch", "endrlimits"} THEN "return" ELSE @] = [s EXCEPT !.op = "return"]
      BY <1>1, <1>2
    <3>3. [r EXCEPT !.op = IF @ \in {"endcatch", "endrlimits"} THEN "return" ELSE @] = [r EXCEPT !.op = "return"]
      BY <1>2
    <3> QED
      BY <1>2, <3>1, <3>2, <3>3
  <2> QED
    BY <2>1, <2>2
<1>7. Original' = Original
  BY <1>5, <1>6 DEF Original
<1> QED
  BY <1>1, <1>2, <1>4, <1>5, <1>7 DEF r

-----------------------------------------------------------------------------
(* Where the second pass is in a block, it knows the contexts.             *)
At(c) ==
    /\ at \in Addr /\ at \in Nat /\ cur \in Blocks /\ cur <= at /\ at <= last[cur] /\ c \in Seq(Nat)
    /\ <<at, c>> \in Configs /\ \A f \in Configs : f[1] = at => f[2] = c
    /\ here = Names(c) /\ handler = InnerCatch(c) /\ Handlers(c)

LEMMA ScanAt == ASSUME IInv, ContextInv, Scan PROVE \E c : At(c)
<1>1. phase = "pass2" /\ at <= last[cur] /\ KnownOK /\ HereOK
  BY DEF Scan, ContextInv, Pass2OK
<1>2. PICK e \in Configs : e[1] = at /\ In(e, here, handler)
  BY <1>1 DEF HereOK
<1>3. /\ e = <<e[1], e[2]>> /\ e[1] \in Addr /\ e[2] \in Seq(Nat)
      /\ \A f \in Configs : e[1] = f[1] => e[2] = f[2]
  BY ConfigsAre DEF IInv, ContextInv
<1>4. at \in Nat
  BY <1>2, <1>3 DEF Addr
<1>5. <<at, e[2]>> \in Configs /\ \A f \in Configs : f[1] = at => f[2] = e[2]
  BY <1>2, <1>3
<1>6. At(e[2])
  BY <1>1, <1>2, <1>3, <1>4, <1>5 DEF At, In, HereOK
<1> QED
  BY <1>6

(* The contexts after an instruction: those of the next one, or what the   *)
(* block ends in.                                                          *)
Onward(c) ==
    IF code'[at].op = "catch"
      THEN at = last'[cur] /\ here' = Append(Names(c), "catch") /\ handler' = InnerCatch(c)
      ELSE /\ at < last'[cur] => \E d \in Steps(Original, at, c) : d[1] = at + 1 /\ Handlers(d[2])
           /\ \A d \in Steps(Original, at, c) : here' = Names(d[2]) /\ handler' = InnerCatch(d[2])
Labelled(c) ==
    /\ Original' = Original
    /\ \A i \in Addr \ {at} : code'[i] = code[i]
    /\ code'[at].to = code[at].to
    /\ code'[at].op # code[at].op => code[at].op = "return" /\ code'[at].op \in Renamed
    /\ Original[at].op = "return" => code'[at].op = Ended(c)
Cut ==
    \/ last' = last /\ next' = next /\ to' = to
    \/ /\ at < last[cur] /\ code[at].op = "return" /\ here = <<>> /\ code' = code
       /\ at + 1 \notin Blocks /\ Blocks' = Blocks \cup {at + 1}
       /\ last'[cur] = at /\ last'[at + 1] = last[cur] /\ to'[cur] = <<>> /\ to'[at + 1] = to[cur]
       /\ \A b \in Blocks \ {cur} : last'[b] = last[b] /\ to'[b] = to[b]

LEMMA ScanPlain ==
    ASSUME IInv, ContextInv, Scan, code[at].op # "return", NEW c, At(c)
    PROVE  Onward(c) /\ Labelled(c) /\ Cut
<1>1. /\ phase = "pass2" /\ code' = code /\ last' = last /\ next' = next /\ to' = to
      /\ code[at].op = "catch" => here' = Append(here, "catch") /\ handler' = handler
      /\ code[at].op = "rlimits" => here' = Append(here, "rlimits") /\ handler' = handler
      /\ code[at].op \notin {"catch", "rlimits"} => here' = here /\ handler' = handler
  BY DEF Scan, Push
<1>2. at \in Addr /\ at \in Nat /\ code[at].op \notin Renamed /\ last[cur] \in Nat
  <2>1. cur \in Blocks /\ at \in cur .. last[cur] /\ at \in at .. last[cur] /\ last[cur] \in Nat
    <3>1. last[cur] \in Nat /\ cur \in Nat
      BY BlockIs DEF IInv, At
    <3> QED
      BY <3>1 DEF At
  <2>2. code[at].op \notin Renamed
    BY <1>1, <2>1 DEF ContextInv, Pass2OK, FreshOK
  <2> QED
    BY <2>1, <2>2 DEF At
<1>3. Labelled(c)
  <2>1. Original[at].op # "return"
    BY <1>2, OriginalIs DEF IInv
  <2> QED
    <3>1. Original' = Original
      BY <1>1, SameCode
    <3>2. code' = code
      BY <1>1
    <3>3. (\A i \in Addr \ {at} : code'[i] = code[i]) /\ code'[at].to = code[at].to /\ code'[at].op = code[at].op
      BY <3>2
    <3> QED
      BY <2>1, <3>1, <3>3, Zenon DEF Labelled
<1>4. at < last[cur] => code[at].to = <<>>
  BY <1>1, <1>2, InsideBlock DEF At
<1>5. Onward(c)
  <2>1. CASE code[at].op = "catch"
    <3>1. code[at].to # <<>>
      BY <1>2, <2>1, HasTargets DEF IInv, ContextInv
    <3>2. at = last[cur]
      BY <1>2, <1>4, <3>1 DEF At
    <3> QED
      BY <1>1, <2>1, <3>2 DEF Onward, At
  <2>2. CASE code[at].op = "rlimits"
    <3>1. Steps(Original, at, c) = {<<at + 1, Append(c, 0)>>}
      BY <1>2, <2>2, StepsAre DEF IInv
    <3>2. here' = Names(Append(c, 0)) /\ handler' = InnerCatch(Append(c, 0))
      <4>1. c \in Seq(Nat) /\ 0 \in Nat
        BY DEF At
      <4> QED
        BY <1>1, <2>2, <4>1, ContextPushed DEF At
    <3>3. Handlers(Append(c, 0))
      <4>1. c \in Seq(Nat) /\ Handlers(c)
        BY DEF At
      <4>2. \A j \in 1 .. Len(Append(c, 0)) : Append(c, 0)[j] # 0 => j \in 1 .. Len(c) /\ Append(c, 0)[j] = c[j]
        BY <4>1
      <4> QED
        BY <4>1, <4>2 DEF Handlers
    <3> DEFINE d == <<at + 1, Append(c, 0)>>
    <3>4. d[1] = at + 1 /\ d[2] = Append(c, 0) /\ Steps(Original, at, c) = {d}
      BY <3>1
    <3> HIDE DEF d
    <3> QED
      BY <1>1, <2>2, <3>2, <3>3, <3>4 DEF Onward
  <2>3. CASE code[at].op \in {"jump", "caught", "switch", "branch"}
    <3>1. code[at].to # <<>>
      BY <1>2, <2>3, HasTargets DEF IInv, ContextInv
    <3>2. ~(at < last[cur])
      BY <1>4, <3>1
    <3>3. \A d \in Steps(Original, at, c) : d[2] = c
      <4>1. CASE code[at].op = "branch"
        BY <1>2, <4>1, StepsAre DEF IInv
      <4>2. CASE code[at].op \in {"jump", "caught", "switch"}
        <5>1. Steps(Original, at, c) = {<<code[at].to[j], c>> : j \in 1 .. Len(code[at].to)}
          BY <1>2, <4>2, StepsAre DEF IInv
        <5> QED
          BY <5>1
      <4> QED
        BY <2>3, <4>1, <4>2
    <3> QED
      BY <1>1, <2>3, <3>2, <3>3 DEF Onward, At
  <2>4. CASE code[at].op \notin {"catch", "rlimits", "jump", "caught", "switch", "branch"}
    <3> DEFINE d == <<at + 1, c>>
    <3>1. Steps(Original, at, c) = {d} /\ d[1] = at + 1 /\ d[2] = c
      BY <1>2, <2>4, StepsAre DEF IInv
    <3> HIDE DEF d
    <3> QED
      BY <1>1, <2>4, <3>1 DEF Onward, At
  <2> QED
    BY <2>1, <2>2, <2>3, <2>4
<1> QED
  BY <1>1, <1>3, <1>5 DEF Cut

LEMMA ScanFinal ==
    ASSUME IInv, ContextInv, Scan, code[at].op = "return", NEW c, At(c), here = <<>>
    PROVE  Onward(c) /\ Labelled(c) /\ Cut
<1>1. /\ phase = "pass2" /\ code' = code
      /\ at # last[cur] => Split(at + 1)
      /\ at = last[cur] => last' = last /\ next' = next /\ to' = to
  BY DEF Scan, Returns
<1>2. /\ at \in Addr /\ at \in Nat /\ cur \in Blocks /\ cur <= at /\ at <= last[cur] /\ c \in Seq(Nat)
      /\ here = Names(c) /\ cur \in Nat /\ last[cur] \in Nat /\ N \in Nat /\ to \in [Addr -> Seq(Addr)]
  BY <1>1, BlockIs, OriginalIs DEF IInv, BlocksOK, At
<1>3. c = <<>>
  BY <1>2, NoNames
<1>4. Steps(Original, at, c) = {}
  BY <1>2, <1>3, StepsAre DEF IInv
<1>5. Labelled(c)
  <2>1. Original' = Original
    BY <1>1, SameCode
  <2>2. Ended(c) = "return"
    BY <1>3 DEF Ended
  <2> QED
    BY <1>1, <2>1, <2>2 DEF Labelled
<1>6. Cut /\ at = last'[cur]
  <2>1. CASE at = last[cur]
    BY <1>1, <2>1 DEF Cut
  <2>2. CASE at # last[cur]
    <3> DEFINE a == at + 1
    <3>1. at < last[cur] /\ a \in Nat /\ cur <= a /\ a <= last[cur] /\ a - 1 = at /\ cur < a
      BY <1>2, <2>2
    <3>2. a \in Addr /\ a \notin Blocks
      BY <1>1, <1>2, <3>1, InsideBlock
    <3>3. last' = LastAfter(a) /\ next' = NextAfter(a) /\ to' = ToAfter(a) /\ Len(code') = Len(code)
      BY <1>1, <2>2 DEF Split
    <3> HIDE DEF a
    <3>4. PICK f \in Blocks :
            /\ a \notin Blocks /\ Blocks' = Blocks \cup {a} /\ f < a /\ a <= last[f]
            /\ last'[f] = a - 1 /\ last'[a] = last[f]
            /\ ToAfter(a)[f] = <<>> /\ ToAfter(a)[a] = to[f]
            /\ \A b \in Blocks \ {f} : last'[b] = last[b] /\ ToAfter(a)[b] = to[b]
      BY <1>2, <3>2, <3>3, SplitEffect DEF IInv
    <3>5. f = cur
      <4>1. f \in Nat /\ f <= a
        BY <3>1, <3>4, BlockIs DEF IInv
      <4> QED
        BY <1>2, <3>1, <3>4, <4>1, OneBlock DEF IInv
    <3>6. /\ Blocks' = Blocks \cup {a} /\ last'[cur] = at /\ last'[a] = last[cur] /\ to'[cur] = <<>> /\ to'[a] = to[cur]
          /\ \A b \in Blocks \ {cur} : last'[b] = last[b] /\ to'[b] = to[b]
      BY <3>1, <3>3, <3>4, <3>5
    <3> QED
      BY <1>1, <3>1, <3>2, <3>6 DEF Cut, a
  <2> QED
    BY <2>1, <2>2
<1>7. Onward(c)
  BY <1>1, <1>2, <1>4, <1>6 DEF Onward
<1> QED
  BY <1>5, <1>6, <1>7

LEMMA ScanEnding ==
    ASSUME IInv, ContextInv, Scan, code[at].op = "return", NEW c, At(c), here # <<>>
    PROVE  Onward(c) /\ Labelled(c) /\ Cut
<1> DEFINE o == IF Top(here) = "catch" THEN "endcatch" ELSE "endrlimits"
<1>1. /\ phase = "pass2" /\ code' = [code EXCEPT ![at].op = o]
      /\ handler' = (IF Top(here) = "catch" THEN caught[handler] ELSE handler) /\ here' = Pop(here)
      /\ last' = last /\ next' = next /\ to' = to
  BY DEF Scan, Returns, EndCatch, Popped
<1>2. /\ at \in Addr /\ at \in Nat /\ c \in Seq(Nat) /\ <<at, c>> \in Configs
      /\ here = Names(c) /\ handler = InnerCatch(c) /\ Handlers(c)
  BY DEF At
<1>3. c # <<>>
  BY <1>2, NoNames
<1>4. /\ Pop(c) \in Seq(Nat) /\ Top(c) \in Nat /\ Pop(here) = Names(Pop(c))
      /\ Top(here) = (IF Top(c) = 0 THEN "rlimits" ELSE "catch")
      /\ Top(c) = 0 => InnerCatch(Pop(c)) = InnerCatch(c)
      /\ Top(c) # 0 => InnerCatch(c) = Top(c)
      /\ Pop(c) = SubSeq(c, 1, Len(c) - 1)
  BY <1>2, <1>3, ContextPopped
<1>5. o = Ended(c) /\ o \in Renamed
  BY <1>3, <1>4 DEF Ended, Renamed
<1>6. Labelled(c)
  <2>1. CodeOK
    BY DEF IInv
  <2> HIDE DEF o
  <2>2. /\ Original' = Original /\ code'[at].op = o /\ code'[at].to = code[at].to
        /\ \A i \in Addr \ {at} : code'[i] = code[i]
    BY <1>1, <1>2, <1>5, <2>1, Rename
  <2> QED
    BY <1>5, <2>2 DEF Labelled
<1>7. handler' = InnerCatch(Pop(c))
  <2>1. CASE Top(c) = 0
    BY <1>1, <1>2, <1>4, <2>1
  <2>2. CASE Top(c) # 0
    <3>1. handler = Top(c) /\ handler' = caught[Top(c)]
      BY <1>1, <1>2, <1>4, <2>2
    <3>2. <<Top(c), Pop(c)>> \in Configs
      <4>1. Enclosed(Original, c)
        <5>1. \A e \in Configs : Enclosed(Original, e[2])
          BY ConfigsAre DEF IInv, ContextInv
        <5>2. <<at, c>>[2] = c
          OBVIOUS
        <5> QED
          BY <1>2, <5>1, <5>2
      <4> QED
        BY <1>2, <1>3, <2>2, <4>1, EnclosedPopped DEF Configs
    <3>3. Known(Top(c)) /\ Top(c) \in Addr
      <4>1. Len(c) \in 1 .. Len(c)
        BY <1>2, <1>3, EmptySeq, LenProperties
      <4>2. Known(Top(c))
        BY <1>2, <2>2, <4>1 DEF Handlers, Top
      <4>3. <<Top(c), Pop(c)>>[1] \in Addr
        BY <3>2, ConfigsAre DEF IInv, ContextInv
      <4> QED
        BY <4>2, <4>3
    <3>4. PICK e \in Configs : e[1] = Top(c) /\ caught[Top(c)] = InnerCatch(e[2])
      BY <1>1, <3>3 DEF ContextInv, Pass2OK, KnownOK, In
    <3>5. e[2] = Pop(c)
      <4>1. \A f \in Configs : f[1] = e[1] => f[2] = e[2]
        BY ConfigsAre DEF IInv, ContextInv
      <4>2. <<Top(c), Pop(c)>>[1] = Top(c) /\ <<Top(c), Pop(c)>>[2] = Pop(c)
        OBVIOUS
      <4> QED
        BY <3>2, <3>4, <4>1, <4>2
    <3> QED
      BY <3>1, <3>4, <3>5
  <2> QED
    BY <2>1, <2>2
<1>8. Handlers(Pop(c))
  <2>1. \A j \in 1 .. Len(Pop(c)) : j \in 1 .. Len(c) /\ Pop(c)[j] = c[j]
    <3>1. Len(c) \in Nat /\ Len(c) # 0
      BY <1>2, <1>3, EmptySeq
    <3> DEFINE m == Len(c) - 1
    <3>2. m \in Nat /\ \A i \in 1 .. m : i \in 1 .. Len(c)
      BY <3>1
    <3> HIDE DEF m
    <3>3. Len(SubSeq(c, 1, m)) = m /\ \A i \in 1 .. m : SubSeq(c, 1, m)[i] = c[i]
      BY <1>2, <3>1, <3>2
    <3> QED
      BY <1>4, <3>2, <3>3 DEF m
  <2> QED
    BY <1>2, <2>1 DEF Handlers
<1>9. Onward(c)
  <2> DEFINE d == <<at + 1, Pop(c)>>
  <2>1. Steps(Original, at, c) = {d} /\ d[1] = at + 1 /\ d[2] = Pop(c)
    BY <1>2, <1>3, StepsAre DEF IInv
  <2>2. code'[at].op # "catch"
    BY <1>5, <1>6 DEF Labelled, Renamed
  <2> HIDE DEF d
  <2> QED
    BY <1>1, <1>4, <1>7, <1>8, <2>1, <2>2 DEF Onward
<1> QED
  BY <1>1, <1>6, <1>9 DEF Cut

LEMMA ScanContext ==
    ASSUME IInv, ContextInv, Scan
    PROVE  ContextInv'
<1>1. PICK c : At(c) /\ Onward(c) /\ Labelled(c) /\ Cut
  <2>1. PICK c : At(c)
    BY ScanAt
  <2> QED
    BY <2>1, ScanPlain, ScanFinal, ScanEnding
<1>2. /\ phase = "pass2" /\ phase' = phase /\ at' = at + 1 /\ k' = 1
      /\ sp' = sp /\ caught' = caught /\ list' = list /\ cur' = cur
  BY DEF Scan
<1>3. /\ at \in Addr /\ at \in Nat /\ cur \in Blocks /\ cur <= at /\ at <= last[cur] /\ c \in Seq(Nat)
      /\ <<at, c>> \in Configs /\ \A f \in Configs : f[1] = at => f[2] = c
      /\ Handlers(c) /\ cur \in Nat /\ last[cur] \in Nat /\ N \in Nat /\ Addr = 1 .. N /\ cur \in Addr
  BY <1>1, BlockIs, OriginalIs DEF IInv, At
<1>4. IInv'
  BY ScanInv
<1>5. Original' = Original /\ Configs' = Configs
  BY <1>1 DEF Labelled, Configs
<1>6. N' = N /\ Addr' = Addr
  <2>1. N' \in Nat /\ Addr' = 1 .. N' /\ Addr' = DOMAIN Original'
    BY <1>4 DEF IInv, CodeOK, N, Addr, Original
  <2>2. Addr' = Addr
    BY <1>5, <2>1, OriginalIs DEF IInv
  <2>3. N' = N
    BY <1>3, <2>1, <2>2
  <2> QED
    BY <2>2, <2>3
<1>7. /\ \A i \in Addr \ {at} : code'[i] = code[i]
      /\ \A i \in Addr : code'[i].to = code[i].to
      /\ code'[at].op # code[at].op => code[at].op = "return" /\ code'[at].op \in Renamed
      /\ Original[at].op = "return" => code'[at].op = Ended(c)
  BY <1>1 DEF Labelled
<1>8. /\ Known(1) /\ \A b \in Addr : Known(b) => b \in Blocks /\ \E e \in Configs : e[1] = b /\ In(e, sp[b], caught[b])
      /\ ListOK /\ FreshOK /\ HereOK /\ DoneOK
  BY <1>2 DEF ContextInv, Pass2OK, KnownOK
<1>9. Blocks \subseteq Blocks' /\ Blocks' \subseteq Addr
  BY <1>1, <1>6 DEF Cut, Blocks
<1>10. KnownOK'
  BY <1>2, <1>5, <1>6, <1>8, <1>9 DEF KnownOK, Known, In, Handlers
<1>11. ListOK'
  BY <1>2, <1>8 DEF ListOK, Known
<1>12. OpsOK'
  <2> SUFFICES ASSUME NEW i \in Addr
               PROVE  /\ code'[i].to # <<>> => code'[i].op \in {"jump", "branch", "switch", "catch", "caught"}
                      /\ code'[i].op \in {"jump", "switch", "caught"} => code'[i].to # <<>>
                      /\ code'[i].op \in {"jump", "branch"} => Len(code'[i].to) = 1
                      /\ code'[i].op = "branch" => i < N
                      /\ code'[i].op = "catch" => code'[i].to = <<i + 2>> /\ i + 2 <= N
    BY <1>6 DEF OpsOK
  <2>1. /\ code[i].to # <<>> => code[i].op \in {"jump", "branch", "switch", "catch", "caught"}
        /\ code[i].op \in {"jump", "switch", "caught"} => code[i].to # <<>>
        /\ code[i].op \in {"jump", "branch"} => Len(code[i].to) = 1
        /\ code[i].op = "branch" => i < N
        /\ code[i].op = "catch" => code[i].to = <<i + 2>> /\ i + 2 <= N
    BY DEF ContextInv, OpsOK
  <2>2. code'[i].to = code[i].to
    BY <1>7
  <2>3. code'[i].op # code[i].op => code[i].op = "return" /\ code'[i].op \in {"endcatch", "endrlimits"}
    BY <1>7 DEF Renamed
  <2> QED
    BY <2>1, <2>2, <2>3
<1>13. \A i \in Addr : Follow(i)' = Follow(i)
  <2> SUFFICES ASSUME NEW i \in Addr PROVE Follow(i)' = Follow(i)
    OBVIOUS
  <2>1. code'[i].to = code[i].to
    BY <1>7
  <2>2. code'[i].op # code[i].op => code[i].op = "return" /\ code'[i].op \in {"endcatch", "endrlimits"}
    BY <1>7 DEF Renamed
  <2>3. code'[i].op \in {"branch", "catch"} <=> code[i].op \in {"branch", "catch"}
    BY <2>2
  <2> QED
    BY <2>1, <2>3 DEF Follow
<1>14. FollowOK'
  <2>1. \A b \in Blocks : to[b] = Follow(last[b])
    BY <1>2 DEF ContextInv, FollowOK
  <2>2. \A b \in Blocks : last[b] \in Addr
    BY BlockIs DEF IInv
  <2>3. \A b \in Blocks' : to'[b] = Follow(last'[b])
    <3>1. CASE last' = last /\ to' = to
      <4>1. Blocks' = Blocks
        BY <1>6, <3>1 DEF Blocks
      <4> QED
        BY <2>1, <3>1, <4>1
    <3>2. CASE /\ at < last[cur] /\ code[at].op = "return"
               /\ at + 1 \notin Blocks /\ Blocks' = Blocks \cup {at + 1}
               /\ last'[cur] = at /\ last'[at + 1] = last[cur] /\ to'[cur] = <<>> /\ to'[at + 1] = to[cur]
               /\ \A b \in Blocks \ {cur} : last'[b] = last[b] /\ to'[b] = to[b]
      <4>1. code[at].to = <<>>
        BY <1>3, <3>2, HasTargets DEF IInv, ContextInv
      <4>2. Follow(at) = <<>>
        BY <1>3, <4>1, NoFollow DEF IInv, ContextInv
      <4>3. to'[cur] = Follow(last'[cur]) /\ to'[at + 1] = Follow(last'[at + 1])
        BY <1>3, <2>1, <3>2, <4>2
      <4>4. \A b \in Blocks \ {cur} : to'[b] = Follow(last'[b])
        BY <2>1, <3>2
      <4> QED
        BY <3>2, <4>3, <4>4
    <3> QED
      BY <1>1, <3>1, <3>2 DEF Cut
  <2>4. \A b \in Blocks' : last'[b] \in Addr
    <3>1. last' \in [Addr -> 0 .. N]
      BY <1>4, <1>6 DEF IInv, BlocksOK
    <3> QED
      BY <1>3, <1>6, <3>1 DEF Blocks
  <2> QED
    BY <1>2, <1>13, <2>3, <2>4 DEF FollowOK
<1>15. /\ ~InList(cur) /\ \A b : InList(b)' <=> InList(b)
       /\ Known(cur) /\ \A b : Known(b)' <=> Known(b)
  BY <1>2, <1>8 DEF InList, ListOK, HereOK, Known
<1>16. /\ \A b \in Blocks \ {cur} : b \in Blocks' /\ last'[b] = last[b] /\ at \notin b .. last[b]
       /\ \A b \in Blocks' \ Blocks : at < last[cur] /\ b = at + 1 /\ last'[b] = last[cur]
       /\ last'[cur] \in {at, last[cur]}
  <2>1. \A b \in Blocks \ {cur} : at \notin b .. last[b]
    <3> SUFFICES ASSUME NEW b \in Blocks, at \in b .. last[b] PROVE b = cur
      OBVIOUS
    <3>1. b <= at /\ at <= last[b]
      BY InBlock DEF IInv
    <3> QED
      BY <1>3, <3>1, OneBlock DEF IInv
  <2>2. CASE last' = last
    <3>1. Blocks' = Blocks
      BY <1>6, <2>2 DEF Blocks
    <3> QED
      BY <2>1, <2>2, <3>1
  <2>3. CASE /\ at < last[cur]
             /\ at + 1 \notin Blocks /\ Blocks' = Blocks \cup {at + 1}
             /\ last'[cur] = at /\ last'[at + 1] = last[cur]
             /\ \A b \in Blocks \ {cur} : last'[b] = last[b] /\ to'[b] = to[b]
    BY <2>1, <2>3
  <2> QED
    BY <1>1, <2>2, <2>3 DEF Cut
<1>17. FreshOK'
  <2>1. ASSUME NEW i \in at + 1 .. last[cur] PROVE code'[i].op \notin Renamed
    <3>1. i \in at .. last[cur] /\ i # at /\ i \in Addr
      BY <1>3, BlockIs, OriginalIs DEF IInv
    <3> QED
      BY <1>7, <1>8, <3>1 DEF FreshOK
  <2>2. ASSUME NEW b \in Blocks', ~Known(b) \/ InList(b), NEW i \in b .. last'[b] PROVE code'[i].op \notin Renamed
    <3>1. b # cur
      BY <1>15, <2>2
    <3>2. CASE b \in Blocks
      <4>1. last'[b] = last[b] /\ i # at /\ i \in b .. last[b]
        BY <1>16, <3>1, <3>2
      <4>2. i \in Addr
        BY <3>2, <4>1, InBlock DEF IInv
      <4> QED
        BY <1>7, <1>8, <2>2, <3>2, <4>1, <4>2 DEF FreshOK
    <3>3. CASE b \notin Blocks
      BY <1>16, <2>1, <3>3
    <3> QED
      BY <3>2, <3>3
  <2>3. \A i \in at + 1 .. last'[cur] : i \in at + 1 .. last[cur]
    <3>1. CASE last'[cur] = at
      BY <1>3, <3>1
    <3> QED
      BY <1>16, <3>1
  <2> QED
    BY <1>2, <1>15, <2>1, <2>2, <2>3 DEF FreshOK
<1>18. HereOK'
  <2>1. last'[cur] \in Nat /\ at <= last'[cur]
    BY <1>3, <1>16
  <2>2. cur \in Blocks' /\ cur <= at + 1 /\ at + 1 <= last'[cur] + 1
    BY <1>3, <1>9, <2>1
  <2>3. ASSUME at + 1 <= last'[cur] PROVE \E e \in Configs : e[1] = at + 1 /\ In(e, here', handler')
    <3>1. at < last'[cur] /\ at # last'[cur]
      BY <1>3, <2>1, <2>3
    <3>2. PICK d \in Steps(Original, at, c) : d[1] = at + 1 /\ Handlers(d[2]) /\ here' = Names(d[2]) /\ handler' = InnerCatch(d[2])
      BY <1>1, <3>1 DEF Onward
    <3>3. Steps(Original, at, c) \subseteq Configs
      <4>1. \A e \in Configs : Steps(Original, e[1], e[2]) \subseteq Configs
        BY ConfigsAre DEF IInv, ContextInv
      <4>2. <<at, c>>[1] = at /\ <<at, c>>[2] = c
        OBVIOUS
      <4> QED
        BY <1>3, <4>1, <4>2
    <3> QED
      BY <3>2, <3>3 DEF In
  <2>4. ASSUME at + 1 > last'[cur] PROVE \E e \in Configs : e[1] = last'[cur] /\ Handlers(e[2])' /\ Ending(e)'
    <3>1. last'[cur] = at
      BY <1>3, <2>1, <2>4
    <3>2. PICK e \in Configs : e[1] = at /\ e[2] = c
      BY <1>3
    <3>3. Ending(e)'
      <4>1. IF code'[at].op = "catch"
              THEN here' = Append(Names(c), "catch") /\ handler' = InnerCatch(c)
              ELSE \A d \in Steps(Original, at, c) : here' = Names(d[2]) /\ handler' = InnerCatch(d[2])
        BY <1>1 DEF Onward
      <4> QED
        BY <1>2, <1>5, <3>1, <3>2, <4>1 DEF Ending
    <3>4. Handlers(e[2])'
      BY <1>2, <1>3, <3>2 DEF Handlers, Known
    <3> QED
      BY <3>1, <3>2, <3>3, <3>4
  <2>5. \A e : In(e, here', handler') => In(e, here, handler)'
    BY <1>2 DEF In, Handlers, Known
  <2> QED
    BY <1>2, <1>5, <1>15, <2>2, <2>3, <2>4, <2>5 DEF HereOK
<1>19. DoneOK'
  <2>1. NamedFrom(cur, at - 1)'
    <3> SUFFICES ASSUME NEW e \in Configs, e[1] \in cur .. at, Original[e[1]].op = "return"
                 PROVE  code'[e[1]].op = Ended(e[2])
      BY <1>2, <1>3, <1>5 DEF NamedFrom
    <3>1. CASE e[1] = at
      BY <1>3, <1>7, <3>1
    <3>2. CASE e[1] # at
      <4>1. e[1] \in cur .. at - 1 /\ e[1] \in Addr
        BY <1>3, <3>2
      <4> QED
        BY <1>7, <1>8, <3>2, <4>1 DEF DoneOK, NamedFrom
    <3> QED
      BY <3>1, <3>2
  <2>2. \A j : ~(j < 1 /\ j \in 1 .. Len(Successors'))
    OBVIOUS
  <2>3. ASSUME NEW b \in Blocks', Known(b), b # cur, ~InList(b)
        PROVE  NamedFrom(b, last[b])' /\ NextKnown(last[b])' /\ last'[b] = last[b]
    <3>1. b \in Blocks
      BY <1>8, <1>9, <2>3
    <3>2. NamedFrom(b, last[b]) /\ NextKnown(last[b])
      BY <1>8, <2>3, <3>1 DEF DoneOK
    <3>3. last'[b] = last[b] /\ at \notin b .. last[b]
      BY <1>16, <2>3, <3>1
    <3>4. NextKnown(last[b])'
      BY <1>2, <1>5, <3>2, <3>3 DEF NextKnown, Known
    <3>5. NamedFrom(b, last[b])'
      <4> SUFFICES ASSUME NEW e \in Configs, e[1] \in b .. last[b], Original[e[1]].op = "return"
                   PROVE  code'[e[1]].op = Ended(e[2])
        BY <1>5, <3>3 DEF NamedFrom
      <4>1. e[1] # at /\ e[1] \in Addr
        BY <3>1, <3>3, InBlock DEF IInv
      <4> QED
        BY <1>7, <3>2, <4>1 DEF NamedFrom
    <3> QED
      BY <3>3, <3>4, <3>5
  <2> QED
    BY <1>2, <1>3, <1>15, <2>1, <2>2, <2>3 DEF DoneOK
<1>20. Balanced(Original)' /\ TablesOK'
  BY <1>2, <1>5, <1>6 DEF ContextInv, TablesOK
<1> QED
  BY <1>2, <1>10, <1>11, <1>12, <1>14, <1>17, <1>18, <1>19, <1>20 DEF ContextInv, Unvisited, Pass2OK, ContextsRight

-----------------------------------------------------------------------------
(* The blocks that may follow are those that are executed next, with what  *)
(* pass2() says of their contexts.                                         *)
Follows(j, d) ==
    /\ Successors[j] = d[1] /\ Successors[j] \in Blocks
    /\ ContextOf(j) = Names(d[2]) /\ CatchOf(j) = InnerCatch(d[2])
    /\ (\A l \in 1 .. Len(Successors) : l < j => Known(Successors[l])) => Handlers(d[2])
FollowsAll(c) ==
    /\ \A j \in 1 .. Len(Successors) : \E d \in Steps(Original, last[cur], c) : Follows(j, d)
    /\ \A d \in Steps(Original, last[cur], c) : \E j \in 1 .. Len(Successors) : Successors[j] = d[1]

LEMMA PairOf ==
    ASSUME NEW S, NEW x \in S, NEW t \in Seq(S), Len(t) = 1
    PROVE  <<x>> \o t = <<x, t[1]>>
<1> DEFINE u == <<x>>
           v == <<x, t[1]>>
<1>1. /\ u \in Seq(S) /\ Len(u) = 1 /\ u[1] = x
      /\ v \in Seq(S) /\ Len(v) = 2 /\ v[1] = x /\ v[2] = t[1]
  <2>1. t[1] \in S
    BY ElementOfSeq
  <2> QED
    BY <2>1
<1> HIDE DEF u, v
<1>2. /\ u \o t \in Seq(S) /\ Len(u \o t) = Len(u) + Len(t)
      /\ \A i \in 1 .. Len(u) + Len(t) : (u \o t)[i] = IF i <= Len(u) THEN u[i] ELSE t[i - Len(u)]
  <2>1. u \in Seq(S) /\ t \in Seq(S)
    BY <1>1
  <2> QED
    BY <2>1, ConcatProperties
<1>3. Len(u \o t) = 2 /\ (u \o t)[1] = v[1] /\ (u \o t)[2] = v[2]
  BY <1>1, <1>2
<1>4. \A i \in 1 .. 2 : i = 1 \/ i = 2
  OBVIOUS
<1>5. u \o t = v
  BY <1>1, <1>2, <1>3, <1>4, SeqEqual
<1> QED
  BY <1>5 DEF u, v

LEMMA FollowsCatch ==
    ASSUME IInv, ContextInv, phase = "pass2", cur \in Blocks, code[last[cur]].op = "catch", NEW c \in Seq(Nat),
           Handlers(c), here = Append(Names(c), "catch"), handler = InnerCatch(c)
    PROVE  FollowsAll(c)
<1> DEFINE i == last[cur]
<1>1. i \in Addr /\ i \in Nat /\ N \in Nat /\ Addr = 1 .. N /\ CodeOK
  BY BlockIs, OriginalIs DEF IInv
<1>2. to[cur] = Follow(i) /\ code[i].to = <<i + 2>> /\ i + 2 <= N /\ code[i].op = "catch"
  BY <1>1 DEF ContextInv, FollowOK, OpsOK
<1>3. /\ Steps(Original, i, c) = {<<i + 1, c>>, <<i + 2, Append(c, i + 1)>>}
      /\ i + 1 \in Nat /\ i + 1 # 0 /\ i < N
  <2>1. Steps(Original, i, c) = {<<i + 1, c>>, <<i + 2, Append(c, i + 1)>>}
    BY <1>1, <1>2, StepsAre
  <2> QED
    BY <1>1, <1>2, <2>1
<1>4. i + 1 \in Blocks /\ i + 2 \in Blocks
  <2>2. <<i + 2>>[1] = i + 2 /\ 1 \in 1 .. Len(<<i + 2>>) /\ <<i + 2>> # <<>>
    OBVIOUS
  <2>1. \A j \in 1 .. Len(code[i].to) : code[i].to[j] \in Blocks
    <3>1. code[i].to # <<>> /\ phase # "pass1"
      BY <1>2, <2>2
    <3> QED
      BY <1>1, <3>1 DEF IInv, Straight
  <2> QED
    BY <1>1, <1>2, <1>3, <2>1, <2>2 DEF IInv, Straight
<1> HIDE DEF i
<1>5. Successors = <<i + 1, i + 2>>
  <2>1. Follow(i) = <<i + 1, i + 2>>
    <3>1. Follow(i) = <<i + 1>> \o <<i + 2>>
      BY <1>2 DEF Follow
    <3>2. i + 1 \in Nat /\ <<i + 2>> \in Seq(Nat) /\ Len(<<i + 2>>) = 1 /\ <<i + 2>>[1] = i + 2
      BY <1>1
    <3> QED
      BY <3>1, <3>2, PairOf
  <2> QED
    BY <1>2, <2>1 DEF Successors
<1>6. IsCatch
  BY <1>2 DEF IsCatch, i
<1>7. /\ Len(Successors) = 2 /\ Successors[1] = i + 1 /\ Successors[2] = i + 2
      /\ \A j \in 1 .. Len(Successors) : j = 1 \/ j = 2
  BY <1>5
<1>8. /\ Pop(here) = Names(c) /\ here = Names(Append(c, i + 1)) /\ InnerCatch(Append(c, i + 1)) = i + 1
  <2>1. Names(Append(c, i + 1)) = Append(Names(c), "catch") /\ InnerCatch(Append(c, i + 1)) = i + 1
    BY <1>3, ContextPushed
  <2>2. Names(c) \in Seq({"rlimits", "catch"})
    <3>1. Len(c) \in Nat
      OBVIOUS
    <3> QED
      BY <3>1 DEF Names
  <2> DEFINE s == Names(c)
             a == Append(s, "catch")
  <2>3. SubSeq(a, 1, Len(a) - 1) = s
    <3>1. s \in Seq({"rlimits", "catch"})
      BY <2>2
    <3> HIDE DEF s
    <3> QED
      BY <3>1, AppendProperties
  <2> QED
    BY <2>1, <2>3 DEF Pop
<1>9. Known(i + 1) => Handlers(Append(c, i + 1))
  <2>1. \A j \in 1 .. Len(Append(c, i + 1)) :
           \/ j \in 1 .. Len(c) /\ Append(c, i + 1)[j] = c[j]
           \/ Append(c, i + 1)[j] = i + 1
    BY <1>3
  <2> QED
    BY <2>1 DEF Handlers
<1>10. Follows(1, <<i + 1, c>>)
  <2> DEFINE d == <<i + 1, c>>
  <2>1. d[1] = i + 1 /\ d[2] = c
    OBVIOUS
  <2>2. ContextOf(1) = Pop(here) /\ CatchOf(1) = handler
    BY <1>6 DEF ContextOf, CatchOf
  <2> HIDE DEF d
  <2>3. Follows(1, d)
    BY <1>4, <1>7, <1>8, <2>1, <2>2 DEF Follows
  <2> QED
    BY <2>3 DEF d
<1>11. Follows(2, <<i + 2, Append(c, i + 1)>>)
  <2> DEFINE d == <<i + 2, Append(c, i + 1)>>
  <2>1. d[1] = i + 2 /\ d[2] = Append(c, i + 1)
    OBVIOUS
  <2>2. ContextOf(2) = here /\ CatchOf(2) = Successors[1]
    BY <1>6 DEF ContextOf, CatchOf
  <2>3. (\A l \in 1 .. Len(Successors) : l < 2 => Known(Successors[l])) => Known(i + 1)
    BY <1>7
  <2> HIDE DEF d
  <2>4. Follows(2, d)
    BY <1>4, <1>7, <1>8, <1>9, <2>1, <2>2, <2>3 DEF Follows
  <2> QED
    BY <2>4 DEF d
<1>12. \A d \in Steps(Original, i, c) : \E j \in 1 .. Len(Successors) : Successors[j] = d[1]
  BY <1>3, <1>7
<1> QED
  BY <1>3, <1>7, <1>10, <1>11, <1>12 DEF FollowsAll, i

LEMMA FollowsOther ==
    ASSUME IInv, ContextInv, phase = "pass2", cur \in Blocks, code[last[cur]].op # "catch", NEW c \in Seq(Nat),
           Handlers(c), <<last[cur], c>> \in Configs, NamedFrom(cur, last[cur]),
           \A d \in Steps(Original, last[cur], c) : here = Names(d[2]) /\ handler = InnerCatch(d[2])
    PROVE  FollowsAll(c)
<1> DEFINE i == last[cur]
<1>1. i \in Addr /\ i \in Nat /\ N \in Nat /\ Addr = 1 .. N /\ CodeOK /\ cur <= i /\ cur \in Nat
  BY BlockIs, OriginalIs DEF IInv
<1>2. to[cur] = Follow(i) /\ code[i].op # "catch"
  BY <1>1 DEF ContextInv, FollowOK
<1>3. \A d \in Steps(Original, i, c) : here = Names(d[2]) /\ handler = InnerCatch(d[2]) /\ d[1] \in Addr
  <2>1. \A e \in Configs : e[1] \in Addr /\ Steps(Original, e[1], e[2]) \subseteq Configs
    BY ConfigsAre DEF IInv, ContextInv
  <2>2. <<i, c>>[1] = i /\ <<i, c>>[2] = c
    OBVIOUS
  <2> QED
    BY <2>1, <2>2
<1>4. /\ next[cur] = IF i = N THEN 0 ELSE i + 1
      /\ next[cur] # 0 => next[cur] \in Blocks
  BY BlockIs DEF IInv
<1>5. Original[i].op = "return" => code[i].op = Ended(c)
  <2>1. i \in cur .. i
    BY <1>1
  <2>2. <<i, c>>[1] = i /\ <<i, c>>[2] = c
    OBVIOUS
  <2> QED
    BY <2>1, <2>2 DEF NamedFrom
<1>6. ~IsCatch
  BY <1>2 DEF IsCatch
<1> HIDE DEF i
<1>7. \A j : ContextOf(j) = here /\ CatchOf(j) = handler
  BY <1>6 DEF ContextOf, CatchOf
<1>8. ASSUME NEW j, NEW d \in Steps(Original, i, c), Successors[j] = d[1], Successors[j] \in Blocks, Handlers(d[2])
      PROVE  Follows(j, d)
  BY <1>3, <1>7, <1>8 DEF Follows
<1>9. CASE code[i].op = "branch"
  <2>1. Steps(Original, i, c) = {<<i + 1, c>>, <<code[i].to[1], c>>} /\ Len(code[i].to) = 1 /\ i < N
    <3>1. Steps(Original, i, c) = {<<i + 1, c>>, <<code[i].to[1], c>>}
      BY <1>1, <1>9, StepsAre
    <3>2. Len(code[i].to) = 1 /\ i < N
      BY <1>1, <1>9 DEF ContextInv, OpsOK
    <3> QED
      BY <3>1, <3>2
  <2>2. code[i].to \in Seq(Addr) /\ code[i].to # <<>>
    BY <1>1, <1>9, TargetsInCode, HasTargets DEF ContextInv
  <2>3. code[i].to[1] \in Blocks /\ i + 1 \in Blocks
    BY <1>1, <2>1, <2>2 DEF IInv, Straight
  <2>4. Successors = <<i + 1>> \o code[i].to
    <3>1. Follow(i) = <<i + 1>> \o code[i].to /\ i + 1 \in Nat
      BY <1>1, <1>9 DEF Follow
    <3>2. <<i + 1>> \o code[i].to # <<>>
      BY <1>1, <2>2
    <3> QED
      BY <1>2, <3>1, <3>2 DEF Successors
  <2>5. i + 1 \in Addr
    BY <1>1, <2>1
  <2>6. Successors = <<i + 1, code[i].to[1]>>
    BY <2>1, <2>2, <2>4, <2>5, PairOf
  <2>7. Len(Successors) = 2 /\ Successors[1] = i + 1 /\ Successors[2] = code[i].to[1]
    BY <2>6
  <2>8. Follows(1, <<i + 1, c>>) /\ Follows(2, <<code[i].to[1], c>>)
    BY <1>8, <2>1, <2>3, <2>7
  <2>9. \A j \in 1 .. Len(Successors) : j = 1 \/ j = 2
    BY <2>7
  <2> QED
    BY <2>1, <2>7, <2>8, <2>9 DEF FollowsAll, i
<1>10. CASE code[i].op \in {"jump", "caught", "switch"}
  <2>1. Steps(Original, i, c) = {<<code[i].to[j], c>> : j \in 1 .. Len(code[i].to)}
    BY <1>1, <1>10, StepsAre
  <2>2. code[i].to \in Seq(Addr) /\ code[i].to # <<>>
    BY <1>1, <1>10, TargetsInCode, HasTargets DEF ContextInv
  <2>3. Successors = code[i].to
    <3>1. Follow(i) = code[i].to
      BY <1>10 DEF Follow
    <3> QED
      BY <1>2, <2>2, <3>1 DEF Successors
  <2>4. \A j \in 1 .. Len(code[i].to) : code[i].to[j] \in Blocks
    BY <1>1, <2>2 DEF IInv, Straight
  <2>5. ASSUME NEW j \in 1 .. Len(Successors) PROVE \E d \in Steps(Original, i, c) : Follows(j, d)
    <3> DEFINE d == <<code[i].to[j], c>>
    <3>1. d \in Steps(Original, i, c) /\ d[1] = code[i].to[j] /\ d[2] = c
      BY <2>1, <2>3
    <3> HIDE DEF d
    <3>2. Follows(j, d)
      BY <1>8, <2>3, <2>4, <3>1
    <3> QED
      BY <3>1, <3>2
  <2>6. \A d \in Steps(Original, i, c) : \E j \in 1 .. Len(Successors) : Successors[j] = d[1]
    BY <2>1, <2>3
  <2> QED
    BY <2>5, <2>6 DEF FollowsAll, i
<1>11. CASE code[i].op \notin {"branch", "jump", "caught", "switch"}
  <2>1. Successors = IF next[cur] # 0 /\ code[i].op # "return" THEN <<next[cur]>> ELSE <<>>
    <3>1. code[i].to = <<>>
      BY <1>1, <1>2, <1>11, HasTargets DEF ContextInv
    <3>2. Follow(i) = <<>>
      BY <1>1, <3>1, NoFollow DEF ContextInv
    <3> QED
      BY <1>2, <3>2 DEF Successors, i
  <2>2. code[i].op = "return" => c = <<>>
    BY <1>1, <1>5, OriginalIs DEF Ended, Renamed
  <2>3. code[i].op \in Renamed => c # <<>>
    BY <1>1, <1>5, OriginalIs DEF Ended, Renamed
  <2>4. \A d \in Steps(Original, i, c) : d[1] = i + 1 /\ Handlers(d[2])
    <3>1. CASE code[i].op \in {"return"} \cup Renamed
      <4>1. Steps(Original, i, c) = IF c = <<>> THEN {} ELSE {<<i + 1, Pop(c)>>}
        BY <1>1, <3>1, StepsAre
      <4>2. c # <<>> => Handlers(Pop(c))
        <5> SUFFICES ASSUME c # <<>> PROVE Handlers(Pop(c))
          OBVIOUS
        <5>1. Len(c) \in Nat /\ Len(c) # 0
          BY EmptySeq
        <5> DEFINE m == Len(c) - 1
        <5>2. m \in Nat /\ \A j \in 1 .. m : j \in 1 .. Len(c)
          BY <5>1
        <5> HIDE DEF m
        <5>3. Len(SubSeq(c, 1, m)) = m /\ \A j \in 1 .. m : SubSeq(c, 1, m)[j] = c[j]
          BY <5>1, <5>2
        <5> QED
          BY <5>2, <5>3 DEF Handlers, Pop, m
      <4>3. CASE c = <<>>
        BY <4>1, <4>3
      <4>4. CASE c # <<>>
        <5>1. Steps(Original, i, c) = {<<i + 1, Pop(c)>>}
          BY <4>1, <4>4
        <5> QED
          BY <4>2, <4>4, <5>1
      <4> QED
        BY <4>3, <4>4
    <3>2. CASE code[i].op = "rlimits"
      <4>1. Steps(Original, i, c) = {<<i + 1, Append(c, 0)>>}
        BY <1>1, <3>2, StepsAre
      <4>2. Handlers(Append(c, 0))
        <5>1. \A j \in 1 .. Len(Append(c, 0)) : Append(c, 0)[j] # 0 => j \in 1 .. Len(c) /\ Append(c, 0)[j] = c[j]
          OBVIOUS
        <5> QED
          BY <5>1 DEF Handlers
      <4> DEFINE x == <<i + 1, Append(c, 0)>>
      <4>3. x[1] = i + 1 /\ x[2] = Append(c, 0)
        OBVIOUS
      <4>4. Steps(Original, i, c) = {x}
        BY <4>1
      <4> HIDE DEF x
      <4> QED
        BY <4>2, <4>3, <4>4
    <3>3. CASE code[i].op \notin {"return", "rlimits"} \cup Renamed
      <4>1. Steps(Original, i, c) = {<<i + 1, c>>}
        BY <1>1, <1>2, <1>11, <3>3, StepsAre
      <4> QED
        BY <4>1
    <3> QED
      BY <3>1, <3>2, <3>3
  <2>5. Steps(Original, i, c) # {} <=> code[i].op # "return"
    <3>1. CASE code[i].op \in {"return"} \cup Renamed
      <4>1. Steps(Original, i, c) = IF c = <<>> THEN {} ELSE {<<i + 1, Pop(c)>>}
        BY <1>1, <3>1, StepsAre
      <4> QED
        BY <2>2, <2>3, <3>1, <4>1 DEF Renamed
    <3>2. CASE code[i].op = "rlimits"
      <4>1. Steps(Original, i, c) = {<<i + 1, Append(c, 0)>>}
        BY <1>1, <3>2, StepsAre
      <4> QED
        BY <3>2, <4>1
    <3>3. CASE code[i].op \notin {"return", "rlimits"} \cup Renamed
      <4>1. Steps(Original, i, c) = {<<i + 1, c>>}
        BY <1>1, <1>2, <1>11, <3>3, StepsAre
      <4> QED
        BY <3>3, <4>1
    <3> QED
      BY <3>1, <3>2, <3>3
  <2>6. CASE code[i].op = "return"
    <3>1. Len(Successors) = 0 /\ Steps(Original, i, c) = {}
      BY <2>1, <2>5, <2>6
    <3>2. \A j \in 1 .. Len(Successors) : FALSE
      BY <3>1
    <3> QED
      BY <3>1, <3>2 DEF FollowsAll, i
  <2>7. CASE code[i].op # "return"
    <3>1. PICK d \in Steps(Original, i, c) : TRUE
      BY <2>5, <2>7
    <3>2. d[1] = i + 1 /\ i + 1 \in Addr
      BY <1>3, <2>4, <3>1
    <3>3. next[cur] = i + 1 /\ next[cur] # 0 /\ i + 1 \in Blocks
      BY <1>1, <1>4, <3>2
    <3>4. Len(Successors) = 1 /\ Successors[1] = i + 1 /\ \A j \in 1 .. Len(Successors) : j = 1
      <4>1. Successors = <<i + 1>>
        BY <2>1, <2>7, <3>3
      <4> QED
        BY <4>1
    <3>5. Follows(1, d)
      BY <1>8, <2>4, <3>1, <3>2, <3>3, <3>4
    <3> QED
      BY <2>4, <3>1, <3>4, <3>5 DEF FollowsAll, i
  <2> QED
    BY <2>6, <2>7
<1> QED
  BY <1>9, <1>10, <1>11

LEMMA FollowsEnd ==
    ASSUME IInv, ContextInv, phase = "pass2", at > last[cur]
    PROVE  /\ at = last[cur] + 1 /\ cur \in Blocks /\ Known(cur) /\ last[cur] \in Addr /\ NamedFrom(cur, last[cur])
           /\ \E c \in Seq(Nat) : <<last[cur], c>> \in Configs /\ FollowsAll(c)
<1>1. HereOK /\ DoneOK
  BY DEF ContextInv, Pass2OK
<1>2. cur \in Blocks /\ Known(cur) /\ at <= last[cur] + 1
  BY <1>1 DEF HereOK
<1>3. last[cur] \in Addr /\ last[cur] \in Nat /\ at \in Nat
  BY <1>2, BlockIs DEF IInv, CursorOK
<1>4. at = last[cur] + 1 /\ at - 1 = last[cur]
  BY <1>2, <1>3
<1>5. NamedFrom(cur, last[cur])
  BY <1>1, <1>4 DEF DoneOK
<1>6. PICK e \in Configs : e[1] = last[cur] /\ Handlers(e[2]) /\ Ending(e)
  BY <1>1 DEF HereOK
<1>7. e[2] \in Seq(Nat) /\ <<last[cur], e[2]>> \in Configs
  <2>1. e = <<e[1], e[2]>> /\ e[2] \in Seq(Nat)
    BY ConfigsAre DEF IInv, ContextInv
  <2> QED
    BY <1>6, <2>1
<1>8. FollowsAll(e[2])
  <2>1. CASE code[last[cur]].op = "catch"
    BY <1>2, <1>6, <1>7, <2>1, FollowsCatch DEF Ending
  <2>2. CASE code[last[cur]].op # "catch"
    BY <1>2, <1>5, <1>6, <1>7, <2>2, FollowsOther DEF Ending
  <2> QED
    BY <2>1, <2>2
<1> QED
  BY <1>2, <1>3, <1>4, <1>5, <1>7, <1>8

LEMMA VisitOnceContext ==
    ASSUME IInv, ContextInv, VisitOnce
    PROVE  ContextInv'
<1>1. /\ phase = "pass2" /\ phase' = phase /\ at' = at /\ k' = k + 1 /\ cur' = cur /\ code' = code /\ last' = last
      /\ next' = next /\ to' = to /\ here' = here /\ handler' = handler /\ at > last[cur] /\ k \in 1 .. Len(Successors)
      /\ k \in Nat
  <2>1. k \in Nat \ {0} /\ k <= Len(Successors) /\ Len(Successors) \in Nat
    BY SuccessorsType DEF IInv, CursorOK, VisitOnce
  <2> QED
    BY <2>1 DEF VisitOnce
<1>2. /\ at = last[cur] + 1 /\ cur \in Blocks /\ Known(cur) /\ last[cur] \in Addr /\ last[cur] \in Nat
      /\ N \in Nat /\ Addr = 1 .. N /\ DOMAIN sp = Addr /\ DOMAIN caught = Addr
  BY <1>1, FollowsEnd, OriginalIs DEF IInv, ContextInv, TablesOK
<1>3. PICK c \in Seq(Nat) : <<last[cur], c>> \in Configs /\ FollowsAll(c)
  BY <1>1, FollowsEnd
<1>4. PICK d \in Steps(Original, last[cur], c) : Follows(k, d)
  BY <1>1, <1>3 DEF FollowsAll
<1>5. PICK b : b = Successors[k]
  OBVIOUS
<1>6. KnownOK /\ ListOK /\ FreshOK /\ HereOK /\ DoneOK /\ FollowOK /\ OpsOK /\ Balanced(Original)
  BY <1>1 DEF ContextInv, Pass2OK
<1>7. \A e \in Configs : /\ Steps(Original, e[1], e[2]) \subseteq Configs /\ e[2] \in Seq(Nat)
                         /\ \A f \in Configs : e[1] = f[1] => e[2] = f[2]
  BY ConfigsAre DEF IInv, ContextInv
<1>8. /\ d \in Configs /\ d[1] = b /\ b \in Blocks /\ b \in Addr /\ Handlers(d[2]) /\ d[2] \in Seq(Nat)
      /\ ContextOf(k) = Names(d[2]) /\ CatchOf(k) = InnerCatch(d[2])
  <2>1. d \in Configs
    <3>1. <<last[cur], c>>[1] = last[cur] /\ <<last[cur], c>>[2] = c
      OBVIOUS
    <3> QED
      BY <1>3, <1>4, <1>7, <3>1
  <2>2. Handlers(d[2])
    BY <1>1, <1>4, <1>6 DEF Follows, DoneOK
  <2> QED
    BY <1>4, <1>5, <1>7, <2>1, <2>2 DEF Follows, Blocks
<1>9. /\ N' = N /\ Addr' = Addr /\ Original' = Original /\ Configs' = Configs /\ Blocks' = Blocks
      /\ Successors' = Successors
  BY <1>1, SameCode DEF Blocks, Successors
<1>10. /\ \A i \in Addr : sp'[i] = IF i = b THEN Names(d[2]) ELSE sp[i]
       /\ \A i \in Addr : caught'[i] = IF i = b THEN InnerCatch(d[2]) ELSE caught[i]
       /\ DOMAIN sp' = Addr /\ DOMAIN caught' = Addr
       /\ list' = IF Known(b) THEN list ELSE <<b>> \o list
  <2>1. /\ sp[b] = Invalid => /\ sp' = [sp EXCEPT ![b] = ContextOf(k)] /\ caught' = [caught EXCEPT ![b] = CatchOf(k)]
                              /\ list' = ToVisit(b)
        /\ sp[b] # Invalid => /\ caught' = IF IsCatch /\ k = 1 THEN [caught EXCEPT ![b] = handler] ELSE caught
                              /\ sp' = sp /\ list' = list
    BY <1>5 DEF VisitOnce
  <2>2. CASE sp[b] = Invalid
    <3>1. b # 1
      BY <1>6, <2>2 DEF KnownOK, Known
    <3>2. ~\E i \in 1 .. Len(list) : list[i] = b
      BY <1>6, <2>2 DEF ListOK, Known
    <3>3. list' = <<b>> \o list
      BY <2>1, <2>2, <3>1, <3>2 DEF ToVisit, Listed
    <3> QED
      BY <1>2, <1>8, <2>1, <2>2, <3>3 DEF Known
  <2>3. CASE sp[b] # Invalid
    <3>1. PICK e \in Configs : e[1] = b /\ sp[b] = Names(e[2]) /\ caught[b] = InnerCatch(e[2])
      BY <1>6, <1>8, <2>3 DEF KnownOK, Known, In
    <3>2. e[2] = d[2]
      BY <1>7, <1>8, <3>1
    <3>3. IsCatch /\ k = 1 => handler = InnerCatch(d[2])
      BY <1>8 DEF CatchOf
    <3>4. sp' = sp /\ list' = list /\ \A i \in Addr : caught'[i] = caught[i]
      BY <1>2, <1>8, <2>1, <2>3, <3>1, <3>2, <3>3
    <3>5. DOMAIN caught' = Addr
      BY <1>2, <2>1, <2>3
    <3> QED
      BY <1>2, <1>8, <2>3, <3>1, <3>2, <3>4, <3>5 DEF Known
  <2> QED
    BY <2>2, <2>3
<1>11. \A i \in Addr : sp'[i] # Invalid <=> Known(i) \/ i = b
  <2>1. Names(d[2]) # Invalid
    BY <1>8, NamesValid
  <2> QED
    BY <1>10, <2>1 DEF Known
<1>12. \A e \in Configs : Handlers(e[2]) => Handlers(e[2])'
  <2> SUFFICES ASSUME NEW e \in Configs, Handlers(e[2]), NEW j \in 1 .. Len(e[2]), e[2][j] # 0
               PROVE  sp'[e[2][j]] # Invalid
    BY DEF Handlers, Known
  <2>1. Known(e[2][j])
    BY DEF Handlers
  <2>2. e[2][j] \in Addr
    <3>1. Enclosed(Original, e[2])
      BY ConfigsAre DEF IInv, ContextInv
    <3>2. <<e[2][j], SubSeq(e[2], 1, j - 1)>> \in Configs
      BY <3>1 DEF Enclosed, Configs
    <3>3. <<e[2][j], SubSeq(e[2], 1, j - 1)>>[1] \in Addr
      BY <3>2, ConfigsAre DEF IInv, ContextInv
    <3> QED
      BY <3>3
  <2> QED
    BY <1>11, <2>1, <2>2
<1>13. KnownOK'
  <2>1. 1 \in Addr
    BY DEF IInv, Partition, Blocks
  <2>2. ASSUME NEW i \in Addr, Known(i) \/ i = b
        PROVE  /\ i \in Blocks
               /\ \E e \in Configs : e[1] = i /\ sp'[i] = Names(e[2]) /\ caught'[i] = InnerCatch(e[2]) /\ Handlers(e[2])'
    <3>1. CASE i = b
      BY <1>8, <1>10, <1>12, <3>1
    <3>2. CASE i # b
      <4>1. i \in Blocks /\ \E e \in Configs : e[1] = i /\ In(e, sp[i], caught[i])
        BY <1>6, <2>2, <3>2 DEF KnownOK
      <4> QED
        BY <1>10, <1>12, <3>2, <4>1 DEF In
    <3> QED
      BY <3>1, <3>2
  <2>3. sp'[1] # Invalid
    BY <1>6, <1>11, <2>1 DEF KnownOK
  <2> QED
    BY <1>9, <1>11, <2>2, <2>3 DEF KnownOK, In, Known
<1>14. list \in Seq(Addr) /\ list' \in Seq(Addr) /\ Len(list) \in Nat
  <2>1. list \in Seq(Addr)
    BY <1>1 DEF IInv, CursorOK
  <2>2. <<b>> \in Seq(Addr)
    BY <1>8
  <2> QED
    BY <1>10, <2>1, <2>2
<1>15. ~Known(b) => /\ Len(list') = Len(list) + 1 /\ list'[1] = b
                    /\ \A j \in 1 .. Len(list) : list'[j + 1] = list[j]
                    /\ \A j \in 1 .. Len(list') : j # 1 => j - 1 \in 1 .. Len(list) /\ list'[j] = list[j - 1]
  <2> SUFFICES ASSUME ~Known(b)
               PROVE  /\ Len(list') = Len(list) + 1 /\ list'[1] = b
                      /\ \A j \in 1 .. Len(list) : list'[j + 1] = list[j]
                      /\ \A j \in 1 .. Len(list') : j # 1 => j - 1 \in 1 .. Len(list) /\ list'[j] = list[j - 1]
    OBVIOUS
  <2> DEFINE u == <<b>>
  <2>1. u \in Seq(Addr) /\ Len(u) = 1 /\ u[1] = b /\ list' = u \o list
    BY <1>8, <1>10
  <2> HIDE DEF u
  <2>2. Len(list') = Len(u) + Len(list)
        /\ \A j \in 1 .. Len(u) + Len(list) : list'[j] = IF j <= Len(u) THEN u[j] ELSE list[j - Len(u)]
    BY <1>14, <2>1, ConcatProperties
  <2> QED
    BY <1>14, <2>1, <2>2
<1>16. \A x : InList(x)' <=> InList(x) \/ (x = b /\ ~Known(b))
  <2>1. CASE Known(b)
    BY <1>10, <2>1 DEF InList
  <2>2. CASE ~Known(b)
    <3>1. \A x : InList(x) => InList(x)'
      <4> SUFFICES ASSUME NEW x, InList(x) PROVE InList(x)'
        OBVIOUS
      <4>1. PICK j \in 1 .. Len(list) : list[j] = x
        BY DEF InList
      <4>2. j + 1 \in 1 .. Len(list') /\ list'[j + 1] = x
        BY <1>14, <1>15, <2>2, <4>1
      <4> QED
        BY <4>2 DEF InList
    <3>2. InList(b)'
      <4>1. 1 \in 1 .. Len(list')
        BY <1>14, <1>15, <2>2
      <4> QED
        BY <1>15, <2>2, <4>1 DEF InList
    <3>3. \A x : InList(x)' => InList(x) \/ x = b
      BY <1>15, <2>2 DEF InList
    <3> QED
      BY <2>2, <3>1, <3>2, <3>3
  <2> QED
    BY <2>1, <2>2
<1>17. ListOK'
  <2>1. CASE Known(b)
    <3>1. list' = list
      BY <1>10, <2>1
    <3>2. \A j \in 1 .. Len(list) : sp'[list[j]] # Invalid
      <4> TAKE j \in 1 .. Len(list)
      <4>1. list[j] \in Addr /\ Known(list[j])
        BY <1>6, <1>14, ElementOfSeq DEF ListOK
      <4> QED
        BY <1>11, <4>1
    <3> QED
      BY <1>1, <1>6, <3>1, <3>2 DEF ListOK, Known
  <2>2. CASE ~Known(b)
    <3>1. \A j \in 1 .. Len(list') : sp'[list'[j]] # Invalid /\ list'[j] # cur
      <4> TAKE j \in 1 .. Len(list')
      <4>1. list'[j] \in Addr
        BY <1>14, ElementOfSeq
      <4>2. CASE j = 1
        <5>1. list'[j] = b /\ b # cur
          BY <1>2, <1>15, <2>2, <4>2
        <5> QED
          BY <1>11, <4>1, <5>1
      <4>3. CASE j # 1
        <5>1. Known(list'[j]) /\ list'[j] # cur
          <6>1. j - 1 \in 1 .. Len(list) /\ list'[j] = list[j - 1]
            BY <1>15, <2>2, <4>3
          <6>2. Known(list[j - 1]) /\ list[j - 1] # cur
            BY <1>6, <6>1 DEF ListOK
          <6> QED
            BY <6>1, <6>2 DEF Known
        <5> QED
          BY <1>11, <4>1, <5>1
      <4> QED
        BY <4>2, <4>3
    <3>2. ASSUME NEW i \in 1 .. Len(list'), NEW j \in 1 .. Len(list'), list'[i] = list'[j] PROVE i = j
      <4>1. \A x \in 1 .. Len(list) : list[x] # b
        BY <1>6, <2>2 DEF ListOK
      <4>a. list'[1] = b /\ \A x \in 1 .. Len(list') : x # 1 => list'[x] # b
        BY <1>15, <2>2, <4>1
      <4>2. CASE i = 1 \/ j = 1
        BY <3>2, <4>a, <4>2
      <4>3. CASE i # 1 /\ j # 1
        <5>1. i - 1 \in 1 .. Len(list) /\ j - 1 \in 1 .. Len(list) /\ list[i - 1] = list[j - 1]
          BY <1>15, <2>2, <3>2, <4>3
        <5>2. i - 1 = j - 1
          BY <1>6, <5>1 DEF ListOK
        <5>3. i \in Nat /\ j \in Nat
          OBVIOUS
        <5> QED
          BY <5>2, <5>3
      <4> QED
        BY <4>2, <4>3
    <3> QED
      BY <1>1, <3>1, <3>2 DEF ListOK, Known
  <2> QED
    BY <2>1, <2>2
<1>18. FreshOK'
  <2>1. ASSUME NEW x \in Blocks, sp'[x] = Invalid \/ InList(x)'
        PROVE  \A i \in x .. last[x] : code[i].op \notin Renamed
    <3>1. x \in Addr
      BY DEF Blocks
    <3>2. ~Known(x) \/ InList(x)
      BY <1>11, <1>16, <2>1, <3>1
    <3> QED
      BY <1>6, <3>2 DEF FreshOK
  <2> QED
    BY <1>1, <1>6, <1>9, <2>1 DEF FreshOK, Known
<1>19. HereOK'
  <2>1. PICK e \in Configs : e[1] = last[cur] /\ Handlers(e[2]) /\ Ending(e)
    BY <1>1, <1>6 DEF HereOK
  <2>2. Ending(e)' /\ Handlers(e[2])'
    BY <1>1, <1>9, <1>12, <2>1 DEF Ending
  <2>3. sp'[cur] # Invalid
    BY <1>2, <1>11 DEF Blocks
  <2>4. ~(at <= last[cur])
    BY <1>2
  <2> QED
    BY <1>1, <1>6, <1>9, <2>1, <2>2, <2>3, <2>4 DEF HereOK, Known
<1>20. DoneOK'
  <2>1. NamedFrom(cur, at - 1)'
    BY <1>1, <1>6, <1>9 DEF DoneOK, NamedFrom
  <2>2. \A j \in 1 .. Len(Successors) : j < k + 1 => sp'[Successors[j]] # Invalid
    <3> SUFFICES ASSUME NEW j \in 1 .. Len(Successors), j < k + 1 PROVE sp'[Successors[j]] # Invalid
      OBVIOUS
    <3>1. Successors[j] \in Addr
      BY <1>3 DEF FollowsAll, Follows, Blocks
    <3>2. CASE j = k
      BY <1>5, <1>11, <3>1, <3>2
    <3>3. CASE j # k
      <4>1. j < k
        BY <1>1, <3>3
      <4>2. Known(Successors[j])
        BY <1>1, <1>6, <4>1 DEF DoneOK
      <4> QED
        BY <1>11, <3>1, <4>2
    <3> QED
      BY <3>2, <3>3
  <2>3. ASSUME NEW x \in Blocks, sp'[x] # Invalid, x # cur, ~InList(x)'
        PROVE  NamedFrom(x, last[x])' /\ NextKnown(last[x])'
    <3>1. x \in Addr
      BY DEF Blocks
    <3>2. Known(x) /\ ~InList(x)
      BY <1>11, <1>16, <2>3, <3>1
    <3>3. NamedFrom(x, last[x]) /\ NextKnown(last[x])
      BY <1>6, <2>3, <3>2 DEF DoneOK
    <3>4. NextKnown(last[x])'
      <4> SUFFICES ASSUME NEW e \in Configs, e[1] = last[x], NEW f \in Steps(Original, last[x], e[2])
                   PROVE  sp'[f[1]] # Invalid
        BY <1>1, <1>9 DEF NextKnown, Known
      <4>1. Known(f[1])
        BY <3>3 DEF NextKnown
      <4>2. f[1] \in Addr
        <5>1. f \in Configs
          BY <1>7
        <5> QED
          BY <5>1, ConfigsAre DEF IInv, ContextInv
      <4> QED
        BY <1>11, <4>1, <4>2
    <3>5. NamedFrom(x, last[x])'
      BY <1>1, <1>9, <3>3 DEF NamedFrom
    <3> QED
      BY <3>4, <3>5
  <2> QED
    BY <1>1, <1>9, <2>1, <2>2, <2>3 DEF DoneOK, Known
<1>21. FollowOK' /\ OpsOK' /\ Balanced(Original)' /\ TablesOK'
  <2>1. \A i : Follow(i)' = Follow(i)
    BY <1>1 DEF Follow
  <2> QED
    BY <1>1, <1>6, <1>9, <1>10, <2>1 DEF FollowOK, OpsOK, TablesOK
<1> QED
  BY <1>1, <1>13, <1>17, <1>18, <1>19, <1>20, <1>21 DEF ContextInv, Unvisited, Pass2OK, ContextsRight

(* A block that has been left is done.                                     *)
LEMMA LeftDone ==
    ASSUME IInv, ContextInv, Visited2
    PROVE  NamedFrom(cur, last[cur]) /\ NextKnown(last[cur])
<1>1. phase = "pass2" /\ at > last[cur] /\ k > Len(Successors)
  BY DEF Visited2
<1>2. NamedFrom(cur, last[cur])
  BY <1>1, FollowsEnd
<1>3. PICK c \in Seq(Nat) : <<last[cur], c>> \in Configs /\ FollowsAll(c)
  BY <1>1, FollowsEnd
<1>4. \A j \in 1 .. Len(Successors) : Known(Successors[j])
  <2> TAKE j \in 1 .. Len(Successors)
  <2>1. j < k
    <3>1. k \in Nat /\ Len(Successors) \in Nat
      BY <1>1, SuccessorsType DEF IInv, CursorOK
    <3> QED
      BY <1>1, <3>1
  <2> QED
    BY <1>1, <2>1 DEF ContextInv, Pass2OK, DoneOK
<1>5. ASSUME NEW e \in Configs, e[1] = last[cur], NEW d \in Steps(Original, last[cur], e[2]) PROVE Known(d[1])
  <2>1. e[2] = c
    <3>1. \A f \in Configs : e[1] = f[1] => e[2] = f[2]
      BY ConfigsAre DEF IInv, ContextInv
    <3>2. <<last[cur], c>>[1] = last[cur] /\ <<last[cur], c>>[2] = c
      OBVIOUS
    <3> QED
      BY <1>3, <1>5, <3>1, <3>2
  <2>2. PICK j \in 1 .. Len(Successors) : Successors[j] = d[1]
    BY <1>3, <1>5, <2>1 DEF FollowsAll
  <2> QED
    BY <1>4, <2>2 DEF Known
<1>6. NextKnown(last[cur])
  BY <1>5 DEF NextKnown
<1> QED
  BY <1>2, <1>6

(* When nothing is left to visit, what is executed has all been visited.   *)
LEMMA AllVisited ==
    ASSUME IInv, phase # "pass1", Balanced(Original), OpsOK, KnownOK,
           \A b \in Blocks : Known(b) => NamedFrom(b, last[b]) /\ NextKnown(last[b])
    PROVE  \A e \in Configs :
              /\ e[1] \in Blocks => sp[e[1]] = Names(e[2]) /\ caught[e[1]] = InnerCatch(e[2])
              /\ Original[e[1]].op = "return" => code[e[1]].op = Ended(e[2])
<1>1. N \in Nat /\ Addr = 1 .. N /\ Len(Original) = N /\ 1 \in Blocks /\ CodeOK
  BY OriginalIs DEF IInv, Partition
<1>2. /\ Begin \in Configs
      /\ \A e \in Configs : /\ e[1] \in Addr /\ Steps(Original, e[1], e[2]) \subseteq Configs
                            /\ \A f \in Configs : e[1] = f[1] => e[2] = f[2]
  BY ConfigsAre DEF IInv
<1> DEFINE S == {e \in Configs : \E b \in Blocks : Known(b) /\ b <= e[1] /\ e[1] <= last[b]}
<1>3. Begin \in S
  <2>1. Begin[1] = 1 /\ Known(1) /\ 1 <= last[1]
    BY <1>1, BlockIs DEF Begin, KnownOK, IInv
  <2> QED
    BY <1>1, <1>2, <2>1
<1>4. ASSUME NEW e \in S, NEW d \in Steps(Original, e[1], e[2]) PROVE d \in S
  <2>1. PICK b \in Blocks : Known(b) /\ b <= e[1] /\ e[1] <= last[b]
    OBVIOUS
  <2>2. d \in Configs /\ e[1] \in Addr /\ d[1] \in Addr /\ e[1] \in Nat /\ d[1] \in Nat
    BY <1>1, <1>2
  <2>3. b \in Nat /\ last[b] \in Nat
    BY BlockIs DEF IInv
  <2>4. CASE e[1] = last[b]
    <3>1. Known(d[1])
      BY <2>1, <2>4 DEF NextKnown
    <3>2. d[1] \in Blocks /\ d[1] <= last[d[1]]
      BY <2>2, <3>1 DEF KnownOK, IInv, Partition
    <3> QED
      BY <2>2, <3>1, <3>2
  <2>5. CASE e[1] # last[b]
    <3>1. e[1] < last[b]
      BY <2>1, <2>2, <2>3, <2>5
    <3>2. code[e[1]].to = <<>>
      BY <2>1, <2>2, <3>1, InsideBlock
    <3>3. code[e[1]].op \notin {"jump", "branch", "switch", "catch", "caught"}
      BY <2>2, <3>2, HasTargets DEF IInv
    <3>4. d[1] = e[1] + 1
      <4> DEFINE c == e[2]
                 i == e[1]
      <4>1. i \in Addr /\ d \in Steps(Original, i, c) /\ code[i].op \notin {"jump", "branch", "switch", "catch", "caught"}
        BY <2>2, <3>3
      <4> HIDE DEF c, i
      <4>2. CASE code[i].op \in {"return"} \cup Renamed
        <5>1. Steps(Original, i, c) = IF c = <<>> THEN {} ELSE {<<i + 1, Pop(c)>>}
          BY <1>1, <4>1, <4>2, StepsAre
        <5>2. d = <<i + 1, Pop(c)>>
          BY <4>1, <5>1
        <5> QED
          BY <5>2 DEF i
      <4>3. CASE code[i].op = "rlimits"
        <5>1. Steps(Original, i, c) = {<<i + 1, Append(c, 0)>>}
          BY <1>1, <4>1, <4>3, StepsAre
        <5>2. d = <<i + 1, Append(c, 0)>>
          BY <4>1, <5>1
        <5> QED
          BY <5>2 DEF i
      <4>4. CASE code[i].op \notin {"return", "rlimits"} \cup Renamed
        <5>1. Steps(Original, i, c) = {<<i + 1, c>>}
          BY <1>1, <4>1, <4>4, StepsAre
        <5>2. d = <<i + 1, c>>
          BY <4>1, <5>1
        <5> QED
          BY <5>2 DEF i
      <4> QED
        BY <4>2, <4>3, <4>4
    <3>5. b <= d[1] /\ d[1] <= last[b]
      BY <2>1, <2>2, <2>3, <3>1, <3>4
    <3> QED
      BY <2>1, <2>2, <3>5
  <2> QED
    BY <2>4, <2>5
<1>5. Configs \subseteq S
  <2>1. \A e \in S : e[1] \in 1 .. Len(Original) => Steps(Original, e[1], e[2]) \subseteq S
    <3> HIDE DEF S
    <3> QED
      BY <1>4
  <2> HIDE DEF S
  <2> QED
    BY <1>1, <1>3, <2>1, ExecutedLeast DEF Configs
<1> SUFFICES ASSUME NEW e \in Configs
             PROVE  /\ e[1] \in Blocks => sp[e[1]] = Names(e[2]) /\ caught[e[1]] = InnerCatch(e[2])
                    /\ Original[e[1]].op = "return" => code[e[1]].op = Ended(e[2])
  OBVIOUS
<1>6. PICK b \in Blocks : Known(b) /\ b <= e[1] /\ e[1] <= last[b]
  BY <1>5
<1>7. e[1] \in Addr /\ e[1] \in Nat /\ e[1] \in b .. last[b] /\ b \in Addr
  <2>1. e[1] \in Addr /\ b \in Addr /\ last[b] \in Addr
    BY <1>2, BlockIs DEF IInv
  <2> QED
    BY <1>1, <1>6, <2>1
<1>8. Original[e[1]].op = "return" => code[e[1]].op = Ended(e[2])
  BY <1>6, <1>7 DEF NamedFrom
<1>9. ASSUME e[1] \in Blocks PROVE sp[e[1]] = Names(e[2]) /\ caught[e[1]] = InnerCatch(e[2])
  <2>1. e[1] <= last[e[1]]
    BY <1>9 DEF IInv, Partition
  <2>2. b = e[1]
    BY <1>6, <1>7, <1>9, <2>1, OneBlock DEF IInv
  <2>3. PICK f \in Configs : f[1] = b /\ sp[b] = Names(f[2]) /\ caught[b] = InnerCatch(f[2])
    BY <1>6, <1>7 DEF KnownOK, In
  <2>4. f[2] = e[2]
    BY <1>2, <2>2, <2>3
  <2> QED
    BY <2>2, <2>3, <2>4
<1> QED
  BY <1>8, <1>9

LEMMA Visited2Context ==
    ASSUME IInv, ContextInv, Visited2
    PROVE  ContextInv'
<1>1. /\ phase = "pass2" /\ at > last[cur] /\ at' = cur' /\ here' = sp[cur'] /\ handler' = caught[cur']
      /\ code' = code /\ last' = last /\ next' = next /\ to' = to /\ sp' = sp /\ caught' = caught
      /\ \/ list # <<>> /\ cur' = Head(list) /\ list' = Tail(list) /\ phase' = "pass2" /\ k' = 1
         \/ list = <<>> /\ phase' = "pass3"
  BY DEF Visited2, NextVisit
<1>2. /\ N' = N /\ Addr' = Addr /\ Original' = Original /\ Configs' = Configs /\ Blocks' = Blocks
  BY <1>1, SameCode DEF Blocks
<1>3. KnownOK /\ ListOK /\ FreshOK /\ HereOK /\ DoneOK /\ FollowOK /\ OpsOK /\ Balanced(Original)
  BY <1>1 DEF ContextInv, Pass2OK
<1>4. NamedFrom(cur, last[cur]) /\ NextKnown(last[cur])
  BY LeftDone
<1>5. \A b \in Blocks : Known(b) /\ ~InList(b) => NamedFrom(b, last[b]) /\ NextKnown(last[b])
  BY <1>3, <1>4 DEF DoneOK
<1>6. FollowOK' /\ OpsOK' /\ Balanced(Original)' /\ TablesOK'
  <2>1. \A i : Follow(i)' = Follow(i)
    BY <1>1 DEF Follow
  <2>2. Balanced(Original)' /\ OpsOK' /\ TablesOK'
    BY <1>1, <1>2, <1>3 DEF OpsOK, TablesOK, ContextInv
  <2>3. FollowOK'
    BY <1>1, <1>2, <1>3, <2>1 DEF FollowOK
  <2> QED
    BY <2>2, <2>3
<1>7. CASE list # <<>> /\ cur' = Head(list) /\ list' = Tail(list) /\ phase' = "pass2" /\ k' = 1
  <2>1. PICK b : b = list[1]
    OBVIOUS
  <2>2. /\ list \in Seq(Addr) /\ Len(list) \in Nat /\ 1 \in 1 .. Len(list) /\ cur' = b /\ b \in Addr
        /\ Len(list') = Len(list) - 1 /\ \A j \in 1 .. Len(list) - 1 : list'[j] = list[j + 1] /\ j + 1 \in 1 .. Len(list)
    <3>1. list \in Seq(Addr)
      BY <1>1 DEF IInv, CursorOK
    <3>2. Len(list) \in Nat /\ 1 \in 1 .. Len(list) /\ Head(list) = list[1] /\ Len(Tail(list)) = Len(list) - 1
          /\ \A j \in 1 .. Len(list) - 1 : Tail(list)[j] = list[j + 1] /\ j + 1 \in 1 .. Len(list)
      <4>1. Len(list) \in Nat /\ Len(list) # 0
        BY <1>7, <3>1, EmptySeq
      <4> DEFINE m == Len(list) - 1
      <4>2. m \in Nat /\ Len(list) = m + 1 /\ \A j \in 1 .. m : j + 1 \in 1 .. Len(list)
        BY <4>1
      <4> HIDE DEF m
      <4>3. Head(list) = list[1] /\ Len(Tail(list)) = m /\ \A j \in 1 .. m : Tail(list)[j] = list[j + 1]
        BY <1>7, <3>1, <4>1, <4>2, HeadTailProperties
      <4> QED
        BY <4>1, <4>2, <4>3 DEF m
    <3>3. list[1] \in Addr
      BY <3>1, <3>2, ElementOfSeq
    <3> QED
      BY <1>7, <2>1, <3>1, <3>2, <3>3
  <2>3. Known(b) /\ InList(b) /\ b # cur
    <3>1. InList(b)
      BY <2>1, <2>2 DEF InList
    <3>2. Known(list[1]) /\ list[1] # cur
      BY <1>3, <2>2 DEF ListOK
    <3> QED
      BY <2>1, <3>1, <3>2 DEF Known
  <2>4. b \in Blocks /\ \E e \in Configs : e[1] = b /\ In(e, sp[b], caught[b])
    BY <1>3, <2>2, <2>3 DEF KnownOK
  <2>5. b \in Nat /\ last[b] \in Nat /\ b <= last[b]
    BY <2>4, BlockIs DEF IInv
  <2>6. \A x : InList(x)' <=> InList(x) /\ x # b
    <3>1. ASSUME NEW x, InList(x)' PROVE InList(x) /\ x # b
      <4>1. PICK j \in 1 .. Len(list') : list'[j] = x
        BY <3>1 DEF InList
      <4>2. j \in 1 .. Len(list) - 1 /\ list[j + 1] = x /\ j + 1 \in 1 .. Len(list) /\ j + 1 # 1
        BY <2>2, <4>1
      <4>3. InList(x)
        BY <4>2 DEF InList
      <4>4. x # b
        BY <1>3, <2>1, <2>2, <4>2 DEF ListOK
      <4> QED
        BY <4>3, <4>4
    <3>2. ASSUME NEW x, InList(x), x # b PROVE InList(x)'
      <4>1. PICK j \in 1 .. Len(list) : list[j] = x
        BY <3>2 DEF InList
      <4>2. j # 1
        BY <2>1, <3>2, <4>1
      <4>3. j - 1 \in 1 .. Len(list) - 1 /\ (j - 1) + 1 = j
        BY <2>2, <4>2
      <4>4. list'[j - 1] = x /\ j - 1 \in 1 .. Len(list')
        BY <2>2, <4>1, <4>3
      <4> QED
        BY <4>4 DEF InList
    <3> QED
      BY <3>1, <3>2
  <2>7. KnownOK'
    BY <1>1, <1>2, <1>3 DEF KnownOK, In, Handlers, Known
  <2>8. ListOK'
    <3>1. \A j \in 1 .. Len(list') : sp[list'[j]] # Invalid /\ list'[j] # b
      <4> TAKE j \in 1 .. Len(list')
      <4>1. list'[j] = list[j + 1] /\ j + 1 \in 1 .. Len(list) /\ j + 1 # 1
        BY <2>2
      <4>2. Known(list[j + 1]) /\ list[j + 1] # list[1]
        BY <1>3, <2>2, <4>1 DEF ListOK
      <4> QED
        BY <2>1, <4>1, <4>2 DEF Known
    <3>2. ASSUME NEW i \in 1 .. Len(list'), NEW j \in 1 .. Len(list'), list'[i] = list'[j] PROVE i = j
      <4>1. i + 1 \in 1 .. Len(list) /\ j + 1 \in 1 .. Len(list) /\ list[i + 1] = list[j + 1]
        BY <2>2, <3>2
      <4>2. i + 1 = j + 1
        BY <1>3, <4>1 DEF ListOK
      <4>3. i \in Nat /\ j \in Nat
        OBVIOUS
      <4> QED
        BY <4>2, <4>3
    <3> QED
      BY <1>1, <2>2, <3>1, <3>2 DEF ListOK, Known
  <2>9. FreshOK'
    <3>1. \A x \in Blocks : ~Known(x) \/ InList(x) => \A i \in x .. last[x] : code[i].op \notin Renamed
      BY <1>3 DEF FreshOK
    <3> QED
      BY <1>1, <1>2, <2>2, <2>3, <2>4, <2>6, <3>1 DEF FreshOK, Known
  <2>10. HereOK'
    <3>1. b <= last[b] + 1 /\ ~(b > last[b]) /\ b <= b
      BY <2>5
    <3>2. here' = sp[b] /\ handler' = caught[b] /\ at' = b
      BY <1>1, <2>2
    <3>3. \E e \in Configs : e[1] = b /\ here' = Names(e[2]) /\ handler' = InnerCatch(e[2]) /\ Handlers(e[2])'
      BY <1>1, <2>4, <3>2 DEF In, Handlers, Known
    <3> QED
      BY <1>1, <1>2, <2>2, <2>3, <2>4, <3>1, <3>2, <3>3 DEF HereOK, Known, In
  <2>11. DoneOK'
    <3>1. \A i : ~(i \in b .. b - 1)
      BY <2>5
    <3>2. NamedFrom(cur, at - 1)'
      BY <1>1, <2>2, <3>1 DEF NamedFrom
    <3>3. ~(at' > last'[cur'])
      BY <1>1, <2>2, <2>5
    <3>4. ASSUME NEW x \in Blocks, Known(x), x # b, ~InList(x)' PROVE NamedFrom(x, last[x])' /\ NextKnown(last[x])'
      <4>1. NamedFrom(x, last[x]) /\ NextKnown(last[x])
        BY <1>5, <2>6, <3>4
      <4> QED
        BY <1>1, <1>2, <4>1 DEF NamedFrom, NextKnown, Known
    <3> QED
      BY <1>1, <1>2, <2>2, <3>2, <3>3, <3>4 DEF DoneOK, Known
  <2> QED
    BY <1>6, <2>7, <2>8, <2>9, <2>10, <2>11, <1>7 DEF ContextInv, Unvisited, Pass2OK, ContextsRight
<1>8. CASE list = <<>> /\ phase' = "pass3"
  <2>1. \A x : ~InList(x)
    <3>1. \A j : ~(j \in 1 .. Len(<<>>))
      OBVIOUS
    <3> QED
      BY <1>8, <3>1 DEF InList
  <2>2. \A e \in Configs :
              /\ e[1] \in Blocks => sp[e[1]] = Names(e[2]) /\ caught[e[1]] = InnerCatch(e[2])
              /\ Original[e[1]].op = "return" => code[e[1]].op = Ended(e[2])
    <3>1. phase # "pass1" /\ \A b \in Blocks : Known(b) => NamedFrom(b, last[b]) /\ NextKnown(last[b])
      BY <1>1, <1>5, <2>1
    <3> QED
      BY <1>3, <3>1, AllVisited
  <2>3. ContextsRight'
    BY <1>1, <1>2, <2>2 DEF ContextsRight, Configs
  <2> QED
    BY <1>6, <1>8, <2>3 DEF ContextInv, Unvisited, Pass2OK
<1> QED
  BY <1>1, <1>7, <1>8

(* The other passes leave the contexts alone.                              *)
LEMMA EdgesContext ==
    ASSUME IInv, ContextInv, Thread \/ CountEdge \/ Visited3 \/ BackEdge \/ Visited4
    PROVE  ContextInv'
<1>1. /\ phase \in {"pass3", "pass4"} /\ phase' \in {"pass3", "pass4", "graph"}
      /\ code' = code /\ last' = last /\ sp' = sp /\ caught' = caught
  BY DEF Thread, CountEdge, Visited3, BackEdge, Visited4, NextVisit, graph
<1>2. /\ N' = N /\ Addr' = Addr /\ Original' = Original /\ Blocks' = Blocks
  BY <1>1, SameCode DEF Blocks
<1>3. ContextsRight'
  BY <1>1, <1>2 DEF ContextInv, ContextsRight
<1>4. Balanced(Original)' /\ TablesOK' /\ OpsOK'
  BY <1>1, <1>2 DEF ContextInv, TablesOK, OpsOK
<1> QED
  BY <1>1, <1>3, <1>4 DEF ContextInv, FollowOK, Unvisited, Pass2OK

LEMMA StutterContext ==
    ASSUME ContextInv, UNCHANGED blockVars
    PROVE  ContextInv'
<1>1. /\ code' = code /\ last' = last /\ next' = next /\ to' = to /\ sp' = sp /\ caught' = caught
      /\ phase' = phase /\ list' = list /\ cur' = cur /\ at' = at /\ k' = k /\ here' = here /\ handler' = handler
  BY DEF blockVars, graph, cursor
<1>2. /\ N' = N /\ Addr' = Addr /\ Original' = Original /\ Configs' = Configs /\ Blocks' = Blocks
      /\ Successors' = Successors
  BY <1>1, SameCode DEF Blocks, Successors
<1>3. /\ (\A i : Follow(i)' = Follow(i)) /\ (\A x : InList(x)' <=> InList(x))
      /\ (\A c : Handlers(c)' <=> Handlers(c)) /\ (\A e : Ending(e)' <=> Ending(e))
  BY <1>1, <1>2 DEF Follow, InList, Handlers, Known, Ending
<1>4. Balanced(Original)' /\ TablesOK' /\ OpsOK' /\ FollowOK' /\ Unvisited' /\ ContextsRight'
  BY <1>1, <1>2, <1>3 DEF ContextInv, TablesOK, OpsOK, FollowOK, Unvisited, ContextsRight
<1>5. phase = "pass2" => KnownOK' /\ ListOK' /\ FreshOK' /\ HereOK'
  BY <1>1, <1>2, <1>3 DEF ContextInv, Pass2OK, KnownOK, ListOK, FreshOK, HereOK, Known, In
<1>6. phase = "pass2" => DoneOK'
  BY <1>1, <1>2, <1>3 DEF ContextInv, Pass2OK, DoneOK, Known, NamedFrom, NextKnown
<1> QED
  BY <1>1, <1>4, <1>5, <1>6 DEF ContextInv, Pass2OK

LEMMA StepContext == IInv /\ ContextInv /\ [Next]_blockVars => ContextInv'
  BY StutterContext, SplitTargetContext, SetFollowContext, SkipPlainContext, Pass1DoneContext, ScanContext,
     VisitOnceContext, Visited2Context, EdgesContext
     DEF Next

(* In any function that executes each of its instructions in the same      *)
(* contexts, pass2() finds the contexts and the catch of every block that  *)
(* is executed, and what each RETURN ends (Block::pass2).                  *)
THEOREM ContextsAreRight == Spec => []ContextsRight
<1>1. Init => IInv /\ ContextInv
  BY InitInv, InitContext
<1>2. IInv /\ ContextInv /\ [Next]_blockVars => (IInv /\ ContextInv)'
  BY StepInv, StepContext
<1>3. IInv /\ ContextInv => ContextsRight
  BY DEF ContextInv
<1> QED
  BY <1>1, <1>2, <1>3, PTL DEF Spec

-----------------------------------------------------------------------------
(* Jumps that lead to jumps: where the interpreter gets from i in n steps. *)
Chain(L, i, m) == L = [n \in 0 .. m |-> IF n = 0 THEN i ELSE Through(L[n - 1])]

LEMMA ChainExists == ASSUME NEW i, NEW m \in Nat PROVE \E L : Chain(L, i, m)
<1> DEFINE T == {x \in Nat : ~\E L : Chain(L, i, x)}
<1> SUFFICES ASSUME T # {} PROVE FALSE
  OBVIOUS
<1>1. PICK x \in T : \A y \in T : x <= y
  <2>1. T \in SUBSET Nat
    OBVIOUS
  <2> HIDE DEF T
  <2> QED
    BY <2>1, LeastNumber
<1>2. CASE x = 0
  <2> DEFINE L == [n \in 0 .. 0 |-> i]
  <2>1. Chain(L, i, 0)
    BY DEF Chain
  <2> QED
    BY <1>1, <1>2, <2>1
<1>3. CASE x # 0
  <2>1. x \in Nat /\ x - 1 \in Nat /\ ~(x <= x - 1)
    BY <1>1, <1>3
  <2>2. PICK L : Chain(L, i, x - 1)
    BY <1>1, <2>1
  <2> DEFINE Q == [n \in 0 .. x |-> IF n < x THEN L[n] ELSE Through(L[x - 1])]
  <2>3. \A n \in 0 .. x : Q[n] = IF n = 0 THEN i ELSE Through(Q[n - 1])
    <3> TAKE n \in 0 .. x
    <3>1. CASE n = 0
      BY <2>1, <2>2, <3>1, <1>3 DEF Chain
    <3>2. CASE n # 0 /\ n < x
      <4>1. n \in 0 .. x - 1 /\ n - 1 \in 0 .. x /\ n - 1 < x
        BY <2>1, <3>2
      <4>2. L[n] = Through(L[n - 1])
        BY <2>2, <3>2, <4>1 DEF Chain
      <4> QED
        BY <3>2, <4>1, <4>2
    <3>3. CASE n = x
      <4>1. x - 1 \in 0 .. x /\ x - 1 < x
        BY <2>1
      <4> QED
        BY <1>3, <2>1, <3>3, <4>1
    <3> QED
      BY <2>1, <3>1, <3>2, <3>3
  <2>4. Chain(Q, i, x)
    BY <2>3 DEF Chain
  <2> QED
    BY <1>1, <2>4
<1> QED
  BY <1>2, <1>3

LEMMA LandingChain ==
    ASSUME N \in Nat, NEW i
    PROVE  \E L : Chain(L, i, N) /\ Landing(i) = IF code[L[N]].op = "jump" THEN 0 ELSE L[N]
<1> DEFINE L == CHOOSE L : Chain(L, i, N)
<1>1. Chain(L, i, N)
  BY ChainExists
<1>2. Landing(i) = IF code[L[N]].op = "jump" THEN 0 ELSE L[N]
  BY DEF Landing, Chain
<1> QED
  BY <1>1, <1>2

(* A chain does not leave a set that jumps do not leave.                   *)
LEMMA ChainWithin ==
    ASSUME NEW m \in Nat, NEW i, NEW L, Chain(L, i, m), NEW R, \A x \in R : Through(x) \in R,
           NEW s \in 0 .. m, L[s] \in R
    PROVE  \A n \in s .. m : L[n] \in R
<1> DEFINE T == {n \in s .. m : L[n] \notin R}
<1> SUFFICES ASSUME T # {} PROVE FALSE
  OBVIOUS
<1>1. PICK n \in T : \A y \in T : n <= y
  <2>1. T \in SUBSET Nat
    OBVIOUS
  <2> HIDE DEF T
  <2> QED
    BY <2>1, LeastNumber
<1>2. n # s /\ n \in s .. m /\ n - 1 \in s .. m /\ ~(n <= n - 1) /\ n \in 0 .. m /\ n # 0
  BY <1>1
<1>3. L[n - 1] \in R
  BY <1>1, <1>2
<1>4. L[n] = Through(L[n - 1])
  BY <1>2 DEF Chain
<1> QED
  BY <1>1, <1>3, <1>4

LEMMA JumpTarget ==
    ASSUME CodeOK, OpsOK, NEW i \in Addr, code[i].op = "jump"
    PROVE  Len(code[i].to) = 1 /\ code[i].to[1] \in Addr /\ \A j \in 1 .. Len(code[i].to) : j = 1
<1>1. Len(code[i].to) = 1
  BY DEF OpsOK
<1> QED
  BY <1>1 DEF CodeOK

LEMMA ThroughType == ASSUME CodeOK, OpsOK, NEW i \in Addr PROVE Through(i) \in Addr
  BY JumpTarget DEF Through

LEMMA LandingHere == ASSUME N \in Nat, NEW i, code[i].op # "jump" PROVE Landing(i) = i
<1>1. PICK L : Chain(L, i, N) /\ Landing(i) = IF code[L[N]].op = "jump" THEN 0 ELSE L[N]
  BY LandingChain
<1> DEFINE R == {i}
<1>2. \A x \in R : Through(x) \in R
  BY DEF Through
<1>3. 0 \in 0 .. N /\ N \in 0 .. N /\ L[0] \in R
  BY <1>1 DEF Chain
<1>4. L[N] \in R
  <2> HIDE DEF R
  <2> QED
    BY <1>1, <1>2, <1>3, ChainWithin
<1> QED
  BY <1>1, <1>4

LEMMA LandingWithin ==
    ASSUME N \in Nat, NEW R, \A x \in R : Through(x) \in R, NEW i \in R, Landing(i) # 0
    PROVE  Landing(i) \in R /\ code[Landing(i)].op # "jump"
<1>1. PICK L : Chain(L, i, N) /\ Landing(i) = IF code[L[N]].op = "jump" THEN 0 ELSE L[N]
  BY LandingChain
<1>2. 0 \in 0 .. N /\ N \in 0 .. N /\ L[0] \in R
  BY <1>1 DEF Chain
<1>3. L[N] \in R
  BY <1>1, <1>2, ChainWithin
<1> QED
  BY <1>1, <1>3

(* Where a jump leads to and where its target leads to is the same place:  *)
(* a chain of more jumps than there are instructions never ends.           *)
LEMMA LandingThrough ==
    ASSUME CodeOK, OpsOK, NEW i \in Addr
    PROVE  Landing(Through(i)) = Landing(i)
<1>1. N \in Nat \ {0} /\ Addr = 1 .. N
  BY DEF CodeOK, N, Addr
<1>2. PICK L : Chain(L, i, N) /\ Landing(i) = IF code[L[N]].op = "jump" THEN 0 ELSE L[N]
  BY <1>1, LandingChain
<1>3. PICK M : Chain(M, Through(i), N) /\ Landing(Through(i)) = IF code[M[N]].op = "jump" THEN 0 ELSE M[N]
  BY <1>1, LandingChain
<1>4. \A n \in 0 .. N : L[n] \in Addr
  <2>1. \A x \in Addr : Through(x) \in Addr
    BY ThroughType
  <2>2. 0 \in 0 .. N /\ L[0] \in Addr
    BY <1>1, <1>2 DEF Chain
  <2> QED
    BY <1>1, <1>2, <2>1, <2>2, ChainWithin
<1>5. \A n \in 0 .. N : M[n] = Through(L[n])
  <2> DEFINE T == {n \in 0 .. N : M[n] # Through(L[n])}
  <2> SUFFICES ASSUME T # {} PROVE FALSE
    OBVIOUS
  <2>1. PICK n \in T : \A y \in T : n <= y
    <3>1. T \in SUBSET Nat
      OBVIOUS
    <3> HIDE DEF T
    <3> QED
      BY <3>1, LeastNumber
  <2>2. CASE n = 0
    <3>1. M[0] = Through(i) /\ L[0] = i
      BY <1>1, <1>2, <1>3 DEF Chain
    <3> QED
      BY <2>1, <2>2, <3>1
  <2>3. CASE n # 0
    <3>1. n \in 0 .. N /\ n - 1 \in 0 .. N /\ ~(n <= n - 1)
      BY <1>1, <2>1, <2>3
    <3>2. M[n - 1] = Through(L[n - 1])
      BY <2>1, <3>1
    <3>3. M[n] = Through(M[n - 1]) /\ L[n] = Through(L[n - 1])
      BY <1>2, <1>3, <2>3, <3>1 DEF Chain
    <3> QED
      BY <2>1, <3>2, <3>3
  <2> QED
    BY <2>2, <2>3
<1>6. N \in 0 .. N /\ M[N] = Through(L[N])
  BY <1>1, <1>5
<1>7. CASE code[L[N]].op # "jump"
  <2>1. M[N] = L[N]
    BY <1>6, <1>7 DEF Through
  <2> QED
    BY <1>2, <1>3, <1>7, <2>1
<1>8. CASE code[L[N]].op = "jump"
  <2>1. \A n \in 0 .. N : code[L[n]].op = "jump"
    <3> SUFFICES ASSUME NEW n \in 0 .. N, code[L[n]].op # "jump" PROVE FALSE
      OBVIOUS
    <3> DEFINE R == {L[n]}
    <3>1. \A x \in R : Through(x) \in R
      BY DEF Through
    <3>2. L[n] \in R /\ N \in n .. N
      BY <1>1
    <3>3. L[N] \in R
      <4> HIDE DEF R
      <4> QED
        BY <1>1, <1>2, <3>1, <3>2, ChainWithin
    <3> QED
      BY <1>8, <3>3
  <2>2. \E a, b \in 0 .. N : a # b /\ L[a] = L[b]
    <3>1. IsFiniteSet(0 .. N) /\ Cardinality(0 .. N) = N + 1
      <4>1. 0 \in Int /\ N \in Int /\ ~(0 > N) /\ N - 0 + 1 = N + 1
        BY <1>1
      <4> QED
        BY <4>1, FS_Interval
    <3>2. IsFiniteSet(Addr) /\ Cardinality(Addr) = N
      <4>1. 1 \in Int /\ N \in Int /\ ~(1 > N) /\ N - 1 + 1 = N
        BY <1>1
      <4> QED
        BY <1>1, <4>1, FS_Interval
    <3> DEFINE f == [n \in 0 .. N |-> L[n]]
    <3>3. f \in [0 .. N -> Addr]
      BY <1>4
    <3>4. Cardinality(Addr) < Cardinality(0 .. N)
      BY <1>1, <3>1, <3>2
    <3>5. \E a, b \in 0 .. N : a # b /\ f[a] = f[b]
      <4> DEFINE I == 0 .. N
      <4>1. IsFiniteSet(I) /\ IsFiniteSet(Addr) /\ Cardinality(Addr) < Cardinality(I) /\ f \in [I -> Addr]
        BY <3>1, <3>2, <3>3, <3>4
      <4> HIDE DEF f, I
      <4>2. \E a, b \in I : a # b /\ f[a] = f[b]
        BY <4>1, FS_PigeonHole
      <4> QED
        BY <4>2 DEF I
    <3> QED
      BY <3>5
  <2>3. PICK a \in 0 .. N, b \in 0 .. N : a < b /\ L[a] = L[b]
    <3>1. PICK a \in 0 .. N, b \in 0 .. N : a # b /\ L[a] = L[b]
      BY <2>2
    <3>2. a < b \/ b < a
      BY <3>1
    <3> QED
      BY <3>1, <3>2
  <2> DEFINE R == {L[n] : n \in 0 .. b - 1}
  <2>4. \A x \in R : Through(x) \in R
    <3> SUFFICES ASSUME NEW n \in 0 .. b - 1 PROVE Through(L[n]) \in R
      OBVIOUS
    <3>1. n + 1 \in 0 .. N /\ n + 1 # 0 /\ (n + 1) - 1 = n
      BY <1>1
    <3>2. L[n + 1] = Through(L[n])
      BY <1>2, <3>1 DEF Chain
    <3>3. CASE n + 1 = b
      <4>1. a \in 0 .. b - 1 /\ Through(L[n]) = L[a]
        BY <2>3, <3>2, <3>3
      <4> QED
        BY <4>1
    <3>4. CASE n + 1 # b
      <4>1. n + 1 \in 0 .. b - 1
        BY <3>4
      <4> QED
        BY <3>2, <4>1
    <3> QED
      BY <3>3, <3>4
  <2>5. \A x \in R : code[x].op = "jump"
    BY <2>1, <1>1
  <2>6. L[0] \in R /\ 0 \in 0 .. N /\ N \in 0 .. N
    <3>1. 0 \in 0 .. b - 1
      BY <2>3
    <3> QED
      BY <1>1, <3>1
  <2>7. L[N] \in R
    <3> HIDE DEF R
    <3> QED
      BY <1>1, <1>2, <2>4, <2>6, ChainWithin
  <2>8. code[M[N]].op = "jump"
    <3> HIDE DEF R
    <3> QED
      BY <1>6, <2>4, <2>5, <2>7
  <2> QED
    BY <1>2, <1>3, <1>8, <2>8
<1> QED
  BY <1>7, <1>8

-----------------------------------------------------------------------------
(* A RETURN that ends no catch or rlimits ends its block, once pass 2 has  *)
(* been there.                                                             *)
ReturnsEnd ==
    phase # "pass1" =>
      \A b \in Blocks : Known(b) /\ (phase = "pass2" => ~InList(b)) =>
        \A i \in b .. last[b] :
          code[i].op = "return" /\ (phase = "pass2" /\ b = cur => i < at) => i = last[b]

LEMMA InitReturns == Init => ReturnsEnd
  BY DEF Init, ReturnsEnd

LEMMA FirstReturns ==
    ASSUME IInv, ContextInv, ReturnsEnd, SplitTarget \/ SetFollow \/ SkipPlain \/ Pass1Done
    PROVE  ReturnsEnd'
<1>1. CASE SplitTarget \/ SetFollow \/ SkipPlain
  <2>1. phase' = "pass1"
    BY <1>1 DEF SplitTarget, SetFollow, SkipPlain
  <2> QED
    BY <2>1 DEF ReturnsEnd
<1>2. CASE Pass1Done
  <2>1. phase = "pass1" /\ phase' = "pass2" /\ cur' = 1 /\ at' = 1 /\ sp' = [sp EXCEPT ![1] = <<>>] /\ last' = last /\ code' = code
    BY <1>2 DEF Pass1Done
  <2>2. Blocks' = Blocks /\ DOMAIN sp = Addr /\ Addr' = Addr /\ \A b \in Addr : sp[b] = Invalid
    BY <2>1, SameCode DEF Blocks, ContextInv, TablesOK, Unvisited
  <2>3. \A b \in Blocks : Known(b)' => b = 1
    BY <2>1, <2>2 DEF Known, Blocks
  <2> SUFFICES ASSUME NEW b \in Blocks, Known(b)', NEW i \in b .. last[b], b = 1 => i < 1 PROVE FALSE
    BY <2>1, <2>2 DEF ReturnsEnd
  <2>4. b = 1 /\ last[b] \in Nat
    BY <2>3, BlockIs DEF IInv
  <2> QED
    BY <2>4
<1> QED
  BY <1>1, <1>2

LEMMA ScanReturns ==
    ASSUME IInv, ContextInv, ReturnsEnd, Scan
    PROVE  ReturnsEnd'
<1>1. PICK c : At(c) /\ Onward(c) /\ Labelled(c) /\ Cut
  <2>1. PICK c : At(c)
    BY ScanAt
  <2> QED
    BY <2>1, ScanPlain, ScanFinal, ScanEnding
<1>2. /\ phase = "pass2" /\ phase' = phase /\ at' = at + 1
      /\ sp' = sp /\ list' = list /\ cur' = cur
  BY DEF Scan
<1>3. /\ at \in Addr /\ at \in Nat /\ cur \in Blocks /\ cur <= at /\ at <= last[cur] /\ cur \in Nat /\ last[cur] \in Nat
  BY <1>1, BlockIs DEF IInv, At
<1>4. code'[at].op = "return" => ~(at < last'[cur])
  <2> SUFFICES ASSUME code'[at].op = "return", at < last'[cur] PROVE FALSE
    OBVIOUS
  <2>1. code[at].op = "return"
    BY <1>1 DEF Labelled, Renamed
  <2>2. Original[at].op = "return"
    BY <1>3, <2>1, OriginalIs DEF IInv
  <2>3. Ended(c) = "return"
    BY <1>1, <2>2 DEF Labelled
  <2>4. c = <<>>
    BY <2>3 DEF Ended
  <2>5. Steps(Original, at, c) = {}
    BY <1>3, <2>1, <2>4, StepsAre DEF IInv
  <2>6. \E d \in Steps(Original, at, c) : d[1] = at + 1
    BY <1>1, <2>1 DEF Onward
  <2> QED
    BY <2>5, <2>6
<1>5. \A i \in Addr : code'[i].op = "return" => code[i].op = "return"
  BY <1>1 DEF Labelled, Renamed
<1>6. ASSUME NEW b \in Blocks, Known(b), ~InList(b), last'[b] = last[b], NEW i \in b .. last[b],
             code'[i].op = "return", b = cur => i < at + 1
      PROVE  i = last[b]
  <2>1. i \in Addr /\ i \in Nat /\ b <= i /\ i <= last[b] /\ last[b] \in Nat
    BY InBlock, BlockIs DEF IInv
  <2>2. CASE b = cur /\ i = at
    BY <1>3, <1>4, <1>6, <2>1, <2>2
  <2>3. CASE b # cur \/ i < at
    BY <1>2, <1>5, <1>6, <2>1, <2>3 DEF ReturnsEnd
  <2> QED
    BY <1>3, <1>6, <2>1, <2>2, <2>3
<1>7. CASE last' = last
  <2>1. Blocks' = Blocks
    <3>1. Addr' = Addr
      BY <1>1, <1>3 DEF Labelled, Original
    <3> QED
      BY <1>7, <3>1 DEF Blocks
  <2> QED
    BY <1>2, <1>6, <1>7, <2>1 DEF ReturnsEnd, Known, InList
<1>8. CASE /\ at + 1 \notin Blocks /\ Blocks' = Blocks \cup {at + 1}
           /\ last'[cur] = at /\ \A b \in Blocks \ {cur} : last'[b] = last[b]
  <2>1. ~Known(at + 1)
    <3>1. at + 1 \in Addr => ~Known(at + 1)
      BY <1>2, <1>8 DEF ContextInv, Pass2OK, KnownOK
    <3>2. at + 1 \in Blocks'
      BY <1>8
    <3>3. Addr' = Addr
      BY <1>1, <1>3 DEF Labelled, Original
    <3> QED
      BY <3>1, <3>2, <3>3 DEF Blocks
  <2> SUFFICES ASSUME NEW b \in Blocks', Known(b)', ~InList(b)', NEW i \in b .. last'[b],
                      code'[i].op = "return", b = cur => i < at + 1
               PROVE  i = last'[b]
    BY <1>2 DEF ReturnsEnd
  <2>2. b \in Blocks /\ Known(b) /\ ~InList(b)
    BY <1>2, <1>8, <2>1 DEF Known, InList
  <2>3. CASE b = cur
    <3>1. i \in cur .. last[cur]
      BY <1>3, <1>8, <2>3
    <3>2. i < at => i = last[cur]
      BY <1>2, <1>3, <1>5, <2>2, <2>3, <3>1, InBlock DEF ReturnsEnd, IInv
    <3>3. ~(i < at)
      BY <1>3, <3>2
    <3> QED
      BY <1>3, <1>8, <2>3, <3>1, <3>3
  <2>4. CASE b # cur
    BY <1>6, <1>8, <2>2, <2>4
  <2> QED
    BY <2>3, <2>4
<1> QED
  BY <1>1, <1>7, <1>8 DEF Cut

LEMMA OthersReturns ==
    ASSUME IInv, ContextInv, ReturnsEnd, VisitOnce \/ Visited2 \/ Thread \/ CountEdge \/ Visited3 \/ BackEdge \/ Visited4
    PROVE  ReturnsEnd'
<1>1. code' = code /\ last' = last
  BY DEF VisitOnce, Visited2, Thread, CountEdge, Visited3, BackEdge, Visited4, NextVisit, graph
<1>2. Blocks' = Blocks /\ Addr' = Addr
  BY <1>1, SameCode DEF Blocks
<1>3. CASE VisitOnce
  <2>1. /\ phase = "pass2" /\ phase' = phase /\ cur' = cur /\ at' = at /\ k \in 1 .. Len(Successors)
        /\ \/ sp' = sp /\ list' = list
           \/ /\ sp[Successors[k]] = Invalid /\ list' = ToVisit(Successors[k])
              /\ sp' = [sp EXCEPT ![Successors[k]] = ContextOf(k)]
    <3>1. Len(Successors) \in Nat
      BY <1>3, SuccessorsType DEF VisitOnce
    <3> QED
      BY <1>3, <3>1 DEF VisitOnce, IInv, CursorOK
  <2>2. CASE sp' = sp /\ list' = list
    BY <1>1, <1>2, <2>1, <2>2 DEF ReturnsEnd, Known, InList
  <2>3. CASE /\ sp[Successors[k]] = Invalid /\ list' = ToVisit(Successors[k])
             /\ sp' = [sp EXCEPT ![Successors[k]] = ContextOf(k)]
    <3>0. PICK s : s = Successors[k]
      OBVIOUS
    <3>1. s # 1 /\ ~InList(s) /\ ~Known(s)
      BY <2>1, <2>3, <3>0 DEF ContextInv, Pass2OK, KnownOK, ListOK, Known, InList
    <3>2. list' = <<s>> \o list /\ list \in Seq(Addr) /\ s \in Addr
      <4>1. list' = <<s>> \o list
        BY <2>3, <3>0, <3>1 DEF ToVisit, Listed, InList
      <4> QED
        BY <2>1, <3>0, <4>1, SuccessorsType DEF IInv, CursorOK
    <3>3. InList(s)' /\ \A b : InList(b) => InList(b)'
      <4>1. Len(list') = Len(list) + 1 /\ Len(list) \in Nat /\ list'[1] = s
            /\ \A j \in 1 .. Len(list) : list'[j + 1] = list[j]
        BY <3>2
      <4>2. 1 \in 1 .. Len(list') /\ \A j \in 1 .. Len(list) : j + 1 \in 1 .. Len(list')
        BY <4>1
      <4>3. ASSUME NEW b, InList(b) PROVE InList(b)'
        <5>1. PICK j \in 1 .. Len(list) : list[j] = b
          BY <4>3 DEF InList
        <5>2. list'[j + 1] = b /\ j + 1 \in 1 .. Len(list')
          BY <4>1, <4>2, <5>1
        <5> QED
          BY <5>2 DEF InList
      <4>4. InList(s)'
        BY <4>1, <4>2 DEF InList
      <4> QED
        BY <4>3, <4>4
    <3>4. \A b \in Blocks : Known(b)' /\ ~InList(b)' => Known(b) /\ ~InList(b)
      <4>1. \A b : b # s => sp'[b] = sp[b]
        BY <2>3, <3>0
      <4> SUFFICES ASSUME NEW b \in Blocks, Known(b)', ~InList(b)' PROVE Known(b) /\ ~InList(b)
        OBVIOUS
      <4>2. b # s
        BY <3>3 DEF InList
      <4> QED
        BY <3>3, <4>1, <4>2 DEF Known
    <3> QED
      BY <1>1, <1>2, <2>1, <3>4 DEF ReturnsEnd
  <2> QED
    BY <2>1, <2>2, <2>3
<1>4. CASE Visited2
  <2>1. /\ phase = "pass2" /\ at > last[cur] /\ at' = cur' /\ sp' = sp /\ cur \in Blocks
        /\ \/ list # <<>> /\ cur' = Head(list) /\ list' = Tail(list) /\ phase' = "pass2"
           \/ list = <<>> /\ phase' = "pass3"
    BY <1>4 DEF Visited2, NextVisit, ContextInv, Pass2OK, HereOK
  <2>2. \A b \in Blocks : Known(b) /\ ~InList(b) => \A i \in b .. last[b] : code[i].op = "return" => i = last[b]
    <3> TAKE b \in Blocks
    <3> HAVE Known(b) /\ ~InList(b)
    <3> TAKE i \in b .. last[b]
    <3> HAVE code[i].op = "return"
    <3>1. b = cur => i < at
      <4>1. at \in Nat /\ last[cur] \in Nat /\ i \in Nat /\ i <= last[b]
        BY <2>1, BlockIs, InBlock DEF IInv, CursorOK
      <4> QED
        BY <2>1, <4>1
    <3> QED
      BY <2>1, <3>1 DEF ReturnsEnd
  <2>3. CASE list # <<>> /\ cur' = Head(list) /\ list' = Tail(list) /\ phase' = "pass2"
    <3>1. list \in Seq(Addr) /\ Len(list) \in Nat /\ Len(list) # 0
      BY <2>1, <2>3, EmptySeq DEF IInv, CursorOK
    <3>2. \A x : InList(x) /\ x # cur' => InList(x)'
      <4> TAKE x
      <4> HAVE InList(x) /\ x # cur'
      <4>1. PICK j \in 1 .. Len(list) : list[j] = x
        BY DEF InList
      <4>2. j # 1
        BY <2>3, <3>1, <4>1
      <4> DEFINE m == j - 1
      <4>3. m \in 1 .. Len(list) - 1 /\ m + 1 = j
        BY <3>1, <4>1, <4>2
      <4> HIDE DEF m
      <4>4. list'[m] = x /\ m \in 1 .. Len(list')
        BY <2>3, <3>1, <4>1, <4>3, HeadTailProperties
      <4> QED
        BY <4>4 DEF InList
    <3>3. \A i \in cur' .. last'[cur'] : ~(i < at')
      <4>1. cur' \in Addr /\ Addr \subseteq Nat
        <5>1. cur' \in Addr
          BY <2>3, <3>1, HeadTailProperties
        <5> QED
          BY <5>1 DEF Addr
      <4> QED
        BY <2>1, <4>1
    <3> QED
      BY <1>1, <1>2, <2>1, <2>2, <2>3, <3>2, <3>3 DEF ReturnsEnd, Known
  <2>4. CASE list = <<>> /\ phase' = "pass3"
    <3>1. \A x : ~InList(x)
      <4>1. \A j : ~(j \in 1 .. Len(<<>>))
        OBVIOUS
      <4> QED
        BY <2>4, <4>1 DEF InList
    <3> QED
      BY <1>1, <1>2, <2>1, <2>2, <2>4, <3>1 DEF ReturnsEnd, Known
  <2> QED
    BY <2>1, <2>3, <2>4
<1>5. CASE Thread \/ CountEdge \/ Visited3 \/ BackEdge \/ Visited4
  <2>1. phase \in {"pass3", "pass4"} /\ phase' \in {"pass3", "pass4", "graph"} /\ sp' = sp
    BY <1>5 DEF Thread, CountEdge, Visited3, BackEdge, Visited4, NextVisit, graph
  <2> QED
    BY <1>1, <1>2, <2>1 DEF ReturnsEnd, Known
<1> QED
  BY <1>3, <1>4, <1>5

LEMMA StepReturns == IInv /\ ContextInv /\ ReturnsEnd /\ [Next]_blockVars => ReturnsEnd'
<1> SUFFICES ASSUME IInv, ContextInv, ReturnsEnd, [Next]_blockVars PROVE ReturnsEnd'
  OBVIOUS
<1>1. CASE UNCHANGED blockVars
  BY <1>1 DEF blockVars, graph, cursor, ReturnsEnd, Known, InList, Blocks, Addr, N
<1> QED
  BY <1>1, FirstReturns, ScanReturns, OthersReturns DEF Next

(* What is executed at the start of a block is executed at its end.        *)
LEMMA ExecutedThrough ==
    ASSUME IInv, ContextInv, ReturnsEnd, phase \in {"pass3", "pass4", "graph"},
           NEW b \in Blocks, NEW e \in Configs, e[1] = b
    PROVE  \A i \in b .. last[b] : \E d \in Configs : d[1] = i
<1>1. CodeOK /\ OpsOK /\ Balanced(Original) /\ ContextsRight /\ phase # "pass1" /\ phase # "pass2"
  BY DEF IInv, ContextInv
<1>2. Known(b)
  <2>1. e[2] \in Seq(Nat) /\ sp[b] = Names(e[2])
    BY <1>1, ConfigsAre DEF ContextsRight, Configs
  <2> QED
    BY <2>1, NamesValid DEF Known
<1> DEFINE T == {i \in b .. last[b] : ~\E d \in Configs : d[1] = i}
<1> SUFFICES ASSUME T # {} PROVE FALSE
  OBVIOUS
<1>3. b \in Nat /\ last[b] \in Nat
  BY BlockIs DEF IInv
<1>4. PICK i \in T : \A y \in T : i <= y
  <2>1. T \in SUBSET Nat
    BY <1>3
  <2> HIDE DEF T
  <2> QED
    BY <2>1, LeastNumber
<1> DEFINE h == i - 1
<1>5. h \in b .. last[b] /\ h \in Nat /\ b <= h /\ h < last[b] /\ ~(i <= h) /\ i = h + 1
  <2>1. i # b /\ i \in b .. last[b]
    BY <1>4
  <2> QED
    BY <1>3, <2>1
<1>6. PICK d \in Configs : d[1] = h
  BY <1>4, <1>5
<1> HIDE DEF h
<1>7. h \in Addr /\ code[h].to = <<>>
  BY <1>1, <1>5, InsideBlock
<1>8. code[h].op \notin {"jump", "branch", "switch", "catch", "caught"}
  BY <1>1, <1>7, HasTargets
<1>9. code[h].op # "return"
  BY <1>1, <1>2, <1>3, <1>5 DEF ReturnsEnd
<1>10. code[h].op \in Renamed => d[2] # <<>>
  <2>1. Original[h].op = "return" => code[h].op = Ended(d[2])
    BY <1>1, <1>6 DEF ContextsRight, Configs
  <2>2. code[h].op \in Renamed => Original[h].op = "return"
    BY <1>1, <1>7, OriginalIs
  <2> QED
    BY <2>1, <2>2 DEF Renamed, Ended
<1>11. \E x \in Steps(Original, h, d[2]) : x[1] = h + 1
  <2> DEFINE c == d[2]
  <2> HIDE DEF c
  <2>1. CASE code[h].op \in Renamed
    <3>1. Steps(Original, h, c) = {<<h + 1, Pop(c)>>}
      BY <1>1, <1>7, <1>10, <2>1, StepsAre DEF c
    <3> QED
      BY <3>1 DEF c
  <2>2. CASE code[h].op = "rlimits"
    <3>1. Steps(Original, h, c) = {<<h + 1, Append(c, 0)>>}
      BY <1>1, <1>7, <2>2, StepsAre
    <3> QED
      BY <3>1 DEF c
  <2>3. CASE code[h].op \notin {"rlimits"} \cup Renamed
    <3>1. Steps(Original, h, c) = {<<h + 1, c>>}
      BY <1>1, <1>7, <1>8, <1>9, <2>3, StepsAre
    <3> QED
      BY <3>1 DEF c
  <2> QED
    BY <2>1, <2>2, <2>3
<1>12. Steps(Original, h, d[2]) \subseteq Configs
  BY <1>1, <1>6, ConfigsAre
<1> QED
  BY <1>4, <1>5, <1>11, <1>12

-----------------------------------------------------------------------------
(* The edges of a block, once they are threaded: blocks that are executed, *)
(* through which the interpreter gets where it does without them.          *)
EdgeOK(b) ==
    /\ \A j \in 1 .. Len(to[b]) : to[b][j] \in Blocks /\ \E e \in Configs : e[1] = to[b][j]
    /\ \A e \in Configs : e[1] = last[b] =>
         {Landing(to[b][j]) : j \in 1 .. Len(to[b])} = {Landing(d[1]) : d \in Steps(Original, e[1], e[2])}
    /\ code[last[b]].op = "jump" => to[b] = code[last[b]].to

Met(b) == nFrom[b] > 0
Waiting(b) == ~Met(b) \/ InList(b) \/ (b = cur /\ k = 0)

(* A block that an edge leads to is executed; it is visited once, when its *)
(* edges are threaded, and the blocks they lead to are met.                *)
Pass3OK ==
    phase = "pass3" =>
      /\ to \in [Addr -> Seq(Addr)] /\ nFrom \in [Addr -> Nat] /\ list \in Seq(Addr) /\ k \in Nat
      /\ Met(1) /\ cur \in Addr /\ Met(cur) /\ ~InList(cur)
      /\ \A b \in Addr : Met(b) => b \in Blocks /\ \E e \in Configs : e[1] = b
      /\ \A b \in Addr : InList(b) => Met(b)
      /\ \A i, j \in 1 .. Len(list) : list[i] = list[j] => i = j
      /\ \A b \in Blocks : Waiting(b) => to[b] = Follow(last[b])
      /\ \A b \in Blocks : ~Waiting(b) =>
           EdgeOK(b) /\ \A j \in 1 .. Len(to[b]) : (b = cur => j < k) => Met(to[b][j])

Reached == {b \in Blocks : b = 1 \/ nFrom[b] > 0}
GraphOK ==
    phase \in {"pass4", "graph"} =>
      \A b \in Reached : EdgeOK(b) /\ \A j \in 1 .. Len(to[b]) : to[b][j] \in Reached

Uncounted == phase \in {"pass1", "pass2"} => nFrom = [b \in Addr |-> 0]

EdgeInv == ReturnsEnd /\ Uncounted /\ Pass3OK /\ GraphOK
Ready == IInv /\ ContextInv /\ EdgeInv

LEMMA SameLanding == ASSUME code' = code PROVE \A i : Landing(i)' = Landing(i) /\ Through(i)' = Through(i)
  BY DEF Landing, Through, N

LEMMA SameEdges ==
    ASSUME code' = code, last' = last, NEW b, to'[b] = to[b], EdgeOK(b)
    PROVE  EdgeOK(b)'
<1>1. Blocks' = Blocks /\ Configs' = Configs /\ Original' = Original
  BY SameCode DEF Blocks
<1>2. \A i : Landing(i)' = Landing(i)
  BY SameLanding
<1>3. last'[b] = last[b] /\ code'[last'[b]] = code[last[b]]
  OBVIOUS
<1>4. \A j \in 1 .. Len(to'[b]) : to'[b][j] \in Blocks' /\ \E e \in Configs' : e[1] = to'[b][j]
  BY <1>1 DEF EdgeOK
<1>5. ASSUME NEW e \in Configs', e[1] = last'[b]
      PROVE  {Landing(to[b][j])' : j \in 1 .. Len(to'[b])} = {Landing(d[1])' : d \in Steps(Original', e[1], e[2])}
  <2>1. e \in Configs /\ e[1] = last[b] /\ Original' = Original
    BY <1>1, <1>3, <1>5
  <2>2. {Landing(to[b][j]) : j \in 1 .. Len(to[b])} = {Landing(d[1]) : d \in Steps(Original, e[1], e[2])}
    BY <2>1 DEF EdgeOK
  <2>3. {Landing(to[b][j])' : j \in 1 .. Len(to'[b])} = {Landing(to[b][j]) : j \in 1 .. Len(to[b])}
    BY <1>2
  <2>4. {Landing(d[1])' : d \in Steps(Original', e[1], e[2])} = {Landing(d[1]) : d \in Steps(Original, e[1], e[2])}
    BY <1>2, <2>1
  <2> QED
    BY <2>2, <2>3, <2>4
<1>6. code'[last'[b]].op = "jump" => to'[b] = code'[last'[b]].to
  BY <1>3 DEF EdgeOK
<1> QED
  BY <1>4, <1>5, <1>6 DEF EdgeOK

LEMMA OneTarget == ASSUME NEW t, Len(t) = 1 PROVE t # <<>> /\ 1 \in 1 .. Len(t)
<1>1. Len(<<>>) = 0 /\ 1 \in 1 .. 1
  OBVIOUS
<1> QED
  BY <1>1

(* The next instruction, or what a jump there leads to, starts a block and *)
(* is executed if the next instruction is.                                 *)
LEMMA PastJump ==
    ASSUME IInv, OpsOK, Balanced(Original), phase # "pass1", NEW i \in Blocks, NEW e \in Configs, e[1] = i
    PROVE  /\ Through(i) \in Blocks /\ Landing(Through(i)) = Landing(i)
           /\ \E d \in Configs : d[1] = Through(i)
<1>1. CodeOK /\ Straight /\ i \in Addr
  BY DEF IInv, Blocks
<1>2. Landing(Through(i)) = Landing(i)
  BY <1>1, LandingThrough
<1>3. CASE code[i].op = "jump"
  <2>1. /\ Len(code[i].to) = 1 /\ 1 \in 1 .. Len(code[i].to) /\ Through(i) = code[i].to[1] /\ code[i].to # <<>>
    <3>1. Len(code[i].to) = 1
      BY <1>1, <1>3, JumpTarget
    <3>2. code[i].to # <<>> /\ 1 \in 1 .. Len(code[i].to)
      BY <3>1, OneTarget
    <3>3. Through(i) = code[i].to[1]
      BY <1>3 DEF Through
    <3> QED
      BY <3>1, <3>2, <3>3
  <2>2. Through(i) \in Blocks
    BY <1>1, <2>1 DEF Straight
  <2> DEFINE c == e[2]
             d == <<code[i].to[1], c>>
  <2> HIDE DEF c
  <2>3. d \in Steps(Original, i, c)
    <3>1. Steps(Original, i, c) = {<<code[i].to[j], c>> : j \in 1 .. Len(code[i].to)}
      BY <1>1, <1>3, StepsAre
    <3> QED
      BY <2>1, <3>1
  <2>4. Steps(Original, i, c) \subseteq Configs
    BY <1>1, ConfigsAre DEF c
  <2>5. d[1] = Through(i)
    BY <2>1
  <2> QED
    BY <1>2, <2>2, <2>3, <2>4, <2>5
<1>4. CASE code[i].op # "jump"
  BY <1>2, <1>4 DEF Through
<1> QED
  BY <1>3, <1>4

(* A block is found where it starts.                                       *)
LEMMA FindStart == ASSUME IInv, NEW b \in Blocks PROVE Find(b) = b
<1>1. b \in Addr /\ b \in Nat /\ b <= last[b] /\ b <= b
  BY BlockIs DEF IInv
<1>2. Find(b) \in Blocks /\ Find(b) <= b /\ b <= last[Find(b)]
  BY <1>1, Found DEF IInv
<1> QED
  BY <1>1, <1>2, OneBlock DEF IInv

(* Enough of a block's edges to say where each leads.                      *)
Leads(new, steps) ==
    /\ new \in Seq(Addr)
    /\ \A j \in 1 .. Len(new) :
         new[j] \in Blocks /\ \E d \in steps : new[j] = d[1] \/ new[j] = Through(d[1])
    /\ \A d \in steps : \E j \in 1 .. Len(new) : new[j] = d[1] \/ new[j] = Through(d[1])
    /\ \A d \in steps : d[1] \in Blocks

LEMMA EdgesLead ==
    ASSUME IInv, ContextInv, phase # "pass1", code' = code, last' = last, NEW b \in Blocks,
           NEW e \in Configs, e[1] = last[b], NEW new, to'[b] = new,
           NEW steps, steps = Steps(Original, e[1], e[2]), Leads(new, steps),
           code[last[b]].op = "jump" => new = code[last[b]].to
    PROVE  EdgeOK(b)'
<1>1. CodeOK /\ OpsOK /\ Balanced(Original) /\ Blocks \subseteq Addr
  BY DEF IInv, ContextInv, Blocks
<1>2. steps \subseteq Configs /\ (\A d \in steps : d[1] \in Addr) /\ \A f \in Configs : f[1] = e[1] => f[2] = e[2]
  BY <1>1, ConfigsAre
<1>3. Blocks' = Blocks /\ Configs' = Configs /\ Original' = Original /\ last'[b] = last[b]
      /\ code'[last'[b]] = code[last[b]]
  BY SameCode DEF Blocks
<1>4. \A i : Landing(i)' = Landing(i)
  BY SameLanding
<1>5. \A d \in steps : \A x : x = d[1] \/ x = Through(d[1]) =>
        Landing(x) = Landing(d[1]) /\ \E f \in Configs : f[1] = x
  <2> TAKE d \in steps
  <2> TAKE x
  <2>1. d \in Configs /\ d[1] \in Blocks
    BY <1>2 DEF Leads
  <2>2. Landing(Through(d[1])) = Landing(d[1]) /\ \E f \in Configs : f[1] = Through(d[1])
    BY <1>1, <2>1, PastJump
  <2> QED
    BY <2>1, <2>2
<1>6. \A j \in 1 .. Len(new) : new[j] \in Blocks /\ \E f \in Configs : f[1] = new[j]
  <2> TAKE j \in 1 .. Len(new)
  <2>1. PICK d \in steps : new[j] = d[1] \/ new[j] = Through(d[1])
    BY DEF Leads
  <2>2. \E f \in Configs : f[1] = new[j]
    BY <1>5, <2>1
  <2> QED
    BY <2>2 DEF Leads
<1>7. {Landing(new[j]) : j \in 1 .. Len(new)} = {Landing(d[1]) : d \in steps}
  <2>1. \A j \in 1 .. Len(new) : \E d \in steps : Landing(new[j]) = Landing(d[1])
    BY <1>5 DEF Leads
  <2>2. \A d \in steps : \E j \in 1 .. Len(new) : Landing(new[j]) = Landing(d[1])
    BY <1>5 DEF Leads
  <2> QED
    BY <2>1, <2>2
<1>8. \A j \in 1 .. Len(to'[b]) : to'[b][j] \in Blocks' /\ \E f \in Configs' : f[1] = to'[b][j]
  BY <1>3, <1>6
<1>9. ASSUME NEW f \in Configs', f[1] = last'[b]
      PROVE  {Landing(to[b][j])' : j \in 1 .. Len(to'[b])} = {Landing(d[1])' : d \in Steps(Original', f[1], f[2])}
  <2>1. f \in Configs /\ f[1] = e[1] /\ f[2] = e[2] /\ Original' = Original
    BY <1>2, <1>3, <1>9
  <2>2. Steps(Original', f[1], f[2]) = steps
    BY <2>1
  <2>3. {Landing(to[b][j])' : j \in 1 .. Len(to'[b])} = {Landing(new[j]) : j \in 1 .. Len(new)}
    BY <1>4
  <2>4. {Landing(d[1])' : d \in Steps(Original', f[1], f[2])} = {Landing(d[1]) : d \in steps}
    BY <1>4, <2>2
  <2> QED
    BY <1>7, <2>3, <2>4
<1>10. code'[last'[b]].op = "jump" => to'[b] = code'[last'[b]].to
  BY <1>3
<1> QED
  BY <1>8, <1>9, <1>10 DEF EdgeOK

LEMMA One == \A j \in 1 .. 1 : j = 1 /\ 1 \in 1 .. 1
  OBVIOUS

LEMMA Two == (\A j \in 1 .. 2 : j = 1 \/ j = 2) /\ 1 \in 1 .. 2 /\ 2 \in 1 .. 2
  OBVIOUS

(* The two ways of a branch.                                               *)
LEMMA BranchSteps ==
    ASSUME CodeOK, NEW i \in Addr, NEW c, code[i].op = "branch"
    PROVE  Steps(Original, i, c) = {<<i + 1, c>>, <<code[i].to[1], c>>}
<1>1. code[i].op = "branch" => Steps(Original, i, c) = {<<i + 1, c>>, <<code[i].to[1], c>>}
  BY StepsAre
<1> QED
  BY <1>1

(* What Thread does.                                                       *)
LEMMA ThreadEdges ==
    ASSUME Ready, Thread
    PROVE  /\ to' = [to EXCEPT ![cur] = Threaded(cur)] /\ Threaded(cur) \in Seq(Addr)
           /\ EdgeOK(cur)'
<1>1. /\ phase = "pass3" /\ k = 0 /\ to' = [to EXCEPT ![cur] = Threaded(cur)] /\ code' = code /\ last' = last
      /\ to \in [Addr -> Seq(Addr)] /\ cur \in Addr /\ cur \in Blocks /\ to[cur] = Follow(last[cur])
      /\ CodeOK /\ OpsOK /\ Balanced(Original) /\ ContextsRight /\ Straight
  BY DEF Thread, Ready, EdgeInv, Pass3OK, Waiting, IInv, ContextInv
<1> DEFINE i == last[cur]
<1>2. i \in Addr /\ i \in Nat /\ cur \in Nat /\ cur <= i /\ N \in Nat /\ Addr = 1 .. N
      /\ (i < N => i + 1 \in Blocks)
  <2>1. i \in Addr /\ cur \in Nat /\ cur <= i /\ N \in Nat /\ Addr = 1 .. N
    BY <1>1, BlockIs, OriginalIs DEF Ready, IInv
  <2>2. next[cur] = (IF i = N THEN 0 ELSE i + 1) /\ (next[cur] # 0 => next[cur] \in Blocks)
    BY <1>1, BlockIs DEF Ready, IInv
  <2> QED
    BY <2>1, <2>2
<1>3. PICK e \in Configs : e[1] = i
  <2>1. \E e \in Configs : e[1] = cur
    BY <1>1 DEF Ready, EdgeInv, Pass3OK
  <2>2. i \in cur .. last[cur]
    BY <1>2
  <2> QED
    BY <1>1, <2>1, <2>2, ExecutedThrough DEF Ready, EdgeInv
<1> DEFINE c == e[2]
           steps == Steps(Original, i, c)
           new == Threaded(cur)
<1>4. c \in Seq(Nat) /\ steps \subseteq Configs /\ \A f \in Configs : f[1] = i => f[2] = c
  BY <1>1, <1>3, ConfigsAre
<1>5. \A d \in steps : d \in Configs /\ d[1] \in Addr
  BY <1>1, <1>4, ConfigsAre
<1> HIDE DEF c, i
<1>6. to'[cur] = new
  BY <1>1
<1>7. \A d \in steps : d[1] \in Blocks => Through(d[1]) \in Blocks
  BY <1>1, <1>5, PastJump DEF Ready
<1>8. Blocks \subseteq Addr
  BY DEF Blocks
<1> HIDE DEF new, steps
<1>9. ASSUME Leads(new, steps), new \in Seq(Addr), code[i].op = "jump" => new = code[i].to
       PROVE  EdgeOK(cur)'
  <2>1. PICK nw : nw = new
    OBVIOUS
  <2>2. PICK b : b = cur
    OBVIOUS
  <2>3. steps = Steps(Original, e[1], e[2]) /\ to'[b] = nw /\ e[1] = last[b]
    BY <1>3, <1>6, <2>1, <2>2 DEF steps, c, i
  <2>4. EdgeOK(b)'
    BY <1>1, <1>9, <2>1, <2>2, <2>3, EdgesLead DEF Ready, i
  <2>5. cur' = cur
    BY DEF Thread
  <2> QED
    BY <2>2, <2>4, <2>5
<1>10. CASE code[i].op = "branch"
  <2> DEFINE t == code[i].to[1]
             d == <<i + 1, c>>
             f == <<t, c>>
  <2>1. i < N /\ 1 \in 1 .. Len(code[i].to) /\ code[i].to # <<>>
    <3>1. i < N /\ Len(code[i].to) = 1
      BY <1>1, <1>2, <1>10 DEF OpsOK
    <3>2. code[i].to # <<>> /\ 1 \in 1 .. Len(code[i].to)
      BY <3>1, OneTarget
    <3> QED
      BY <3>1, <3>2
  <2>2. steps = {d, f} /\ d[1] = i + 1 /\ f[1] = t
    <3>1. Steps(Original, i, c) = {<<i + 1, c>>, <<code[i].to[1], c>>}
      BY <1>1, <1>2, <1>10, BranchSteps
    <3>2. steps = {d, f}
      BY <3>1 DEF steps
    <3> QED
      BY <3>2
  <2>3. d[1] \in Blocks /\ f[1] \in Blocks
    BY <1>1, <1>2, <2>1, <2>2 DEF Straight
  <2>4. new = <<Through(i + 1), t>>
    <3>1. code[i].to \in Seq(Addr)
      BY <1>1, <1>2, TargetsInCode
    <3>2. Follow(i) = <<i + 1>> \o code[i].to
      BY <1>10 DEF Follow
    <3>3. Follow(i)[2] = t
      BY <1>2, <2>1, <3>1, <3>2
    <3> QED
      BY <1>1, <1>10, <3>3 DEF Threaded, i, new
  <2> HIDE DEF d, f, t
  <2>5. Len(new) = 2 /\ new[1] = Through(d[1]) /\ new[2] = f[1]
    BY <2>2, <2>4
  <2>6. new[1] \in Blocks /\ new[2] \in Blocks
    BY <1>7, <2>2, <2>3, <2>5
  <2>7. new \in Seq(Addr)
    BY <1>8, <2>4, <2>5, <2>6
  <2>8. Leads(new, steps)
    BY <2>2, <2>3, <2>5, <2>6, <2>7, Two DEF Leads
  <2> QED
    BY <1>1, <1>3, <1>10, <1>9, <2>7, <2>8 DEF new
<1>11. CASE code[i].op = "catch"
  <2> DEFINE d == <<i + 1, c>>
             f == <<i + 2, Append(c, i + 1)>>
  <2>1. code[i].to = <<i + 2>> /\ i + 2 <= N
    BY <1>1, <1>2, <1>11 DEF OpsOK
  <2>2. steps = {d, f} /\ d[1] = i + 1 /\ f[1] = i + 2
    BY <1>1, <1>2, <1>11, StepsAre DEF steps
  <2>3. d[1] \in Blocks /\ f[1] \in Blocks
    <3>1. i + 1 \in Blocks
      BY <1>2, <2>1
    <3>2. code[i].to # <<>> /\ 1 \in 1 .. Len(code[i].to) /\ code[i].to[1] = i + 2
      BY <2>1
    <3>3. i + 2 \in Blocks
      BY <1>1, <1>2, <3>2 DEF Straight
    <3> QED
      BY <2>2, <3>1, <3>3
  <2>4. new = <<i + 1, Through(i + 2)>>
    <3>1. Follow(i) = <<i + 1>> \o <<i + 2>>
      BY <1>11, <2>1 DEF Follow
    <3>2. Follow(i)[1] = i + 1 /\ Follow(i)[2] = i + 2
      BY <3>1
    <3> QED
      BY <1>1, <1>11, <3>2 DEF Threaded, i, new
  <2> HIDE DEF d, f
  <2>5. Len(new) = 2 /\ new[1] = d[1] /\ new[2] = Through(f[1])
    BY <2>2, <2>4
  <2>6. new[1] \in Blocks /\ new[2] \in Blocks
    BY <1>7, <2>2, <2>3, <2>5
  <2>7. new \in Seq(Addr)
    BY <1>8, <2>4, <2>5, <2>6
  <2>8. Leads(new, steps)
    BY <2>2, <2>3, <2>5, <2>6, <2>7, Two DEF Leads
  <2> QED
    BY <1>1, <1>3, <1>11, <1>9, <2>7, <2>8 DEF new
<1>12. CASE code[i].op \in {"jump", "caught", "switch"}
  <2>1. new = code[i].to
    BY <1>1, <1>12 DEF Threaded, Follow, i, new
  <2>2. steps = {<<code[i].to[j], c>> : j \in 1 .. Len(code[i].to)}
    BY <1>1, <1>2, <1>12, StepsAre DEF steps
  <2>3. new \in Seq(Addr) /\ \A j \in 1 .. Len(new) : new[j] \in Blocks
    <3>1. \A j \in 1 .. Len(code[i].to) : code[i].to[j] \in Blocks
      BY <1>1, <1>2, <1>12, HasTargets DEF Straight
    <3> QED
      BY <1>1, <1>2, <2>1, <3>1, TargetsInCode
  <2>4. \A j \in 1 .. Len(new) : \E d \in steps : d[1] = new[j]
    <3> TAKE j \in 1 .. Len(new)
    <3> DEFINE d == <<code[i].to[j], c>>
    <3>1. d \in steps /\ d[1] = new[j]
      BY <2>1, <2>2
    <3> QED
      BY <3>1
  <2>5. \A d \in steps : \E j \in 1 .. Len(new) : d[1] = new[j]
    <3> TAKE d \in steps
    <3>1. PICK j \in 1 .. Len(code[i].to) : d = <<code[i].to[j], c>>
      BY <2>2
    <3>2. j \in 1 .. Len(new) /\ d[1] = new[j]
      BY <2>1, <3>1
    <3> QED
      BY <3>2
  <2>6. Leads(new, steps)
    <3>1. \A d \in steps : d[1] \in Blocks
      BY <2>3, <2>5
    <3> QED
      BY <2>3, <2>4, <2>5, <3>1 DEF Leads
  <2> QED
    BY <1>1, <1>3, <1>12, <1>9, <2>1, <2>3, <2>6 DEF new
<1>13. CASE code[i].op = "return"
  <2>1. c = <<>>
    <3>1. Original[i].op = "return" => code[i].op = Ended(c)
      BY <1>1, <1>3 DEF ContextsRight, Configs, c
    <3>2. Original[i].op = "return"
      BY <1>1, <1>2, <1>13, OriginalIs
    <3> QED
      BY <1>13, <3>1, <3>2 DEF Ended
  <2>2. steps = {}
    BY <1>1, <1>2, <1>13, <2>1, StepsAre DEF steps
  <2>3. new = <<>>
    <3>1. code[i].to = <<>>
      BY <1>1, <1>2, <1>13, HasTargets
    <3> QED
      BY <1>1, <1>13, <3>1 DEF Threaded, Follow, i, new
  <2>4. new \in Seq(Addr) /\ \A j : ~(j \in 1 .. Len(new))
    BY <2>3
  <2>5. Leads(new, steps)
    BY <2>2, <2>4 DEF Leads
  <2> QED
    BY <1>1, <1>3, <1>13, <1>9, <2>4, <2>5 DEF new
<1>14. CASE code[i].op \notin {"branch", "catch", "jump", "caught", "switch", "return"}
  <2>1. \E d \in steps : steps = {d} /\ d[1] = i + 1
    <3>1. CASE code[i].op \in Renamed
      <4>1. c # <<>>
        <5>1. Original[i].op = "return" => code[i].op = Ended(c)
          BY <1>1, <1>3 DEF ContextsRight, Configs, c
        <5>2. Original[i].op = "return"
          BY <1>1, <1>2, <3>1, OriginalIs
        <5> QED
          BY <3>1, <5>1, <5>2 DEF Ended, Renamed
      <4>2. steps = {<<i + 1, Pop(c)>>}
        BY <1>1, <1>2, <3>1, <4>1, StepsAre DEF steps
      <4> QED
        BY <4>2
    <3>2. CASE code[i].op = "rlimits"
      <4>1. steps = {<<i + 1, Append(c, 0)>>}
        BY <1>1, <1>2, <3>2, StepsAre DEF steps
      <4> QED
        BY <4>1
    <3>3. CASE code[i].op \notin {"rlimits"} \cup Renamed
      <4>1. steps = {<<i + 1, c>>}
        BY <1>1, <1>2, <1>14, <3>3, StepsAre DEF steps
      <4> QED
        BY <4>1
    <3> QED
      BY <3>1, <3>2, <3>3
  <2>2. PICK d \in steps : steps = {d} /\ d[1] = i + 1
    BY <2>1
  <2>3. i + 1 \in Blocks
    <3>1. i + 1 \in 1 .. N
      BY <1>2, <1>5, <2>2
    <3>2. i < N
      BY <1>2, <3>1
    <3> QED
      BY <1>2, <3>2
  <2>4. Through(i + 1) \in Blocks
    BY <1>7, <2>2, <2>3
  <2>5. new = <<Find(Through(i + 1))>>
    BY <1>1, <1>14 DEF Threaded, i, new
  <2>6. new = <<Through(i + 1)>>
    BY <2>4, <2>5, FindStart DEF Ready
  <2>7. Len(new) = 1 /\ new[1] = Through(d[1]) /\ new \in Seq(Addr)
    BY <1>8, <2>2, <2>4, <2>6
  <2>8. Leads(new, steps)
    BY <2>2, <2>3, <2>4, <2>7, One DEF Leads
  <2> QED
    BY <1>1, <1>3, <1>14, <1>9, <2>7, <2>8 DEF new
<1> QED
  BY <1>1, <1>10, <1>11, <1>12, <1>13, <1>14 DEF new

-----------------------------------------------------------------------------
LEMMA InitEdges == ASSUME Init PROVE EdgeInv
<1>1. ReturnsEnd
  BY InitReturns
<1>2. Uncounted /\ Pass3OK /\ GraphOK
  BY DEF Init, Uncounted, Pass3OK, GraphOK
<1> QED
  BY <1>1, <1>2 DEF EdgeInv

(* Until the third pass no edge is counted.                                *)
LEMMA EarlyEdges ==
    ASSUME Uncounted, phase \in {"pass1", "pass2"}, phase' \in {"pass1", "pass2"}, nFrom' = nFrom, Addr' = Addr
    PROVE  Uncounted' /\ Pass3OK' /\ GraphOK'
  BY DEF Uncounted, Pass3OK, GraphOK

LEMMA FirstEdges ==
    ASSUME Ready, SplitTarget \/ SetFollow \/ SkipPlain \/ Pass1Done
    PROVE  EdgeInv'
<1>1. ReturnsEnd'
  BY FirstReturns DEF Ready, EdgeInv
<1>2. phase \in {"pass1", "pass2"} /\ phase' \in {"pass1", "pass2"} /\ nFrom' = nFrom /\ code' = code
  BY DEF SplitTarget, SetFollow, SkipPlain, Pass1Done, graph
<1> QED
  BY <1>1, <1>2, SameCode, EarlyEdges DEF Ready, EdgeInv

LEMMA ScanEdges == ASSUME Ready, Scan PROVE EdgeInv'
<1>1. ReturnsEnd'
  BY ScanReturns DEF Ready, EdgeInv
<1>2. phase \in {"pass1", "pass2"} /\ phase' \in {"pass1", "pass2"} /\ nFrom' = nFrom
  BY DEF Scan
<1>3. Addr' = Addr
  <2>1. PICK c : At(c)
    BY ScanAt DEF Ready
  <2>2. Labelled(c)
    BY <2>1, ScanPlain, ScanFinal, ScanEnding DEF Ready
  <2> QED
    BY <2>2 DEF Labelled, Original
<1> QED
  BY <1>1, <1>2, <1>3, EarlyEdges DEF Ready, EdgeInv

LEMMA VisitOnceEdges == ASSUME Ready, VisitOnce PROVE EdgeInv'
<1>1. ReturnsEnd'
  BY OthersReturns DEF Ready, EdgeInv
<1>2. phase \in {"pass1", "pass2"} /\ phase' \in {"pass1", "pass2"} /\ nFrom' = nFrom /\ code' = code
  BY DEF VisitOnce
<1> QED
  BY <1>1, <1>2, SameCode, EarlyEdges DEF Ready, EdgeInv

(* The third pass begins with the first block.                             *)
LEMMA Visited2Edges == ASSUME Ready, Visited2 PROVE EdgeInv'
<1>1. ReturnsEnd'
  BY OthersReturns DEF Ready, EdgeInv
<1>2. phase = "pass2" /\ code' = code /\ last' = last /\ to' = to
      /\ (phase' = "pass3" => nFrom' = [nFrom EXCEPT ![1] = 1]) /\ (phase' # "pass3" => nFrom' = nFrom)
  BY DEF Visited2
<1>3. Addr' = Addr /\ Configs' = Configs /\ Blocks' = Blocks /\ \A i : Follow(i)' = Follow(i)
  BY <1>2, SameCode DEF Blocks, Follow
<1>4. CASE list # <<>>
  <2>1. phase' = "pass2"
    BY <1>2, <1>4 DEF Visited2, NextVisit
  <2>2. nFrom' = nFrom
    BY <1>2, <2>1
  <2> QED
    BY <1>1, <1>2, <1>3, <2>1, <2>2, EarlyEdges DEF Ready, EdgeInv
<1>5. CASE list = <<>>
  <2>1. phase' = "pass3" /\ cur' = 1 /\ list' = <<>> /\ k' = 0
    BY <1>2, <1>5 DEF Visited2, NextVisit
  <2>2. 1 \in Addr /\ 1 \in Blocks /\ to \in [Addr -> Seq(Addr)] /\ nFrom = [b \in Addr |-> 0]
    BY <1>2 DEF Ready, IInv, Partition, Blocks, BlocksOK, EdgeInv, Uncounted
  <2>3. nFrom' = [nFrom EXCEPT ![1] = 1] /\ nFrom'[1] = 1 /\ nFrom' \in [Addr -> Nat]
        /\ \A b \in Addr : b # 1 => nFrom'[b] = 0
    BY <1>2, <2>1, <2>2
  <2>4. \E e \in Configs : e[1] = 1
    <3>1. Begin \in Configs /\ Begin[1] = 1
      BY ConfigsAre DEF Ready, IInv, ContextInv, Begin
    <3> QED
      BY <3>1
  <2>5. \A b : ~InList(b)'
    BY <2>1 DEF InList
  <2>6. \A b \in Addr : Met(b)' => b = 1
    BY <2>3 DEF Met
  <2>7. \A b \in Blocks : Waiting(b)'
    BY <2>1, <2>6 DEF Waiting, Blocks
  <2>8. \A b \in Blocks : to'[b] = Follow(last[b])
    BY <1>2 DEF Ready, ContextInv, FollowOK
  <2>9. Pass3OK'
    <3>1. Met(1)' /\ Met(cur)'
      BY <2>1, <2>3 DEF Met
    <3>2. to' \in [Addr' -> Seq(Addr')] /\ nFrom' \in [Addr' -> Nat] /\ list' \in Seq(Addr') /\ k' \in Nat /\ cur' \in Addr'
      BY <1>2, <1>3, <2>1, <2>2, <2>3
    <3>3. \A b \in Addr' : Met(b)' => b \in Blocks' /\ \E e \in Configs' : e[1] = b
      BY <1>3, <2>2, <2>4, <2>6
    <3>4. \A i, j \in 1 .. Len(list') : list'[i] = list'[j] => i = j
      BY <2>1
    <3>5. \A b \in Blocks' : Waiting(b)' /\ to'[b] = Follow(last[b])'
      BY <1>2, <1>3, <2>7, <2>8
    <3> QED
      BY <2>1, <2>5, <3>1, <3>2, <3>3, <3>4, <3>5 DEF Pass3OK
  <2> QED
    BY <1>1, <2>1, <2>9 DEF EdgeInv, Uncounted, GraphOK
<1> QED
  BY <1>4, <1>5

(* A block whose edges are threaded is no longer waiting; the others are   *)
(* left alone.                                                             *)
LEMMA ThreadKeeps == ASSUME Ready, Thread PROVE EdgeInv'
<1>1. ReturnsEnd'
  BY OthersReturns DEF Ready, EdgeInv
<1>2. phase = "pass3" /\ phase' = "pass3" /\ k = 0 /\ k' = 1 /\ code' = code /\ last' = last
      /\ nFrom' = nFrom /\ list' = list /\ cur' = cur
  BY DEF Thread
<1>3. /\ to \in [Addr -> Seq(Addr)] /\ nFrom \in [Addr -> Nat] /\ list \in Seq(Addr) /\ k \in Nat
      /\ Met(1) /\ cur \in Addr /\ Met(cur) /\ ~InList(cur)
      /\ \A b \in Addr : Met(b) => b \in Blocks /\ \E e \in Configs : e[1] = b
      /\ \A b \in Addr : InList(b) => Met(b)
      /\ \A i, j \in 1 .. Len(list) : list[i] = list[j] => i = j
      /\ \A b \in Blocks : Waiting(b) => to[b] = Follow(last[b])
      /\ \A b \in Blocks : ~Waiting(b) =>
           EdgeOK(b) /\ \A j \in 1 .. Len(to[b]) : (b = cur => j < k) => Met(to[b][j])
  BY <1>2 DEF Ready, EdgeInv, Pass3OK
<1>4. Addr' = Addr /\ Configs' = Configs /\ Blocks' = Blocks /\ \A i : Follow(i)' = Follow(i)
  BY <1>2, SameCode DEF Blocks, Follow
<1>5. \A b : Met(b)' = Met(b) /\ InList(b)' = InList(b)
  BY <1>2 DEF Met, InList
<1>6. ~Waiting(cur)' /\ \A b : b # cur => Waiting(b)' = Waiting(b)
  BY <1>2, <1>3, <1>5 DEF Waiting
<1>7. PICK c : c = cur
  OBVIOUS
<1>8. to' \in [Addr -> Seq(Addr)] /\ EdgeOK(c)' /\ \A b \in Addr : b # c => to'[b] = to[b]
  <2>1. to' = [to EXCEPT ![cur] = Threaded(cur)] /\ Threaded(cur) \in Seq(Addr) /\ EdgeOK(cur)'
    BY ThreadEdges
  <2>2. EdgeOK(c)'
    BY <1>2, <1>7, <2>1
  <2>3. PICK t : t = Threaded(cur)
    OBVIOUS
  <2>4. to' = [to EXCEPT ![c] = t] /\ t \in Seq(Addr)
    BY <1>7, <2>1, <2>3
  <2>5. to' \in [Addr -> Seq(Addr)] /\ \A b \in Addr : b # c => to'[b] = to[b]
    <3>1. to \in [Addr -> Seq(Addr)] /\ DOMAIN to' = DOMAIN to
      BY <1>3, <2>4
    <3> QED
      BY <2>4, <3>1
  <2> QED
    BY <2>2, <2>5
<1>9. \A b \in Blocks : Waiting(b)' => to'[b] = Follow(last[b])
  <2> SUFFICES ASSUME NEW b \in Blocks, Waiting(b)' PROVE to'[b] = Follow(last[b])
    OBVIOUS
  <2>1. ~Waiting(c)'
    BY <1>2, <1>6, <1>7
  <2>2. b # c /\ b \in Addr
    BY <2>1 DEF Blocks
  <2>3. Waiting(b) /\ to'[b] = to[b]
    BY <1>6, <1>7, <1>8, <2>2
  <2> QED
    BY <1>3, <2>3
<1>10. ASSUME NEW b \in Blocks, ~Waiting(b)'
       PROVE  EdgeOK(b)' /\ \A j \in 1 .. Len(to'[b]) : (b = c => j < 1) => nFrom'[to'[b][j]] > 0
  <2>1. CASE b = c
    <3>1. ~\E j \in 1 .. Len(to'[b]) : j < 1
      OBVIOUS
    <3> QED
      BY <1>8, <2>1, <3>1
  <2>2. CASE b # c
    <3>1. ~Waiting(b) /\ to'[b] = to[b]
      BY <1>6, <1>7, <1>8, <1>10, <2>2 DEF Blocks
    <3>2. EdgeOK(b)'
      BY <1>2, <1>3, <3>1, SameEdges
    <3>3. ASSUME NEW j \in 1 .. Len(to'[b]) PROVE nFrom'[to'[b][j]] > 0
      <4>1. PICK t : t = to[b][j]
        OBVIOUS
      <4>2. Met(t) /\ to'[b][j] = t
        BY <1>3, <1>7, <2>2, <3>1, <4>1
      <4> QED
        BY <1>2, <4>2 DEF Met
    <3> QED
      BY <3>2, <3>3
  <2> QED
    BY <2>1, <2>2
<1>11. Pass3OK'
  <2>1. Met(1)' /\ Met(cur)' /\ ~InList(cur)'
    BY <1>2, <1>3 DEF Met, InList
  <2>2. \A b \in Addr' : (Met(b)' => b \in Blocks' /\ \E e \in Configs' : e[1] = b) /\ (InList(b)' => Met(b)')
    BY <1>3, <1>4, <1>5
  <2>3. \A b \in Blocks' : Waiting(b)' => to'[b] = Follow(last[b])'
    BY <1>2, <1>4, <1>9
  <2>4. \A b \in Blocks' : ~Waiting(b)' =>
           EdgeOK(b)' /\ \A j \in 1 .. Len(to'[b]) : (b = cur' => j < k') => nFrom'[to'[b][j]] > 0
    BY <1>2, <1>4, <1>7, <1>10
  <2>5. to' \in [Addr' -> Seq(Addr')] /\ nFrom' \in [Addr' -> Nat] /\ list' \in Seq(Addr') /\ k' \in Nat /\ cur' \in Addr'
    BY <1>2, <1>3, <1>4, <1>8
  <2>6. \A i, j \in 1 .. Len(list') : list'[i] = list'[j] => i = j
    BY <1>2, <1>3
  <2> QED
    BY <1>2, <2>1, <2>2, <2>3, <2>4, <2>5, <2>6 DEF Pass3OK, Met
<1> QED
  BY <1>1, <1>2, <1>11 DEF EdgeInv, Uncounted, GraphOK

(* What pass 3 knows, in one place.                                        *)
LEMMA Pass3Is ==
    ASSUME Ready, phase = "pass3"
    PROVE  /\ to \in [Addr -> Seq(Addr)] /\ nFrom \in [Addr -> Nat] /\ list \in Seq(Addr) /\ k \in Nat
           /\ Met(1) /\ cur \in Addr /\ cur \in Blocks /\ Met(cur) /\ ~InList(cur)
           /\ \A b \in Addr : Met(b) => b \in Blocks /\ \E e \in Configs : e[1] = b
           /\ \A b \in Addr : InList(b) => Met(b)
           /\ \A i, j \in 1 .. Len(list) : list[i] = list[j] => i = j
           /\ \A b \in Blocks : Waiting(b) => to[b] = Follow(last[b])
           /\ \A b \in Blocks : ~Waiting(b) =>
                EdgeOK(b) /\ \A j \in 1 .. Len(to[b]) : (b = cur => j < k) => Met(to[b][j])
           /\ k # 0 => ~Waiting(cur)
  BY DEF Ready, EdgeInv, Pass3OK, Waiting

(* An edge that is counted leads to a block that is executed; one that was *)
(* not met before is to be visited, and still waits.                       *)
LEMMA CountKeeps == ASSUME Ready, CountEdge PROVE EdgeInv'
<1>1. ReturnsEnd'
  BY OthersReturns DEF Ready, EdgeInv
<1>2. PICK c, b : c = cur /\ b = to[cur][k]
  OBVIOUS
<1>3. phase = "pass3" /\ phase' = "pass3" /\ k \in 1 .. Len(to[c]) /\ k' = k + 1
      /\ code' = code /\ last' = last /\ to' = to /\ cur' = c
      /\ nFrom' = [nFrom EXCEPT ![b] = nFrom[b] + 1]
      /\ list' = IF nFrom[b] = 0 THEN ToVisit(b) ELSE list
  BY <1>2 DEF CountEdge
<1>4. k \in Nat /\ k # 0 /\ to[c] \in Seq(Addr) /\ b \in Addr /\ nFrom \in [Addr -> Nat] /\ c \in Blocks /\ c \in Addr
  BY <1>2, <1>3, Pass3Is
<1>5. ~Waiting(c) /\ EdgeOK(c)
  BY <1>2, <1>3, <1>4, Pass3Is
<1>6. b \in Blocks /\ \E e \in Configs : e[1] = b
  BY <1>2, <1>3, <1>5 DEF EdgeOK
<1>7. Addr' = Addr /\ Configs' = Configs /\ Blocks' = Blocks /\ \A i : Follow(i)' = Follow(i)
  BY <1>3, SameCode DEF Blocks, Follow
<1>8. /\ nFrom' \in [Addr -> Nat] /\ nFrom'[b] > 0 /\ \A x \in Addr : x # b => nFrom'[x] = nFrom[x]
      /\ \A x \in Addr : Met(x) => nFrom'[x] > 0
  BY <1>3, <1>4 DEF Met
<1>9. \A x \in Addr : nFrom'[x] > 0 => Met(x) \/ x = b
  BY <1>8 DEF Met
<1>10. /\ list' \in Seq(Addr) /\ \A i, j \in 1 .. Len(list') : list'[i] = list'[j] => i = j
       /\ \A x : InList(x)' <=> InList(x) \/ (x = b /\ ~Met(b))
  <2>1. list \in Seq(Addr) /\ \A i, j \in 1 .. Len(list) : list[i] = list[j] => i = j
    BY <1>3, Pass3Is
  <2>2. CASE Met(b)
    <3>1. list' = list
      BY <1>3, <2>2 DEF Met
    <3> QED
      BY <2>1, <2>2, <3>1 DEF InList
  <2>3. CASE ~Met(b)
    <3>1. b # 1 /\ ~InList(b)
      BY <1>3, <1>4, <2>3, Pass3Is
    <3>2. nFrom[b] = 0
      BY <1>4, <2>3 DEF Met
    <3>3. list' = <<b>> \o list
      BY <1>3, <3>1, <3>2 DEF ToVisit, Listed, InList
    <3>4. Len(list') = Len(list) + 1 /\ Len(list) \in Nat /\ list' \in Seq(Addr)
          /\ \A j \in 1 .. Len(list') : list'[j] = IF j = 1 THEN b ELSE list[j - 1]
      BY <1>4, <2>1, <3>3
    <3>5. \A i, j \in 1 .. Len(list') : list'[i] = list'[j] => i = j
      <4> TAKE i, j \in 1 .. Len(list')
      <4>1. i \in Nat /\ j \in Nat /\ (i # 1 => i - 1 \in 1 .. Len(list)) /\ (j # 1 => j - 1 \in 1 .. Len(list))
        BY <3>4
      <4>2. list'[i] = (IF i = 1 THEN b ELSE list[i - 1]) /\ list'[j] = (IF j = 1 THEN b ELSE list[j - 1])
        BY <3>4
      <4>3. \A l \in 1 .. Len(list) : list[l] # b
        BY <3>1 DEF InList
      <4>4. i # 1 /\ j # 1 /\ list'[i] = list'[j] => i - 1 = j - 1
        BY <2>1, <4>1, <4>2
      <4> QED
        BY <4>1, <4>2, <4>3, <4>4
    <3>6. \A x : InList(x)' <=> InList(x) \/ x = b
      <4> TAKE x
      <4>1. ASSUME InList(x)' PROVE InList(x) \/ x = b
        <5>1. PICK j \in 1 .. Len(list') : list'[j] = x
          BY <4>1 DEF InList
        <5>2. j # 1 => j - 1 \in 1 .. Len(list) /\ list[j - 1] = x
          BY <3>4, <5>1
        <5> QED
          BY <3>4, <5>1, <5>2 DEF InList
      <4>2. ASSUME InList(x) PROVE InList(x)'
        <5>1. PICK j \in 1 .. Len(list) : list[j] = x
          BY <4>2 DEF InList
        <5>2. j + 1 \in 1 .. Len(list') /\ j + 1 # 1 /\ (j + 1) - 1 = j
          BY <3>4, <5>1
        <5>3. list'[j + 1] = x
          BY <3>4, <5>1, <5>2
        <5> QED
          BY <5>2, <5>3 DEF InList
      <4>3. ASSUME x = b PROVE InList(x)'
        <5>1. 1 \in 1 .. Len(list') /\ list'[1] = b
          BY <3>4
        <5> QED
          BY <4>3, <5>1 DEF InList
      <4> QED
        BY <4>1, <4>2, <4>3
    <3> QED
      BY <2>3, <3>4, <3>5, <3>6
  <2> QED
    BY <2>2, <2>3
<1>11. \A x \in Blocks : Waiting(x)' <=> Waiting(x)
  <2> TAKE x \in Blocks
  <2>1. x \in Addr /\ k + 1 # 0 /\ (Met(x)' <=> Met(x) \/ x = b)
    <3>1. x \in Addr /\ k + 1 # 0
      BY <1>4 DEF Blocks
    <3> QED
      BY <1>8, <1>9, <3>1 DEF Met
  <2> QED
    BY <1>2, <1>3, <1>4, <1>10, <2>1 DEF Waiting
<1>12. ~InList(c)' /\ Met(c) /\ Met(1) /\ 1 \in Addr
  <2>1. ~InList(c) /\ Met(c) /\ Met(1)
    BY <1>2, <1>3, Pass3Is
  <2>2. 1 \in Addr
    BY DEF Ready, IInv, Partition, Blocks
  <2> QED
    BY <1>10, <2>1, <2>2
<1>13. ASSUME NEW x \in Blocks, ~Waiting(x)'
       PROVE  EdgeOK(x)' /\ \A j \in 1 .. Len(to[x]) : (x = c => j < k + 1) => nFrom'[to[x][j]] > 0
  <2>1. ~Waiting(x)
    BY <1>11, <1>13
  <2>2. EdgeOK(x) /\ \A j \in 1 .. Len(to[x]) : (x = c => j < k) => Met(to[x][j])
    BY <1>2, <1>3, <2>1, Pass3Is
  <2>3. EdgeOK(x)'
    BY <1>3, <2>2, SameEdges
  <2>4. ASSUME NEW j \in 1 .. Len(to[x]), x = c => j < k + 1 PROVE nFrom'[to[x][j]] > 0
    <3>1. to[x][j] \in Addr
      BY <2>2 DEF EdgeOK, Blocks
    <3>2. CASE x = c /\ j = k
      BY <1>2, <1>8, <3>2
    <3>3. CASE x # c \/ j # k
      <4>1. x = c => j < k
        BY <1>4, <2>4, <3>3
      <4>2. Met(to[x][j])
        BY <2>2, <4>1
      <4> QED
        BY <1>8, <3>1, <4>2
    <3> QED
      BY <3>2, <3>3
  <2> QED
    BY <2>3, <2>4
<1>14. Pass3OK'
  <2>1. nFrom'[1] > 0 /\ nFrom'[cur'] > 0 /\ ~InList(cur)'
    BY <1>2, <1>3, <1>4, <1>8, <1>12 DEF InList
  <2>2. \A x \in Addr' : nFrom'[x] > 0 => x \in Blocks' /\ \E e \in Configs' : e[1] = x
    BY <1>3, <1>6, <1>7, <1>9, Pass3Is
  <2>3. \A x \in Addr' : InList(x)' => nFrom'[x] > 0
    BY <1>3, <1>7, <1>8, <1>10, Pass3Is
  <2>4. \A x \in Blocks' : Waiting(x)' => to'[x] = Follow(last[x])'
    BY <1>3, <1>7, <1>11, Pass3Is
  <2>5. \A x \in Blocks' : ~Waiting(x)' =>
           EdgeOK(x)' /\ \A j \in 1 .. Len(to'[x]) : (x = cur' => j < k') => nFrom'[to'[x][j]] > 0
    BY <1>3, <1>7, <1>13
  <2>6. to' \in [Addr' -> Seq(Addr')] /\ nFrom' \in [Addr' -> Nat] /\ list' \in Seq(Addr') /\ k' \in Nat /\ cur' \in Addr'
    <3>1. to \in [Addr -> Seq(Addr)]
      BY <1>3, Pass3Is
    <3> QED
      BY <1>3, <1>4, <1>7, <1>8, <1>10, <3>1
  <2> QED
    BY <1>10, <2>1, <2>2, <2>3, <2>4, <2>5, <2>6 DEF Pass3OK, Met
<1> QED
  BY <1>1, <1>3, <1>14 DEF EdgeInv, Uncounted, GraphOK

(* The next block is visited, or all that were met have been.              *)
LEMMA Visited3Keeps == ASSUME Ready, Visited3 PROVE EdgeInv'
<1>1. ReturnsEnd'
  BY OthersReturns DEF Ready, EdgeInv
<1>2. PICK c, n : c = cur /\ n = Len(to[cur])
  OBVIOUS
<1>3. phase = "pass3" /\ k > n /\ code' = code /\ last' = last /\ to' = to
  BY <1>2 DEF Visited3
<1>4. n \in Nat /\ k \in Nat /\ k # 0 /\ c \in Blocks /\ c \in Addr /\ ~Waiting(c) /\ nFrom \in [Addr -> Nat]
  <2>1. to[c] \in Seq(Addr) /\ k \in Nat /\ c \in Blocks /\ c \in Addr /\ nFrom \in [Addr -> Nat]
    BY <1>2, <1>3, Pass3Is
  <2>2. n \in Nat
    BY <1>2, <2>1
  <2>3. k # 0
    BY <1>3, <2>1, <2>2
  <2> QED
    BY <1>2, <1>3, <2>1, <2>2, <2>3, Pass3Is
<1>5. Addr' = Addr /\ Configs' = Configs /\ Blocks' = Blocks /\ \A i : Follow(i)' = Follow(i)
  BY <1>3, SameCode DEF Blocks, Follow
<1>6. ASSUME NEW x \in Blocks, ~Waiting(x)
      PROVE  EdgeOK(x) /\ EdgeOK(x)' /\ \A j \in 1 .. Len(to[x]) : to[x][j] \in Addr /\ Met(to[x][j])
  <2>1. EdgeOK(x) /\ \A j \in 1 .. Len(to[x]) : (x = c => j < k) => Met(to[x][j])
    BY <1>2, <1>3, <1>6, Pass3Is
  <2>2. \A j \in 1 .. Len(to[x]) : x = c => j < k
    BY <1>2, <1>3, <1>4
  <2> QED
    BY <1>3, <2>1, <2>2, SameEdges DEF EdgeOK, Blocks
<1>7. CASE list # <<>>
  <2>1. phase' = "pass3" /\ cur' = Head(list) /\ list' = Tail(list) /\ k' = 0 /\ nFrom' = nFrom
    BY <1>3, <1>7 DEF Visited3, NextVisit
  <2>2. list \in Seq(Addr) /\ \A i, j \in 1 .. Len(list) : list[i] = list[j] => i = j
    BY <1>3, Pass3Is
  <2>3. PICK h : h = Head(list)
    OBVIOUS
  <2>4. /\ h = list[1] /\ h \in Addr /\ 1 \in 1 .. Len(list) /\ list' \in Seq(Addr)
        /\ \A j \in 1 .. Len(list') : j + 1 \in 1 .. Len(list) /\ list'[j] = list[j + 1] /\ j \in Nat /\ j + 1 # 1
        /\ \A j \in 1 .. Len(list) : j # 1 => j - 1 \in 1 .. Len(list') /\ list'[j - 1] = list[j]
    BY <1>7, <2>1, <2>2, <2>3, HeadTailProperties
  <2>5. \A i, j \in 1 .. Len(list') : list'[i] = list'[j] => i = j
    <3> TAKE i, j \in 1 .. Len(list')
    <3>1. list[i + 1] = list[j + 1] => i + 1 = j + 1
      BY <2>2, <2>4
    <3>2. i \in Nat /\ j \in Nat
      BY <2>4
    <3> QED
      BY <2>4, <3>1, <3>2
  <2>6. InList(h) /\ ~InList(h)' /\ \A x : x # h => (InList(x)' <=> InList(x))
    <3>1. InList(h)
      BY <2>4 DEF InList
    <3>2. ~InList(h)'
      <4> SUFFICES ASSUME NEW j \in 1 .. Len(list'), list'[j] = h PROVE FALSE
        BY DEF InList
      <4>1. list[j + 1] = list[1] /\ j + 1 \in 1 .. Len(list) /\ j + 1 # 1
        BY <2>4
      <4> QED
        BY <2>2, <2>4, <4>1
    <3>3. ASSUME NEW x, x # h PROVE InList(x)' <=> InList(x)
      <4>1. ASSUME InList(x)' PROVE InList(x)
        <5>1. PICK j \in 1 .. Len(list') : list'[j] = x
          BY <4>1 DEF InList
        <5> QED
          BY <2>4, <5>1 DEF InList
      <4>2. ASSUME InList(x) PROVE InList(x)'
        <5>1. PICK j \in 1 .. Len(list) : list[j] = x
          BY <4>2 DEF InList
        <5>2. j # 1
          BY <2>4, <3>3, <5>1
        <5> QED
          BY <2>4, <5>1, <5>2 DEF InList
      <4> QED
        BY <4>1, <4>2
    <3> QED
      BY <3>1, <3>2, <3>3
  <2>7. Met(h) /\ h # c
    BY <1>2, <1>3, <2>4, <2>6, Pass3Is
  <2>8. \A x : Met(x)' <=> Met(x)
    BY <2>1 DEF Met
  <2>9. \A x \in Blocks : Waiting(x)' <=> Waiting(x)
    <3> TAKE x \in Blocks
    <3>1. CASE x = h
      BY <2>1, <2>3, <2>6, <3>1 DEF Waiting
    <3>2. CASE x # h
      BY <1>4, <2>1, <2>3, <2>6, <2>8, <3>2 DEF Waiting
    <3> QED
      BY <3>1, <3>2
  <2>10. Pass3OK'
    <3>1. Met(1)' /\ Met(cur)' /\ ~InList(cur)'
      <4>1. Met(1) /\ nFrom'[1] = nFrom[1]
        BY <1>3, <2>1, Pass3Is
      <4>2. cur' = h
        BY <2>1, <2>3
      <4> QED
        BY <2>1, <2>6, <2>7, <4>1, <4>2 DEF Met, InList
    <3>2. \A x \in Addr' : Met(x)' => x \in Blocks' /\ \E e \in Configs' : e[1] = x
      BY <1>3, <1>5, <2>8, Pass3Is
    <3>3. \A x \in Addr' : InList(x)' => Met(x)'
      BY <1>3, <1>5, <2>6, <2>8, Pass3Is
    <3>4. \A x \in Blocks' : Waiting(x)' => to'[x] = Follow(last[x])'
      BY <1>3, <1>5, <2>9, Pass3Is
    <3>5. \A x \in Blocks' : ~Waiting(x)' => EdgeOK(x)' /\ \A j \in 1 .. Len(to'[x]) : nFrom'[to'[x][j]] > 0
      <4> SUFFICES ASSUME NEW x \in Blocks, ~Waiting(x)'
                   PROVE  EdgeOK(x)' /\ \A j \in 1 .. Len(to[x]) : nFrom[to[x][j]] > 0
        BY <1>3, <1>5, <2>1
      <4>1. ~Waiting(x)
        BY <2>9
      <4> QED
        BY <1>6, <4>1 DEF Met
    <3>6. to' \in [Addr' -> Seq(Addr')] /\ nFrom' \in [Addr' -> Nat] /\ list' \in Seq(Addr') /\ k' \in Nat /\ cur' \in Addr'
      BY <1>3, <1>5, <2>1, <2>3, <2>4, Pass3Is
    <3> QED
      BY <2>5, <3>1, <3>2, <3>3, <3>4, <3>5, <3>6 DEF Pass3OK, Met
  <2> QED
    BY <1>1, <2>1, <2>10 DEF EdgeInv, Uncounted, GraphOK
<1>8. CASE list = <<>>
  <2>1. phase' = "pass4" /\ nFrom' = [nFrom EXCEPT ![1] = nFrom[1] - 1]
    BY <1>3, <1>8 DEF Visited3, NextVisit
  <2>2. \A x \in Addr : x # 1 => nFrom'[x] = nFrom[x]
    BY <1>4, <2>1
  <2>3. \A x : ~InList(x)
    BY <1>8 DEF InList
  <2>4. \A x \in Blocks : Met(x) => ~Waiting(x)
    BY <1>4, <2>3 DEF Waiting
  <2>5. 1 \in Blocks /\ Met(1)
    BY <1>3, Pass3Is DEF Ready, IInv, Partition
  <2>6. \A x \in Addr : Met(x) => x \in Reached'
    <3> TAKE x \in Addr
    <3> HAVE Met(x)
    <3>1. x \in Blocks'
      BY <1>3, <1>5, Pass3Is
    <3>2. x = 1 \/ nFrom'[x] > 0
      BY <2>2 DEF Met
    <3> QED
      BY <3>1, <3>2 DEF Reached
  <2>7. \A x \in Reached' : x \in Blocks /\ Met(x)
    <3> TAKE x \in Reached'
    <3>1. x \in Blocks /\ (x = 1 \/ nFrom'[x] > 0)
      BY <1>5 DEF Reached
    <3> QED
      BY <2>2, <2>5, <3>1 DEF Met, Blocks
  <2>8. \A x \in Reached' : EdgeOK(x)' /\ \A j \in 1 .. Len(to'[x]) : to'[x][j] \in Reached'
    <3> TAKE x \in Reached'
    <3>1. x \in Blocks /\ ~Waiting(x)
      BY <2>4, <2>7
    <3> QED
      BY <1>3, <1>6, <2>6, <3>1
  <2>9. GraphOK'
    BY <2>8 DEF GraphOK
  <2> QED
    BY <1>1, <2>1, <2>9 DEF EdgeInv, Uncounted, Pass3OK
<1> QED
  BY <1>7, <1>8

(* The last pass leaves the edges alone.                                   *)
LEMMA BackKeeps == ASSUME Ready, BackEdge \/ Visited4 PROVE EdgeInv'
<1>1. ReturnsEnd'
  BY OthersReturns DEF Ready, EdgeInv
<1>2. phase = "pass4" /\ phase' \in {"pass4", "graph"} /\ code' = code /\ last' = last /\ to' = to /\ nFrom' = nFrom
  BY DEF BackEdge, Visited4, NextVisit, graph
<1>3. Reached' = Reached
  BY <1>2, SameCode DEF Reached, Blocks
<1>4. \A x \in Reached : EdgeOK(x)' /\ \A j \in 1 .. Len(to[x]) : to[x][j] \in Reached
  BY <1>2, SameEdges DEF Ready, EdgeInv, GraphOK
<1>5. GraphOK'
  BY <1>2, <1>3, <1>4 DEF GraphOK
<1> QED
  BY <1>1, <1>2, <1>5 DEF EdgeInv, Uncounted, Pass3OK

LEMMA StutterEdges == ASSUME Ready, UNCHANGED blockVars PROVE EdgeInv'
<1>1. /\ code' = code /\ last' = last /\ next' = next /\ to' = to /\ sp' = sp /\ caught' = caught /\ nFrom' = nFrom
      /\ phase' = phase /\ list' = list /\ cur' = cur /\ at' = at /\ k' = k
  BY DEF blockVars, graph, cursor
<1>2. Addr' = Addr /\ Configs' = Configs /\ Blocks' = Blocks /\ Reached' = Reached
      /\ \A x : (InList(x)' <=> InList(x)) /\ (Known(x)' <=> Known(x)) /\ (Met(x)' <=> Met(x))
                /\ (Waiting(x)' <=> Waiting(x)) /\ Follow(x)' = Follow(x)
  BY <1>1, SameCode DEF Blocks, Reached, InList, Known, Met, Waiting, Follow
<1>3. \A b : EdgeOK(b) => EdgeOK(b)'
  BY <1>1, SameEdges
<1>4. ReturnsEnd'
  BY <1>1, <1>2 DEF Ready, EdgeInv, ReturnsEnd
<1>5. Uncounted'
  BY <1>1, <1>2 DEF Ready, EdgeInv, Uncounted
<1>6. GraphOK'
  BY <1>1, <1>2, <1>3 DEF Ready, EdgeInv, GraphOK
<1>7. Pass3OK'
  <2> SUFFICES ASSUME phase = "pass3" PROVE Pass3OK'
    BY <1>1 DEF Pass3OK
  <2>1. \A b \in Blocks' : Waiting(b)' => to'[b] = Follow(last[b])'
    BY <1>1, <1>2, Pass3Is
  <2>2. \A b \in Blocks' : ~Waiting(b)' =>
           EdgeOK(b)' /\ \A j \in 1 .. Len(to'[b]) : (b = cur' => j < k') => nFrom'[to'[b][j]] > 0
    BY <1>1, <1>2, <1>3, Pass3Is DEF Met
  <2>3. Met(1)' /\ Met(cur)' /\ ~InList(cur)'
    BY <1>1, Pass3Is DEF Met, InList
  <2>4. \A b \in Addr' : (Met(b)' => b \in Blocks' /\ \E e \in Configs' : e[1] = b) /\ (InList(b)' => Met(b)')
    BY <1>2, Pass3Is
  <2>5. to' \in [Addr' -> Seq(Addr')] /\ nFrom' \in [Addr' -> Nat] /\ list' \in Seq(Addr') /\ k' \in Nat /\ cur' \in Addr'
        /\ \A i, j \in 1 .. Len(list') : list'[i] = list'[j] => i = j
    BY <1>1, <1>2, Pass3Is
  <2> QED
    BY <2>1, <2>2, <2>3, <2>4, <2>5 DEF Pass3OK, Met
<1> QED
  BY <1>4, <1>5, <1>6, <1>7 DEF EdgeInv

LEMMA StepEdges == Ready /\ [Next]_blockVars => EdgeInv'
  BY StutterEdges, FirstEdges, ScanEdges, VisitOnceEdges, Visited2Edges, ThreadKeeps, CountKeeps, Visited3Keeps,
     BackKeeps
     DEF Next

-----------------------------------------------------------------------------
(* A block that starts with a jump is nothing else.                        *)
LEMMA JumpBlock ==
    ASSUME IInv, OpsOK, phase # "pass1", NEW b \in Blocks, code[b].op = "jump"
    PROVE  last[b] = b
<1>1. b \in Addr /\ b \in Nat /\ last[b] \in Nat /\ b <= last[b]
  BY BlockIs DEF IInv
<1>2. code[b].to # <<>>
  BY <1>1, HasTargets DEF IInv
<1>3. ~(b < last[b])
  BY <1>1, <1>2, InsideBlock
<1> QED
  BY <1>1, <1>3

(* Where jumps lead to from a block that is reached is reached.            *)
LEMMA ReachedLanding ==
    ASSUME Ready, phase = "graph", NEW t \in Reached, Landing(t) # 0
    PROVE  Landing(t) \in Reached
<1>1. CodeOK /\ OpsOK /\ N \in Nat
  BY OriginalIs DEF Ready, IInv, ContextInv
<1>2. \A x \in Reached : Through(x) \in Reached
  <2> TAKE x \in Reached
  <2>1. x \in Blocks /\ x \in Addr /\ EdgeOK(x) /\ \A j \in 1 .. Len(to[x]) : to[x][j] \in Reached
    BY DEF Ready, EdgeInv, GraphOK, Reached, Blocks
  <2>2. CASE code[x].op = "jump"
    <3>1. last[x] = x
      BY <2>1, <2>2, JumpBlock DEF Ready, ContextInv
    <3>2. to[x] = code[x].to
      BY <2>1, <2>2, <3>1 DEF EdgeOK
    <3>3. Len(code[x].to) = 1 /\ 1 \in 1 .. 1
      BY <1>1, <2>1, <2>2, JumpTarget
    <3> QED
      BY <2>1, <2>2, <3>2, <3>3 DEF Through
  <2>3. CASE code[x].op # "jump"
    BY <2>3 DEF Through
  <2> QED
    BY <2>2, <2>3
<1> QED
  BY <1>1, <1>2, LandingWithin

(* Whatever is executed is in a block that is reached, or is a jump that   *)
(* leads to one, if it leads anywhere.                                     *)
LEMMA ReachedAll ==
    ASSUME Ready, phase = "graph", NEW e \in Configs, code[e[1]].op # "jump"
    PROVE  Find(e[1]) \in Reached
<1>1. CodeOK /\ OpsOK /\ BlocksOK /\ Partition /\ Balanced(Original) /\ phase # "pass1"
      /\ N \in Nat /\ Addr = 1 .. N /\ Len(Original) = N
  BY OriginalIs DEF Ready, IInv, ContextInv
<1> DEFINE S == {f \in Configs : \/ Find(f[1]) \in Reached
                                 \/ /\ code[f[1]].op = "jump"
                                    /\ Landing(f[1]) # 0 => Find(Landing(f[1])) \in Reached}
<1>2. Begin \in S
  <2>1. Begin \in Configs /\ Begin[1] = 1
    BY <1>1, ConfigsAre DEF Begin
  <2>2. 1 \in Blocks
    BY <1>1 DEF Partition
  <2>3. Find(1) = 1
    BY <2>2, FindStart DEF Ready
  <2> QED
    BY <2>1, <2>2, <2>3 DEF Reached
<1>3. ASSUME NEW f \in S, f[1] \in 1 .. Len(Original), NEW d \in Steps(Original, f[1], f[2])
      PROVE  d \in S
  <2> DEFINE i == f[1]
             b == Find(i)
  <2>1. i \in Addr /\ i \in Nat /\ d \in Configs /\ d[1] \in Addr /\ d[1] \in Nat /\ d[1] # 0
    <3>1. i \in Addr /\ d \in Configs /\ d[1] \in Addr
      BY <1>1, <1>3, ConfigsAre
    <3> QED
      BY <1>1, <3>1
  <2>2. b \in Blocks /\ b <= i /\ i <= last[b] /\ b \in Nat /\ last[b] \in Nat
    BY <1>1, <2>1, Found, BlockIs
  <2>3. code[d[1]].op # "jump" => Landing(d[1]) = d[1]
    BY <1>1, LandingHere
  <2> HIDE DEF i
  <2>4. CASE b \in Reached /\ i < last[b]
    <3>1. code[i].to = <<>> /\ i + 1 \in Addr
      BY <1>1, <2>2, <2>4, InsideBlock, <2>1 DEF Ready
    <3>2. code[i].op \notin {"jump", "branch", "switch", "catch", "caught"}
      BY <1>1, <2>1, <3>1, HasTargets
    <3>3. d[1] = i + 1
      <4> DEFINE c == f[2]
      <4>1. d \in Steps(Original, i, c)
        BY <1>3 DEF i
      <4> HIDE DEF c
      <4>2. CASE code[i].op \in {"return"} \cup Renamed
        <5>1. Steps(Original, i, c) = IF c = <<>> THEN {} ELSE {<<i + 1, Pop(c)>>}
          BY <1>1, <2>1, <4>2, StepsAre
        <5>2. d = <<i + 1, Pop(c)>>
          BY <4>1, <5>1
        <5> QED
          BY <5>2
      <4>3. CASE code[i].op = "rlimits"
        <5>1. Steps(Original, i, c) = {<<i + 1, Append(c, 0)>>}
          BY <1>1, <2>1, <4>3, StepsAre
        <5> QED
          BY <4>1, <5>1
      <4>4. CASE code[i].op \notin {"return", "rlimits"} \cup Renamed
        <5>1. Steps(Original, i, c) = {<<i + 1, c>>}
          BY <1>1, <2>1, <3>2, <4>4, StepsAre
        <5> QED
          BY <4>1, <5>1
      <4> QED
        BY <4>2, <4>3, <4>4
    <3>4. Find(i + 1) = b
      <4>1. Find(i + 1) \in Blocks /\ Find(i + 1) <= i + 1 /\ i + 1 <= last[Find(i + 1)]
        BY <1>1, <3>1, Found
      <4>2. i + 1 \in Nat /\ b <= i + 1 /\ i + 1 <= last[b]
        BY <2>1, <2>2, <2>4
      <4> HIDE DEF b
      <4> QED
        BY <1>1, <2>2, <4>1, <4>2, OneBlock
    <3> QED
      BY <2>1, <2>4, <3>3, <3>4
  <2>5. CASE b \in Reached /\ i = last[b]
    <3>1. EdgeOK(b) /\ \A j \in 1 .. Len(to[b]) : to[b][j] \in Reached
      BY <2>5 DEF Ready, EdgeInv, GraphOK
    <3>2. Landing(d[1]) \in {Landing(to[b][j]) : j \in 1 .. Len(to[b])}
      <4>1. f \in Configs /\ f[1] = last[b]
        BY <2>5 DEF i
      <4>2. {Landing(to[b][j]) : j \in 1 .. Len(to[b])} = {Landing(x[1]) : x \in Steps(Original, f[1], f[2])}
        BY <3>1, <4>1 DEF EdgeOK
      <4> QED
        BY <1>3, <4>2
    <3>3. PICK t \in Reached : Landing(d[1]) = Landing(t)
      BY <3>1, <3>2
    <3>4. Landing(d[1]) # 0 => Landing(d[1]) \in Reached
      BY <3>3, ReachedLanding
    <3>5. \A x \in Reached : Find(x) = x
      BY FindStart DEF Ready, Reached
    <3> QED
      BY <2>1, <2>3, <3>4, <3>5
  <2>6. CASE /\ code[i].op = "jump"
             /\ Landing(i) # 0 => Find(Landing(i)) \in Reached
    <3>1. d[1] = Through(i)
      <4> DEFINE c == f[2]
      <4>1. d \in Steps(Original, i, c)
        BY <1>3 DEF i
      <4> HIDE DEF c
      <4>2. Steps(Original, i, c) = {<<code[i].to[j], c>> : j \in 1 .. Len(code[i].to)}
        BY <1>1, <2>1, <2>6, StepsAre
      <4>3. \A j \in 1 .. Len(code[i].to) : j = 1
        BY <1>1, <2>1, <2>6, JumpTarget
      <4>4. PICK j \in 1 .. Len(code[i].to) : d = <<code[i].to[j], c>>
        BY <4>1, <4>2
      <4>5. j = 1 /\ d[1] = code[i].to[j]
        BY <4>3, <4>4
      <4> QED
        BY <2>6, <4>5 DEF Through
    <3>2. Landing(d[1]) = Landing(i)
      BY <1>1, <2>1, <3>1, LandingThrough
    <3> QED
      BY <2>1, <2>3, <2>6, <3>2
  <2> QED
    BY <1>3, <2>2, <2>4, <2>5, <2>6 DEF i
<1>4. Configs \subseteq S
  <2>1. \A f \in S : f[1] \in 1 .. Len(Original) => Steps(Original, f[1], f[2]) \subseteq S
    <3> HIDE DEF S
    <3> QED
      BY <1>3
  <2> HIDE DEF S
  <2> QED
    BY <1>1, <1>2, <2>1, ExecutedLeast DEF Configs
<1> QED
  BY <1>4

LEMMA ReadyEdges == ASSUME Ready PROVE EdgesRight
<1> SUFFICES ASSUME phase = "graph" PROVE EdgesRight
  BY DEF EdgesRight
<1>1. \A b \in Reached : \A e \in Configs : e[1] = last[b] =>
         {Landing(to[b][j]) : j \in 1 .. Len(to[b])} = {Landing(d[1]) : d \in Steps(Original, e[1], e[2])}
  BY DEF Ready, EdgeInv, GraphOK, EdgeOK
<1>2. \A e \in Configs : code[e[1]].op # "jump" => Find(e[1]) \in Reached
  BY ReachedAll
<1> QED
  BY <1>1, <1>2 DEF EdgesRight, Reached, Configs

(* The edges that pass3() threads, past jumps and where a block just goes  *)
(* on to the next, lead where the interpreter goes; and the blocks it      *)
(* reaches by them have whatever is executed, but for jumps (Block::pass3).*)
THEOREM EdgesAreRight == Spec => []EdgesRight
<1>1. Init => Ready
  BY InitInv, InitContext, InitEdges DEF Ready
<1>2. Ready /\ [Next]_blockVars => Ready'
  BY StepInv, StepContext, StepEdges DEF Ready
<1>3. Ready => EdgesRight
  BY ReadyEdges
<1> QED
  BY <1>1, <1>2, <1>3, PTL DEF Spec
=============================================================================
