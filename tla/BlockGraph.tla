----------------------------- MODULE BlockGraph -----------------------------
(* The flow graph of a function, built by block.cpp: a single block of all *)
(* code is split at jump targets (pass 1), what a RETURN ends is found out *)
(* (pass 2), edges are made explicit and threaded through jumps (pass 3),  *)
(* and turned around (pass 4).                                             *)
(*                                                                         *)
(* Instructions are numbered from 1, but for CATCH, which has a second     *)
(* number for the CAUGHT that it becomes.  A block is called by the number *)
(* of its first instruction, which never changes; 0 is no block.           *)
EXTENDS Naturals, Sequences

CONSTANTS
    Ops, Args,   \* instructions: those named below and any others, and what they work on
    Programs     \* functions: sequences of [op, to, arg], to being the targets

Targets(p, i) == {p[i].to[j] : j \in 1 .. Len(p[i].to)}

(* Targets are instructions, and code does not run into its end.           *)
WellFormed(p) ==
    /\ p # <<>> /\ p[Len(p)].op \in {"jump", "switch", "return"}
    /\ \A i \in 1 .. Len(p) :
          /\ Targets(p, i) \subseteq {j \in 1 .. Len(p) : p[j].op # "operand"}
          /\ CASE p[i].op \in {"jump", "branch", "catch"} -> Len(p[i].to) = 1
               [] p[i].op = "switch" -> p[i].to # <<>>
               [] OTHER -> p[i].to = <<>>
          /\ p[i].op = "catch" <=> i < Len(p) /\ p[i + 1].op = "operand"
          /\ i = 1 => p[i].op # "operand"
          /\ i = Len(p) - 1 => p[i].op # "catch"

(* Block::function(): a CAUGHT is added after every CATCH; it takes over   *)
(* the target, where the CATCH goes on being the instruction after it.     *)
WithCaught(p) ==
    [i \in 1 .. Len(p) |->
       [op |-> IF p[i].op = "operand" THEN "caught" ELSE p[i].op,
        to |-> IF p[i].op = "catch" THEN <<i + 2>>
               ELSE IF p[i].op = "operand" THEN p[i - 1].to ELSE p[i].to,
        arg |-> p[i].arg]]

Pop(s) == SubSeq(s, 1, Len(s) - 1)
Top(s) == s[Len(s)]

(* What the interpreter does: configurations of an instruction and the     *)
(* contexts it is executed in, a catch with the place of its handler.      *)
Steps(p, i, c) ==
    CASE p[i].op = "catch" -> {<<i + 1, c>>, <<i + 2, Append(c, i + 1)>>}
      [] p[i].op \in {"jump", "caught", "switch"} -> {<<j, c>> : j \in Targets(p, i)}
      [] p[i].op = "branch" -> {<<i + 1, c>>, <<p[i].to[1], c>>}
      [] p[i].op = "rlimits" -> {<<i + 1, Append(c, 0)>>}
      [] p[i].op = "return" -> IF c = <<>> THEN {} ELSE {<<i + 1, Pop(c)>>}
      [] OTHER -> {<<i + 1, c>>}

Executed(p) ==
    LET Further(S) == S \cup UNION {Steps(p, e[1], e[2]) : e \in {e \in S : e[1] \in 1 .. Len(p)}}
        R[n \in 0 .. Len(p)] == IF n = 0 THEN {<<1, <<>>>>} ELSE Further(R[n - 1])
    IN  R[Len(p)]

(* An instruction is executed in the same contexts however it is reached,  *)
(* and what is executed is all in the code.                                *)
Balanced(p) ==
    LET E == Executed(p)
    IN  \A e \in E :
          /\ e[1] \in 1 .. Len(p) /\ Steps(p, e[1], e[2]) \subseteq E
          /\ \A f \in E : e[1] = f[1] => e[2] = f[2]

(* Contexts by their names, the handler of the innermost catch (0 if there *)
(* is none), and what a RETURN is in them.                                 *)
Names(c) == [j \in 1 .. Len(c) |-> IF c[j] = 0 THEN "rlimits" ELSE "catch"]
InnerCatch(c) ==
    LET catches == {j \in 1 .. Len(c) : c[j] # 0}
    IN  IF catches = {} THEN 0 ELSE c[CHOOSE j \in catches : \A l \in catches : l <= j]
Ended(c) == IF c = <<>> THEN "return" ELSE IF Top(c) = 0 THEN "endrlimits" ELSE "endcatch"

ASSUME ProgramsAssumption ==
    \A p \in Programs : p \in Seq([op : Ops, to : Seq(Nat), arg : Args]) /\ WellFormed(p)
ASSUME OpsAssumption == Ops \cap {"caught", "endcatch", "endrlimits"} = {}
ASSUME BalancedAssumption == \A p \in Programs : Balanced(WithCaught(p))

VARIABLES
    code,          \* the instructions
    last, next,    \* of each block: its last instruction, the next block
    to, from,      \* the blocks that follow and precede it
    dflt,          \* blocks that are the default of a switch
    sp, caught,    \* of each block: the contexts at its start, the innermost catch
    nFrom,         \* how many edges lead to it
    phase, list,   \* the pass, and the blocks to be visited
    cur, at, k,    \* the block that is visited, where in its code, which of its edges
    here, handler  \* contexts and catch at that point

graph == <<code, last, next, to, from, dflt, sp, caught, nFrom>>
cursor == <<phase, list, cur, at, k, here, handler>>
blockVars == <<graph, cursor>>

N == Len(code)
Addr == 1 .. N
Invalid == <<"invalid">>

-----------------------------------------------------------------------------
Init ==
    /\ \E p \in Programs : code = WithCaught(p)
    /\ last = [b \in Addr |-> IF b = 1 THEN N ELSE 0]
    /\ next = [b \in Addr |-> 0]
    /\ to = [b \in Addr |-> <<>>] /\ from = to /\ dflt = {}
    /\ sp = [b \in Addr |-> Invalid] /\ caught = [b \in Addr |-> 0]
    /\ nFrom = [b \in Addr |-> 0]
    /\ phase = "pass1" /\ list = <<>> /\ cur = 1 /\ at = 1 /\ k = 1
    /\ here = <<>> /\ handler = 0

Blocks == {b \in Addr : last[b] # 0}
Find(a) == CHOOSE b \in Blocks : b <= a /\ a <= last[b]

(* split(): the block that a is in is cut in two, unless it starts there.  *)
LastAfter_Unshortened(a) == [last EXCEPT ![a] = last[Find(a)]]
LastAfter(a) == [last EXCEPT ![Find(a)] = IF Find(a) = a THEN @ ELSE a - 1, ![a] = last[Find(a)]]
NextAfter(a) == [next EXCEPT ![Find(a)] = IF Find(a) = a THEN @ ELSE a, ![a] = next[Find(a)]]
ToAfter_Kept(a) == [to EXCEPT ![a] = to[Find(a)]]
ToAfter(a) == [to EXCEPT ![Find(a)] = IF Find(a) = a THEN @ ELSE <<>>, ![a] = to[Find(a)]]

Split(a) == last' = LastAfter(a) /\ next' = NextAfter(a) /\ to' = ToAfter(a)

-----------------------------------------------------------------------------
(* pass1(), one split at a time.                                           *)
SplitTarget ==
    /\ phase = "pass1" /\ at <= N /\ k <= Len(code[at].to)
    /\ Split(code[at].to[k])
    /\ k' = k + 1
    /\ UNCHANGED <<code, from, dflt, sp, caught, nFrom, phase, list, cur, at, here, handler>>

(* After the targets: the next instruction starts a block, and the blocks  *)
(* that follow are known.                                                  *)
Follow(i) == IF code[i].op \in {"branch", "catch"} THEN <<i + 1>> \o code[i].to ELSE code[i].to

SetFollow ==
    /\ phase = "pass1" /\ at <= N /\ k > Len(code[at].to) /\ code[at].to # <<>>
    /\ IF at < N
         THEN /\ last' = LastAfter(at + 1) /\ next' = NextAfter(at + 1)
              /\ to' = [ToAfter(at + 1) EXCEPT ![Find(at)] = Follow(at)]
         ELSE /\ to' = [to EXCEPT ![Find(at)] = Follow(at)]
              /\ UNCHANGED <<last, next>>
    /\ dflt' = IF code[at].op = "switch" THEN dflt \cup {code[at].to[1]} ELSE dflt
    /\ at' = at + 1 /\ k' = 1
    /\ UNCHANGED <<code, from, sp, caught, nFrom, phase, list, cur, here, handler>>

SkipPlain ==
    /\ phase = "pass1" /\ at <= N /\ code[at].to = <<>>
    /\ at' = at + 1 /\ k' = 1
    /\ UNCHANGED <<graph, phase, list, cur, here, handler>>

Pass1Done ==
    /\ phase = "pass1" /\ at > N
    /\ phase' = "pass2" /\ cur' = 1 /\ at' = 1 /\ k' = 1
    /\ sp' = [sp EXCEPT ![1] = <<>>]
    /\ UNCHANGED <<code, last, next, to, from, dflt, caught, nFrom, list, here, handler>>

-----------------------------------------------------------------------------
(* The list of blocks to visit is a stack; the first block of the function *)
(* is not put on it, nor one that is there already.                        *)
Listed(b, l) == IF b = 1 \/ \E i \in 1 .. Len(l) : l[i] = b THEN l ELSE <<b>> \o l
ToVisit(b) == Listed(b, list)

(* nextVisit(), or the end of a pass.                                      *)
NextVisit(following) ==
    /\ IF list # <<>>
         THEN cur' = Head(list) /\ list' = Tail(list) /\ phase' = phase
         ELSE cur' = 1 /\ list' = <<>> /\ phase' = following
    /\ k' = IF phase' = "pass3" THEN 0 ELSE 1

-----------------------------------------------------------------------------
(* pass2(), one instruction at a time.                                     *)
Popped(s) == Pop(s)

Push(context) ==
    /\ here' = Append(here, context)
    /\ UNCHANGED <<code, last, next, to, handler>>

EndCatch(h) == caught[h]

Returns ==
    IF here = <<>>
      THEN /\ IF at # last[cur] THEN Split(at + 1) ELSE UNCHANGED <<last, next, to>>
           /\ UNCHANGED <<code, here, handler>>
      ELSE /\ code' = [code EXCEPT ![at].op = IF Top(here) = "catch" THEN "endcatch" ELSE "endrlimits"]
           /\ handler' = IF Top(here) = "catch" THEN EndCatch(handler) ELSE handler
           /\ here' = Popped(here)
           /\ UNCHANGED <<last, next, to>>

Scan ==
    /\ phase = "pass2" /\ at <= last[cur]
    /\ CASE code[at].op = "catch" -> Push("catch")
         [] code[at].op = "rlimits" -> Push("rlimits")
         [] code[at].op = "return" -> Returns
         [] OTHER -> UNCHANGED <<code, last, next, to, here, handler>>
    /\ at' = at + 1 /\ k' = 1
    /\ UNCHANGED <<from, dflt, sp, caught, nFrom, phase, list, cur>>

(* The blocks that may come next, with their contexts: the handler of a    *)
(* CATCH is outside of it.                                                 *)
Successors ==
    IF to[cur] # <<>> THEN to[cur]
    ELSE IF next[cur] # 0 /\ code[last[cur]].op # "return" THEN <<next[cur]>>
    ELSE <<>>
IsCatch == code[last[cur]].op = "catch"
ContextOf_Inside(i) == here
ContextOf(i) == IF IsCatch /\ i = 1 THEN Pop(here) ELSE here
CatchOf(i) == IF IsCatch /\ i = 2 THEN Successors[1] ELSE handler

(* toVisitOnce() for one of them.                                          *)
VisitOnce ==
    /\ phase = "pass2" /\ at > last[cur] /\ k <= Len(Successors)
    /\ LET b == Successors[k]
       IN  IF sp[b] = Invalid
             THEN /\ sp' = [sp EXCEPT ![b] = ContextOf(k)]
                  /\ caught' = [caught EXCEPT ![b] = CatchOf(k)]
                  /\ list' = ToVisit(b)
             ELSE /\ caught' = IF IsCatch /\ k = 1 THEN [caught EXCEPT ![b] = handler] ELSE caught
                  /\ UNCHANGED <<sp, list>>
    /\ k' = k + 1
    /\ UNCHANGED <<code, last, next, to, from, dflt, nFrom, phase, cur, at, here, handler>>

Visited2 ==
    /\ phase = "pass2" /\ at > last[cur] /\ k > Len(Successors)
    /\ NextVisit("pass3")
    /\ at' = cur' /\ here' = sp[cur'] /\ handler' = caught[cur']
    /\ nFrom' = IF phase' = "pass3" THEN [nFrom EXCEPT ![1] = 1] ELSE nFrom
    /\ UNCHANGED <<code, last, next, to, from, dflt, sp, caught>>

-----------------------------------------------------------------------------
(* pass3(): the edges of a block, made explicit if it just goes on to the  *)
(* next, and taken past a JUMP.                                            *)
Through(i) == IF code[i].op = "jump" THEN code[i].to[1] ELSE i

Threaded(b) ==
    LET i == last[b]
    IN  CASE code[i].op = "branch" -> <<Through(i + 1), to[b][2]>>
          [] code[i].op = "catch" -> <<to[b][1], Through(to[b][2])>>
          [] code[i].op \in {"jump", "caught", "switch", "return"} -> to[b]
          [] OTHER -> <<Find(Through(i + 1))>>

Thread ==
    /\ phase = "pass3" /\ k = 0
    /\ to' = [to EXCEPT ![cur] = Threaded(cur)]
    /\ k' = 1
    /\ UNCHANGED <<code, last, next, from, dflt, sp, caught, nFrom, phase, list, cur, at, here, handler>>

CountEdge ==
    /\ phase = "pass3" /\ k \in 1 .. Len(to[cur])
    /\ LET b == to[cur][k]
       IN  /\ nFrom' = [nFrom EXCEPT ![b] = @ + 1]
           /\ list' = IF nFrom[b] = 0 THEN ToVisit(b) ELSE list
    /\ k' = k + 1
    /\ UNCHANGED <<code, last, next, to, from, dflt, sp, caught, phase, cur, at, here, handler>>

(* While they are counted, the first block has one more.                   *)
Visited3 ==
    /\ phase = "pass3" /\ k > Len(to[cur])
    /\ NextVisit("pass4")
    /\ nFrom' = IF phase' = "pass4" THEN [nFrom EXCEPT ![1] = @ - 1] ELSE nFrom
    /\ UNCHANGED <<code, last, next, to, from, dflt, sp, caught, at, here, handler>>

-----------------------------------------------------------------------------
(* pass4(): from[] is allocated, for as many edges as were counted, when   *)
(* the first one is met.                                                   *)
BackEdge ==
    /\ phase = "pass4" /\ k <= Len(to[cur])
    /\ LET b == to[cur][k]
       IN  /\ from' = [from EXCEPT ![b] = Append(@, cur)]
           /\ list' = IF from[b] = <<>> THEN ToVisit(b) ELSE list
    /\ k' = k + 1
    /\ UNCHANGED <<code, last, next, to, dflt, sp, caught, nFrom, phase, cur, at, here, handler>>

Visited4 ==
    /\ phase = "pass4" /\ k > Len(to[cur])
    /\ NextVisit("graph")
    /\ UNCHANGED <<graph, at, here, handler>>

Next ==
    \/ SplitTarget \/ SetFollow \/ SkipPlain \/ Pass1Done
    \/ Scan \/ VisitOnce \/ Visited2
    \/ Thread \/ CountEdge \/ Visited3
    \/ BackEdge \/ Visited4

Spec == Init /\ [][Next]_blockVars /\ WF_blockVars(Next)

-----------------------------------------------------------------------------
TypeOK ==
    /\ \A i \in Addr : code[i].to \in Seq(Addr)
    /\ last \in [Addr -> 0 .. N] /\ next \in [Addr -> 0 .. N] /\ caught \in [Addr -> 0 .. N]
    /\ to \in [Addr -> Seq(Addr)] /\ from \in [Addr -> Seq(Addr)] /\ dflt \subseteq Addr
    /\ nFrom \in [Addr -> Nat] /\ sp \in [Addr -> Seq({"catch", "rlimits", "invalid"})]
    /\ phase \in {"pass1", "pass2", "pass3", "pass4", "graph"}
    /\ list \in Seq(Addr) /\ cur \in Addr /\ at \in 1 .. N + 1 /\ k \in Nat
    /\ here \in Seq({"catch", "rlimits"}) /\ handler \in 0 .. N

(* However often blocks are split, they follow one another in the order of *)
(* the code, and every instruction is in one of them.                      *)
Partition ==
    /\ 1 \in Blocks
    /\ \A b \in Blocks :
          /\ b <= last[b]
          /\ next[b] = IF last[b] = N THEN 0 ELSE last[b] + 1
          /\ next[b] # 0 => next[b] \in Blocks
          /\ \A c \in Blocks : b < c => last[b] < c
    /\ \A a \in Addr : \E b \in Blocks : b <= a /\ a <= last[b]

(* After the first pass a block is left only at its end and entered only   *)
(* at its start.                                                           *)
Straight ==
    phase # "pass1" =>
      \A i \in Addr : code[i].to # <<>> =>
         /\ \A j \in 1 .. Len(code[i].to) : code[i].to[j] \in Blocks
         /\ i < N => i + 1 \in Blocks

(* pass2() does not come to the end of a function in a catch or rlimits.   *)
ReturnsMatch ==
    phase = "pass2" /\ at > last[cur] /\ Successors = <<>> => here = <<>>

-----------------------------------------------------------------------------
(* The code as it was before pass2(), which gives names to some RETURNs.   *)
Original ==
    [i \in Addr |-> [code[i] EXCEPT !.op = IF @ \in {"endcatch", "endrlimits"} THEN "return" ELSE @]]

(* pass2() knows the contexts of whatever the interpreter executes: where  *)
(* a block starts, and what a RETURN ends.                                 *)
ContextsRight ==
    phase \in {"pass3", "pass4", "graph"} =>
      \A e \in Executed(Original) :
        LET i == e[1]  c == e[2]
        IN  /\ i \in Blocks => sp[i] = Names(c) /\ caught[i] = InnerCatch(c)
            /\ Original[i].op = "return" => code[i].op = Ended(c)

(* Where the interpreter gets to from i before it executes anything but    *)
(* jumps; 0 if it never does.                                              *)
Landing(i) ==
    LET L[n \in 0 .. N] == IF n = 0 THEN i ELSE Through(L[n - 1])
    IN  IF code[L[N]].op = "jump" THEN 0 ELSE L[N]

(* The edges of the graph lead where the interpreter goes, but for jumps,  *)
(* and the blocks that are reached have all that it executes.              *)
EdgesRight ==
    phase = "graph" =>
      LET reached == {b \in Blocks : b = 1 \/ nFrom[b] > 0}
          executed == Executed(Original)
      IN  /\ \A b \in reached : \A e \in {e \in executed : e[1] = last[b]} :
                {Landing(to[b][j]) : j \in 1 .. Len(to[b])}
                  = {Landing(d[1]) : d \in Steps(Original, e[1], e[2])}
          /\ \A e \in executed : code[e[1]].op # "jump" => Find(e[1]) \in reached

(* from[] has the edges of to[], as many as were counted and no more.      *)
EdgesTurned ==
    /\ phase = "pass4" => \A b \in Blocks : Len(from[b]) <= nFrom[b]
    /\ phase = "graph" =>
         \A b, c \in Blocks :
           /\ Len(from[b]) = nFrom[b]
           /\ nFrom[c] > 0 \/ c = 1 =>
                Len(SelectSeq(from[b], LAMBDA f : f = c)) = Len(SelectSeq(to[c], LAMBDA t : t = b))

(* The passes end.                                                         *)
Finishes == <>(phase = "graph")
=============================================================================
