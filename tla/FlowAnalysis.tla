---------------------------- MODULE FlowAnalysis ----------------------------
(* Which value of a variable an instruction reads, by flow.cpp: blocks are *)
(* asked for the variables they need from those before them, which flows   *)
(* back, and then told where they were set, which flows forward.           *)
(*                                                                         *)
(* A value is known by the instruction that sets it, or as minus the block *)
(* where several are merged.                                               *)
EXTENDS TypedAnalysis, Integers, FiniteSets

VARIABLES in, out       \* of each block: the values of variables at its start, and those it sets

flowVars == <<in, out>>
everything == <<allVars, flowVars>>

Initial == 131072       \* FlowContext::INITIAL
Needed == 131073        \* FlowContext::NEEDED

-----------------------------------------------------------------------------
(* FlowCode::evaluateFlow(): what is set and read by an instruction.       *)
Sets(i) ==
    CASE code[i].op = "caught" -> ctx.mod[i]
      [] code[i].op \in {"store", "assign", "storesvar", "storesitem"} -> {code[i].arg.v} \cap Vars
      [] OTHER -> {}
Reads(i) ==
    IF code[i].op \in {"load", "storesvar", "storesitem"} THEN {code[i].arg.v} \cap Vars ELSE {}

(* The last instruction before i that sets a variable, in the same block.  *)
LastSet(b, i, v) ==
    LET sets == {j \in b .. i - 1 : v \in Sets(j)}
    IN  IF sets = {} THEN 0 ELSE CHOOSE j \in sets : \A l \in sets : l <= j

(* FlowBlock::localOut(), and the value that an instruction reads.         *)
Out(b, v) == IF out[b][v] # 0 THEN out[b][v] ELSE in[b][v]
Ref(b, i, v) == IF LastSet(b, i, v) # 0 THEN LastSet(b, i, v) ELSE in[b][v]

(* The first block is visited, too.                                        *)
AllListed(b, l) == IF \E i \in 1 .. Len(l) : l[i] = b THEN l ELSE <<b>> \o l
ListedIf(test(_), blocks, l) ==
    LET L[i \in 0 .. Len(blocks)] ==
          IF i = 0 THEN l ELSE IF test(blocks[i]) THEN AllListed(blocks[i], L[i - 1]) ELSE L[i - 1]
    IN  L[Len(blocks)]

(* A loop over all blocks in the order of the code.                        *)
GoThrough(following) ==
    IF next[cur] # 0 THEN cur' = next[cur] /\ phase' = phase
    ELSE cur' = 1 /\ phase' = following

-----------------------------------------------------------------------------
StartFlow ==
    /\ phase = "typed"
    /\ phase' = "uses" /\ cur' = 1 /\ list' = <<>>
    /\ UNCHANGED <<graph, typedVars, flowVars, at, k, here, handler>>

EvaluateFlow ==
    /\ phase = "uses"
    /\ out' = [out EXCEPT ![cur] = [v \in Vars |-> LastSet(cur, last[cur] + 1, v)]]
    /\ in' = [in EXCEPT ![cur] = [v \in Vars |->
                IF \E i \in cur .. last[cur] : v \in Reads(i) /\ LastSet(cur, i, v) = 0 THEN Needed ELSE 0]]
    /\ list' = IF \E v \in Vars : in'[cur][v] # 0 THEN AllListed(cur, list) ELSE list
    /\ GoThrough("inputs")
    /\ UNCHANGED <<graph, typedVars, at, k, here, handler>>

(* evaluateInputs() of the blocks before one that needs a variable.        *)
Lacks_Again(f, v) == out[f][v] = 0
Lacks(f, v) == in[f][v] = 0 /\ out[f][v] = 0
Precede(f, b) == \E j \in 1 .. nFrom[b] : from[b][j] = f

EvaluateInputs ==
    /\ phase = "inputs" /\ list # <<>>
    /\ LET b == Head(list)
           asked(f, v) == in[b][v] # 0 /\ Lacks(f, v)
       IN  /\ in' = [f \in Addr |-> [v \in Vars |-> IF Precede(f, b) /\ asked(f, v) THEN Needed ELSE in[f][v]]]
           /\ list' = ListedIf(LAMBDA f : \E v \in Vars : asked(f, v), from[b], Tail(list))
    /\ UNCHANGED <<graph, typedVars, out, phase, cur, at, k, here, handler>>

InputsDone ==
    /\ phase = "inputs" /\ list = <<>>
    /\ in' = [in EXCEPT ![1] = [v \in Vars |-> IF @[v] # 0 THEN Initial ELSE 0]]
    /\ phase' = "outputs" /\ cur' = 1
    /\ UNCHANGED <<graph, typedVars, out, list, at, k, here, handler>>

(* evaluateOutputs() of a block that follows one with value r.             *)
Alone_Counted(b) == nFrom[b] <= 1
Alone(b) == nFrom[b] + (IF b = 1 THEN 1 ELSE 0) <= 1

NewIn(b, v, r) ==
    IF in[b][v] \in {0, - b, r} \/ r \in {0, Needed} THEN in[b][v]
    ELSE IF in[b][v] = Needed \/ Alone(b) THEN r
    ELSE - b

Follows(b, f) == \E j \in 1 .. Len(to[f]) : to[f][j] = b
Tell(f, l) ==
    /\ in' = [b \in Addr |-> [v \in Vars |-> IF Follows(b, f) THEN NewIn(b, v, Out(f, v)) ELSE in[b][v]]]
    /\ list' = ListedIf(LAMBDA b : in'[b] # in[b], to[f], l)

EvaluateOutputs ==
    /\ phase = "outputs"
    /\ Tell(cur, list)
    /\ GoThrough("forward")
    /\ UNCHANGED <<graph, typedVars, out, at, k, here, handler>>

FlowForward ==
    /\ phase = "forward" /\ list # <<>>
    /\ Tell(Head(list), Tail(list))
    /\ UNCHANGED <<graph, typedVars, out, phase, cur, at, k, here, handler>>

FlowDone ==
    /\ phase = "forward" /\ list = <<>>
    /\ phase' = "flow"
    /\ UNCHANGED <<graph, typedVars, flowVars, list, cur, at, k, here, handler>>

FlowInit ==
    /\ TypedInit
    /\ in = [b \in Addr |-> [v \in Vars |-> 0]] /\ out = in

FlowNext ==
    \/ TypedNext /\ UNCHANGED flowVars
    \/ StartFlow \/ EvaluateFlow \/ EvaluateInputs \/ InputsDone
    \/ EvaluateOutputs \/ FlowForward \/ FlowDone

FlowSpec == FlowInit /\ [][FlowNext]_everything /\ WF_everything(FlowNext)

-----------------------------------------------------------------------------
(* What the interpreter does, and which value of a variable compiled code  *)
(* has: the last one that was stored is in real, the one that the analysis *)
(* refers to in found; both are known by the instruction that stored it.   *)
(* A catch has the value that was found where it begins.                   *)
Wrong == -1
Entered(b, f, found) ==
    [v \in Vars |-> IF in[b][v] # 0 /\ in[b][v] \in {- b, Out(f, v)} THEN found[v] ELSE Wrong]

Known(e) ==
    [v \in Vars |-> IF v \in Sets(e.i) THEN (IF code[e.i].op = "caught" THEN e.real[v] ELSE e.i) ELSE e.found[v]]
Stored(e) ==
    [v \in Vars |-> IF v \in Sets(e.i) /\ code[e.i].op # "caught" THEN e.i ELSE e.real[v]]

After(e) ==
    LET op == code[e.i].op
        b == Find(e.i)
        f == [e EXCEPT !.real = Stored(e), !.found = Known(e)]
        g == CASE op = "catch" -> [f EXCEPT !.handlers = Append(@, <<e.i + 1, Entered(e.i + 1, b, f.found)>>)]
               [] op = "endcatch" -> [f EXCEPT !.handlers = Pop(@)]
               [] OTHER -> f
    IN  IF e.i < last[b] THEN {[g EXCEPT !.i = @ + 1]}
        ELSE {[g EXCEPT !.i = to[b][j], !.found = Entered(to[b][j], b, @)] :
                j \in {j \in 1 .. Len(to[b]) : op = "catch" => j = 2}}

Thrown(e) ==
    IF code[e.i].op = "call" /\ e.handlers # <<>>
      THEN {[e EXCEPT !.i = Top(e.handlers)[1], !.found = Top(e.handlers)[2], !.handlers = Pop(@)]}
      ELSE {}

RECURSIVE FollowFrom(_, _)
FollowFrom(done, new) ==
    IF new = {} THEN done
    ELSE LET more == UNION {After(e) \cup Thrown(e) : e \in new}
         IN  FollowFrom(done \cup new, more \ (done \cup new))
Executions ==
    FollowFrom({}, {[i |-> 1, handlers |-> <<>>, real |-> [v \in Vars |-> 0],
                     found |-> [v \in Vars |-> IF in[1][v] \in {-1, Initial} THEN 0 ELSE Wrong]]})

-----------------------------------------------------------------------------
FlowTypeOK ==
    /\ in \in [Addr -> [Vars -> {0, Initial, Needed} \cup Addr \cup {- c : c \in Addr}]]
    /\ out \in [Addr -> [Vars -> 0 .. N]]

(* Whatever is executed, an instruction reads the value that was stored    *)
(* last, by way of the value that its block, or the one before that, or    *)
(* the merging of several, refers to.                                      *)
RefsRight ==
    phase = "flow" => \A e \in Executions : \A v \in Reads(e.i) : e.found[v] = e.real[v]

(* A block has a variable from those before it just if it, or one that     *)
(* comes after it, reads the variable before it is set.                    *)
InputsLive ==
    phase = "flow" =>
      \A v \in Vars :
        LET reads == {b \in Blocks : \E i \in b .. last[b] : v \in Reads(i) /\ LastSet(b, i, v) = 0}
            L[n \in 0 .. Cardinality(Blocks)] ==
              IF n = 0 THEN reads
              ELSE LET later == L[n - 1]
                   IN  later \cup {b \in Blocks : out[b][v] = 0 /\ \E c \in later : Precede(b, c)}
        IN  {b \in Blocks : in[b][v] # 0} = L[Cardinality(Blocks)]

(* The analysis ends.                                                      *)
FlowFound == <>(phase = "flow")
=============================================================================
