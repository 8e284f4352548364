------------------------------ MODULE BlockTree ------------------------------
(* Block::find() and Block::split(): the blocks of a function are in a     *)
(* binary tree in the order of their addresses, in which every search      *)
(* moves the block that was found to the root, on the way down.  What is   *)
(* left and right of the path is collected under a header on the stack.    *)
(*                                                                         *)
(* A block is called by its first address; addresses start at 1.           *)
EXTENDS Naturals, Sequences

CONSTANT Size      \* addresses of the function
ASSUME SizeAssumption == Size \in Nat \ {0}

Address == 1 .. Size
Null == 0
Header == Size + 1
Nodes == Address \cup {Header}
Pointers == Nodes \cup {Null}

VARIABLES
    size, left, right,   \* of each block
    root,                \* the block that was found last
    pc, addr, cut,       \* whether there is a search, for what, and whether to split
    n, l, r              \* where the search is, and what was collected last

treeVars == <<size, left, right, root, pc, addr, cut, n, l, r>>

Init ==
    /\ size = [b \in Nodes |-> IF b = 1 THEN Size ELSE 0]
    /\ left = [b \in Nodes |-> Null] /\ right = left
    /\ root = 1 /\ pc = "idle" /\ addr = 1 /\ cut = FALSE
    /\ n = 1 /\ l = Header /\ r = Header

Blocks == {b \in Address : size[b] > 0}

-----------------------------------------------------------------------------
Find(a, c) ==
    /\ pc = "idle"
    /\ pc' = "search" /\ addr' = a /\ cut' = c
    /\ n' = root /\ l' = Header /\ r' = Header
    /\ left' = [left EXCEPT ![Header] = Null] /\ right' = [right EXCEPT ![Header] = Null]
    /\ UNCHANGED <<size, root>>

(* The end of block b is after addr.                                       *)
Reaches_OneMore(b) == b + size[b] >= addr
Reaches(b) == b + size[b] > addr
Found == pc' = "found" /\ UNCHANGED <<size, root, addr, cut>>
GoOn == pc' = pc /\ UNCHANGED <<size, root, addr, cut>>

Here ==
    /\ pc = "search" /\ n <= addr /\ Reaches(n)
    /\ Found
    /\ UNCHANGED <<left, right, n, l, r>>

(* addr is after n, and not after the end of t: n is left of the path.     *)
StepRight ==
    LET t == right[n]
    IN  /\ pc = "search" /\ n <= addr /\ ~Reaches(n) /\ Reaches(t)
        /\ right' = [right EXCEPT ![l] = n]
        /\ l' = n /\ n' = t
        /\ IF t <= addr THEN Found ELSE GoOn
        /\ UNCHANGED <<left, r>>

(* After t as well: both are left of the path, t above n.                  *)
RotateRight ==
    LET t == right[n]
    IN  /\ pc = "search" /\ n <= addr /\ ~Reaches(n) /\ ~Reaches(t)
        /\ right' = [right EXCEPT ![n] = left[t], ![l] = t]
        /\ left' = [left EXCEPT ![t] = n]
        /\ l' = t /\ n' = right[t]
        /\ GoOn
        /\ UNCHANGED r

StepLeft ==
    LET t == left[n]
    IN  /\ pc = "search" /\ n > addr /\ t <= addr
        /\ left' = [left EXCEPT ![r] = n]
        /\ r' = n /\ n' = t
        /\ GoOn
        /\ UNCHANGED <<right, l>>

RotateLeft ==
    LET t == left[n]
    IN  /\ pc = "search" /\ n > addr /\ t > addr
        /\ left' = [left EXCEPT ![n] = right[t], ![r] = t]
        /\ right' = [right EXCEPT ![t] = n]
        /\ r' = t /\ n' = left[t]
        /\ GoOn
        /\ UNCHANGED l

-----------------------------------------------------------------------------
(* What was collected becomes the subtrees of the block that was found; if *)
(* it is split, its second part becomes the root, above the first.         *)
RightAfter == [right EXCEPT ![l] = left[n]]
LeftAfter == [left EXCEPT ![r] = right[n]]

CutOff(b) ==
    /\ size' = [size EXCEPT ![b] = addr - b, ![addr] = size[b] - (addr - b)]
    /\ left' = [LeftAfter EXCEPT ![b] = RightAfter[Header], ![addr] = b]
    /\ right' = [RightAfter EXCEPT ![b] = Null, ![addr] = LeftAfter[Header]]
    /\ root' = addr

Return ==
    /\ pc = "found"
    /\ IF cut /\ n < addr
         THEN CutOff(n)
         ELSE /\ right' = [RightAfter EXCEPT ![n] = LeftAfter[Header]]
              /\ left' = [LeftAfter EXCEPT ![n] = RightAfter[Header]]
              /\ root' = n
              /\ UNCHANGED size
    /\ pc' = "idle"
    /\ UNCHANGED <<addr, cut, n, l, r>>

Search == Here \/ StepRight \/ RotateRight \/ StepLeft \/ RotateLeft \/ Return
Next == (\E a \in Address, c \in BOOLEAN : Find(a, c)) \/ Search

Spec == Init /\ [][Next]_treeVars /\ WF_treeVars(Search)

-----------------------------------------------------------------------------
TypeOK ==
    /\ size \in [Nodes -> 0 .. Size] /\ left \in [Nodes -> Pointers] /\ right \in [Nodes -> Pointers]
    /\ root \in Address /\ pc \in {"idle", "search", "found"} /\ addr \in Address /\ cut \in BOOLEAN
    /\ n \in Address /\ l \in Nodes /\ r \in Nodes

(* The blocks of a tree from left to right, to a depth no tree exceeds.    *)
InOrder(t) ==
    LET W[d \in 0 .. Size] ==
          [b \in Pointers |-> IF d = 0 \/ b = Null THEN <<>>
                              ELSE W[d - 1][left[b]] \o <<b>> \o W[d - 1][right[b]]]
    IN  W[Size][t]

(* No search or split loses a block or puts it out of order, and together  *)
(* they have every address once.                                           *)
TreeOrdered ==
    pc = "idle" =>
      LET s == InOrder(root)
      IN  /\ {s[i] : i \in 1 .. Len(s)} = Blocks
          /\ \A i \in 1 .. Len(s) : s[i] + size[s[i]] = IF i = Len(s) THEN Size + 1 ELSE s[i + 1]
          /\ s # <<>> /\ s[1] = 1

(* A search that stops has found the block that has the address, which is  *)
(* at the root afterwards, and begins with it if it was to be split there. *)
FindsBlock ==
    /\ pc = "found" => n <= addr /\ n + size[n] > addr
    /\ pc = "idle" => root <= addr /\ root + size[root] > addr /\ (cut => root = addr)

(* The loop ends.                                                          *)
SearchEnds == pc # "idle" ~> pc = "idle"
=============================================================================
