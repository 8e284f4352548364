-------------------------- MODULE BlockTreeProofs --------------------------
(***************************************************************************)
(* Block::find() and Block::split() keep the blocks in a search tree, and  *)
(* find the block that has an address, for a function of any size and any  *)
(* sequence of searches and splits.                                        *)
(***************************************************************************)
EXTENDS BlockTree, TLAPS

-----------------------------------------------------------------------------
(* A search tree: each block b is labelled with the addresses lo[b] up to  *)
(* hi[b] that its subtree covers, and with its parent.                     *)
BlocksOf(S) == {b \in Address : S[b] > 0}

LeftOK(b, S, L, lo, hi, par) ==
    IF L[b] = Null THEN lo[b] = b
    ELSE L[b] \in BlocksOf(S) /\ lo[L[b]] = lo[b] /\ hi[L[b]] = b /\ par[L[b]] = b

RightOK(b, S, R, lo, hi, par) ==
    IF R[b] = Null THEN hi[b] = b + S[b]
    ELSE R[b] \in BlocksOf(S) /\ lo[R[b]] = b + S[b] /\ hi[R[b]] = hi[b] /\ par[R[b]] = b

(* A label that is not known before the search ends.                       *)
OpenLo == 0
OpenHi == Size + 2

Labels(S, lo, hi, par) ==
    /\ lo \in [Nodes -> 0 .. Size + 1] /\ hi \in [Nodes -> 1 .. Size + 2] /\ par \in [Nodes -> Pointers]
    /\ \A b \in BlocksOf(S) : lo[b] <= b /\ b + S[b] <= hi[b]

Labelled(S, L, R, t, lo, hi, par) ==
    /\ Labels(S, lo, hi, par)
    /\ t \in BlocksOf(S) /\ lo[t] = 1 /\ hi[t] = Size + 1
    /\ \A b \in BlocksOf(S) : lo[b] # OpenLo /\ hi[b] # OpenHi
    /\ \A b \in BlocksOf(S) : LeftOK(b, S, L, lo, hi, par) /\ RightOK(b, S, R, lo, hi, par)
    /\ \A b \in BlocksOf(S) : par[b] = Null <=> b = t
    /\ \A b \in BlocksOf(S) : b # t => par[b] \in BlocksOf(S) /\ b \in {L[par[b]], R[par[b]]}

SearchTree(S, L, R, t) == \E lo, hi, par : Labelled(S, L, R, t, lo, hi, par)

(* During a search there are three: the tree that is left to search, which *)
(* has the address; and what was collected on its left and on its right,   *)
(* in which block l has no right subtree yet, and block r no left one.     *)
Child(p, b) == (left[p] = b /\ p # r) \/ (right[p] = b /\ p # l)

Remaining(lo, hi, par) ==
    /\ n \in Blocks /\ \A b \in Blocks : par[b] = Null <=> b = n
    /\ lo[n] \in 1 .. addr /\ hi[n] \in addr + 1 .. Size + 1

LeftOfPath(lo, hi, par) ==
    /\ IF l = Header THEN lo[n] = 1
       ELSE /\ l \in Blocks /\ l + size[l] = lo[n] /\ hi[l] = OpenHi
            /\ right[Header] \in Blocks /\ lo[right[Header]] = 1 /\ hi[right[Header]] = OpenHi
            /\ par[right[Header]] = Header
    /\ \A b \in Blocks : hi[b] = OpenHi => b + size[b] <= lo[n]

RightOfPath(lo, hi, par) ==
    /\ IF r = Header THEN hi[n] = Size + 1
       ELSE /\ r \in Blocks /\ r = hi[n] /\ lo[r] = OpenLo
            /\ left[Header] \in Blocks /\ hi[left[Header]] = Size + 1 /\ lo[left[Header]] = OpenLo
            /\ par[left[Header]] = Header
    /\ \A b \in Blocks : lo[b] = OpenLo => b >= hi[n]

Searching(lo, hi, par) ==
    /\ Labels(size, lo, hi, par)
    /\ Remaining(lo, hi, par)
    /\ LeftOfPath(lo, hi, par)
    /\ RightOfPath(lo, hi, par)
    /\ \A b \in Blocks : b # r => LeftOK(b, size, left, lo, hi, par)
    /\ \A b \in Blocks : b # l => RightOK(b, size, right, lo, hi, par)
    /\ \A b \in Blocks : b # n => par[b] \in Blocks \cup {Header} /\ Child(par[b], b)

(* Blocks do not overlap.                                                  *)
SizesInv ==
    /\ \A b \in Blocks : b + size[b] <= Size + 1
    /\ \A b, c \in Blocks : b < c => b + size[b] <= c

(* The blocks have every address.                                          *)
CoverInv == \A a \in Address : \E b \in Blocks : b <= a /\ a < b + size[b]

IInv ==
    /\ TypeOK
    /\ SizesInv
    /\ CoverInv
    /\ FindsBlock
    /\ pc = "idle" => SearchTree(size, left, right, root)
    /\ pc # "idle" => \E lo, hi, par : Searching(lo, hi, par)

LEMMA Constants ==
    /\ Size \in Nat /\ Size >= 1
    /\ Null = 0 /\ Header = Size + 1 /\ OpenLo = 0 /\ OpenHi = Size + 2
    /\ Address = 1 .. Size /\ Nodes = 1 .. Size + 1
    /\ Header \in Nodes /\ Header \notin Address /\ Null \notin Nodes /\ 1 \in Address
    /\ Address \subseteq Nodes /\ Nodes \subseteq Pointers /\ Null \in Pointers
BY SizeAssumption DEF Address, Null, Header, Nodes, Pointers, OpenLo, OpenHi

LEMMA TreeInit == Init => IInv
<1> SUFFICES ASSUME Init PROVE IInv
  OBVIOUS
<1> USE Constants
<1>1. \A b \in Nodes : size[b] = (IF b = 1 THEN Size ELSE 0) /\ left[b] = Null /\ right[b] = Null
  BY DEF Init
<1>2. TypeOK
  <2>1. size \in [Nodes -> 0 .. Size]
    BY DEF Init
  <2>2. left \in [Nodes -> Pointers] /\ right \in [Nodes -> Pointers]
    BY DEF Init
  <2> QED
    BY <2>1, <2>2 DEF Init, TypeOK
<1>3. Blocks = {1} /\ size[1] = Size
  BY <1>1 DEF Blocks
<1>4. SizesInv /\ CoverInv /\ FindsBlock
  <2>1. SizesInv
    BY <1>3 DEF SizesInv
  <2>2. CoverInv
    BY <1>3 DEF CoverInv
  <2>3. FindsBlock
    BY <1>3 DEF Init, FindsBlock
  <2> QED
    BY <2>1, <2>2, <2>3
<1>5. SearchTree(size, left, right, root)
  <2> DEFINE lo == [b \in Nodes |-> 1]
             hi == [b \in Nodes |-> Size + 1]
             par == [b \in Nodes |-> Null]
  <2>1. BlocksOf(size) = {1} /\ left[1] = Null /\ right[1] = Null /\ root = 1
    BY <1>1, <1>3 DEF Init, Blocks, BlocksOf
  <2>2. Labelled(size, left, right, root, lo, hi, par)
    BY <1>1, <1>3, <2>1 DEF Labelled, Labels, LeftOK, RightOK
  <2> QED
    BY <2>2 DEF SearchTree
<1> QED
  BY <1>2, <1>4, <1>5 DEF IInv, Init

LEMMA FindStep ==
    ASSUME IInv, NEW a \in Address, NEW c \in BOOLEAN, Find(a, c)
    PROVE  IInv'
<1> USE Constants
<1>1. PICK lo, hi, par : Labelled(size, left, right, root, lo, hi, par)
  BY DEF IInv, Find, SearchTree
<1>2. TypeOK'
  BY DEF IInv, TypeOK, Find
<1>3. Blocks' = Blocks /\ SizesInv' /\ CoverInv' /\ FindsBlock'
  BY DEF IInv, Find, Blocks, SizesInv, CoverInv, FindsBlock
<1>4. /\ \A b \in Blocks : left'[b] = left[b] /\ right'[b] = right[b] /\ b # Header
      /\ Blocks = BlocksOf(size) /\ n' = root /\ l' = Header /\ r' = Header /\ size' = size /\ addr' = a
  BY DEF IInv, TypeOK, Find, Blocks, BlocksOf
<1>5. Labels(size, lo, hi, par)'
  BY <1>1, <1>4 DEF Labelled, Labels
<1>6. Remaining(lo, hi, par)' /\ LeftOfPath(lo, hi, par)' /\ RightOfPath(lo, hi, par)'
  BY <1>1, <1>3, <1>4 DEF Labelled, Remaining, LeftOfPath, RightOfPath
<1>7. ASSUME NEW b \in Blocks
      PROVE  /\ LeftOK(b, size, left, lo, hi, par)' /\ RightOK(b, size, right, lo, hi, par)'
             /\ b # n' => par[b] \in Blocks \cup {Header} /\ Child(par[b], b)'
  <2>1. LeftOK(b, size, left, lo, hi, par)' /\ RightOK(b, size, right, lo, hi, par)'
    BY <1>1, <1>4 DEF Labelled, LeftOK, RightOK
  <2>2. ASSUME b # n' PROVE par[b] \in Blocks \cup {Header} /\ Child(par[b], b)'
    <3>1. par[b] \in Blocks /\ b \in {left[par[b]], right[par[b]]}
      BY <1>1, <1>4, <2>2 DEF Labelled
    <3>2. left'[par[b]] = left[par[b]] /\ right'[par[b]] = right[par[b]] /\ par[b] # Header
      BY <1>4, <3>1
    <3> QED
      BY <1>4, <3>1, <3>2 DEF Child
  <2> QED
    BY <2>1, <2>2
<1>8. Searching(lo, hi, par)'
  BY <1>3, <1>5, <1>6, <1>7 DEF Searching
<1> QED
  BY <1>2, <1>3, <1>8 DEF IInv, Find
(* What a search knows of its path...                                      *)
PathFacts(lo, hi, par) ==
    /\ \A b \in Blocks : /\ b \in Nodes /\ b \in 1 .. Size /\ size[b] \in 1 .. Size
                         /\ b + size[b] <= Size + 1
                         /\ lo[b] \in 0 .. Size + 1 /\ hi[b] \in 1 .. Size + 2
                         /\ lo[b] <= b /\ b + size[b] <= hi[b]
    /\ Blocks = BlocksOf(size) /\ addr \in 1 .. Size
    /\ lo \in [Nodes -> 0 .. Size + 1] /\ hi \in [Nodes -> 1 .. Size + 2]
    /\ par \in [Nodes -> Pointers]
    /\ n \in Blocks /\ l \in Blocks \cup {Header} /\ r \in Blocks \cup {Header}
    /\ n # l /\ n # r /\ (l = r => l = Header)
    /\ lo[n] \in 1 .. addr /\ hi[n] \in addr + 1 .. Size + 1
    /\ hi[n] # OpenHi /\ par[n] = Null

LEMMA PathKnown ==
    ASSUME IInv, pc # "idle", NEW lo, NEW hi, NEW par, Searching(lo, hi, par)
    PROVE  PathFacts(lo, hi, par)
<1> USE Constants
<1>1. Blocks = BlocksOf(size) /\ addr \in 1 .. Size
  BY DEF IInv, TypeOK, Blocks, BlocksOf
<1>2. /\ lo \in [Nodes -> 0 .. Size + 1] /\ hi \in [Nodes -> 1 .. Size + 2]
      /\ par \in [Nodes -> Pointers]
      /\ \A b \in Blocks : lo[b] <= b /\ b + size[b] <= hi[b]
  BY <1>1 DEF Searching, Labels
<1>3. \A b \in Blocks : /\ b \in Nodes /\ b \in 1 .. Size /\ size[b] \in 1 .. Size
                        /\ b + size[b] <= Size + 1
                        /\ lo[b] \in 0 .. Size + 1 /\ hi[b] \in 1 .. Size + 2
                        /\ lo[b] <= b /\ b + size[b] <= hi[b]
  <2>1. \A b \in Blocks : b \in 1 .. Size /\ size[b] \in 1 .. Size /\ b + size[b] <= Size + 1
    BY DEF IInv, TypeOK, SizesInv, Blocks
  <2> QED
    BY <1>2, <2>1
<1>4. /\ n \in Blocks /\ l \in Blocks \cup {Header} /\ r \in Blocks \cup {Header}
      /\ lo[n] \in 1 .. addr /\ hi[n] \in addr + 1 .. Size + 1
      /\ par[n] = Null
      /\ l # Header => l + size[l] = lo[n] /\ hi[l] = OpenHi
      /\ r # Header => r = hi[n] /\ lo[r] = OpenLo
  BY DEF Searching, Remaining, LeftOfPath, RightOfPath
<1>5. hi[n] # OpenHi /\ n # l /\ n # r
  BY <1>1, <1>3, <1>4
<1>6. l = r => l = Header
  BY <1>1, <1>3, <1>4
<1> QED
  BY <1>1, <1>2, <1>3, <1>4, <1>5, <1>6 DEF PathFacts

(* ...and of the links between its blocks.                                 *)
LinkFacts(lo, hi, par) ==
    /\ \A b \in Blocks : b # r => LeftOK(b, size, left, lo, hi, par)
    /\ \A b \in Blocks : b # l => RightOK(b, size, right, lo, hi, par)
    /\ \A b, c \in Blocks : b # r /\ left[b] = c => par[c] = b
    /\ \A b, c \in Blocks : b # l /\ right[b] = c => par[c] = b
    /\ \A b \in Blocks : par[b] = Null <=> b = n
    /\ \A b \in Blocks : b # n => par[b] \in Blocks \cup {Header} /\ Child(par[b], b)

LEMMA LinksKnown ==
    ASSUME IInv, pc # "idle", NEW lo, NEW hi, NEW par, Searching(lo, hi, par)
    PROVE  LinkFacts(lo, hi, par)
<1>1. Blocks = BlocksOf(size) /\ Null \notin Blocks
  BY PathKnown, Constants DEF PathFacts
<1>2. /\ \A b \in Blocks : b # r => LeftOK(b, size, left, lo, hi, par)
      /\ \A b \in Blocks : b # l => RightOK(b, size, right, lo, hi, par)
      /\ \A b \in Blocks : par[b] = Null <=> b = n
      /\ \A b \in Blocks : b # n => par[b] \in Blocks \cup {Header} /\ Child(par[b], b)
  BY DEF Searching, Remaining
<1>3. /\ \A b, c \in Blocks : b # r /\ left[b] = c => par[c] = b
      /\ \A b, c \in Blocks : b # l /\ right[b] = c => par[c] = b
  BY <1>1, <1>2 DEF LeftOK, RightOK
<1> QED
  BY <1>2, <1>3 DEF LinkFacts

(* addr is after block n: there is a right subtree, which has it.          *)
LEMMA RightSubtree ==
    ASSUME IInv, pc # "idle", NEW lo, NEW hi, NEW par, Searching(lo, hi, par), n <= addr, ~Reaches(n)
    PROVE  /\ right[n] \in Blocks /\ right[n] # n /\ right[n] # left[n]
           /\ lo[right[n]] = n + size[n] /\ n + size[n] <= addr
           /\ hi[right[n]] = hi[n] /\ par[right[n]] = n
           /\ right[n] # l /\ right[n] # r
<1>1. /\ n \in Nodes /\ n \in 1 .. Size /\ size[n] \in 1 .. Size
      /\ addr \in 1 .. Size /\ hi[n] \in addr + 1 .. Size + 1 /\ lo[n] \in 1 .. addr
      /\ n # l /\ n # r /\ n \in Blocks /\ par[n] = Null /\ Blocks = BlocksOf(size)
  BY PathKnown DEF PathFacts
<1>2. RightOK(n, size, right, lo, hi, par) /\ LeftOK(n, size, left, lo, hi, par)
  BY <1>1 DEF Searching
<1>3. n + size[n] <= addr /\ addr < hi[n]
  BY <1>1, Constants DEF Reaches
<1>4. right[n] \in Blocks /\ lo[right[n]] = n + size[n] /\ hi[right[n]] = hi[n] /\ par[right[n]] = n
  BY <1>1, <1>2, <1>3, Constants DEF RightOK
<1>5. right[n] # n /\ n # Null
  BY <1>1, <1>4, Constants
<1>6. right[n] # left[n]
  <2>1. left[n] # Null => hi[left[n]] = n
    BY <1>2 DEF LeftOK
  <2>2. hi[right[n]] # n /\ right[n] # Null
    BY <1>1, <1>3, <1>4, Constants DEF BlocksOf
  <2> QED
    BY <2>1, <2>2
<1>7. right[n] # l
  <2>1. l \in Blocks => hi[l] = OpenHi
    BY PathKnown, Constants DEF PathFacts, Searching, LeftOfPath
  <2> QED
    BY <1>1, <1>4, <2>1, Constants
<1>8. right[n] # r
  <2>1. r \in Blocks => lo[r] = OpenLo
    BY PathKnown, Constants DEF PathFacts, Searching, RightOfPath
  <2> QED
    BY <1>1, <1>4, <2>1, Constants
<1> QED
  BY <1>3, <1>4, <1>5, <1>6, <1>7, <1>8

(* The conditions of IInv that a step of the search leaves alone.          *)
LEMMA SearchGoesOn ==
    ASSUME IInv, pc # "idle", pc' # "idle", UNCHANGED <<size, root, addr, cut>>, TypeOK',
           pc' = "found" => n' <= addr /\ Reaches(n'),
           NEW lo, NEW hi, NEW par, Searching(lo, hi, par)'
    PROVE  IInv'
<1>1. Blocks' = Blocks
  BY DEF Blocks
<1>2. SizesInv' /\ CoverInv'
  BY <1>1 DEF IInv, SizesInv, CoverInv
<1>3. FindsBlock'
  BY DEF FindsBlock, Reaches
<1> QED
  BY <1>2, <1>3 DEF IInv

LEMMA HereStep ==
    ASSUME IInv, Here
    PROVE  IInv'
<1>1. pc # "idle" /\ pc' = "found" /\ UNCHANGED <<size, root, addr, cut, left, right, n, l, r>>
  BY DEF Here, Found
<1>2. PICK lo, hi, par : Searching(lo, hi, par)
  BY <1>1 DEF IInv
<1>3. Searching(lo, hi, par)'
  BY <1>1, <1>2 DEF Searching, Labels, Remaining, LeftOfPath, RightOfPath, LeftOK, RightOK, Child, Blocks
<1>4. TypeOK'
  BY <1>1 DEF IInv, TypeOK
<1>5. n' <= addr /\ Reaches(n')
  BY <1>1 DEF Here, Reaches
<1> QED
  BY <1>1, <1>3, <1>4, <1>5, SearchGoesOn

LEMMA StepRightStep ==
    ASSUME IInv, StepRight
    PROVE  IInv'
<1> DEFINE t == right[n]
<1>1. /\ pc # "idle" /\ pc' \in {"search", "found"} /\ n <= addr /\ ~Reaches(n) /\ Reaches(t)
      /\ right' = [right EXCEPT ![l] = n] /\ l' = n /\ n' = t
      /\ pc' = "found" => t <= addr
      /\ UNCHANGED <<size, root, addr, cut, left, r>>
  BY DEF StepRight, Found, GoOn
<1>2. PICK lo, hi, par : Searching(lo, hi, par)
  BY <1>1 DEF IInv
<1>3. /\ t \in Blocks /\ t # n /\ t # left[n] /\ lo[t] = n + size[n] /\ n + size[n] <= addr
      /\ hi[t] = hi[n] /\ par[t] = n /\ t # l /\ t # r
  BY <1>1, <1>2, RightSubtree
<1>4. PathFacts(lo, hi, par)
  BY <1>1, <1>2, PathKnown
<1>5. LinkFacts(lo, hi, par)
  BY <1>1, <1>2, LinksKnown
<1> USE DEF PathFacts, LinkFacts
<1>6. /\ l \in Nodes /\ \A b \in Nodes : right'[b] = IF b = l THEN n ELSE right[b]
      /\ right' \in [Nodes -> Pointers]
      /\ Blocks' = Blocks
  BY <1>1, <1>4, Constants DEF IInv, TypeOK, Blocks
<1>7. TypeOK'
  BY <1>1, <1>3, <1>4, <1>6, Constants DEF IInv, TypeOK
<1>8. PICK hi2 \in [Nodes -> 1 .. Size + 2], par2 \in [Nodes -> Pointers] :
         \A b \in Nodes : /\ hi2[b] = IF b = n THEN OpenHi ELSE hi[b]
                         /\ par2[b] = IF b = t THEN Null ELSE IF b = n THEN l ELSE par[b]
  <2> DEFINE h == [hi EXCEPT ![n] = OpenHi]
             p == [par EXCEPT ![n] = l, ![t] = Null]
  <2>1. h \in [Nodes -> 1 .. Size + 2] /\ p \in [Nodes -> Pointers]
    <3>1. OpenHi \in 1 .. Size + 2 /\ l \in Pointers /\ Null \in Pointers
      BY <1>6, Constants
    <3> QED
      BY <1>4, <3>1
  <2>2. \A b \in Nodes : /\ h[b] = IF b = n THEN OpenHi ELSE hi[b]
                         /\ p[b] = IF b = t THEN Null ELSE IF b = n THEN l ELSE par[b]
    BY <1>3, <1>4
  <2> HIDE DEF h, p
  <2> QED
    BY <2>1, <2>2
<1> HIDE DEF t
<1>9. Labels(size, lo, hi2, par2)'
  <2>1. ASSUME NEW b \in Blocks PROVE lo[b] <= b /\ b + size[b] <= hi2[b]
    <3>1. hi2[b] = hi[b] \/ hi2[b] = Size + 2
      BY <1>4, <1>8, Constants
    <3> QED
      BY <1>4, <3>1, SizeAssumption
  <2> QED
    BY <1>1, <1>4, <1>8, <2>1 DEF Labels
<1>10. Remaining(lo, hi2, par2)'
  <2>1. ASSUME NEW b \in Blocks PROVE par2[b] = Null <=> b = t
    <3>1. l # Null
      BY <1>4, Constants
    <3> QED
      BY <1>4, <1>5, <1>8, <3>1
  <2>2. lo[t] \in 1 .. addr /\ hi2[t] \in addr + 1 .. Size + 1
    <3>1. hi2[t] = hi[n] /\ lo[t] = n + size[n] /\ n \in 1 .. Size /\ size[n] \in 1 .. Size
      BY <1>3, <1>4, <1>8
    <3> QED
      BY <1>3, <1>4, <3>1, SizeAssumption
  <2> QED
    BY <1>1, <1>3, <1>6, <2>1, <2>2 DEF Remaining
<1>11. LeftOfPath(lo, hi2, par2)'
  <2>1. ASSUME NEW b \in Blocks, hi2[b] = OpenHi PROVE b + size[b] <= lo[t]
    <3>1. CASE b = n
      BY <1>3, <1>4, <3>1, SizeAssumption
    <3>2. CASE b # n
      <4>1. b + size[b] <= lo[n]
        BY <1>2, <1>4, <1>8, <2>1, <3>2 DEF Searching, LeftOfPath
      <4> QED
        BY <1>3, <1>4, <4>1, SizeAssumption
    <3> QED
      BY <3>1, <3>2
  <2>2. n + size[n] = lo[t] /\ hi2[n] = OpenHi /\ n # Header
    <3>1. n \in Nodes /\ n # Header
      BY <1>4, Constants
    <3> QED
      BY <1>3, <1>8, <3>1
  <2>3. CASE l = Header
    <3>1. right'[Header] = n /\ lo[n] = 1 /\ par2[n] = Header
      BY <1>2, <1>3, <1>4, <1>6, <1>8, <2>3, Constants DEF Searching, LeftOfPath
    <3> QED
      BY <1>1, <1>4, <1>6, <2>1, <2>2, <3>1 DEF LeftOfPath
  <2>4. CASE l # Header
    <3> DEFINE c == right[Header]
    <3>1. c \in Blocks /\ lo[c] = 1 /\ hi[c] = OpenHi /\ par[c] = Header /\ right'[Header] = c
      BY <1>2, <1>6, <2>4, Constants DEF Searching, LeftOfPath
    <3>2. c # n /\ c # t
      <4>1. par[n] # Header /\ n # Header
        BY <1>4, Constants
      <4> QED
        BY <1>3, <3>1, <4>1
    <3>3. hi2[c] = OpenHi /\ par2[c] = Header
      BY <1>4, <1>8, <3>1, <3>2
    <3> QED
      BY <1>1, <1>4, <1>6, <2>1, <2>2, <3>1, <3>3 DEF LeftOfPath
  <2> QED
    BY <2>3, <2>4
<1>12. RightOfPath(lo, hi2, par2)'
  <2>1. \A b \in Blocks : lo[b] = OpenLo => b >= hi2[t]
    BY <1>2, <1>3, <1>4, <1>8, Constants DEF Searching, RightOfPath
  <2>2. hi2[t] = hi[n]
    BY <1>3, <1>4, <1>8
  <2>3. CASE r = Header
    BY <1>1, <1>2, <1>6, <2>1, <2>2, <2>3 DEF Searching, RightOfPath
  <2>4. CASE r # Header
    <3> DEFINE c == left[Header]
    <3>1. c \in Blocks /\ hi[c] = Size + 1 /\ lo[c] = OpenLo /\ par[c] = Header /\ r \in Blocks /\ r = hi[n]
          /\ lo[r] = OpenLo
      BY <1>2, <2>4, Constants DEF Searching, RightOfPath
    <3>2. c # n /\ c # t
      <4>1. par[n] # Header /\ n # Header
        BY <1>4, Constants
      <4> QED
        BY <1>3, <3>1, <4>1
    <3>3. hi2[c] = Size + 1 /\ par2[c] = Header
      BY <1>4, <1>8, <3>1, <3>2
    <3> QED
      BY <1>1, <1>6, <2>1, <2>2, <2>4, <3>1, <3>3 DEF RightOfPath
  <2> QED
    BY <2>3, <2>4
<1>13. ASSUME NEW b \in Blocks, b # r PROVE LeftOK(b, size, left, lo, hi2, par2)'
  <2>1. ASSUME left[b] # Null PROVE left[b] # n /\ left[b] # t /\ left[b] \in Blocks
    <3>1. left[b] \in Blocks /\ par[left[b]] = b /\ b # Null
      <4>1. LeftOK(b, size, left, lo, hi, par)
        BY <1>5, <1>13
      <4> QED
        BY <1>4, <2>1, <4>1, Constants DEF LeftOK
    <3> QED
      BY <1>3, <1>4, <3>1
  <2> QED
    BY <1>1, <1>4, <1>5, <1>6, <1>8, <1>13, <2>1 DEF LeftOK
<1>14. ASSUME NEW b \in Blocks, b # n PROVE RightOK(b, size, right, lo, hi2, par2)'
  <2>1. CASE b = l
    <3>1. right'[b] = n /\ n # Null /\ lo[n] = b + size[b] /\ hi2[n] = OpenHi /\ hi2[b] = OpenHi /\ par2[n] = b
      <4>1. b # Header /\ n # Null /\ n \in Nodes /\ b \in Nodes /\ b # t /\ n # t
        BY <1>3, <1>4, <2>1, Constants
      <4>2. lo[n] = b + size[b] /\ hi[b] = OpenHi
        BY <1>2, <2>1, <4>1 DEF Searching, LeftOfPath
      <4> QED
        BY <1>6, <1>8, <1>14, <2>1, <4>1, <4>2
    <3> QED
      BY <1>1, <1>4, <3>1 DEF RightOK
  <2>2. CASE b # l
    <3>1. right'[b] = right[b] /\ RightOK(b, size, right, lo, hi, par) /\ hi2[b] = hi[b]
      BY <1>4, <1>5, <1>6, <1>8, <1>14, <2>2
    <3>2. ASSUME right[b] # Null PROVE right[b] # n /\ right[b] # t /\ right[b] \in Blocks
      <4>1. right[b] \in Blocks /\ par[right[b]] = b /\ b # Null
        BY <1>4, <3>1, <3>2, Constants DEF RightOK
      <4> QED
        BY <1>3, <1>4, <1>14, <4>1
    <3> QED
      BY <1>1, <1>4, <1>8, <3>1, <3>2 DEF RightOK
  <2> QED
    BY <2>1, <2>2
<1>15. ASSUME NEW b \in Blocks, b # t PROVE par2[b] \in Blocks \cup {Header} /\ Child(par2[b], b)'
  <2>1. CASE b = n
    BY <1>1, <1>3, <1>4, <1>6, <1>8, <2>1 DEF Child
  <2>2. CASE b # n
    <3>1. par2[b] = par[b] /\ par[b] \in Blocks \cup {Header} /\ Child(par[b], b)
      BY <1>4, <1>5, <1>8, <1>15, <2>2
    <3>2. right[n] # b
      BY <1>15 DEF t
    <3>3. par[b] \in Nodes
      BY <1>4, <3>1, Constants
    <3>4. CASE left[par[b]] = b /\ par[b] # r
      BY <1>1, <1>6, <3>1, <3>4 DEF Child
    <3>5. CASE right[par[b]] = b /\ par[b] # l
      <4>1. right'[par[b]] = b /\ par[b] # n
        BY <1>6, <3>2, <3>3, <3>5
      <4> QED
        BY <1>1, <1>6, <3>1, <4>1 DEF Child
    <3> QED
      BY <3>1, <3>4, <3>5 DEF Child
  <2> QED
    BY <2>1, <2>2
<1>16. Searching(lo, hi2, par2)'
  BY <1>1, <1>6, <1>9, <1>10, <1>11, <1>12, <1>13, <1>14, <1>15 DEF Searching
<1>17. pc' = "found" => n' <= addr /\ Reaches(n')
  BY <1>1 DEF t
<1> QED
  BY <1>1, <1>7, <1>16, <1>17, SearchGoesOn

(* addr is before block n: there is a left subtree, which has it.          *)
LEMMA LeftSubtree ==
    ASSUME IInv, pc # "idle", NEW lo, NEW hi, NEW par, Searching(lo, hi, par), n > addr
    PROVE  /\ left[n] \in Blocks /\ left[n] # n /\ left[n] # right[n]
           /\ lo[left[n]] = lo[n] /\ hi[left[n]] = n /\ par[left[n]] = n
           /\ left[n] # l /\ left[n] # r
<1>1. /\ n \in Nodes /\ n \in 1 .. Size /\ size[n] \in 1 .. Size
      /\ addr \in 1 .. Size /\ hi[n] \in addr + 1 .. Size + 1 /\ lo[n] \in 1 .. addr
      /\ n # l /\ n # r /\ n \in Blocks /\ par[n] = Null /\ Blocks = BlocksOf(size)
      /\ n + size[n] <= hi[n]
  BY PathKnown DEF PathFacts
<1>2. RightOK(n, size, right, lo, hi, par) /\ LeftOK(n, size, left, lo, hi, par)
  BY <1>1 DEF Searching
<1>3. left[n] \in Blocks /\ lo[left[n]] = lo[n] /\ hi[left[n]] = n /\ par[left[n]] = n
  BY <1>1, <1>2, Constants DEF LeftOK
<1>4. left[n] # n /\ n # Null
  BY <1>1, <1>3, Constants
<1>5. left[n] # right[n]
  <2>1. right[n] # Null => hi[right[n]] = hi[n]
    BY <1>2 DEF RightOK
  <2>2. hi[left[n]] # hi[n] /\ left[n] # Null
    BY <1>1, <1>3, Constants DEF BlocksOf
  <2> QED
    BY <2>1, <2>2
<1>6. left[n] # l
  <2>1. l \in Blocks => hi[l] = OpenHi
    BY PathKnown, Constants DEF PathFacts, Searching, LeftOfPath
  <2> QED
    BY <1>1, <1>3, <2>1, Constants
<1>7. left[n] # r
  <2>1. r \in Blocks => lo[r] = OpenLo
    BY PathKnown, Constants DEF PathFacts, Searching, RightOfPath
  <2> QED
    BY <1>1, <1>3, <2>1, Constants
<1> QED
  BY <1>3, <1>4, <1>5, <1>6, <1>7

LEMMA StepLeftStep ==
    ASSUME IInv, StepLeft
    PROVE  IInv'
<1> DEFINE t == left[n]
<1>1. /\ pc # "idle" /\ pc' = pc /\ pc = "search" /\ n > addr
      /\ left' = [left EXCEPT ![r] = n] /\ r' = n /\ n' = t
      /\ UNCHANGED <<size, root, addr, cut, right, l>>
  BY DEF StepLeft, GoOn
<1>2. PICK lo, hi, par : Searching(lo, hi, par)
  BY <1>1 DEF IInv
<1>3. /\ t \in Blocks /\ t # n /\ t # right[n] /\ lo[t] = lo[n] /\ hi[t] = n /\ par[t] = n
      /\ t # l /\ t # r
  BY <1>1, <1>2, LeftSubtree
<1>4. PathFacts(lo, hi, par)
  BY <1>1, <1>2, PathKnown
<1>5. LinkFacts(lo, hi, par)
  BY <1>1, <1>2, LinksKnown
<1> USE DEF PathFacts, LinkFacts
<1>6. /\ r \in Nodes /\ \A b \in Nodes : left'[b] = IF b = r THEN n ELSE left[b]
      /\ left' \in [Nodes -> Pointers]
      /\ Blocks' = Blocks
  BY <1>1, <1>4, Constants DEF IInv, TypeOK, Blocks
<1>7. TypeOK'
  BY <1>1, <1>3, <1>4, <1>6, Constants DEF IInv, TypeOK
<1>8. PICK lo2 \in [Nodes -> 0 .. Size + 1], par2 \in [Nodes -> Pointers] :
         \A b \in Nodes : /\ lo2[b] = IF b = n THEN OpenLo ELSE lo[b]
                         /\ par2[b] = IF b = t THEN Null ELSE IF b = n THEN r ELSE par[b]
  <2> DEFINE h == [lo EXCEPT ![n] = OpenLo]
             p == [par EXCEPT ![n] = r, ![t] = Null]
  <2>1. h \in [Nodes -> 0 .. Size + 1] /\ p \in [Nodes -> Pointers]
    <3>1. OpenLo \in 0 .. Size + 1 /\ r \in Pointers /\ Null \in Pointers
      BY <1>6, Constants
    <3> QED
      BY <1>4, <3>1
  <2>2. \A b \in Nodes : /\ h[b] = IF b = n THEN OpenLo ELSE lo[b]
                         /\ p[b] = IF b = t THEN Null ELSE IF b = n THEN r ELSE par[b]
    BY <1>3, <1>4
  <2> HIDE DEF h, p
  <2> QED
    BY <2>1, <2>2
<1> HIDE DEF t
<1>9. Labels(size, lo2, hi, par2)'
  <2>1. ASSUME NEW b \in Blocks PROVE lo2[b] <= b /\ b + size[b] <= hi[b]
    <3>1. lo2[b] = lo[b] \/ lo2[b] = 0
      BY <1>4, <1>8, Constants
    <3> QED
      BY <1>4, <3>1, SizeAssumption
  <2> QED
    BY <1>1, <1>4, <1>8, <2>1 DEF Labels
<1>10. Remaining(lo2, hi, par2)'
  <2>1. ASSUME NEW b \in Blocks PROVE par2[b] = Null <=> b = t
    <3>1. r # Null
      BY <1>4, Constants
    <3> QED
      BY <1>4, <1>5, <1>8, <3>1
  <2>2. lo2[t] \in 1 .. addr /\ hi[t] \in addr + 1 .. Size + 1
    <3>1. hi[t] = n /\ lo2[t] = lo[n] /\ n \in 1 .. Size
      BY <1>3, <1>4, <1>8
    <3> QED
      BY <1>1, <1>4, <3>1, SizeAssumption
  <2> QED
    BY <1>1, <1>3, <1>6, <2>1, <2>2 DEF Remaining
<1>11. LeftOfPath(lo2, hi, par2)'
  <2>1. \A b \in Blocks : hi[b] = OpenHi => b + size[b] <= lo2[t]
    BY <1>2, <1>3, <1>4, <1>8, Constants DEF Searching, LeftOfPath
  <2>2. lo2[t] = lo[n]
    BY <1>3, <1>4, <1>8
  <2>3. CASE l = Header
    BY <1>1, <1>2, <1>6, <2>1, <2>2, <2>3 DEF Searching, LeftOfPath
  <2>4. CASE l # Header
    <3> DEFINE c == right[Header]
    <3>1. c \in Blocks /\ lo[c] = 1 /\ hi[c] = OpenHi /\ par[c] = Header /\ l \in Blocks
          /\ l + size[l] = lo[n] /\ hi[l] = OpenHi
      BY <1>2, <2>4, Constants DEF Searching, LeftOfPath
    <3>2. c # n /\ c # t
      <4>1. par[n] # Header /\ n # Header
        BY <1>4, Constants
      <4> QED
        BY <1>3, <3>1, <4>1
    <3>3. lo2[c] = 1 /\ par2[c] = Header
      BY <1>4, <1>8, <3>1, <3>2
    <3> QED
      BY <1>1, <1>6, <2>1, <2>2, <2>4, <3>1, <3>3 DEF LeftOfPath
  <2> QED
    BY <2>3, <2>4
<1>12. RightOfPath(lo2, hi, par2)'
  <2>1. ASSUME NEW b \in Blocks, lo2[b] = OpenLo PROVE b >= hi[t]
    <3>1. CASE b = n
      BY <1>3, <1>4, <3>1, SizeAssumption
    <3>2. CASE b # n
      <4>1. b >= hi[n] /\ n < hi[n]
        BY <1>2, <1>4, <1>8, <2>1, <3>2 DEF Searching, RightOfPath
      <4> QED
        BY <1>3, <1>4, <4>1, SizeAssumption
    <3> QED
      BY <3>1, <3>2
  <2>2. n = hi[t] /\ lo2[n] = OpenLo /\ n # Header
    <3>1. n \in Nodes /\ n # Header
      BY <1>4, Constants
    <3> QED
      BY <1>3, <1>8, <3>1
  <2>3. CASE r = Header
    <3>1. left'[Header] = n /\ hi[n] = Size + 1 /\ par2[n] = Header
      BY <1>2, <1>3, <1>4, <1>6, <1>8, <2>3, Constants DEF Searching, RightOfPath
    <3> QED
      BY <1>1, <1>4, <1>6, <2>1, <2>2, <3>1 DEF RightOfPath
  <2>4. CASE r # Header
    <3> DEFINE c == left[Header]
    <3>1. c \in Blocks /\ hi[c] = Size + 1 /\ lo[c] = OpenLo /\ par[c] = Header /\ left'[Header] = c
      BY <1>2, <1>6, <2>4, Constants DEF Searching, RightOfPath
    <3>2. c # n /\ c # t
      <4>1. par[n] # Header /\ n # Header
        BY <1>4, Constants
      <4> QED
        BY <1>3, <3>1, <4>1
    <3>3. lo2[c] = OpenLo /\ par2[c] = Header
      BY <1>4, <1>8, <3>1, <3>2
    <3> QED
      BY <1>1, <1>4, <1>6, <2>1, <2>2, <3>1, <3>3 DEF RightOfPath
  <2> QED
    BY <2>3, <2>4
<1>13. ASSUME NEW b \in Blocks, b # l PROVE RightOK(b, size, right, lo2, hi, par2)'
  <2>1. ASSUME right[b] # Null PROVE right[b] # n /\ right[b] # t /\ right[b] \in Blocks
    <3>1. right[b] \in Blocks /\ par[right[b]] = b /\ b # Null
      <4>1. RightOK(b, size, right, lo, hi, par)
        BY <1>5, <1>13
      <4> QED
        BY <1>4, <2>1, <4>1, Constants DEF RightOK
    <3> QED
      BY <1>3, <1>4, <3>1
  <2> QED
    BY <1>1, <1>4, <1>5, <1>6, <1>8, <1>13, <2>1 DEF RightOK
<1>14. ASSUME NEW b \in Blocks, b # n PROVE LeftOK(b, size, left, lo2, hi, par2)'
  <2>1. CASE b = r
    <3>1. left'[b] = n /\ n # Null /\ hi[n] = b /\ lo2[n] = OpenLo /\ lo2[b] = OpenLo /\ par2[n] = b
      <4>1. b # Header /\ n # Null /\ n \in Nodes /\ b \in Nodes /\ b # t /\ n # t
        BY <1>3, <1>4, <2>1, Constants
      <4>2. hi[n] = b /\ lo[b] = OpenLo
        BY <1>2, <2>1, <4>1 DEF Searching, RightOfPath
      <4> QED
        BY <1>6, <1>8, <1>14, <2>1, <4>1, <4>2
    <3> QED
      BY <1>1, <1>4, <3>1 DEF LeftOK
  <2>2. CASE b # r
    <3>1. left'[b] = left[b] /\ LeftOK(b, size, left, lo, hi, par) /\ lo2[b] = lo[b]
      BY <1>4, <1>5, <1>6, <1>8, <1>14, <2>2
    <3>2. ASSUME left[b] # Null PROVE left[b] # n /\ left[b] # t /\ left[b] \in Blocks
      <4>1. left[b] \in Blocks /\ par[left[b]] = b /\ b # Null
        BY <1>4, <3>1, <3>2, Constants DEF LeftOK
      <4> QED
        BY <1>3, <1>4, <1>14, <4>1
    <3> QED
      BY <1>1, <1>4, <1>8, <3>1, <3>2 DEF LeftOK
  <2> QED
    BY <2>1, <2>2
<1>15. ASSUME NEW b \in Blocks, b # t PROVE par2[b] \in Blocks \cup {Header} /\ Child(par2[b], b)'
  <2>1. CASE b = n
    BY <1>1, <1>3, <1>4, <1>6, <1>8, <2>1 DEF Child
  <2>2. CASE b # n
    <3>1. par2[b] = par[b] /\ par[b] \in Blocks \cup {Header} /\ Child(par[b], b)
      BY <1>4, <1>5, <1>8, <1>15, <2>2
    <3>2. left[n] # b
      BY <1>15 DEF t
    <3>3. par[b] \in Nodes
      BY <1>4, <3>1, Constants
    <3>4. CASE right[par[b]] = b /\ par[b] # l
      BY <1>1, <1>6, <3>1, <3>4 DEF Child
    <3>5. CASE left[par[b]] = b /\ par[b] # r
      <4>1. left'[par[b]] = b /\ par[b] # n
        BY <1>6, <3>2, <3>3, <3>5
      <4> QED
        BY <1>1, <1>6, <3>1, <4>1 DEF Child
    <3> QED
      BY <3>1, <3>4, <3>5 DEF Child
  <2> QED
    BY <2>1, <2>2
<1>16. Searching(lo2, hi, par2)'
  BY <1>1, <1>6, <1>9, <1>10, <1>11, <1>12, <1>13, <1>14, <1>15 DEF Searching
<1> QED
  BY <1>1, <1>7, <1>16, SearchGoesOn

(* What a rotation to the right knows of block t, the right of n, and of   *)
(* its subtrees m (right) and q (left, if it has one).                     *)
LEMMA RightOfRight ==
    ASSUME IInv, pc # "idle", NEW lo, NEW hi, NEW par, Searching(lo, hi, par),
           n <= addr, ~Reaches(n), ~Reaches(right[n]), NEW t, t = right[n]
    PROVE  /\ right[t] \in Blocks /\ lo[right[t]] = t + size[t] /\ hi[right[t]] = hi[n] /\ par[right[t]] = t
           /\ t + size[t] <= addr
           /\ right[t] # n /\ right[t] # t /\ right[t] # l /\ right[t] # r /\ right[t] # left[t]
           /\ left[t] = Null => t = n + size[n]
           /\ left[t] # Null => /\ left[t] \in Blocks /\ lo[left[t]] = n + size[n] /\ hi[left[t]] = t
                                /\ par[left[t]] = t
                                /\ left[t] # n /\ left[t] # t /\ left[t] # l /\ left[t] # r
<1>1. /\ t \in Blocks /\ t # n /\ lo[t] = n + size[n] /\ n + size[n] <= addr
      /\ hi[t] = hi[n] /\ par[t] = n /\ t # l /\ t # r
  BY RightSubtree
<1>2. PathFacts(lo, hi, par)
  BY PathKnown
<1>3. RightOK(t, size, right, lo, hi, par) /\ LeftOK(t, size, left, lo, hi, par)
  BY <1>1 DEF Searching
<1>4. /\ t \in 1 .. Size /\ size[t] \in 1 .. Size /\ n \in 1 .. Size /\ size[n] \in 1 .. Size
      /\ addr \in 1 .. Size /\ hi[n] \in addr + 1 .. Size + 1
      /\ Blocks = BlocksOf(size) /\ t # Null /\ par[n] = Null
      /\ l \in Blocks => hi[l] = OpenHi
      /\ r \in Blocks => lo[r] = OpenLo
  <2>1. l \in Blocks => l # Header /\ hi[l] = OpenHi
    BY <1>2, Constants DEF PathFacts, Searching, LeftOfPath
  <2>2. r \in Blocks => r # Header /\ lo[r] = OpenLo
    BY <1>2, Constants DEF PathFacts, Searching, RightOfPath
  <2> QED
    BY <1>1, <1>2, <2>1, <2>2, Constants DEF PathFacts
<1>5. t + size[t] <= addr
  BY <1>4, SizeAssumption DEF Reaches
<1>6. right[t] # Null
  BY <1>1, <1>3, <1>4, <1>5, SizeAssumption DEF RightOK
<1>7. right[t] \in Blocks /\ lo[right[t]] = t + size[t] /\ hi[right[t]] = hi[n] /\ par[right[t]] = t
  BY <1>1, <1>3, <1>4, <1>6 DEF RightOK
<1>8. right[t] # n /\ right[t] # t /\ right[t] # l /\ right[t] # r
  <2>1. lo[right[t]] # OpenLo /\ hi[right[t]] # OpenHi
    BY <1>4, <1>7, Constants
  <2> QED
    BY <1>1, <1>4, <1>7, <2>1
<1>9. left[t] = Null => t = n + size[n]
  BY <1>1, <1>3 DEF LeftOK
<1>10. ASSUME left[t] # Null
       PROVE  /\ left[t] \in Blocks /\ lo[left[t]] = n + size[n] /\ hi[left[t]] = t /\ par[left[t]] = t
              /\ left[t] # n /\ left[t] # t /\ left[t] # l /\ left[t] # r
  <2>1. left[t] \in Blocks /\ lo[left[t]] = n + size[n] /\ hi[left[t]] = t /\ par[left[t]] = t
    BY <1>1, <1>3, <1>4, <1>10 DEF LeftOK
  <2>2. left[t] # n /\ left[t] # t /\ left[t] # l /\ left[t] # r
    <3>1. lo[left[t]] # OpenLo /\ hi[left[t]] # OpenHi
      BY <1>4, <2>1, Constants
    <3> QED
      BY <1>1, <1>4, <2>1, <3>1
  <2> QED
    BY <2>1, <2>2
<1>11. right[t] # left[t]
  <2>1. hi[right[t]] # t
    BY <1>4, <1>5, <1>7
  <2> QED
    BY <1>6, <1>10, <2>1
<1> QED
  BY <1>5, <1>7, <1>8, <1>9, <1>10, <1>11

LEMMA RotateRightStep ==
    ASSUME IInv, RotateRight
    PROVE  IInv'
<1> DEFINE t == right[n]
           m == right[t]
           q == left[t]
<1>1. /\ pc # "idle" /\ pc' = pc /\ pc = "search" /\ n <= addr /\ ~Reaches(n) /\ ~Reaches(t)
      /\ right' = [right EXCEPT ![n] = q, ![l] = t] /\ left' = [left EXCEPT ![t] = n] /\ l' = t /\ n' = m
      /\ UNCHANGED <<size, root, addr, cut, r>>
  BY DEF RotateRight, GoOn
<1>2. PICK lo, hi, par : Searching(lo, hi, par)
  BY <1>1 DEF IInv
<1>3. /\ t \in Blocks /\ t # n /\ t # left[n] /\ lo[t] = n + size[n] /\ n + size[n] <= addr
      /\ hi[t] = hi[n] /\ par[t] = n /\ t # l /\ t # r
  BY <1>1, <1>2, RightSubtree
<1>4. /\ m \in Blocks /\ lo[m] = t + size[t] /\ hi[m] = hi[n] /\ par[m] = t /\ t + size[t] <= addr
      /\ m # n /\ m # t /\ m # l /\ m # r /\ m # q
      /\ q = Null => t = n + size[n]
      /\ q # Null => /\ q \in Blocks /\ lo[q] = n + size[n] /\ hi[q] = t /\ par[q] = t
                     /\ q # n /\ q # t /\ q # l /\ q # r
  BY <1>1, <1>2, RightOfRight
<1>5. PathFacts(lo, hi, par)
  BY <1>1, <1>2, PathKnown
<1>6. LinkFacts(lo, hi, par)
  BY <1>1, <1>2, LinksKnown
<1> USE DEF PathFacts, LinkFacts
<1>7. /\ l \in Nodes
      /\ \A b \in Nodes : right'[b] = IF b = l THEN t ELSE IF b = n THEN q ELSE right[b]
      /\ \A b \in Nodes : left'[b] = IF b = t THEN n ELSE left[b]
      /\ q \in Pointers /\ Blocks' = Blocks
  BY <1>1, <1>3, <1>5, Constants DEF IInv, TypeOK, Blocks
<1>8. TypeOK'
  <2>1. right' \in [Nodes -> Pointers] /\ left' \in [Nodes -> Pointers]
    BY <1>1, <1>3, <1>5, <1>7, Constants DEF IInv, TypeOK
  <2>2. n' \in Address /\ l' \in Nodes
    BY <1>1, <1>3, <1>4, <1>5, Constants
  <2> QED
    BY <1>1, <2>1, <2>2 DEF IInv, TypeOK
<1>9. n \in Nodes /\ t \in Nodes /\ m \in Nodes /\ n # Header /\ t # Header /\ n # Null /\ t # Null /\ l # Null
  BY <1>3, <1>4, <1>5, Constants
<1>10. /\ n \in 1 .. Size /\ size[n] \in 1 .. Size /\ t \in 1 .. Size /\ size[t] \in 1 .. Size
       /\ addr \in 1 .. Size /\ lo[n] \in 1 .. addr /\ lo[n] <= n /\ n + size[n] <= t
       /\ hi[n] \in addr + 1 .. Size + 1 /\ n + size[n] = lo[t] /\ hi[n] # OpenHi /\ t + size[t] <= Size + 1
  BY <1>3, <1>5
<1>11. OpenLo = 0 /\ OpenHi = Size + 2 /\ Size \in Nat
  BY Constants
<1>12. PICK lo2 \in [Nodes -> 0 .. Size + 1], hi2 \in [Nodes -> 1 .. Size + 2], par2 \in [Nodes -> Pointers] :
         \A b \in Nodes :
           /\ lo2[b] = IF b = t THEN lo[n] ELSE lo[b]
           /\ hi2[b] = IF b = n THEN t ELSE IF b = t THEN OpenHi ELSE hi[b]
           /\ par2[b] = IF b = n THEN t ELSE IF b = t THEN l ELSE IF b = m THEN Null ELSE IF b = q THEN n ELSE par[b]
  <2> DEFINE x == [b \in Nodes |-> IF b = t THEN lo[n] ELSE lo[b]]
             y == [b \in Nodes |-> IF b = n THEN t ELSE IF b = t THEN OpenHi ELSE hi[b]]
             z == [b \in Nodes |-> IF b = n THEN t ELSE IF b = t THEN l
                                   ELSE IF b = m THEN Null ELSE IF b = q THEN n ELSE par[b]]
  <2>1. OpenHi \in 1 .. Size + 2 /\ l \in Pointers /\ Null \in Pointers /\ t \in Pointers /\ n \in Pointers
        /\ t \in 1 .. Size + 2 /\ lo[n] \in 0 .. Size + 1
    <3>1. OpenHi \in 1 .. Size + 2 /\ l \in Pointers /\ Null \in Pointers /\ t \in Pointers /\ n \in Pointers
      BY <1>7, <1>9, <1>11, Constants
    <3>2. t \in 1 .. Size + 2 /\ lo[n] \in 0 .. Size + 1
      BY <1>10, <1>11
    <3> QED
      BY <3>1, <3>2
  <2>2. x \in [Nodes -> 0 .. Size + 1]
    BY <1>5, <2>1
  <2>3. y \in [Nodes -> 1 .. Size + 2]
    BY <1>5, <2>1
  <2>4. z \in [Nodes -> Pointers]
    BY <1>5, <2>1
  <2>5. \A b \in Nodes :
           /\ x[b] = IF b = t THEN lo[n] ELSE lo[b]
           /\ y[b] = IF b = n THEN t ELSE IF b = t THEN OpenHi ELSE hi[b]
           /\ z[b] = IF b = n THEN t ELSE IF b = t THEN l ELSE IF b = m THEN Null ELSE IF b = q THEN n ELSE par[b]
    OBVIOUS
  <2> HIDE DEF x, y, z
  <2> QED
    BY <2>2, <2>3, <2>4, <2>5
<1>13. right[n] = t /\ right[t] = m /\ left[t] = q
  OBVIOUS
<1> HIDE DEF t, m, q
<1>14. /\ lo2[n] = lo[n] /\ lo2[t] = lo[n] /\ lo2[m] = lo[m]
       /\ hi2[n] = t /\ hi2[t] = OpenHi /\ hi2[m] = hi[m]
       /\ par2[n] = t /\ par2[t] = l /\ par2[m] = Null
       /\ q # Null => lo2[q] = lo[q] /\ hi2[q] = hi[q] /\ par2[q] = n
  <2>1. q # Null => q \in Nodes
    BY <1>4, <1>5
  <2> QED
    BY <1>3, <1>4, <1>12, <1>9, <2>1
<1>15. \A b \in Blocks : /\ b # t => lo2[b] = lo[b]
                         /\ b # t /\ b # n => hi2[b] = hi[b]
                         /\ b # t /\ b # n /\ b # m /\ b # q => par2[b] = par[b]
  BY <1>5, <1>12
<1>16. Labels(size, lo2, hi2, par2)'
  <2>1. ASSUME NEW b \in Blocks PROVE lo2[b] <= b /\ b + size[b] <= hi2[b]
    <3>1. CASE b = t
      <4>1. lo2[b] = lo[n] /\ lo[n] <= n /\ n + size[n] <= t /\ hi2[b] = Size + 2
        BY <1>10, <1>11, <1>14, <3>1
      <4> QED
        BY <1>10, <3>1, <4>1, SizeAssumption
    <3>2. CASE b = n
      BY <1>10, <1>14, <3>2
    <3>3. CASE b # t /\ b # n
      BY <1>5, <1>15, <3>3
    <3> QED
      BY <3>1, <3>2, <3>3
  <2>2. size' = size /\ BlocksOf(size) = Blocks
    BY <1>1, <1>5
  <2> QED
    BY <1>12, <2>1, <2>2 DEF Labels
<1>17. Remaining(lo2, hi2, par2)'
  <2>1. ASSUME NEW b \in Blocks PROVE par2[b] = Null <=> b = m
    <3>1. (par[b] = Null <=> b = n) /\ b # Null
      BY <1>5, <1>6, Constants
    <3> QED
      BY <1>4, <1>9, <1>14, <1>15, <3>1
  <2>2. lo2[m] \in 1 .. addr /\ hi2[m] \in addr + 1 .. Size + 1
    <3>1. hi2[m] = hi[n] /\ lo2[m] = t + size[t]
      BY <1>4, <1>14
    <3> QED
      BY <1>4, <1>10, <3>1, SizeAssumption
  <2> QED
    BY <1>1, <1>4, <1>7, <2>1, <2>2 DEF Remaining
<1>18. LeftOfPath(lo2, hi2, par2)'
  <2>1. lo2[m] = t + size[t] /\ lo2[t] = lo[n] /\ hi2[t] = OpenHi /\ t # Header /\ par2[t] = l
    BY <1>4, <1>9, <1>14
  <2>2. ASSUME NEW b \in Blocks, hi2[b] = OpenHi PROVE b + size[b] <= lo2[m]
    <3>1. CASE b = t
      BY <1>10, <2>1, <3>1, SizeAssumption
    <3>2. CASE b # t
      <4>1. b # n /\ hi[b] = OpenHi
        BY <1>10, <1>11, <1>14, <1>15, <2>2, <3>2
      <4>2. b + size[b] <= lo[n]
        BY <1>2, <4>1 DEF Searching, LeftOfPath
      <4>3. b \in 1 .. Size /\ size[b] \in 1 .. Size
        BY <1>5
      <4> QED
        BY <1>10, <2>1, <4>2, <4>3, SizeAssumption
    <3> QED
      BY <3>1, <3>2
  <2>3. CASE l = Header
    <3>1. right'[Header] = t /\ lo[n] = 1
      BY <1>2, <1>7, <2>3, Constants DEF Searching, LeftOfPath
    <3> QED
      BY <1>1, <1>3, <1>7, <2>1, <2>2, <2>3, <3>1 DEF LeftOfPath
  <2>4. CASE l # Header
    <3> DEFINE c == right[Header]
    <3>1. c \in Blocks /\ lo[c] = 1 /\ hi[c] = OpenHi /\ par[c] = Header /\ right'[Header] = c
      BY <1>2, <1>5, <1>7, <2>4, Constants DEF Searching, LeftOfPath
    <3>2. c # n /\ c # t /\ c # m /\ c # q
      <4>1. hi[n] # OpenHi /\ hi[t] # OpenHi /\ hi[m] # OpenHi
        BY <1>3, <1>4, <1>10
      <4>2. (q # Null => par[q] # Header) /\ c # Null
        BY <1>4, <1>9, <3>1, <1>5, Constants
      <4> QED
        BY <3>1, <4>1, <4>2
    <3>3. lo2[c] = 1 /\ hi2[c] = OpenHi /\ par2[c] = Header
      BY <1>15, <3>1, <3>2
    <3> QED
      BY <1>1, <1>3, <1>7, <2>1, <2>2, <3>1, <3>3 DEF LeftOfPath
  <2> QED
    BY <2>3, <2>4
<1>19. RightOfPath(lo2, hi2, par2)'
  <2>1. \A b \in Blocks : lo2[b] = OpenLo => b >= hi2[m]
    <3>1. lo[n] # OpenLo /\ hi2[m] = hi[n]
      BY <1>4, <1>10, <1>11, <1>14
    <3>2. \A b \in Blocks : lo2[b] = OpenLo => lo[b] = OpenLo
      BY <1>14, <1>15, <3>1
    <3> QED
      BY <1>2, <3>1, <3>2 DEF Searching, RightOfPath
  <2>2. hi2[m] = hi[n] /\ left'[Header] = left[Header]
    BY <1>4, <1>7, <1>9, <1>14, Constants
  <2>3. CASE r = Header
    BY <1>1, <1>2, <1>7, <2>1, <2>2, <2>3 DEF Searching, RightOfPath
  <2>4. CASE r # Header
    <3> DEFINE c == left[Header]
    <3>1. c \in Blocks /\ hi[c] = Size + 1 /\ lo[c] = OpenLo /\ par[c] = Header /\ r \in Blocks /\ r = hi[n]
          /\ lo[r] = OpenLo
      BY <1>2, <2>4, Constants DEF Searching, RightOfPath
    <3>2. c # n /\ c # t /\ c # m /\ c # q
      <4>1. par[n] = Null /\ Header # Null
        BY <1>5, Constants
      <4>2. par[t] # Header /\ par[m] # Header /\ (q # Null => par[q] # Header) /\ c # Null
        BY <1>3, <1>4, <1>9, <3>1, <1>5, Constants
      <4> QED
        BY <3>1, <4>1, <4>2
    <3>3. hi2[c] = Size + 1 /\ par2[c] = Header /\ lo2[c] = OpenLo /\ lo2[r] = OpenLo
      BY <1>3, <1>15, <3>1, <3>2
    <3> QED
      BY <1>1, <1>7, <2>1, <2>2, <2>4, <3>1, <3>3 DEF RightOfPath
  <2> QED
    BY <2>3, <2>4
<1>20. ASSUME NEW b \in Blocks, b # r PROVE LeftOK(b, size, left, lo2, hi2, par2)'
  <2>1. CASE b = t
    <3>1. left'[b] = n /\ n # Null /\ lo2[n] = lo[n] /\ lo2[b] = lo[n] /\ hi2[n] = b /\ par2[n] = b
      BY <1>7, <1>9, <1>14, <2>1
    <3> QED
      BY <1>1, <1>5, <3>1 DEF LeftOK
  <2>2. CASE b # t
    <3>1. left'[b] = left[b] /\ LeftOK(b, size, left, lo, hi, par) /\ lo2[b] = lo[b]
      BY <1>5, <1>6, <1>7, <1>15, <1>20, <2>2
    <3>2. ASSUME left[b] # Null
          PROVE  left[b] # n /\ left[b] # t /\ left[b] # m /\ left[b] # q /\ left[b] \in Blocks
      <4>1. left[b] \in Blocks /\ par[left[b]] = b /\ b # Null
        BY <1>5, <3>1, <3>2, Constants DEF LeftOK
      <4>2. left[b] # n
        BY <1>5, <4>1
      <4>3. left[b] # t
        BY <1>3, <4>1
      <4>4. left[b] # m /\ left[b] # q
        BY <1>4, <2>2, <3>2, <4>1
      <4> QED
        BY <4>1, <4>2, <4>3, <4>4
    <3>3. size' = size /\ Blocks = BlocksOf(size)
      BY <1>1, <1>5
    <3> QED
      BY <1>15, <3>1, <3>2, <3>3 DEF LeftOK
  <2> QED
    BY <2>1, <2>2
<1>21. ASSUME NEW b \in Blocks, b # t PROVE RightOK(b, size, right, lo2, hi2, par2)'
  <2>1. CASE b = l
    <3>0. l # Header /\ l # n
      BY <1>5, <2>1, Constants
    <3>1. right'[b] = t /\ t # Null /\ lo2[t] = b + size[b] /\ hi2[t] = OpenHi /\ par2[t] = b
      BY <1>2, <1>7, <1>9, <1>14, <2>1, <3>0 DEF Searching, LeftOfPath
    <3>2. hi2[b] = OpenHi
      BY <1>2, <1>21, <1>15, <2>1, <3>0 DEF Searching, LeftOfPath
    <3> QED
      BY <1>1, <1>3, <1>5, <3>1, <3>2 DEF RightOK
  <2>2. CASE b = n
    <3>1. right'[b] = q /\ hi2[b] = t
      BY <1>5, <1>7, <1>14, <2>2
    <3>2. CASE q = Null
      BY <1>1, <1>4, <2>2, <3>1, <3>2 DEF RightOK
    <3>3. CASE q # Null
      <4>1. lo2[q] = n + size[n] /\ hi2[q] = t /\ par2[q] = n /\ q \in BlocksOf(size)
        BY <1>4, <1>5, <1>14, <3>3
      <4> QED
        BY <1>1, <2>2, <3>1, <3>3, <4>1 DEF RightOK
    <3> QED
      BY <3>2, <3>3
  <2>3. CASE b # l /\ b # n
    <3>1. right'[b] = right[b] /\ RightOK(b, size, right, lo, hi, par) /\ hi2[b] = hi[b]
      BY <1>5, <1>6, <1>7, <1>15, <1>21, <2>3
    <3>2. ASSUME right[b] # Null
          PROVE  right[b] # n /\ right[b] # t /\ right[b] # m /\ right[b] # q /\ right[b] \in Blocks
      <4>1. right[b] \in Blocks /\ par[right[b]] = b /\ b # Null
        BY <1>5, <3>1, <3>2, Constants DEF RightOK
      <4>2. right[b] # n
        BY <1>5, <4>1
      <4>3. right[b] # t
        BY <1>3, <2>3, <4>1
      <4>4. right[b] # m /\ right[b] # q
        BY <1>4, <1>21, <3>2, <4>1
      <4> QED
        BY <4>1, <4>2, <4>3, <4>4
    <3>3. size' = size /\ Blocks = BlocksOf(size)
      BY <1>1, <1>5
    <3> QED
      BY <1>15, <3>1, <3>2, <3>3 DEF RightOK
  <2> QED
    BY <2>1, <2>2, <2>3
<1>22. ASSUME NEW b \in Blocks, b # m PROVE par2[b] \in Blocks \cup {Header} /\ Child(par2[b], b)'
  <2>1. CASE b = n
    BY <1>1, <1>3, <1>7, <1>9, <1>14, <2>1 DEF Child
  <2>2. CASE b = t
    BY <1>1, <1>3, <1>5, <1>7, <1>14, <2>2 DEF Child
  <2>3. CASE b = q
    <3>1. b # n /\ b # t /\ par2[b] = n
      BY <1>4, <1>5, <1>14, <2>3, Constants
    <3> QED
      BY <1>1, <1>3, <1>5, <1>7, <2>3, <3>1 DEF Child
  <2>4. CASE b # n /\ b # t /\ b # q
    <3>1. par2[b] = par[b] /\ par[b] \in Blocks \cup {Header} /\ Child(par[b], b)
      BY <1>6, <1>22, <1>15, <2>4
    <3>2. par[b] # t /\ par[b] \in Nodes
      BY <1>5, <1>13, <1>22, <2>4, <3>1, Constants DEF Child
    <3>3. CASE left[par[b]] = b /\ par[b] # r
      BY <1>1, <1>7, <3>1, <3>2, <3>3 DEF Child
    <3>4. CASE right[par[b]] = b /\ par[b] # l
      <4>1. right'[par[b]] = b
        BY <1>7, <1>13, <2>4, <3>2, <3>4
      <4> QED
        BY <1>1, <3>1, <3>2, <4>1 DEF Child
    <3> QED
      BY <3>1, <3>3, <3>4 DEF Child
  <2> QED
    BY <2>1, <2>2, <2>3, <2>4
<1>23. Searching(lo2, hi2, par2)'
  BY <1>1, <1>7, <1>16, <1>17, <1>18, <1>19, <1>20, <1>21, <1>22 DEF Searching
<1> QED
  BY <1>1, <1>8, <1>23, SearchGoesOn

(* What a rotation to the left knows of block t, the left of n, and of its *)
(* subtrees m (left) and q (right, if it has one).                         *)
LEMMA LeftOfLeft ==
    ASSUME IInv, pc # "idle", NEW lo, NEW hi, NEW par, Searching(lo, hi, par),
           n > addr, left[n] > addr, NEW t, t = left[n]
    PROVE  /\ left[t] \in Blocks /\ lo[left[t]] = lo[n] /\ hi[left[t]] = t /\ par[left[t]] = t
           /\ left[t] # n /\ left[t] # t /\ left[t] # l /\ left[t] # r /\ left[t] # right[t]
           /\ t + size[t] <= n
           /\ right[t] = Null => t + size[t] = n
           /\ right[t] # Null => /\ right[t] \in Blocks /\ lo[right[t]] = t + size[t] /\ hi[right[t]] = n
                                 /\ par[right[t]] = t
                                 /\ right[t] # n /\ right[t] # t /\ right[t] # l /\ right[t] # r
<1>1. t \in Blocks /\ t # n /\ lo[t] = lo[n] /\ hi[t] = n /\ par[t] = n /\ t # l /\ t # r
  BY LeftSubtree
<1>2. PathFacts(lo, hi, par)
  BY PathKnown
<1>3. RightOK(t, size, right, lo, hi, par) /\ LeftOK(t, size, left, lo, hi, par)
  BY <1>1 DEF Searching
<1>4. /\ t \in 1 .. Size /\ size[t] \in 1 .. Size /\ n \in 1 .. Size /\ size[n] \in 1 .. Size
      /\ addr \in 1 .. Size /\ lo[n] \in 1 .. addr
      /\ Blocks = BlocksOf(size) /\ t # Null /\ par[n] = Null /\ t + size[t] <= hi[t]
      /\ l \in Blocks => hi[l] = OpenHi
      /\ r \in Blocks => lo[r] = OpenLo
  <2>1. l \in Blocks => l # Header /\ hi[l] = OpenHi
    BY <1>2, Constants DEF PathFacts, Searching, LeftOfPath
  <2>2. r \in Blocks => r # Header /\ lo[r] = OpenLo
    BY <1>2, Constants DEF PathFacts, Searching, RightOfPath
  <2> QED
    BY <1>1, <1>2, <2>1, <2>2, Constants DEF PathFacts
<1>5. left[t] # Null
  BY <1>1, <1>3, <1>4, SizeAssumption DEF LeftOK
<1>6. left[t] \in Blocks /\ lo[left[t]] = lo[n] /\ hi[left[t]] = t /\ par[left[t]] = t
  BY <1>1, <1>3, <1>4, <1>5 DEF LeftOK
<1>7. left[t] # n /\ left[t] # t /\ left[t] # l /\ left[t] # r
  <2>1. lo[left[t]] # OpenLo /\ hi[left[t]] # OpenHi
    BY <1>4, <1>6, Constants
  <2> QED
    BY <1>1, <1>4, <1>6, <2>1
<1>8. right[t] = Null => t + size[t] = n
  BY <1>1, <1>3 DEF RightOK
<1>9. ASSUME right[t] # Null
      PROVE  /\ right[t] \in Blocks /\ lo[right[t]] = t + size[t] /\ hi[right[t]] = n /\ par[right[t]] = t
             /\ right[t] # n /\ right[t] # t /\ right[t] # l /\ right[t] # r
  <2>1. right[t] \in Blocks /\ lo[right[t]] = t + size[t] /\ hi[right[t]] = n /\ par[right[t]] = t
    BY <1>1, <1>3, <1>4, <1>9 DEF RightOK
  <2>2. right[t] # n /\ right[t] # t /\ right[t] # l /\ right[t] # r
    <3>1. lo[right[t]] # OpenLo /\ hi[right[t]] # OpenHi
      BY <1>4, <2>1, Constants
    <3> QED
      BY <1>1, <1>4, <2>1, <3>1
  <2> QED
    BY <2>1, <2>2
<1>10. left[t] # right[t]
  <2>1. hi[left[t]] # n
    BY <1>1, <1>6
  <2> QED
    BY <1>5, <1>9, <2>1
<1> QED
  BY <1>1, <1>4, <1>6, <1>7, <1>8, <1>9, <1>10

LEMMA RotateLeftStep ==
    ASSUME IInv, RotateLeft
    PROVE  IInv'
<1> DEFINE t == left[n]
           m == left[t]
           q == right[t]
<1>1. /\ pc # "idle" /\ pc' = pc /\ pc = "search" /\ n > addr /\ t > addr
      /\ left' = [left EXCEPT ![n] = q, ![r] = t] /\ right' = [right EXCEPT ![t] = n] /\ r' = t /\ n' = m
      /\ UNCHANGED <<size, root, addr, cut, l>>
  BY DEF RotateLeft, GoOn
<1>2. PICK lo, hi, par : Searching(lo, hi, par)
  BY <1>1 DEF IInv
<1>3. /\ t \in Blocks /\ t # n /\ t # right[n] /\ lo[t] = lo[n] /\ hi[t] = n /\ par[t] = n
      /\ t # l /\ t # r
  BY <1>1, <1>2, LeftSubtree
<1>4. /\ m \in Blocks /\ lo[m] = lo[n] /\ hi[m] = t /\ par[m] = t /\ t + size[t] <= n
      /\ m # n /\ m # t /\ m # l /\ m # r /\ m # q
      /\ q = Null => t + size[t] = n
      /\ q # Null => /\ q \in Blocks /\ lo[q] = t + size[t] /\ hi[q] = n /\ par[q] = t
                     /\ q # n /\ q # t /\ q # l /\ q # r
  BY <1>1, <1>2, LeftOfLeft
<1>5. PathFacts(lo, hi, par)
  BY <1>1, <1>2, PathKnown
<1>6. LinkFacts(lo, hi, par)
  BY <1>1, <1>2, LinksKnown
<1> USE DEF PathFacts, LinkFacts
<1>7. /\ r \in Nodes
      /\ \A b \in Nodes : left'[b] = IF b = r THEN t ELSE IF b = n THEN q ELSE left[b]
      /\ \A b \in Nodes : right'[b] = IF b = t THEN n ELSE right[b]
      /\ q \in Pointers /\ Blocks' = Blocks
  BY <1>1, <1>3, <1>5, Constants DEF IInv, TypeOK, Blocks
<1>8. TypeOK'
  <2>1. right' \in [Nodes -> Pointers] /\ left' \in [Nodes -> Pointers]
    BY <1>1, <1>3, <1>5, <1>7, Constants DEF IInv, TypeOK
  <2>2. n' \in Address /\ r' \in Nodes
    BY <1>1, <1>3, <1>4, <1>5, Constants
  <2> QED
    BY <1>1, <2>1, <2>2 DEF IInv, TypeOK
<1>9. n \in Nodes /\ t \in Nodes /\ m \in Nodes /\ n # Header /\ t # Header /\ n # Null /\ t # Null /\ r # Null
  BY <1>3, <1>4, <1>5, Constants
<1>10. /\ n \in 1 .. Size /\ size[n] \in 1 .. Size /\ t \in 1 .. Size /\ size[t] \in 1 .. Size
       /\ addr \in 1 .. Size /\ lo[n] \in 1 .. addr /\ t + size[t] <= n /\ n + size[n] <= hi[n]
       /\ hi[n] \in addr + 1 .. Size + 1 /\ hi[n] # OpenHi
  BY <1>3, <1>4, <1>5
<1>11. OpenLo = 0 /\ OpenHi = Size + 2 /\ Size \in Nat
  BY Constants
<1>12. PICK lo2 \in [Nodes -> 0 .. Size + 1], hi2 \in [Nodes -> 1 .. Size + 2], par2 \in [Nodes -> Pointers] :
         \A b \in Nodes :
           /\ lo2[b] = IF b = n THEN t + size[t] ELSE IF b = t THEN OpenLo ELSE lo[b]
           /\ hi2[b] = IF b = t THEN hi[n] ELSE hi[b]
           /\ par2[b] = IF b = n THEN t ELSE IF b = t THEN r ELSE IF b = m THEN Null ELSE IF b = q THEN n ELSE par[b]
  <2> DEFINE x == [b \in Nodes |-> IF b = n THEN t + size[t] ELSE IF b = t THEN OpenLo ELSE lo[b]]
             y == [b \in Nodes |-> IF b = t THEN hi[n] ELSE hi[b]]
             z == [b \in Nodes |-> IF b = n THEN t ELSE IF b = t THEN r
                                   ELSE IF b = m THEN Null ELSE IF b = q THEN n ELSE par[b]]
  <2>1. /\ r \in Pointers /\ Null \in Pointers /\ t \in Pointers /\ n \in Pointers
        /\ t + size[t] \in 0 .. Size + 1 /\ OpenLo \in 0 .. Size + 1 /\ hi[n] \in 1 .. Size + 2
    <3>1. r \in Pointers /\ Null \in Pointers /\ t \in Pointers /\ n \in Pointers /\ OpenLo \in 0 .. Size + 1
      BY <1>7, <1>9, <1>11, Constants
    <3>2. t + size[t] \in 0 .. Size + 1 /\ hi[n] \in 1 .. Size + 2
      BY <1>10, <1>11
    <3> QED
      BY <3>1, <3>2
  <2>2. x \in [Nodes -> 0 .. Size + 1]
    BY <1>5, <2>1
  <2>3. y \in [Nodes -> 1 .. Size + 2]
    BY <1>5, <2>1
  <2>4. z \in [Nodes -> Pointers]
    BY <1>5, <2>1
  <2>5. \A b \in Nodes :
           /\ x[b] = IF b = n THEN t + size[t] ELSE IF b = t THEN OpenLo ELSE lo[b]
           /\ y[b] = IF b = t THEN hi[n] ELSE hi[b]
           /\ z[b] = IF b = n THEN t ELSE IF b = t THEN r ELSE IF b = m THEN Null ELSE IF b = q THEN n ELSE par[b]
    OBVIOUS
  <2> HIDE DEF x, y, z
  <2> QED
    BY <2>2, <2>3, <2>4, <2>5
<1>13. left[n] = t /\ left[t] = m /\ right[t] = q
  OBVIOUS
<1> HIDE DEF t, m, q
<1>14. /\ lo2[n] = t + size[t] /\ lo2[t] = OpenLo /\ lo2[m] = lo[m]
       /\ hi2[n] = hi[n] /\ hi2[t] = hi[n] /\ hi2[m] = hi[m]
       /\ par2[n] = t /\ par2[t] = r /\ par2[m] = Null
       /\ q # Null => lo2[q] = lo[q] /\ hi2[q] = hi[q] /\ par2[q] = n
  <2>1. q # Null => q \in Nodes
    BY <1>4, <1>5
  <2> QED
    BY <1>3, <1>4, <1>9, <1>12, <2>1
<1>15. \A b \in Blocks : /\ b # t => hi2[b] = hi[b]
                         /\ b # t /\ b # n => lo2[b] = lo[b]
                         /\ b # t /\ b # n /\ b # m /\ b # q => par2[b] = par[b]
  BY <1>5, <1>12
<1>16. Labels(size, lo2, hi2, par2)'
  <2>1. ASSUME NEW b \in Blocks PROVE lo2[b] <= b /\ b + size[b] <= hi2[b]
    <3>1. CASE b = t
      <4>1. lo2[b] = 0 /\ hi2[b] = hi[n]
        BY <1>11, <1>14, <3>1
      <4> QED
        BY <1>10, <3>1, <4>1, SizeAssumption
    <3>2. CASE b = n
      BY <1>10, <1>14, <3>2
    <3>3. CASE b # t /\ b # n
      BY <1>5, <1>15, <3>3
    <3> QED
      BY <3>1, <3>2, <3>3
  <2>2. size' = size /\ BlocksOf(size) = Blocks
    BY <1>1, <1>5
  <2> QED
    BY <1>12, <2>1, <2>2 DEF Labels
<1>17. Remaining(lo2, hi2, par2)'
  <2>1. ASSUME NEW b \in Blocks PROVE par2[b] = Null <=> b = m
    <3>1. (par[b] = Null <=> b = n) /\ b # Null
      BY <1>5, <1>6, Constants
    <3> QED
      BY <1>4, <1>9, <1>14, <1>15, <3>1
  <2>2. lo2[m] \in 1 .. addr /\ hi2[m] \in addr + 1 .. Size + 1
    <3>1. hi2[m] = t /\ lo2[m] = lo[n] /\ t > addr
      BY <1>1, <1>4, <1>14
    <3> QED
      BY <1>10, <3>1, SizeAssumption
  <2> QED
    BY <1>1, <1>4, <1>7, <2>1, <2>2 DEF Remaining
<1>18. LeftOfPath(lo2, hi2, par2)'
  <2>1. \A b \in Blocks : hi2[b] = OpenHi => b + size[b] <= lo2[m]
    <3>1. lo2[m] = lo[n]
      BY <1>4, <1>14
    <3>2. \A b \in Blocks : hi2[b] = OpenHi => hi[b] = OpenHi
      BY <1>10, <1>14, <1>15
    <3> QED
      BY <1>2, <3>1, <3>2 DEF Searching, LeftOfPath
  <2>2. lo2[m] = lo[n] /\ right'[Header] = right[Header]
    BY <1>4, <1>7, <1>9, <1>14, Constants
  <2>3. CASE l = Header
    BY <1>1, <1>2, <1>7, <2>1, <2>2, <2>3 DEF Searching, LeftOfPath
  <2>4. CASE l # Header
    <3> DEFINE c == right[Header]
    <3>1. c \in Blocks /\ lo[c] = 1 /\ hi[c] = OpenHi /\ par[c] = Header /\ l \in Blocks
          /\ l + size[l] = lo[n] /\ hi[l] = OpenHi
      BY <1>2, <2>4, Constants DEF Searching, LeftOfPath
    <3>2. c # n /\ c # t /\ c # m /\ c # q
      <4>1. par[n] = Null /\ Header # Null
        BY <1>5, Constants
      <4>2. par[t] # Header /\ par[m] # Header /\ (q # Null => par[q] # Header) /\ c # Null
        BY <1>3, <1>4, <1>5, <1>9, <3>1, Constants
      <4> QED
        BY <3>1, <4>1, <4>2
    <3>3. lo2[c] = 1 /\ par2[c] = Header /\ hi2[c] = OpenHi /\ hi2[l] = OpenHi
      BY <1>3, <1>15, <3>1, <3>2
    <3> QED
      BY <1>1, <1>7, <2>1, <2>2, <2>4, <3>1, <3>3 DEF LeftOfPath
  <2> QED
    BY <2>3, <2>4
<1>19. RightOfPath(lo2, hi2, par2)'
  <2>1. hi2[m] = t /\ hi2[t] = hi[n] /\ lo2[t] = OpenLo /\ t # Header /\ par2[t] = r
    BY <1>4, <1>9, <1>14
  <2>2. ASSUME NEW b \in Blocks, lo2[b] = OpenLo PROVE b >= hi2[m]
    <3>1. CASE b = t
      BY <1>10, <2>1, <3>1, SizeAssumption
    <3>2. CASE b # t
      <4>1. b # n /\ lo[b] = OpenLo
        BY <1>10, <1>11, <1>14, <1>15, <2>2, <3>2
      <4>2. b >= hi[n]
        BY <1>2, <4>1 DEF Searching, RightOfPath
      <4>3. b \in 1 .. Size
        BY <1>5
      <4> QED
        BY <1>10, <2>1, <4>2, <4>3, SizeAssumption
    <3> QED
      BY <3>1, <3>2
  <2>3. CASE r = Header
    <3>1. left'[Header] = t /\ hi[n] = Size + 1
      BY <1>2, <1>7, <2>3, Constants DEF Searching, RightOfPath
    <3> QED
      BY <1>1, <1>3, <1>7, <2>1, <2>2, <2>3, <3>1 DEF RightOfPath
  <2>4. CASE r # Header
    <3> DEFINE c == left[Header]
    <3>1. c \in Blocks /\ hi[c] = Size + 1 /\ lo[c] = OpenLo /\ par[c] = Header /\ left'[Header] = c
      BY <1>2, <1>5, <1>7, <2>4, Constants DEF Searching, RightOfPath
    <3>2. c # n /\ c # t /\ c # m /\ c # q
      <4>1. par[n] = Null /\ Header # Null
        BY <1>5, Constants
      <4>2. par[t] # Header /\ par[m] # Header /\ (q # Null => par[q] # Header) /\ c # Null
        BY <1>3, <1>4, <1>5, <1>9, <3>1, Constants
      <4> QED
        BY <3>1, <4>1, <4>2
    <3>3. hi2[c] = Size + 1 /\ lo2[c] = OpenLo /\ par2[c] = Header
      BY <1>15, <3>1, <3>2
    <3> QED
      BY <1>1, <1>3, <1>7, <2>1, <2>2, <3>1, <3>3 DEF RightOfPath
  <2> QED
    BY <2>3, <2>4
<1>20. ASSUME NEW b \in Blocks, b # l PROVE RightOK(b, size, right, lo2, hi2, par2)'
  <2>1. CASE b = t
    <3>1. right'[b] = n /\ n # Null /\ lo2[n] = b + size[b] /\ hi2[b] = hi[n] /\ hi2[n] = hi[n] /\ par2[n] = b
      BY <1>7, <1>9, <1>14, <2>1
    <3> QED
      BY <1>1, <1>5, <3>1 DEF RightOK
  <2>2. CASE b # t
    <3>1. right'[b] = right[b] /\ RightOK(b, size, right, lo, hi, par) /\ hi2[b] = hi[b]
      BY <1>5, <1>6, <1>7, <1>15, <1>20, <2>2
    <3>2. ASSUME right[b] # Null
          PROVE  right[b] # n /\ right[b] # t /\ right[b] # m /\ right[b] # q /\ right[b] \in Blocks
      <4>1. right[b] \in Blocks /\ par[right[b]] = b /\ b # Null
        BY <1>5, <3>1, <3>2, Constants DEF RightOK
      <4>2. right[b] # n
        BY <1>5, <4>1
      <4>3. right[b] # t
        BY <1>3, <4>1
      <4>4. right[b] # m /\ right[b] # q
        BY <1>4, <2>2, <3>2, <4>1
      <4> QED
        BY <4>1, <4>2, <4>3, <4>4
    <3>3. size' = size /\ Blocks = BlocksOf(size)
      BY <1>1, <1>5
    <3> QED
      BY <1>15, <3>1, <3>2, <3>3 DEF RightOK
  <2> QED
    BY <2>1, <2>2
<1>21. ASSUME NEW b \in Blocks, b # t PROVE LeftOK(b, size, left, lo2, hi2, par2)'
  <2>1. CASE b = r
    <3>1. r # Header /\ r # n
      BY <1>5, <2>1, Constants
    <3>2. left'[b] = t /\ t # Null /\ lo2[t] = OpenLo /\ hi2[t] = b /\ par2[t] = b
      BY <1>2, <1>7, <1>9, <1>14, <2>1, <3>1 DEF Searching, RightOfPath
    <3>3. lo2[b] = OpenLo
      BY <1>2, <1>15, <1>21, <2>1, <3>1 DEF Searching, RightOfPath
    <3> QED
      BY <1>1, <1>3, <1>5, <3>2, <3>3 DEF LeftOK
  <2>2. CASE b = n
    <3>1. left'[b] = q /\ lo2[b] = t + size[t]
      BY <1>5, <1>7, <1>14, <2>2
    <3>2. CASE q = Null
      BY <1>1, <1>4, <2>2, <3>1, <3>2 DEF LeftOK
    <3>3. CASE q # Null
      <4>1. lo2[q] = t + size[t] /\ hi2[q] = n /\ par2[q] = n /\ q \in BlocksOf(size)
        BY <1>4, <1>5, <1>14, <3>3
      <4> QED
        BY <1>1, <2>2, <3>1, <3>3, <4>1 DEF LeftOK
    <3> QED
      BY <3>2, <3>3
  <2>3. CASE b # r /\ b # n
    <3>1. left'[b] = left[b] /\ LeftOK(b, size, left, lo, hi, par) /\ lo2[b] = lo[b]
      BY <1>5, <1>6, <1>7, <1>15, <1>21, <2>3
    <3>2. ASSUME left[b] # Null
          PROVE  left[b] # n /\ left[b] # t /\ left[b] # m /\ left[b] # q /\ left[b] \in Blocks
      <4>1. left[b] \in Blocks /\ par[left[b]] = b /\ b # Null
        BY <1>5, <3>1, <3>2, Constants DEF LeftOK
      <4>2. left[b] # n
        BY <1>5, <4>1
      <4>3. left[b] # t
        BY <1>3, <2>3, <4>1
      <4>4. left[b] # m /\ left[b] # q
        BY <1>4, <1>21, <3>2, <4>1
      <4> QED
        BY <4>1, <4>2, <4>3, <4>4
    <3>3. size' = size /\ Blocks = BlocksOf(size)
      BY <1>1, <1>5
    <3> QED
      BY <1>15, <3>1, <3>2, <3>3 DEF LeftOK
  <2> QED
    BY <2>1, <2>2, <2>3
<1>22. ASSUME NEW b \in Blocks, b # m PROVE par2[b] \in Blocks \cup {Header} /\ Child(par2[b], b)'
  <2>1. CASE b = n
    BY <1>1, <1>3, <1>7, <1>9, <1>14, <2>1 DEF Child
  <2>2. CASE b = t
    BY <1>1, <1>3, <1>5, <1>7, <1>14, <2>2 DEF Child
  <2>3. CASE b = q
    <3>1. b # n /\ b # t /\ par2[b] = n
      BY <1>4, <1>5, <1>14, <2>3, Constants
    <3> QED
      BY <1>1, <1>3, <1>5, <1>7, <2>3, <3>1 DEF Child
  <2>4. CASE b # n /\ b # t /\ b # q
    <3>1. par2[b] = par[b] /\ par[b] \in Blocks \cup {Header} /\ Child(par[b], b)
      BY <1>6, <1>15, <1>22, <2>4
    <3>2. par[b] # t /\ par[b] \in Nodes
      BY <1>5, <1>13, <1>22, <2>4, <3>1, Constants DEF Child
    <3>3. CASE right[par[b]] = b /\ par[b] # l
      BY <1>1, <1>7, <3>1, <3>2, <3>3 DEF Child
    <3>4. CASE left[par[b]] = b /\ par[b] # r
      <4>1. left'[par[b]] = b
        BY <1>7, <1>13, <2>4, <3>2, <3>4
      <4> QED
        BY <1>1, <3>1, <3>2, <4>1 DEF Child
    <3> QED
      BY <3>1, <3>3, <3>4 DEF Child
  <2> QED
    BY <2>1, <2>2, <2>3, <2>4
<1>23. Searching(lo2, hi2, par2)'
  BY <1>1, <1>7, <1>16, <1>17, <1>18, <1>19, <1>20, <1>21, <1>22 DEF Searching
<1> QED
  BY <1>1, <1>8, <1>23, SearchGoesOn

-----------------------------------------------------------------------------
(* What was collected, put together again under block n.                   *)
LeftJoined == [LeftAfter EXCEPT ![n] = RightAfter[Header]]
RightJoined == [RightAfter EXCEPT ![n] = LeftAfter[Header]]

LEMMA JoinedIs ==
    ASSUME IInv, pc # "idle", NEW lo, NEW hi, NEW par, Searching(lo, hi, par)
    PROVE  /\ LeftJoined \in [Nodes -> Pointers] /\ RightJoined \in [Nodes -> Pointers]
           /\ \A b \in Blocks : b # n => /\ LeftJoined[b] = IF b = r THEN right[n] ELSE left[b]
                                         /\ RightJoined[b] = IF b = l THEN left[n] ELSE right[b]
           /\ LeftJoined[n] = IF l = Header THEN left[n] ELSE right[Header]
           /\ RightJoined[n] = IF r = Header THEN right[n] ELSE left[Header]
<1>1. /\ n \in Nodes /\ l \in Nodes /\ r \in Nodes /\ Header \in Nodes /\ Blocks \subseteq Nodes
      /\ left \in [Nodes -> Pointers] /\ right \in [Nodes -> Pointers]
  BY PathKnown, Constants DEF PathFacts, IInv, TypeOK
<1>2. /\ LeftAfter \in [Nodes -> Pointers] /\ RightAfter \in [Nodes -> Pointers]
      /\ \A b \in Nodes : /\ LeftAfter[b] = IF b = r THEN right[n] ELSE left[b]
                          /\ RightAfter[b] = IF b = l THEN left[n] ELSE right[b]
  BY <1>1 DEF LeftAfter, RightAfter
<1> QED
  BY <1>1, <1>2 DEF LeftJoined, RightJoined

LEMMA Join ==
    ASSUME IInv, pc = "found"
    PROVE  SearchTree(size, LeftJoined, RightJoined, n)
<1>1. PICK lo, hi, par : Searching(lo, hi, par)
  BY DEF IInv
<1>2. PathFacts(lo, hi, par)
  BY <1>1, PathKnown
<1>3. LinkFacts(lo, hi, par)
  BY <1>1, LinksKnown
<1> DEFINE L == LeftJoined
           R == RightJoined
<1>4. /\ \A b \in Blocks : b # n => /\ L[b] = IF b = r THEN right[n] ELSE left[b]
                                    /\ R[b] = IF b = l THEN left[n] ELSE right[b]
      /\ L[n] = IF l = Header THEN left[n] ELSE right[Header]
      /\ R[n] = IF r = Header THEN right[n] ELSE left[Header]
  BY <1>1, JoinedIs
<1> HIDE DEF L, R
<1> USE DEF PathFacts, LinkFacts
<1>5. /\ n \in Nodes /\ n \in Blocks /\ n # Header /\ n # Null /\ l # Null /\ r # Null /\ Header # Null
      /\ Header \notin Blocks /\ Null \notin Blocks /\ n # l /\ n # r /\ Blocks \subseteq Nodes
  BY <1>2, Constants
<1>6. /\ n \in 1 .. Size /\ size[n] \in 1 .. Size /\ n + size[n] <= Size + 1 /\ n + size[n] <= hi[n]
      /\ lo[n] \in 1 .. addr /\ hi[n] \in addr + 1 .. Size + 1 /\ addr \in 1 .. Size /\ lo[n] <= n
  BY <1>2
<1>7. OpenLo = 0 /\ OpenHi = Size + 2 /\ Size \in Nat
  BY Constants
(* What is known of the subtrees of n and of the path.                     *)
<1>8. LeftOK(n, size, left, lo, hi, par) /\ RightOK(n, size, right, lo, hi, par)
  BY <1>3, <1>5
<1>9. left[n] # Null => /\ left[n] \in Blocks /\ lo[left[n]] = lo[n] /\ hi[left[n]] = n /\ par[left[n]] = n
                        /\ left[n] # n
  BY <1>2, <1>5, <1>8 DEF LeftOK
<1>10. right[n] # Null => /\ right[n] \in Blocks /\ lo[right[n]] = n + size[n] /\ hi[right[n]] = hi[n]
                          /\ par[right[n]] = n /\ right[n] # n
  BY <1>2, <1>5, <1>8 DEF RightOK
<1>11. left[n] # Null /\ right[n] # Null => left[n] # right[n]
  BY <1>6, <1>9, <1>10
<1>12. /\ left[n] = Null => lo[n] = n
       /\ right[n] = Null => hi[n] = n + size[n]
  BY <1>8 DEF LeftOK, RightOK
<1>13. /\ l = Header => lo[n] = 1
       /\ l # Header => /\ l \in Blocks /\ l + size[l] = lo[n] /\ hi[l] = OpenHi
                        /\ right[Header] \in Blocks /\ lo[right[Header]] = 1 /\ hi[right[Header]] = OpenHi
                        /\ par[right[Header]] = Header
       /\ \A b \in Blocks : hi[b] = OpenHi => b + size[b] <= lo[n]
  BY <1>1 DEF Searching, LeftOfPath
<1>14. /\ r = Header => hi[n] = Size + 1
       /\ r # Header => /\ r \in Blocks /\ r = hi[n] /\ lo[r] = OpenLo
                        /\ left[Header] \in Blocks /\ hi[left[Header]] = Size + 1 /\ lo[left[Header]] = OpenLo
                        /\ par[left[Header]] = Header
       /\ \A b \in Blocks : lo[b] = OpenLo => b >= hi[n]
  BY <1>1 DEF Searching, RightOfPath
<1>15. PICK lo2 \in [Nodes -> 0 .. Size + 1], hi2 \in [Nodes -> 1 .. Size + 2], par2 \in [Nodes -> Pointers] :
         \A b \in Nodes :
           /\ lo2[b] = IF b = n THEN 1 ELSE IF lo[b] = OpenLo THEN n + size[n] ELSE lo[b]
           /\ hi2[b] = IF b = n THEN Size + 1 ELSE IF hi[b] = OpenHi THEN n ELSE hi[b]
           /\ par2[b] = IF b = n THEN Null
                        ELSE IF b = left[n] /\ l # Header THEN l
                        ELSE IF b = right[n] /\ r # Header THEN r
                        ELSE IF par[b] = Header THEN n ELSE par[b]
  <2> DEFINE x == [b \in Nodes |-> IF b = n THEN 1 ELSE IF lo[b] = OpenLo THEN n + size[n] ELSE lo[b]]
             y == [b \in Nodes |-> IF b = n THEN Size + 1 ELSE IF hi[b] = OpenHi THEN n ELSE hi[b]]
             z == [b \in Nodes |-> IF b = n THEN Null
                                   ELSE IF b = left[n] /\ l # Header THEN l
                                   ELSE IF b = right[n] /\ r # Header THEN r
                                   ELSE IF par[b] = Header THEN n ELSE par[b]]
  <2>1. n + size[n] \in 0 .. Size + 1 /\ 1 \in 0 .. Size + 1 /\ Size + 1 \in 1 .. Size + 2 /\ n \in 1 .. Size + 2
    BY <1>6, <1>7
  <2>2. l \in Pointers /\ r \in Pointers /\ n \in Pointers /\ Null \in Pointers
    BY <1>2, <1>5, Constants
  <2>3. x \in [Nodes -> 0 .. Size + 1]
    BY <1>2, <2>1
  <2>4. y \in [Nodes -> 1 .. Size + 2]
    BY <1>2, <2>1
  <2>5. z \in [Nodes -> Pointers]
    BY <1>2, <2>2
  <2>6. \A b \in Nodes :
           /\ x[b] = IF b = n THEN 1 ELSE IF lo[b] = OpenLo THEN n + size[n] ELSE lo[b]
           /\ y[b] = IF b = n THEN Size + 1 ELSE IF hi[b] = OpenHi THEN n ELSE hi[b]
           /\ z[b] = IF b = n THEN Null
                     ELSE IF b = left[n] /\ l # Header THEN l
                     ELSE IF b = right[n] /\ r # Header THEN r
                     ELSE IF par[b] = Header THEN n ELSE par[b]
    OBVIOUS
  <2> HIDE DEF x, y, z
  <2> QED
    BY <2>3, <2>4, <2>5, <2>6
<1>16. lo2[n] = 1 /\ hi2[n] = Size + 1 /\ par2[n] = Null
  BY <1>5, <1>15
<1>17. \A b \in Blocks : b # n => /\ lo2[b] = IF lo[b] = OpenLo THEN n + size[n] ELSE lo[b]
                                  /\ hi2[b] = IF hi[b] = OpenHi THEN n ELSE hi[b]
  BY <1>5, <1>15
<1>18. \A b \in Blocks : b # n => par2[b] = IF b = left[n] /\ l # Header THEN l
                                            ELSE IF b = right[n] /\ r # Header THEN r
                                            ELSE IF par[b] = Header THEN n ELSE par[b]
  BY <1>5, <1>15
<1>19. Labels(size, lo2, hi2, par2)
  <2>1. ASSUME NEW b \in Blocks PROVE lo2[b] <= b /\ b + size[b] <= hi2[b]
    <3>1. b \in 1 .. Size /\ size[b] \in 1 .. Size /\ lo[b] <= b /\ b + size[b] <= hi[b]
      BY <1>2
    <3>2. CASE b = n
      BY <1>6, <1>16, <3>2
    <3>3. CASE b # n
      <4>1. lo2[b] <= b
        BY <1>6, <1>14, <1>17, <3>1, <3>3
      <4>2. b + size[b] <= hi2[b]
        BY <1>6, <1>13, <1>17, <3>1, <3>3
      <4> QED
        BY <4>1, <4>2
    <3> QED
      BY <3>2, <3>3
  <2> QED
    BY <1>2, <1>15, <2>1 DEF Labels
<1>20. ASSUME NEW b \in Blocks PROVE lo2[b] # OpenLo /\ hi2[b] # OpenHi
  BY <1>6, <1>7, <1>16, <1>17
<1>21. ASSUME NEW b \in Blocks PROVE par2[b] = Null <=> b = n
  <2>1. par[b] = Null <=> b = n
    BY <1>3
  <2> QED
    BY <1>5, <1>16, <1>18, <2>1
<1>22. ASSUME NEW b \in Blocks PROVE LeftOK(b, size, L, lo2, hi2, par2)
  <2>1. CASE b = n /\ l = Header
    <3>1. L[b] = left[n] /\ lo[n] = 1 /\ lo2[b] = 1
      BY <1>4, <1>13, <1>16, <2>1
    <3>2. CASE left[n] = Null
      BY <1>12, <2>1, <3>1, <3>2 DEF LeftOK
    <3>3. CASE left[n] # Null
      <4>1. lo2[left[n]] = 1 /\ hi2[left[n]] = n
        BY <1>6, <1>7, <1>9, <1>17, <3>1, <3>3
      <4>2. par2[left[n]] = n
        BY <1>5, <1>9, <1>11, <1>18, <2>1, <3>3
      <4> QED
        BY <1>2, <1>9, <2>1, <3>1, <3>3, <4>1, <4>2 DEF LeftOK
    <3> QED
      BY <3>2, <3>3
  <2>2. CASE b = n /\ l # Header
    <3> DEFINE c == right[Header]
    <3>1. L[b] = c /\ c \in Blocks /\ lo[c] = 1 /\ hi[c] = OpenHi /\ par[c] = Header /\ c # Null
      BY <1>4, <1>5, <1>13, <2>2
    <3>2. c # n /\ c # left[n] /\ c # right[n]
      BY <1>5, <1>6, <1>7, <1>9, <1>10, <3>1
    <3>3. lo2[c] = 1 /\ hi2[c] = n /\ par2[c] = n
      BY <1>7, <1>17, <1>18, <3>1, <3>2
    <3> QED
      BY <1>2, <1>16, <2>2, <3>1, <3>3 DEF LeftOK
  <2>3. CASE b # n /\ b = r
    <3>1. b # Header
      BY <1>5
    <3>2. L[b] = right[n] /\ lo2[b] = n + size[n] /\ b = hi[n]
      BY <1>4, <1>14, <1>17, <2>3, <3>1
    <3>3. CASE right[n] = Null
      BY <1>12, <3>2, <3>3 DEF LeftOK
    <3>4. CASE right[n] # Null
      <4>1. lo2[right[n]] = n + size[n] /\ hi2[right[n]] = b
        BY <1>6, <1>7, <1>10, <1>17, <3>2, <3>4
      <4>2. par2[right[n]] = b
        BY <1>10, <1>11, <1>18, <2>3, <3>1, <3>4, <1>5
      <4> QED
        BY <1>2, <1>10, <3>2, <3>4, <4>1, <4>2 DEF LeftOK
    <3> QED
      BY <3>3, <3>4
  <2>4. CASE b # n /\ b # r
    <3>1. L[b] = left[b] /\ LeftOK(b, size, left, lo, hi, par) /\ b \in 1 .. Size /\ b # Header /\ b # Null
      BY <1>2, <1>3, <1>4, <1>5, <2>4
    <3>2. CASE left[b] = Null
      BY <1>7, <1>17, <2>4, <3>1, <3>2 DEF LeftOK
    <3>3. CASE left[b] # Null
      <4> DEFINE c == left[b]
      <4>1. c \in Blocks /\ lo[c] = lo[b] /\ hi[c] = b /\ par[c] = b
        BY <1>2, <3>1, <3>3 DEF LeftOK
      <4>2. c # n /\ c # left[n] /\ c # right[n]
        <5>1. par[n] = Null
          BY <1>2
        <5> QED
          BY <1>9, <1>10, <2>4, <3>1, <3>3, <4>1, <5>1
      <4>3. lo2[c] = lo2[b]
        BY <1>17, <2>4, <4>1, <4>2
      <4>4. hi2[c] = b
        <5>1. hi[c] # OpenHi
          BY <1>7, <3>1, <4>1
        <5> QED
          BY <1>17, <4>1, <4>2, <5>1
      <4>5. par2[c] = b
        BY <1>18, <3>1, <4>1, <4>2
      <4> QED
        BY <1>2, <3>1, <3>3, <4>1, <4>3, <4>4, <4>5 DEF LeftOK
    <3> QED
      BY <3>2, <3>3
  <2> QED
    BY <2>1, <2>2, <2>3, <2>4
<1>23. ASSUME NEW b \in Blocks PROVE RightOK(b, size, R, lo2, hi2, par2)
  <2>1. CASE b = n /\ r = Header
    <3>1. R[b] = right[n] /\ hi[n] = Size + 1 /\ hi2[b] = Size + 1
      BY <1>4, <1>14, <1>16, <2>1
    <3>2. CASE right[n] = Null
      BY <1>12, <2>1, <3>1, <3>2 DEF RightOK
    <3>3. CASE right[n] # Null
      <4>1. lo2[right[n]] = n + size[n] /\ hi2[right[n]] = Size + 1
        BY <1>6, <1>7, <1>10, <1>17, <3>1, <3>3
      <4>2. par2[right[n]] = n
        BY <1>5, <1>10, <1>11, <1>18, <2>1, <3>3
      <4> QED
        BY <1>2, <1>10, <2>1, <3>1, <3>3, <4>1, <4>2 DEF RightOK
    <3> QED
      BY <3>2, <3>3
  <2>2. CASE b = n /\ r # Header
    <3> DEFINE c == left[Header]
    <3>1. R[b] = c /\ c \in Blocks /\ hi[c] = Size + 1 /\ lo[c] = OpenLo /\ par[c] = Header /\ c # Null
      BY <1>4, <1>5, <1>14, <2>2
    <3>2. c # n /\ c # left[n] /\ c # right[n]
      BY <1>5, <1>6, <1>7, <1>9, <1>10, <3>1
    <3>3. lo2[c] = n + size[n] /\ hi2[c] = Size + 1 /\ par2[c] = n
      BY <1>7, <1>17, <1>18, <3>1, <3>2
    <3> QED
      BY <1>2, <1>16, <2>2, <3>1, <3>3 DEF RightOK
  <2>3. CASE b # n /\ b = l
    <3>1. b # Header
      BY <1>5
    <3>2. R[b] = left[n] /\ hi2[b] = n /\ b + size[b] = lo[n]
      BY <1>4, <1>13, <1>17, <2>3, <3>1
    <3>3. CASE left[n] = Null
      BY <1>12, <3>2, <3>3 DEF RightOK
    <3>4. CASE left[n] # Null
      <4>1. lo2[left[n]] = b + size[b] /\ hi2[left[n]] = n
        BY <1>6, <1>7, <1>9, <1>17, <3>2, <3>4
      <4>2. par2[left[n]] = b
        BY <1>9, <1>18, <2>3, <3>1, <3>4
      <4> QED
        BY <1>2, <1>9, <3>2, <3>4, <4>1, <4>2 DEF RightOK
    <3> QED
      BY <3>3, <3>4
  <2>4. CASE b # n /\ b # l
    <3>1. R[b] = right[b] /\ RightOK(b, size, right, lo, hi, par) /\ b \in 1 .. Size /\ b # Header /\ b # Null
          /\ size[b] \in 1 .. Size /\ b + size[b] <= Size + 1
      BY <1>2, <1>3, <1>4, <1>5, <2>4
    <3>2. CASE right[b] = Null
      BY <1>7, <1>17, <2>4, <3>1, <3>2 DEF RightOK
    <3>3. CASE right[b] # Null
      <4> DEFINE c == right[b]
      <4>1. c \in Blocks /\ lo[c] = b + size[b] /\ hi[c] = hi[b] /\ par[c] = b
        BY <1>2, <3>1, <3>3 DEF RightOK
      <4>2. c # n /\ c # left[n] /\ c # right[n]
        <5>1. par[n] = Null
          BY <1>2
        <5> QED
          BY <1>9, <1>10, <2>4, <3>1, <3>3, <4>1, <5>1
      <4>3. hi2[c] = hi2[b]
        BY <1>17, <2>4, <4>1, <4>2
      <4>4. lo2[c] = b + size[b]
        <5>1. lo[c] # OpenLo
          BY <1>7, <3>1, <4>1
        <5> QED
          BY <1>17, <4>1, <4>2, <5>1
      <4>5. par2[c] = b
        BY <1>18, <3>1, <4>1, <4>2
      <4> QED
        BY <1>2, <3>1, <3>3, <4>1, <4>3, <4>4, <4>5 DEF RightOK
    <3> QED
      BY <3>2, <3>3
  <2> QED
    BY <2>1, <2>2, <2>3, <2>4
<1>24. ASSUME NEW b \in Blocks, b # n PROVE par2[b] \in Blocks /\ b \in {L[par2[b]], R[par2[b]]}
  <2>1. par[b] \in Blocks \cup {Header} /\ Child(par[b], b) /\ b # Null
    BY <1>3, <1>5, <1>24
  <2>2. CASE b = left[n]
    <3>1. CASE l = Header
      <4>1. par2[b] = n /\ L[n] = b
        BY <1>4, <1>5, <1>9, <1>11, <1>18, <1>24, <2>1, <2>2, <3>1
      <4> QED
        BY <1>5, <4>1
    <3>2. CASE l # Header
      <4>1. par2[b] = l /\ R[l] = b /\ l \in Blocks
        BY <1>4, <1>5, <1>13, <1>18, <1>24, <2>2, <3>2
      <4> QED
        BY <4>1
    <3> QED
      BY <3>1, <3>2
  <2>3. CASE b = right[n] /\ b # left[n]
    <3>1. CASE r = Header
      <4>1. par2[b] = n /\ R[n] = b
        BY <1>4, <1>5, <1>10, <1>18, <1>24, <2>1, <2>3, <3>1
      <4> QED
        BY <1>5, <4>1
    <3>2. CASE r # Header
      <4>1. par2[b] = r /\ L[r] = b /\ r \in Blocks
        BY <1>4, <1>5, <1>14, <1>18, <1>24, <2>3, <3>2
      <4> QED
        BY <4>1
    <3> QED
      BY <3>1, <3>2
  <2>4. CASE b # right[n] /\ b # left[n]
    <3>1. CASE par[b] = Header
      <4>1. par2[b] = n
        BY <1>18, <1>24, <2>4, <3>1
      <4>2. b \in {L[n], R[n]}
        BY <1>4, <2>1, <3>1 DEF Child
      <4> QED
        BY <1>5, <4>1, <4>2
    <3>2. CASE par[b] # Header
      <4>1. par2[b] = par[b] /\ par[b] \in Blocks
        BY <1>18, <1>24, <2>1, <2>4, <3>2
      <4>2. par[b] # n
        BY <2>1, <2>4 DEF Child
      <4>3. b \in {L[par[b]], R[par[b]]}
        BY <1>4, <2>1, <4>1, <4>2 DEF Child
      <4> QED
        BY <4>1, <4>3
    <3> QED
      BY <3>1, <3>2
  <2> QED
    BY <2>2, <2>3, <2>4
<1>25. Labelled(size, L, R, n, lo2, hi2, par2)
  BY <1>2, <1>16, <1>19, <1>20, <1>21, <1>22, <1>23, <1>24 DEF Labelled
<1> QED
  BY <1>25 DEF SearchTree, L, R

(* A block that is cut at an address keeps what is left of it, and is the  *)
(* left subtree of the new block, which gets what is right of it.          *)
CutSize(S, t, a) == [S EXCEPT ![t] = a - t, ![a] = S[t] - (a - t)]
CutLeft(L, t, a) == [L EXCEPT ![a] = t]
CutRight(R, t, a) == [R EXCEPT ![t] = Null, ![a] = R[t]]

LEMMA Split ==
    ASSUME NEW S \in [Nodes -> 0 .. Size], NEW L \in [Nodes -> Pointers], NEW R \in [Nodes -> Pointers],
           NEW t, NEW a \in Address, SearchTree(S, L, R, t),
           t < a, a < t + S[t], a \notin BlocksOf(S)
    PROVE  /\ BlocksOf(CutSize(S, t, a)) = BlocksOf(S) \cup {a}
           /\ CutSize(S, t, a) \in [Nodes -> 0 .. Size]
           /\ SearchTree(CutSize(S, t, a), CutLeft(L, t, a), CutRight(R, t, a), a)
<1> DEFINE S2 == CutSize(S, t, a)
           L2 == CutLeft(L, t, a)
           R2 == CutRight(R, t, a)
           B == BlocksOf(S)
           B2 == BlocksOf(S2)
<1>1. PICK lo, hi, par : Labelled(S, L, R, t, lo, hi, par)
  BY DEF SearchTree
<1>2. /\ lo \in [Nodes -> 0 .. Size + 1] /\ hi \in [Nodes -> 1 .. Size + 2] /\ par \in [Nodes -> Pointers]
      /\ \A b \in B : lo[b] <= b /\ b + S[b] <= hi[b]
      /\ t \in B /\ lo[t] = 1 /\ hi[t] = Size + 1
      /\ \A b \in B : lo[b] # OpenLo /\ hi[b] # OpenHi
      /\ \A b \in B : LeftOK(b, S, L, lo, hi, par) /\ RightOK(b, S, R, lo, hi, par)
      /\ \A b \in B : par[b] = Null <=> b = t
      /\ \A b \in B : b # t => par[b] \in B /\ b \in {L[par[b]], R[par[b]]}
  BY <1>1 DEF Labelled, Labels
<1>3. /\ \A b \in B : b \in Nodes /\ b # Null /\ b \in 1 .. Size /\ S[b] \in 1 .. Size
      /\ a \in Nodes /\ a # Null /\ a # t /\ a \notin B /\ a \in 1 .. Size /\ t \in 1 .. Size /\ S[t] \in 1 .. Size
      /\ t \in Nodes /\ t + S[t] <= Size + 1
  <2>1. \A b \in B : b \in Nodes /\ b # Null /\ b \in 1 .. Size /\ S[b] \in 1 .. Size
    BY Constants DEF BlocksOf
  <2>2. a \in Nodes /\ a # Null /\ a \in 1 .. Size /\ a # t
    BY <1>2, Constants
  <2>3. t + S[t] <= Size + 1
    BY <1>2
  <2> QED
    BY <1>2, <2>1, <2>2, <2>3
<1>4. /\ \A b \in Nodes : /\ S2[b] = IF b = t THEN a - t ELSE IF b = a THEN S[t] - (a - t) ELSE S[b]
                          /\ L2[b] = IF b = a THEN t ELSE L[b]
                          /\ R2[b] = IF b = a THEN R[t] ELSE IF b = t THEN Null ELSE R[b]
      /\ S2[t] = a - t /\ S2[a] = S[t] - (a - t)
  <2>1. a # t /\ a \in Nodes /\ t \in Nodes
    BY <1>3
  <2>2. \A b \in Nodes : S2[b] = IF b = t THEN a - t ELSE IF b = a THEN S[t] - (a - t) ELSE S[b]
    BY <2>1 DEF CutSize
  <2>3. \A b \in Nodes : L2[b] = IF b = a THEN t ELSE L[b]
    BY <2>1 DEF CutLeft
  <2>4. \A b \in Nodes : R2[b] = IF b = a THEN R[t] ELSE IF b = t THEN Null ELSE R[b]
    BY <2>1 DEF CutRight
  <2> QED
    BY <2>1, <2>2, <2>3, <2>4
<1>5. a - t \in 1 .. Size /\ S[t] - (a - t) \in 1 .. Size /\ t + S2[t] = a /\ a + S2[a] = t + S[t]
  BY <1>3, <1>4, SizeAssumption
<1>6. B2 = B \cup {a}
  <2>1. ASSUME NEW b \in Address PROVE S2[b] > 0 <=> (S[b] > 0 \/ b = a)
    <3>1. b \in Nodes
      BY Constants
    <3>2. CASE b = t
      BY <1>3, <1>4, <1>5, <3>2
    <3>3. CASE b = a
      BY <1>4, <1>5, <3>3
    <3>4. CASE b # t /\ b # a
      BY <1>4, <3>1, <3>4
    <3> QED
      BY <3>2, <3>3, <3>4
  <2> QED
    BY <2>1 DEF BlocksOf
<1>7. S2 \in [Nodes -> 0 .. Size]
  <2>1. a - t \in 0 .. Size /\ S[t] - (a - t) \in 0 .. Size
    BY <1>5
  <2> QED
    BY <2>1 DEF CutSize
<1> HIDE DEF S2, L2, R2, B, B2
<1>8. \A b \in B : /\ b # a
                   /\ b # t => S2[b] = S[b] /\ R2[b] = R[b]
                   /\ L2[b] = L[b]
  BY <1>3, <1>4
<1>9. L2[a] = t /\ R2[a] = R[t] /\ R2[t] = Null
  BY <1>3, <1>4
<1>10. R[t] = Null \/ (R[t] \in B /\ lo[R[t]] = t + S[t] /\ hi[R[t]] = Size + 1 /\ par[R[t]] = t)
  BY <1>2 DEF RightOK, B
<1>11. R[t] # Null => R[t] # t /\ R[t] # L[t]
  <2>1. L[t] # Null => hi[L[t]] = t
    BY <1>2 DEF LeftOK
  <2>2. R[t] # Null => hi[R[t]] # t /\ R[t] # t
    BY <1>2, <1>3, <1>10, SizeAssumption
  <2> QED
    BY <2>1, <2>2
<1>12. PICK lo2 \in [Nodes -> 0 .. Size + 1], hi2 \in [Nodes -> 1 .. Size + 2], par2 \in [Nodes -> Pointers] :
         \A b \in Nodes :
           /\ lo2[b] = IF b = a THEN 1 ELSE lo[b]
           /\ hi2[b] = IF b = a THEN Size + 1 ELSE IF b = t THEN a ELSE hi[b]
           /\ par2[b] = IF b = a THEN Null ELSE IF b = t \/ b = R[t] THEN a ELSE par[b]
  <2> DEFINE x == [b \in Nodes |-> IF b = a THEN 1 ELSE lo[b]]
             y == [b \in Nodes |-> IF b = a THEN Size + 1 ELSE IF b = t THEN a ELSE hi[b]]
             z == [b \in Nodes |-> IF b = a THEN Null ELSE IF b = t \/ b = R[t] THEN a ELSE par[b]]
  <2>1. 1 \in 0 .. Size + 1 /\ Size + 1 \in 1 .. Size + 2 /\ a \in 1 .. Size + 2
    BY <1>3, SizeAssumption
  <2>2. Null \in Pointers /\ a \in Pointers
    BY <1>3, Constants
  <2>3. x \in [Nodes -> 0 .. Size + 1]
    BY <1>2, <2>1
  <2>4. y \in [Nodes -> 1 .. Size + 2]
    BY <1>2, <2>1
  <2>5. z \in [Nodes -> Pointers]
    BY <1>2, <2>2
  <2>6. \A b \in Nodes :
           /\ x[b] = IF b = a THEN 1 ELSE lo[b]
           /\ y[b] = IF b = a THEN Size + 1 ELSE IF b = t THEN a ELSE hi[b]
           /\ z[b] = IF b = a THEN Null ELSE IF b = t \/ b = R[t] THEN a ELSE par[b]
    OBVIOUS
  <2> HIDE DEF x, y, z
  <2> QED
    BY <2>3, <2>4, <2>5, <2>6
<1>13. lo2[a] = 1 /\ hi2[a] = Size + 1 /\ par2[a] = Null
  BY <1>3, <1>12
<1>14. lo2[t] = 1 /\ hi2[t] = a /\ par2[t] = a
  BY <1>2, <1>3, <1>12
<1>15. \A b \in B : b # t => /\ lo2[b] = lo[b] /\ hi2[b] = hi[b]
                             /\ par2[b] = IF b = R[t] THEN a ELSE par[b]
  BY <1>3, <1>12
<1>16. Labels(S2, lo2, hi2, par2)
  <2>1. ASSUME NEW b \in B2 PROVE lo2[b] <= b /\ b + S2[b] <= hi2[b]
    <3>1. CASE b = a
      BY <1>3, <1>5, <1>13, <3>1
    <3>2. CASE b = t
      BY <1>3, <1>5, <1>14, <3>2
    <3>3. CASE b # a /\ b # t
      BY <1>2, <1>6, <1>8, <1>15, <3>3
    <3> QED
      BY <3>1, <3>2, <3>3
  <2> QED
    BY <1>12, <2>1 DEF Labels, B2
<1>17. ASSUME NEW b \in B2 PROVE lo2[b] # OpenLo /\ hi2[b] # OpenHi
  <2>1. CASE b = a \/ b = t
    <3>1. OpenLo = 0 /\ OpenHi = Size + 2
      BY Constants
    <3> QED
      BY <1>3, <1>13, <1>14, <2>1, <3>1, SizeAssumption
  <2>2. CASE b # a /\ b # t
    BY <1>2, <1>6, <1>15, <2>2
  <2> QED
    BY <2>1, <2>2
<1>18. ASSUME NEW b \in B2 PROVE LeftOK(b, S2, L2, lo2, hi2, par2)
  <2>1. CASE b = a
    BY <1>2, <1>3, <1>6, <1>9, <1>13, <1>14, <2>1 DEF LeftOK, B2
  <2>2. CASE b # a
    <3>1. b \in B /\ L2[b] = L[b] /\ LeftOK(b, S, L, lo, hi, par) /\ lo2[b] = lo[b]
      BY <1>2, <1>6, <1>8, <1>14, <1>15, <2>2
    <3>2. CASE L[b] = Null
      BY <3>1, <3>2 DEF LeftOK
    <3>3. CASE L[b] # Null
      <4>1. L[b] \in B /\ lo[L[b]] = lo[b] /\ hi[L[b]] = b /\ par[L[b]] = b /\ b # Null
        BY <1>3, <3>1, <3>3 DEF LeftOK, B
      <4>2. L[b] # t
        BY <1>2, <4>1
      <4>3. L[b] # R[t]
        BY <1>10, <1>11, <3>3, <4>1
      <4>4. lo2[L[b]] = lo2[b] /\ hi2[L[b]] = b /\ par2[L[b]] = b /\ L[b] \in B2
        BY <1>6, <1>15, <3>1, <4>1, <4>2, <4>3
      <4> QED
        BY <3>1, <3>3, <4>4 DEF LeftOK, B2
    <3> QED
      BY <3>2, <3>3
  <2> QED
    BY <2>1, <2>2
<1>19. ASSUME NEW b \in B2 PROVE RightOK(b, S2, R2, lo2, hi2, par2)
  <2>1. CASE b = a
    <3>1. CASE R[t] = Null
      <4>1. hi[t] = t + S[t]
        BY <1>2, <3>1 DEF RightOK
      <4> QED
        BY <1>2, <1>5, <1>9, <1>13, <2>1, <3>1, <4>1 DEF RightOK
    <3>2. CASE R[t] # Null
      <4>1. lo2[R[t]] = t + S[t] /\ hi2[R[t]] = Size + 1 /\ par2[R[t]] = a /\ R[t] \in B2
        BY <1>6, <1>10, <1>11, <1>15, <3>2
      <4> QED
        BY <1>5, <1>9, <1>13, <2>1, <3>2, <4>1 DEF RightOK, B2
    <3> QED
      BY <3>1, <3>2
  <2>2. CASE b = t
    BY <1>5, <1>9, <1>14, <2>2 DEF RightOK
  <2>3. CASE b # a /\ b # t
    <3>1. b \in B /\ R2[b] = R[b] /\ S2[b] = S[b] /\ RightOK(b, S, R, lo, hi, par) /\ hi2[b] = hi[b]
      BY <1>2, <1>6, <1>8, <1>15, <2>3
    <3>2. CASE R[b] = Null
      BY <3>1, <3>2 DEF RightOK
    <3>3. CASE R[b] # Null
      <4>1. R[b] \in B /\ lo[R[b]] = b + S[b] /\ hi[R[b]] = hi[b] /\ par[R[b]] = b /\ b # Null
        BY <1>3, <3>1, <3>3 DEF RightOK, B
      <4>2. R[b] # t
        BY <1>2, <4>1
      <4>3. R[b] # R[t]
        BY <1>10, <2>3, <3>3, <4>1
      <4>4. lo2[R[b]] = b + S2[b] /\ hi2[R[b]] = hi2[b] /\ par2[R[b]] = b /\ R[b] \in B2
        BY <1>6, <1>15, <3>1, <4>1, <4>2, <4>3
      <4> QED
        BY <3>1, <3>3, <4>4 DEF RightOK, B2
    <3> QED
      BY <3>2, <3>3
  <2> QED
    BY <2>1, <2>2, <2>3
<1>20. ASSUME NEW b \in B2 PROVE par2[b] = Null <=> b = a
  BY <1>2, <1>3, <1>6, <1>13, <1>14, <1>15
<1>21. ASSUME NEW b \in B2, b # a PROVE par2[b] \in B2 /\ b \in {L2[par2[b]], R2[par2[b]]}
  <2>1. CASE b = t
    BY <1>6, <1>9, <1>14, <2>1
  <2>2. CASE b = R[t] /\ b # t
    <3>1. par2[b] = a
      BY <1>6, <1>15, <1>21, <2>2
    <3> QED
      BY <1>6, <1>9, <2>2, <3>1
  <2>3. CASE b # R[t] /\ b # t
    <3>1. par2[b] = par[b] /\ par[b] \in B /\ b \in {L[par[b]], R[par[b]]}
      BY <1>2, <1>6, <1>15, <1>21, <2>3
    <3>2. L2[par[b]] = L[par[b]] /\ (par[b] # t => R2[par[b]] = R[par[b]])
      BY <1>8, <3>1
    <3> QED
      BY <1>6, <2>3, <3>1, <3>2
  <2> QED
    BY <2>1, <2>2, <2>3
<1>22. Labelled(S2, L2, R2, a, lo2, hi2, par2)
  BY <1>6, <1>13, <1>16, <1>17, <1>18, <1>19, <1>20, <1>21 DEF Labelled, B2
<1> QED
  BY <1>6, <1>7, <1>22 DEF SearchTree, S2, L2, R2, B, B2

LEMMA ReturnStep ==
    ASSUME IInv, Return
    PROVE  IInv'
<1>1. pc = "found" /\ pc' = "idle" /\ UNCHANGED <<addr, cut, n, l, r>>
  BY DEF Return
<1>2. SearchTree(size, LeftJoined, RightJoined, n)
  BY <1>1, Join
<1>3. PICK lo, hi, par : Searching(lo, hi, par)
  BY <1>1 DEF IInv
<1>4. LeftJoined \in [Nodes -> Pointers] /\ RightJoined \in [Nodes -> Pointers]
  BY <1>1, <1>3, JoinedIs
<1>5. /\ Blocks = BlocksOf(size) /\ n \in Blocks /\ n \in 1 .. Size /\ size[n] \in 1 .. Size
      /\ n + size[n] <= Size + 1 /\ l \in Nodes /\ r \in Nodes /\ n \in Nodes /\ addr \in Nodes
      /\ addr \in 1 .. Size /\ n \in Address /\ addr \in Address
  BY <1>1, <1>3, PathKnown, Constants DEF PathFacts
<1>6. n <= addr /\ addr < n + size[n]
  BY <1>1, <1>5 DEF IInv, FindsBlock
<1>7. CASE cut /\ n < addr
  <2>1. addr \notin BlocksOf(size)
    BY <1>5, <1>6, <1>7 DEF IInv, SizesInv
  <2>2. CutOff(n)
    BY <1>7 DEF Return
  <2>3. /\ size' = CutSize(size, n, addr) /\ root' = addr
        /\ left' = CutLeft(LeftJoined, n, addr) /\ right' = CutRight(RightJoined, n, addr)
    <3>1. left' = [LeftJoined EXCEPT ![addr] = n] /\ root' = addr
      BY <2>2 DEF CutOff, LeftJoined
    <3>2. /\ size' = [size EXCEPT ![n] = addr - n, ![addr] = size[n] - (addr - n)]
          /\ right' = [RightAfter EXCEPT ![n] = Null, ![addr] = LeftAfter[Header]]
      BY <2>2 DEF CutOff
    <3>3. RightAfter \in [Nodes -> Pointers]
      <4>1. left[n] \in Pointers
        BY <1>5 DEF IInv, TypeOK
      <4> QED
        BY <4>1 DEF IInv, TypeOK, RightAfter
    <3>4. [RightJoined EXCEPT ![n] = Null, ![addr] = RightJoined[n]]
            = [RightAfter EXCEPT ![n] = Null, ![addr] = LeftAfter[Header]]
      BY <1>5, <3>3 DEF RightJoined
    <3> QED
      BY <3>1, <3>2, <3>4 DEF CutSize, CutLeft, CutRight
  <2>4. size \in [Nodes -> 0 .. Size]
    BY DEF IInv, TypeOK
  <2>5. /\ BlocksOf(size') = BlocksOf(size) \cup {addr}
        /\ size' \in [Nodes -> 0 .. Size]
        /\ SearchTree(size', left', right', addr)
    <3>1. n < addr /\ addr < n + size[n] /\ addr \in Address
      BY <1>5, <1>6, <1>7
    <3> QED
      BY <1>2, <1>4, <2>1, <2>3, <2>4, <3>1, Split
  <2>6. Blocks' = Blocks \cup {addr}
    BY <1>5, <2>5 DEF Blocks, BlocksOf
  <2>7. /\ size'[n] = addr - n /\ size'[addr] = size[n] - (addr - n)
        /\ \A b \in Blocks : b # n => size'[b] = size[b]
    <3>1. \A b \in Blocks : b \in Nodes /\ b # addr
      BY <1>5, <2>1, Constants DEF Blocks
    <3> QED
      BY <1>5, <1>7, <2>3, <2>4, <3>1 DEF CutSize
  <2>8. n + size'[n] = addr /\ addr + size'[addr] = n + size[n]
    BY <1>5, <2>7
  <2>9. \A b \in Blocks : b \in 1 .. Size /\ size[b] \in 1 .. Size
    BY <2>4, Constants DEF Blocks
  <2>10. SizesInv'
    <3>1. /\ \A b \in Blocks : b + size[b] <= Size + 1
          /\ \A b, c \in Blocks : b < c => b + size[b] <= c
      BY DEF IInv, SizesInv
    <3>2. ASSUME NEW b \in Blocks' PROVE b + size'[b] <= Size + 1
      <4>1. CASE b = addr \/ b = n
        BY <1>5, <1>6, <2>8, <4>1, SizeAssumption
      <4>2. CASE b # addr /\ b # n
        BY <2>6, <2>7, <3>1, <4>2
      <4> QED
        BY <4>1, <4>2
    <3>3. ASSUME NEW b \in Blocks', NEW c \in Blocks', b < c PROVE b + size'[b] <= c
      <4>1. CASE b = addr
        <5>1. c \in Blocks /\ n < c
          BY <1>5, <1>7, <2>6, <2>9, <3>3, <4>1
        <5> QED
          BY <1>5, <2>8, <3>1, <4>1, <5>1
      <4>2. CASE b = n
        <5>1. c \in Blocks => n + size[n] <= c
          BY <1>5, <3>1, <3>3, <4>2
        <5> QED
          BY <1>5, <1>6, <2>6, <2>8, <2>9, <4>2, <5>1
      <4>3. CASE b \in Blocks /\ b # n
        <5>1. size'[b] = size[b]
          BY <2>7, <4>3
        <5>2. c \in Blocks => b + size[b] <= c
          BY <3>1, <3>3, <4>3
        <5>3. CASE c = addr
          <6>1. b < n
            <7>1. n < b => n + size[n] <= b
              BY <1>5, <3>1, <4>3
            <7> QED
              BY <1>5, <1>6, <2>9, <3>3, <4>3, <5>3, <7>1
          <6>2. b + size[b] <= n
            BY <1>5, <3>1, <4>3, <6>1
          <6> QED
            BY <1>5, <1>7, <2>9, <4>3, <5>1, <5>3, <6>2
        <5> QED
          BY <2>6, <5>1, <5>2, <5>3
      <4> QED
        BY <2>6, <4>1, <4>2, <4>3
    <3> QED
      BY <3>2, <3>3 DEF SizesInv
  <2>11. CoverInv'
    <3>1. ASSUME NEW a \in Address PROVE \E b \in Blocks' : b <= a /\ a < b + size'[b]
      <4>1. PICK b \in Blocks : b <= a /\ a < b + size[b]
        BY DEF IInv, CoverInv
      <4>2. CASE b # n
        BY <2>6, <2>7, <4>1, <4>2
      <4>3. CASE b = n /\ a < addr
        BY <2>6, <2>8, <4>1, <4>3
      <4>4. CASE b = n /\ addr <= a
        BY <2>6, <2>8, <4>1, <4>4
      <4> QED
        BY <1>5, <4>2, <4>3, <4>4, Constants
    <3> QED
      BY <3>1 DEF CoverInv
  <2>12. FindsBlock'
    BY <1>1, <1>5, <1>6, <2>3, <2>8 DEF FindsBlock
  <2>13. TypeOK'
    <3>1. left' \in [Nodes -> Pointers] /\ right' \in [Nodes -> Pointers]
      <4>1. n \in Pointers /\ Null \in Pointers /\ RightJoined[n] \in Pointers
        BY <1>4, <1>5, Constants
      <4> QED
        BY <1>4, <2>3, <4>1 DEF CutLeft, CutRight
    <3> QED
      BY <1>1, <1>5, <2>3, <2>5, <3>1 DEF IInv, TypeOK
  <2> QED
    BY <1>1, <2>3, <2>5, <2>10, <2>11, <2>12, <2>13 DEF IInv
<1>8. CASE ~(cut /\ n < addr)
  <2>1. right' = RightJoined /\ left' = LeftJoined /\ root' = n /\ size' = size
    BY <1>8 DEF Return, RightJoined, LeftJoined
  <2>2. SizesInv' /\ CoverInv'
    BY <2>1 DEF IInv, SizesInv, CoverInv, Blocks
  <2>3. FindsBlock'
    BY <1>1, <1>5, <1>6, <1>8, <2>1 DEF FindsBlock
  <2>4. TypeOK'
    BY <1>1, <1>4, <1>5, <2>1 DEF IInv, TypeOK
  <2> QED
    BY <1>1, <1>2, <2>1, <2>2, <2>3, <2>4 DEF IInv
<1> QED
  BY <1>7, <1>8

-----------------------------------------------------------------------------
LEMMA TreeNext == IInv /\ [Next]_treeVars => IInv'
<1> SUFFICES ASSUME IInv, [Next]_treeVars PROVE IInv'
  OBVIOUS
<1>1. ASSUME NEW a \in Address, NEW c \in BOOLEAN, Find(a, c) PROVE IInv'
  BY <1>1, FindStep
<1>2. CASE Search
  BY <1>2, HereStep, StepRightStep, RotateRightStep, StepLeftStep, RotateLeftStep, ReturnStep DEF Search
<1>3. CASE UNCHANGED treeVars
  <2>1. UNCHANGED <<size, left, right, root, pc, addr, cut, n, l, r>> /\ Blocks' = Blocks
    BY <1>3 DEF treeVars, Blocks
  <2>2. TypeOK' /\ SizesInv' /\ CoverInv' /\ FindsBlock'
    BY <2>1 DEF IInv, TypeOK, SizesInv, CoverInv, FindsBlock
  <2>3. pc = "idle" => SearchTree(size, left, right, root)'
    BY <2>1 DEF IInv
  <2>4. ASSUME pc # "idle" PROVE \E lo, hi, par : Searching(lo, hi, par)'
    <3>1. PICK lo, hi, par : Searching(lo, hi, par)
      BY <2>4 DEF IInv
    <3>2. Searching(lo, hi, par)'
      BY <2>1, <3>1 DEF Searching, Labels, Remaining, LeftOfPath, RightOfPath, LeftOK, RightOK, Child
    <3> QED
      BY <3>2
  <2> QED
    BY <2>1, <2>2, <2>3, <2>4 DEF IInv
<1> QED
  BY <1>1, <1>2, <1>3 DEF Next

LEMMA TreeAlways == Spec => []IInv
<1>1. Init => IInv
  BY TreeInit
<1>2. IInv /\ [Next]_treeVars => IInv'
  BY TreeNext
<1> QED
  BY <1>1, <1>2, PTL DEF Spec

(* Every variable of Block::find() and Block::split() keeps its type: the  *)
(* search is always at a block, never at a null pointer.                   *)
THEOREM TreeTypeCorrect == Spec => []TypeOK
<1>1. IInv => TypeOK
  BY DEF IInv
<1> QED
  BY <1>1, TreeAlways, PTL

(* A search that stops has found the block that has the address, and that  *)
(* block is the root afterwards.                                           *)
THEOREM FindsItsBlock == Spec => []FindsBlock
<1>1. IInv => FindsBlock
  BY DEF IInv
<1> QED
  BY <1>1, TreeAlways, PTL

(* The links that the loop of Block::find() follows without looking: the   *)
(* right of a block that ends before addr, the left of one that begins     *)
(* after it, and the same link of that block in a rotation.                *)
NoNullLink ==
    pc # "idle" =>
      /\ n \in Blocks
      /\ n <= addr /\ ~Reaches(n) =>
           /\ right[n] \in Blocks
           /\ ~Reaches(right[n]) => right[right[n]] \in Blocks
      /\ n > addr =>
           /\ left[n] \in Blocks
           /\ left[n] > addr => left[left[n]] \in Blocks

(* Block::find() never follows a null pointer: no link it uses without a   *)
(* check is null.                                                          *)
THEOREM NoNullFollowed == Spec => []NoNullLink
<1>1. ASSUME IInv PROVE NoNullLink
  <2>1. CASE pc # "idle"
    <3>1. PICK lo, hi, par : Searching(lo, hi, par)
      BY <1>1, <2>1 DEF IInv
    <3>2. n \in Blocks
      BY <3>1 DEF Searching, Remaining
    <3>3. ASSUME n <= addr, ~Reaches(n)
          PROVE  right[n] \in Blocks /\ (~Reaches(right[n]) => right[right[n]] \in Blocks)
      BY <1>1, <2>1, <3>1, <3>3, RightSubtree, RightOfRight
    <3>4. ASSUME n > addr
          PROVE  left[n] \in Blocks /\ (left[n] > addr => left[left[n]] \in Blocks)
      BY <1>1, <2>1, <3>1, <3>4, LeftSubtree, LeftOfLeft
    <3> QED
      BY <3>2, <3>3, <3>4 DEF NoNullLink
  <2> QED
    BY <2>1 DEF NoNullLink
<1> QED
  BY <1>1, TreeAlways, PTL

(* Between two searches the blocks are a search tree by their addresses    *)
(* that begins at the root and has every block, and every address of the   *)
(* function is in exactly one of them.                                     *)
TreeIsWhole ==
    pc = "idle" =>
      /\ SearchTree(size, left, right, root)
      /\ \A a \in Address : \E b \in Blocks : /\ b <= a /\ a < b + size[b]
                                              /\ \A c \in Blocks : c <= a /\ a < c + size[c] => c = b

(* No search and no split loses a block, puts one out of order or lets two *)
(* overlap.                                                                *)
THEOREM TreeStaysWhole == Spec => []TreeIsWhole
<1>1. ASSUME IInv PROVE TreeIsWhole
  <2>1. pc = "idle" => SearchTree(size, left, right, root)
    BY <1>1 DEF IInv
  <2>2. \A b \in Blocks : b \in 1 .. Size /\ size[b] \in 1 .. Size
    BY <1>1, Constants DEF IInv, TypeOK, Blocks
  <2>3. ASSUME NEW a \in Address
        PROVE  \E b \in Blocks : /\ b <= a /\ a < b + size[b]
                                 /\ \A c \in Blocks : c <= a /\ a < c + size[c] => c = b
    <3>1. a \in 1 .. Size
      BY Constants
    <3>2. PICK b \in Blocks : b <= a /\ a < b + size[b]
      BY <1>1 DEF IInv, CoverInv
    <3>3. ASSUME NEW c \in Blocks, c <= a, a < c + size[c] PROVE c = b
      <4>1. (b < c => b + size[b] <= c) /\ (c < b => c + size[c] <= b)
        BY <1>1 DEF IInv, SizesInv
      <4> QED
        BY <2>2, <3>1, <3>2, <3>3, <4>1
    <3> QED
      BY <3>2, <3>3
  <2> QED
    BY <2>1, <2>3 DEF TreeIsWhole
<1> QED
  BY <1>1, TreeAlways, PTL
=============================================================================
