----------------------------- MODULE TreeProofs -----------------------------
(***************************************************************************)
(* Proofs about the trees of the median finder and of the third maximum,   *)
(* for any numbers and any number of nodes: the first stays a red-black    *)
(* search tree of what was added, with right sizes, and the second stays   *)
(* a search tree of the numbers seen, with right sizes.  Hence the search  *)
(* by sizes finds the value at the place asked for: the finder implements  *)
(* MedianStore, and the number that the third maximum ends with is right.  *)
(***************************************************************************)
EXTENDS Structures, FiniteSetTheorems, WellFoundedInduction, TLAPS

-----------------------------------------------------------------------------
\* What holds at 0 and goes on from each number to the next holds up to m.
LEMMA UpTo ==
    ASSUME NEW m \in Nat, NEW S, 0 \in S, \A n \in 0 .. m - 1 : n \in S => n + 1 \in S
    PROVE  \A n \in 0 .. m : n \in S
<1> DEFINE Missing == {n \in 0 .. m : n \notin S}
<1> SUFFICES ASSUME Missing # {} PROVE FALSE
  OBVIOUS
<1>1. PICK n \in Missing : \A k \in Missing : ~(<<k, n>> \in OpToRel(<, Nat))
  <2>1. Missing \in SUBSET Nat
    OBVIOUS
  <2> QED BY <2>1, NatLessThanWellFounded, WFMin
<1>2. n \in 0 .. m /\ n \notin S /\ n # 0
  OBVIOUS
<1>3. n - 1 \in 0 .. m - 1 /\ n - 1 \in Nat /\ n - 1 < n /\ (n - 1) + 1 = n
  BY <1>2
<1>4. n - 1 \in Missing
  BY <1>2, <1>3
<1>5. <<n - 1, n>> \in OpToRel(<, Nat)
  <2>1. n - 1 \in Nat /\ n \in Nat /\ n - 1 < n
    BY <1>3
  <2> QED BY <2>1 DEF OpToRel
<1> HIDE DEF Missing
<1> QED BY <1>1, <1>4, <1>5

-----------------------------------------------------------------------------
\* The red-black trees.
Tree == INSTANCE LinkedTree

\* The links of a tree with root r, in which below[n] is what is at n and under it:
\* n and what is below its two children, which are different trees; links up and
\* down agree, and what lies below a node lies below its parent.
Shape(r, up, down, below) ==
    /\ r \in Tree!Pointers /\ up \in [Tree!TreeNodes -> Tree!Pointers]
    /\ down \in [Tree!Sides -> [Tree!TreeNodes -> Tree!Pointers]]
    /\ below \in [Tree!Pointers -> SUBSET Tree!TreeNodes] /\ below[Tree!Nil] = {}
    /\ r # Tree!Nil => r \in below[r] /\ up[r] = Tree!Nil
    /\ \A n \in below[r] : \A s \in Tree!Sides :
           /\ down[s][n] \in below[r] \cup {Tree!Nil} /\ n \notin below[down[s][n]]
           /\ down[s][n] # Tree!Nil => up[down[s][n]] = n
           /\ below[down[s][n]] \cap below[down[Tree!Opposite(s)][n]] = {}
           /\ below[n] = {n} \cup below[down[s][n]] \cup below[down[Tree!Opposite(s)][n]]
    /\ \A n \in below[r] \ {r} : up[n] \in below[r] /\ \E s \in Tree!Sides : down[s][up[n]] = n
    /\ \A n \in below[r] : \A m \in below[n] :
           /\ m \in below[r] /\ below[m] \subseteq below[n]
           /\ m # n => up[m] \in below[n]

LEMMA NilFacts ==
    /\ Tree!Nil = 0 /\ Tree!Nil \notin Tree!TreeNodes
    /\ Tree!Pointers = Tree!TreeNodes \cup {Tree!Nil}
  BY DEF Tree!Nil, Tree!TreeNodes, Tree!Pointers

LEMMA SideFacts ==
    ASSUME NEW s \in Tree!Sides
    PROVE  /\ Tree!Opposite(s) \in Tree!Sides /\ Tree!Opposite(s) # s
           /\ Tree!Opposite(Tree!Opposite(s)) = s
           /\ \A u \in Tree!Sides : u = s \/ u = Tree!Opposite(s)
  BY DEF Tree!Sides, Tree!Opposite

LEMMA ShapeFacts ==
    ASSUME NEW r, NEW up, NEW down, NEW below, Shape(r, up, down, below),
           NEW n \in below[r]
    PROVE  /\ n \in Tree!TreeNodes /\ n \in Tree!Pointers /\ n # Tree!Nil /\ n \in below[n] /\ below[n] \subseteq below[r]
           /\ r \in below[r] /\ r # Tree!Nil /\ up[n] \in Tree!Pointers
           /\ up[n] = Tree!Nil <=> n = r
           /\ \A m \in below[n] : n \in below[m] => m = n
           /\ \A s \in Tree!Sides : \A c : c = down[s][n] /\ c # Tree!Nil =>
                  /\ c \in below[r] /\ up[c] = n /\ c # n /\ c # r
                  /\ n \notin below[c] /\ c \in below[n] /\ below[c] \subseteq below[n]
                  /\ c # down[Tree!Opposite(s)][n]
<1>1. r \in below[r] /\ r # Tree!Nil /\ n \in Tree!TreeNodes
  BY NilFacts DEF Shape
<1>2. n \in below[n] /\ below[n] \subseteq below[r]
  <2>1. "left" \in Tree!Sides
    BY DEF Tree!Sides
  <2> QED BY <2>1 DEF Shape
<1>3. up[n] = Tree!Nil <=> n = r
  BY <1>1, NilFacts DEF Shape
<1>4. ASSUME NEW s \in Tree!Sides, NEW c, c = down[s][n], c # Tree!Nil
      PROVE  /\ c \in below[r] /\ up[c] = n /\ c # n /\ c # r
             /\ n \notin below[c] /\ c \in below[n] /\ below[c] \subseteq below[n]
             /\ c # down[Tree!Opposite(s)][n]
  <2>1. c \in below[r] /\ up[c] = n /\ n \notin below[c]
    BY <1>4 DEF Shape
  <2>2. c \in below[c]
    <3>1. "left" \in Tree!Sides
      BY DEF Tree!Sides
    <3> QED BY <2>1, <3>1 DEF Shape
  <2>3. c # r
    BY <1>1, <2>1, NilFacts DEF Shape
  <2>4. c \in below[n] /\ below[c] \subseteq below[n]
    BY <1>4, <2>2 DEF Shape
  <2>5. c # down[Tree!Opposite(s)][n]
    BY <1>4, <2>2 DEF Shape
  <2> QED BY <1>2, <2>1, <2>2, <2>3, <2>4, <2>5
<1>5. ASSUME NEW m \in below[n], n \in below[m], m # n PROVE FALSE
  <2>1. PICK s \in Tree!Sides : m \in below[down[s][n]]
    <3>1. "left" \in Tree!Sides
      BY DEF Tree!Sides
    <3>2. Tree!Opposite("left") \in Tree!Sides
      BY <3>1, SideFacts
    <3> QED BY <1>5, <3>1, <3>2 DEF Shape
  <2>2. down[s][n] \in below[r]
    BY <2>1, NilFacts DEF Shape
  <2>3. below[m] \subseteq below[down[s][n]]
    BY <2>1, <2>2 DEF Shape
  <2> QED BY <1>5, <2>3 DEF Shape
<1> QED BY <1>1, <1>2, <1>3, <1>4, <1>5, NilFacts DEF Shape

\* What hangs below the two sides of a node of the tree.
LEMMA SplitFacts ==
    ASSUME NEW r, NEW up, NEW down, NEW below, Shape(r, up, down, below),
           NEW n \in below[r], NEW s \in Tree!Sides
    PROVE  /\ down[s][n] \in below[r] \cup {Tree!Nil} /\ n \notin below[down[s][n]]
           /\ below[down[s][n]] \cap below[down[Tree!Opposite(s)][n]] = {}
           /\ below[n] = {n} \cup below[down[s][n]] \cup below[down[Tree!Opposite(s)][n]]
  BY DEF Shape

\* The parent of a node that is not the root has the node for a child.
LEMMA ParentLink ==
    ASSUME NEW r, NEW up, NEW down, NEW below, Shape(r, up, down, below),
           NEW n \in below[r], n # r
    PROVE  up[n] \in below[r] /\ \E s \in Tree!Sides : down[s][up[n]] = n
  BY DEF Shape

\* The same tree with x turned down to side s, below its other child y.
TurnedBelow(s, x, down, below) ==
    LET y == down[Tree!Opposite(s)][x]
    IN  [n \in Tree!Pointers |->
            IF n = y THEN below[x]
            ELSE IF n = x THEN {x} \cup below[down[s][x]] \cup below[down[s][y]]
            ELSE below[n]]

Turns(r, up, down, below, s, x, r2, up2, down2, below2) ==
    LET y == down[Tree!Opposite(s)][x]
        b == down[s][y]
    IN  /\ y # Tree!Nil
        /\ r2 = IF up[x] = Tree!Nil THEN y ELSE r
        /\ up2 \in [Tree!TreeNodes -> Tree!Pointers]
        /\ \A n \in Tree!TreeNodes :
               up2[n] = IF n = y THEN up[x] ELSE IF n = x THEN y ELSE IF n = b THEN x ELSE up[n]
        /\ down2 \in [Tree!Sides -> [Tree!TreeNodes -> Tree!Pointers]]
        /\ \A n \in below[r], u \in Tree!Sides :
               down2[u][n] = IF n = x THEN (IF u = s THEN down[s][x] ELSE b)
                             ELSE IF n = y THEN (IF u = s THEN x ELSE down[u][y])
                             ELSE IF down[u][n] = x THEN y ELSE down[u][n]
        /\ below2 = TurnedBelow(s, x, down, below)

LEMMA TurnShape ==
    ASSUME NEW r, NEW up, NEW down, NEW below, Shape(r, up, down, below),
           NEW s \in Tree!Sides, NEW x \in below[r],
           NEW r2, NEW up2, NEW down2, NEW below2,
           Turns(r, up, down, below, s, x, r2, up2, down2, below2)
    PROVE  Shape(r2, up2, down2, below2) /\ below2[r2] = below[r]
<1> DEFINE y == down[Tree!Opposite(s)][x]
           b == down[s][y]
<1>0. /\ y = down[Tree!Opposite(s)][x] /\ b = down[s][y] /\ y # Tree!Nil
      /\ r2 = IF up[x] = Tree!Nil THEN y ELSE r
      /\ up2 \in [Tree!TreeNodes -> Tree!Pointers]
      /\ \A n \in Tree!TreeNodes :
             up2[n] = IF n = y THEN up[x] ELSE IF n = x THEN y ELSE IF n = b THEN x ELSE up[n]
      /\ down2 \in [Tree!Sides -> [Tree!TreeNodes -> Tree!Pointers]]
      /\ \A n \in below[r], u \in Tree!Sides :
             down2[u][n] = IF n = x THEN (IF u = s THEN down[s][x] ELSE b)
                           ELSE IF n = y THEN (IF u = s THEN x ELSE down[u][y])
                           ELSE IF down[u][n] = x THEN y ELSE down[u][n]
      /\ below2 = TurnedBelow(s, x, down, below)
  BY DEF Turns
<1> HIDE DEF y, b
<1> USE <1>0
<1> DEFINE o == Tree!Opposite(s)
           a == down[s][x]
           c == down[o][y]
<1>1. /\ o \in Tree!Sides /\ o # s /\ Tree!Opposite(o) = s
      /\ \A u \in Tree!Sides : u = s \/ u = o
  BY SideFacts
<1>2. /\ x \in Tree!TreeNodes /\ x \in below[x] /\ below[x] \subseteq below[r] /\ up[x] \in Tree!Pointers
      /\ x # Tree!Nil /\ (up[x] = Tree!Nil <=> x = r)
  BY ShapeFacts
<1>3. /\ y \in below[r] /\ up[y] = x /\ y # x /\ y # r /\ x \notin below[y] /\ y \in below[x]
      /\ below[y] \subseteq below[x]
  BY <1>1, ShapeFacts
<1>4. y \in Tree!TreeNodes /\ y \in below[y]
  BY <1>3, ShapeFacts
<1>5. /\ a \in below[r] \cup {Tree!Nil} /\ x \notin below[a] /\ below[a] \cap below[y] = {}
      /\ below[x] = {x} \cup below[a] \cup below[y]
      /\ a # Tree!Nil => up[a] = x /\ a # x /\ a # r /\ a # y
  <2>1. a # Tree!Nil => up[a] = x /\ a # x /\ a # r /\ a # y
    BY <1>1, ShapeFacts
  <2>2. /\ a \in below[r] \cup {Tree!Nil} /\ x \notin below[a]
        /\ below[a] \cap below[y] = {} /\ below[x] = {x} \cup below[a] \cup below[y]
    BY <1>1, SplitFacts
  <2> QED BY <2>1, <2>2
<1>6. /\ b \in below[r] \cup {Tree!Nil} /\ c \in below[r] \cup {Tree!Nil}
      /\ y \notin below[b] /\ y \notin below[c] /\ below[b] \cap below[c] = {}
      /\ below[y] = {y} \cup below[b] \cup below[c]
      /\ b # Tree!Nil => up[b] = y /\ b # y /\ b # r /\ b # c /\ b \in below[y]
      /\ c # Tree!Nil => up[c] = y /\ c # y /\ c # r /\ c \in below[y]
  <2>1. b # Tree!Nil => up[b] = y /\ b # y /\ b # r /\ b # c /\ b \in below[y]
    BY <1>1, <1>3, ShapeFacts
  <2>2. c # Tree!Nil => up[c] = y /\ c # y /\ c # r /\ c \in below[y]
    BY <1>1, <1>3, ShapeFacts
  <2>3. /\ b \in below[r] \cup {Tree!Nil} /\ y \notin below[b] /\ below[b] \cap below[c] = {}
        /\ below[y] = {y} \cup below[b] \cup below[c]
    <3>2. down[s][y] = b /\ down[Tree!Opposite(s)][y] = c
      BY <1>0
    <3> HIDE <1>0
    <3>1. /\ down[s][y] \in below[r] \cup {Tree!Nil} /\ y \notin below[down[s][y]]
          /\ below[down[s][y]] \cap below[down[Tree!Opposite(s)][y]] = {}
          /\ below[y] = {y} \cup below[down[s][y]] \cup below[down[Tree!Opposite(s)][y]]
      BY <1>3, SplitFacts
    <3> HIDE DEF c, o
    <3> QED BY <3>1, <3>2
  <2>4. c \in below[r] \cup {Tree!Nil} /\ y \notin below[c]
    BY <1>1, <1>3, SplitFacts
  <2> QED BY <2>1, <2>2, <2>3, <2>4
<1>7. b # x /\ c # x /\ x \notin below[b] /\ x \notin below[c]
  BY <1>2, <1>3, <1>6
<1>8. /\ below2 \in [Tree!Pointers -> SUBSET Tree!TreeNodes] /\ below2[Tree!Nil] = {}
      /\ below2[y] = below[x] /\ below2[x] = {x} \cup below[a] \cup below[b]
      /\ \A n \in Tree!Pointers : n # x /\ n # y => below2[n] = below[n]
  <2>1. a \in Tree!Pointers /\ b \in Tree!Pointers /\ y \in Tree!Pointers /\ x \in Tree!Pointers
    BY <1>2, <1>4, <1>5, <1>6, NilFacts DEF Shape
  <2>2. Tree!Nil # x /\ Tree!Nil # y /\ Tree!Nil \in Tree!Pointers
    BY <1>2, <1>4, NilFacts
  <2>3. below \in [Tree!Pointers -> SUBSET Tree!TreeNodes] /\ below[Tree!Nil] = {}
    BY DEF Shape
  <2>4. below2 = [n \in Tree!Pointers |->
            IF n = y THEN below[x]
            ELSE IF n = x THEN {x} \cup below[a] \cup below[b]
            ELSE below[n]]
    BY DEF TurnedBelow
  <2> HIDE DEF a, c, o
  <2>5. \A n \in Tree!Pointers : below[n] \subseteq Tree!TreeNodes
    BY <2>3
  <2>6. below2 \in [Tree!Pointers -> SUBSET Tree!TreeNodes]
    <3>1. ASSUME NEW n \in Tree!Pointers
          PROVE  (IF n = y THEN below[x] ELSE IF n = x THEN {x} \cup below[a] \cup below[b] ELSE below[n])
                     \in SUBSET Tree!TreeNodes
      <4>1. below[x] \subseteq Tree!TreeNodes /\ below[n] \subseteq Tree!TreeNodes
        BY <2>1, <2>5
      <4>2. {x} \cup below[a] \cup below[b] \subseteq Tree!TreeNodes
        BY <1>2, <2>1, <2>5
      <4> HIDE <1>0
      <4> QED BY <4>1, <4>2
    <3> QED BY <2>4, <3>1
  <2>7. below2[y] = below[x] /\ below2[Tree!Nil] = {}
    BY <2>1, <2>2, <2>3, <2>4
  <2>8. below2[x] = {x} \cup below[a] \cup below[b]
    BY <1>3, <2>1, <2>4
  <2>9. \A n \in Tree!Pointers : n # x /\ n # y => below2[n] = below[n]
    BY <2>4
  <2> QED BY <2>6, <2>7, <2>8, <2>9
<1>9. r2 \in Tree!Pointers /\ r2 # Tree!Nil /\ below2[r2] = below[r] /\ up2[r2] = Tree!Nil /\ r2 \in below[r]
  <2>1. CASE x = r
    <3>1. r2 = y
      BY <1>2, <2>1
    <3> QED BY <1>2, <1>3, <1>4, <1>8, <2>1, <3>1, NilFacts
  <2>2. CASE x # r
    <3>1. r2 = r /\ r \in below[r] /\ r \in Tree!TreeNodes
      BY <1>2, <2>2, ShapeFacts
    <3>2. up[r] = Tree!Nil /\ r # y /\ r # b
      BY <1>3, <1>6, <3>1, NilFacts DEF Shape
    <3> QED BY <1>8, <2>2, <3>1, <3>2, NilFacts
  <2> QED BY <2>1, <2>2
<1>10. \A n \in below[r] : n \in Tree!TreeNodes /\ n \in Tree!Pointers /\ n \in below[n] /\ n # Tree!Nil
  BY ShapeFacts
<1> HIDE DEF a, c, o
<1>11. /\ down2[s][x] = a /\ down2[o][x] = b /\ down2[s][y] = x /\ down2[o][y] = c
       /\ up2[y] = up[x] /\ up2[x] = y
       /\ b # Tree!Nil => up2[b] = x
       /\ a # Tree!Nil => up2[a] = x
       /\ c # Tree!Nil => up2[c] = y
  <2>1. down2[s][x] = a /\ down2[o][x] = b /\ down2[s][y] = x /\ down2[o][y] = c
    BY <1>1, <1>3, <1>4 DEF a, c, o
  <2>2. up2[y] = up[x] /\ up2[x] = y
    BY <1>2, <1>3, <1>4
  <2>3. b # Tree!Nil => up2[b] = x
    BY <1>6, <1>7, <1>10
  <2>4. a # Tree!Nil => up2[a] = x
    <3>1. a # Tree!Nil => a # b
      BY <1>5, <1>6, <1>10
    <3> QED BY <1>5, <1>10, <3>1
  <2>5. c # Tree!Nil => up2[c] = y
    BY <1>6, <1>7, <1>10
  <2> QED BY <2>1, <2>2, <2>3, <2>4, <2>5
\* The parent of x has y for x, and other links lead where they led.
<1>12. ASSUME NEW n \in below[r], n # x, n # y, NEW u \in Tree!Sides
       PROVE  /\ down[u][n] = x => down2[u][n] = y /\ n = up[x]
              /\ down[u][n] # x => down2[u][n] = down[u][n]
              /\ down[u][n] # y /\ (down[u][n] = b => b = Tree!Nil)
              /\ below2[down2[u][n]] = below[down[u][n]] /\ below2[n] = below[n]
              /\ down2[u][n] \in below[r] \cup {Tree!Nil} /\ n \notin below2[down2[u][n]]
              /\ down2[u][n] # Tree!Nil => up2[down2[u][n]] = n
  <2>1. /\ down[u][n] \in below[r] \cup {Tree!Nil} /\ n \notin below[down[u][n]]
        /\ down[u][n] # Tree!Nil => up[down[u][n]] = n
    BY DEF Shape
  <2>2. down[u][n] # y /\ (down[u][n] = b => b = Tree!Nil)
    BY <1>3, <1>4, <1>6, <1>12, <2>1, NilFacts
  <2>3. down2[u][n] = IF down[u][n] = x THEN y ELSE down[u][n]
    BY <1>12
  <2>4. below2[n] = below[n]
    BY <1>8, <1>10, <1>12
  <2>5. CASE down[u][n] = x
    BY <1>2, <1>3, <1>8, <1>11, <2>1, <2>2, <2>3, <2>4, <2>5
  <2>6. CASE down[u][n] # x
    <3>1. down[u][n] \in Tree!Pointers
      BY <1>10, <2>1, NilFacts
    <3>2. down[u][n] # Tree!Nil => up2[down[u][n]] = up[down[u][n]]
      BY <1>10, <2>1, <2>2, <2>6
    <3> QED BY <1>8, <2>1, <2>2, <2>3, <2>4, <2>6, <3>1, <3>2
  <2> QED BY <2>5, <2>6
<1>13. \A n \in below2[r2] : \A u \in Tree!Sides :
           /\ down2[u][n] \in below2[r2] \cup {Tree!Nil} /\ n \notin below2[down2[u][n]]
           /\ down2[u][n] # Tree!Nil => up2[down2[u][n]] = n
           /\ below2[down2[u][n]] \cap below2[down2[Tree!Opposite(u)][n]] = {}
           /\ below2[n] = {n} \cup below2[down2[u][n]] \cup below2[down2[Tree!Opposite(u)][n]]
  <2>0. below2[r2] = below[r]
    BY <1>9
  <2> SUFFICES ASSUME NEW n \in below[r], NEW u \in Tree!Sides
               PROVE  /\ down2[u][n] \in below[r] \cup {Tree!Nil} /\ n \notin below2[down2[u][n]]
                      /\ down2[u][n] # Tree!Nil => up2[down2[u][n]] = n
                      /\ below2[down2[u][n]] \cap below2[down2[Tree!Opposite(u)][n]] = {}
                      /\ below2[n] = {n} \cup below2[down2[u][n]] \cup below2[down2[Tree!Opposite(u)][n]]
    BY <2>0
  <2>1. CASE n = x
    <3>1. below2[a] = below[a] /\ below2[b] = below[b]
      BY <1>5, <1>6, <1>7, <1>8, <1>10, NilFacts
    <3>2. below[a] \cap below[b] = {}
      BY <1>5, <1>6
    <3>3. /\ {down2[u][x], down2[Tree!Opposite(u)][x]} = {a, b}
          /\ (u = s /\ Tree!Opposite(u) = o) \/ (u = o /\ Tree!Opposite(u) = s)
      BY <1>1, <1>11 DEF o
    <3>4. a \in below[r] \cup {Tree!Nil} /\ b \in below[r] \cup {Tree!Nil} /\ x \notin below[a]
      BY <1>5, <1>6
    <3>5. below2[x] = {x} \cup below2[a] \cup below2[b]
      BY <1>8, <3>1
    <3>6. x \notin below2[a] /\ x \notin below2[b] /\ below2[a] \cap below2[b] = {}
      BY <1>7, <3>1, <3>2, <3>4
    <3>7. CASE u = s /\ Tree!Opposite(u) = o
      <4>1. down2[u][n] = a /\ down2[Tree!Opposite(u)][n] = b
        BY <1>11, <2>1, <3>7
      <4> QED BY <1>11, <2>1, <3>4, <3>5, <3>6, <4>1
    <3>8. CASE u = o /\ Tree!Opposite(u) = s
      <4>1. down2[u][n] = b /\ down2[Tree!Opposite(u)][n] = a
        BY <1>11, <2>1, <3>8
      <4> QED BY <1>11, <2>1, <3>4, <3>5, <3>6, <4>1
    <3> QED BY <3>3, <3>7, <3>8
  <2>2. CASE n = y
    <3>1. below2[c] = below[c]
      BY <1>6, <1>7, <1>8, <1>10, NilFacts
    <3>2. below2[x] = {x} \cup below[a] \cup below[b] /\ below2[y] = {x} \cup below[a] \cup below[y]
      BY <1>5, <1>8
    <3>4. y \notin below2[x]
      BY <1>3, <1>4, <1>5, <1>6, <3>2
    <3>5. below2[x] \cap below[c] = {}
      <4>1. below[c] \subseteq below[y]
        BY <1>6
      <4>2. ASSUME NEW e \in below2[x], e \in below[c] PROVE FALSE
        <5>1. e # x /\ e \notin below[b]
          BY <1>6, <1>7, <4>2
        <5>2. e \notin below[a]
          BY <1>5, <4>1, <4>2
        <5> QED BY <3>2, <4>2, <5>1, <5>2
      <4> QED BY <4>2
    <3>6. below2[y] = {y} \cup below2[x] \cup below[c]
      <4>1. below[y] = {y} \cup below[b] \cup below[c]
        BY <1>6
      <4> QED BY <3>2, <4>1
    <3>3. (u = s /\ Tree!Opposite(u) = o) \/ (u = o /\ Tree!Opposite(u) = s)
      BY <1>1 DEF o
    <3>7. c \in below[r] \cup {Tree!Nil} /\ y \notin below[c] /\ (c # Tree!Nil => up2[c] = y)
      BY <1>6, <1>11
    <3>8. CASE u = s /\ Tree!Opposite(u) = o
      <4>1. down2[u][n] = x /\ down2[Tree!Opposite(u)][n] = c
        BY <1>11, <2>2, <3>8
      <4>2. up2[x] = n
        BY <1>11, <2>2
      <4> QED BY <2>2, <3>1, <3>4, <3>5, <3>6, <4>1, <4>2
    <3>9. CASE u = o /\ Tree!Opposite(u) = s
      <4>1. down2[u][n] = c /\ down2[Tree!Opposite(u)][n] = x
        BY <1>11, <2>2, <3>9
      <4> QED BY <2>2, <3>1, <3>5, <3>6, <3>7, <4>1
    <3> QED BY <3>3, <3>8, <3>9
  <2>3. CASE n # x /\ n # y
    <3>1. Tree!Opposite(u) \in Tree!Sides
      BY SideFacts
    <3>2. /\ below[down[u][n]] \cap below[down[Tree!Opposite(u)][n]] = {}
          /\ below[n] = {n} \cup below[down[u][n]] \cup below[down[Tree!Opposite(u)][n]]
      BY DEF Shape
    <3> QED BY <1>12, <2>3, <3>1, <3>2
  <2> QED BY <2>1, <2>2, <2>3
<1>14. \A n \in below2[r2] \ {r2} : up2[n] \in below2[r2] /\ \E u \in Tree!Sides : down2[u][up2[n]] = n
  <2> SUFFICES ASSUME NEW n \in below[r], n # r2
               PROVE  up2[n] \in below[r] /\ \E u \in Tree!Sides : down2[u][up2[n]] = n
    BY <1>9
  <2>1. CASE n = y
    <3>1. up[x] # Tree!Nil /\ x # r
      BY <1>2, <2>1
    <3>2. up[x] \in below[r] /\ \E u \in Tree!Sides : down[u][up[x]] = x
      BY <3>1, ParentLink
    <3>3. up[x] # x /\ up[x] # y
      <4>1. PICK u \in Tree!Sides : down[u][up[x]] = x
        BY <3>2
      <4>2. x # up[x] /\ up[x] \notin below[x]
        BY <1>2, <3>2, <4>1, ShapeFacts
      <4> QED BY <1>3, <4>2
    <3> QED BY <1>11, <1>12, <2>1, <3>2, <3>3
  <2>2. CASE n = x
    BY <1>1, <1>3, <1>11, <2>2
  <2>3. CASE n = b
    BY <1>1, <1>10, <1>11, <2>3
  <2>4. CASE n # x /\ n # y /\ n # b
    <3>1. up2[n] = up[n]
      BY <1>10, <2>4
    <3>2. n # r
      BY <1>2, <2>4
    <3>3. up[n] \in below[r] /\ \E u \in Tree!Sides : down[u][up[n]] = n
      BY <3>2 DEF Shape
    <3>4. PICK u \in Tree!Sides : down[u][up[n]] = n
      BY <3>3
    <3>5. u = s \/ u = o
      BY <1>1
    <3>6. CASE up[n] = x
      <4>1. n = a
        BY <2>4, <3>4, <3>5, <3>6 DEF a, o
      <4> QED BY <1>11, <3>1, <3>3, <3>6, <4>1
    <3>7. CASE up[n] = y
      <4>1. n = c
        BY <2>4, <3>4, <3>5, <3>7 DEF c
      <4> QED BY <1>1, <1>11, <3>1, <3>3, <3>7, <4>1
    <3>8. CASE up[n] # x /\ up[n] # y
      BY <1>12, <2>4, <3>1, <3>3, <3>4, <3>8
    <3> QED BY <3>6, <3>7, <3>8
  <2> QED BY <2>1, <2>2, <2>3, <2>4
<1>15. \A n \in below2[r2] : \A m \in below2[n] :
           /\ m \in below2[r2] /\ below2[m] \subseteq below2[n]
           /\ m # n => up2[m] \in below2[n]
  <2> SUFFICES ASSUME NEW n \in below[r], NEW m \in below2[n]
               PROVE  /\ m \in below[r] /\ below2[m] \subseteq below2[n]
                      /\ m # n => up2[m] \in below2[n]
    BY <1>9
  <2>a. \A i \in below[r] : \A j \in below[i] :
           /\ j \in below[r] /\ below[j] \subseteq below[i]
           /\ j # i => up[j] \in below[i]
    BY DEF Shape
  <2>b. below2[x] \subseteq below[x]
    BY <1>5, <1>6, <1>8
  <2>c. \A i \in below[r] : i # x => below2[i] = IF i = y THEN below[x] ELSE below[i]
    BY <1>8, <1>10
  <2>1. CASE n = y
    <3>1. below2[n] = below[x]
      BY <1>8, <2>1
    <3>2. m \in below[r] /\ below[m] \subseteq below[x]
      BY <2>a, <3>1
    <3>3. below2[m] \subseteq below[x]
      BY <2>b, <2>c, <3>2
    <3>4. ASSUME m # y PROVE up2[m] \in below[x]
      <4>1. CASE m = x
        BY <1>3, <1>11, <4>1
      <4>2. CASE m = b
        BY <1>2, <1>10, <1>11, <3>2, <4>2
      <4>3. CASE m # x /\ m # b
        BY <1>10, <2>a, <3>1, <3>2, <3>4, <4>3
      <4> QED BY <4>1, <4>2, <4>3
    <3> QED BY <2>1, <3>1, <3>2, <3>3, <3>4
  <2>2. CASE n = x
    <3>1. m = x \/ m \in below[a] \/ m \in below[b]
      BY <1>8, <2>2
    <3>2. CASE m = x
      BY <2>2, <3>2
    <3>3. CASE m \in below[a]
      <4>1. a # Tree!Nil /\ a \in below[r]
        BY <1>5, <3>3 DEF Shape
      <4>2. m \in below[r] /\ below[m] \subseteq below[a] /\ (m # a => up[m] \in below[a])
        BY <2>a, <3>3, <4>1
      <4>3. m # x /\ m # y /\ m # b
        BY <1>4, <1>5, <1>6, <1>10, <3>3, <4>2
      <4>4. below2[m] = below[m] /\ (m # a => up2[m] = up[m])
        BY <1>8, <1>10, <4>2, <4>3
      <4> QED BY <1>8, <1>11, <2>2, <4>1, <4>2, <4>4
    <3>4. CASE m \in below[b]
      <4>1. b # Tree!Nil /\ b \in below[r]
        BY <1>6, <3>4 DEF Shape
      <4>2. m \in below[r] /\ below[m] \subseteq below[b] /\ (m # b => up[m] \in below[b])
        BY <2>a, <3>4, <4>1
      <4>3. m # x /\ m # y
        BY <1>6, <1>7, <3>4
      <4>4. below2[m] = below[m] /\ (m # b => up2[m] = up[m])
        BY <1>8, <1>10, <4>2, <4>3
      <4> QED BY <1>8, <1>11, <2>2, <4>1, <4>2, <4>4
    <3> QED BY <3>1, <3>2, <3>3, <3>4
  <2>3. CASE n # x /\ n # y
    <3>1. below2[n] = below[n]
      BY <2>c, <2>3
    <3>2. m \in below[r] /\ below[m] \subseteq below[n] /\ (m # n => up[m] \in below[n])
      BY <2>a, <3>1
    <3>3. y \in below[n] => x \in below[n] /\ below[x] \subseteq below[n]
      BY <1>3, <2>a, <2>3
    <3>4. below2[m] \subseteq below[n]
      BY <2>b, <2>c, <3>1, <3>2, <3>3
    <3>5. ASSUME m # n PROVE up2[m] \in below[n]
      <4>1. CASE m = x
        BY <1>3, <1>11, <2>a, <3>1, <4>1
      <4>2. CASE m = b
        <5>1. y \in below[n]
          BY <1>6, <1>10, <3>2, <3>5, <4>2
        <5> QED BY <1>10, <1>11, <3>2, <3>3, <4>2, <5>1
      <4>3. CASE m = y
        <5>1. x \in below[n] /\ x # n
          BY <2>3, <3>1, <3>3, <4>3
        <5> QED BY <1>11, <2>a, <4>3, <5>1
      <4>4. CASE m # x /\ m # b /\ m # y
        BY <1>10, <3>2, <3>5, <4>4
      <4> QED BY <4>1, <4>2, <4>3, <4>4
    <3> QED BY <3>1, <3>2, <3>4, <3>5
  <2> QED BY <2>1, <2>2, <2>3
<1>16. r2 \in below2[r2]
  BY <1>9
<1> QED BY <1>8, <1>9, <1>13, <1>14, <1>15, <1>16 DEF Shape

\* The same tree with a leaf z below y.
HungBelow(r, z, y, below) ==
    [n \in Tree!Pointers |->
        IF n = z THEN {z} ELSE IF n \in below[r] /\ y \in below[n] THEN below[n] \cup {z} ELSE below[n]]

Attaches(r, up, down, below, z, y, side, up2, down2, below2) ==
    /\ z \in Tree!TreeNodes /\ z \notin below[r] /\ \A s \in Tree!Sides : down[s][z] = Tree!Nil
    /\ y \in below[r] /\ side \in Tree!Sides /\ down[side][y] = Tree!Nil
    /\ below2 = HungBelow(r, z, y, below)
    /\ up2 \in [Tree!TreeNodes -> Tree!Pointers]
    /\ \A n \in Tree!TreeNodes : up2[n] = IF n = z THEN y ELSE up[n]
    /\ down2 \in [Tree!Sides -> [Tree!TreeNodes -> Tree!Pointers]]
    /\ \A n \in Tree!TreeNodes, s \in Tree!Sides :
           down2[s][n] = IF n = y /\ s = side THEN z ELSE down[s][n]

LEMMA HangShape ==
    ASSUME NEW r, NEW up, NEW down, NEW below, Shape(r, up, down, below),
           NEW z, NEW y, NEW side, NEW up2, NEW down2, NEW below2,
           Attaches(r, up, down, below, z, y, side, up2, down2, below2)
    PROVE  Shape(r, up2, down2, below2) /\ below2[r] = below[r] \cup {z}
<1>0. /\ z \in Tree!TreeNodes /\ z \notin below[r] /\ \A s \in Tree!Sides : down[s][z] = Tree!Nil
      /\ y \in below[r] /\ side \in Tree!Sides /\ down[side][y] = Tree!Nil
      /\ below2 = HungBelow(r, z, y, below)
      /\ up2 \in [Tree!TreeNodes -> Tree!Pointers]
      /\ \A n \in Tree!TreeNodes : up2[n] = IF n = z THEN y ELSE up[n]
      /\ down2 \in [Tree!Sides -> [Tree!TreeNodes -> Tree!Pointers]]
      /\ \A n \in Tree!TreeNodes, s \in Tree!Sides :
             down2[s][n] = IF n = y /\ s = side THEN z ELSE down[s][n]
  BY DEF Attaches
<1> USE <1>0
<1>1. \A n \in below[r] : /\ n \in Tree!TreeNodes /\ n \in Tree!Pointers /\ n # Tree!Nil /\ n # z
                          /\ n \in below[n] /\ below[n] \subseteq below[r] /\ z \notin below[n]
                          /\ n # r => up[n] \in below[r]
  <2> SUFFICES ASSUME NEW n \in below[r]
               PROVE  /\ n \in Tree!TreeNodes /\ n \in Tree!Pointers /\ n # Tree!Nil /\ n # z
                      /\ n \in below[n] /\ below[n] \subseteq below[r] /\ z \notin below[n]
                      /\ n # r => up[n] \in below[r]
    OBVIOUS
  <2>1. n \in below[n] /\ below[n] \subseteq below[r] /\ n \in Tree!TreeNodes /\ n \in Tree!Pointers /\ n # Tree!Nil
    BY ShapeFacts
  <2>2. n # r => up[n] \in below[r]
    BY DEF Shape
  <2> QED BY <2>1, <2>2
<1>2. r \in below[r] /\ r # Tree!Nil /\ up[r] = Tree!Nil
  BY NilFacts, ShapeFacts DEF Shape
<1>3. y \in Tree!TreeNodes /\ y # z /\ y \in below[y] /\ y \in below[r] /\ z # Tree!Nil /\ z \in Tree!Pointers /\ y # Tree!Nil
  BY <1>1, NilFacts
<1>4. /\ below2 \in [Tree!Pointers -> SUBSET Tree!TreeNodes] /\ below2[Tree!Nil] = {}
      /\ below2[z] = {z}
      /\ \A n \in below[r] : below2[n] = IF y \in below[n] THEN below[n] \cup {z} ELSE below[n]
  <2>1. below \in [Tree!Pointers -> SUBSET Tree!TreeNodes] /\ below[Tree!Nil] = {} /\ Tree!Nil \in Tree!Pointers
    BY NilFacts DEF Shape
  <2>2. below2 = [n \in Tree!Pointers |->
        IF n = z THEN {z} ELSE IF n \in below[r] /\ y \in below[n] THEN below[n] \cup {z} ELSE below[n]]
    BY DEF HungBelow
  <2>3. below2 \in [Tree!Pointers -> SUBSET Tree!TreeNodes]
    BY <2>1, <2>2
  <2>4. below2[Tree!Nil] = {} /\ below2[z] = {z}
    BY <1>1, <1>3, <2>1, <2>2
  <2>5. \A n \in below[r] : below2[n] = IF y \in below[n] THEN below[n] \cup {z} ELSE below[n]
    BY <1>1, <2>2
  <2> QED BY <2>3, <2>4, <2>5
<1>5. below2[r] = below[r] \cup {z}
  BY <1>2, <1>3, <1>4
\* What is below the children of a node of the old tree.
<1>6. ASSUME NEW n \in below[r], NEW s \in Tree!Sides
      PROVE  /\ down2[s][n] \in below[r] \cup {Tree!Nil, z} /\ n \notin below2[down2[s][n]]
             /\ down2[s][n] # Tree!Nil => up2[down2[s][n]] = n
             /\ below2[down2[s][n]] = below[down[s][n]] \cup
                                      (IF y \in below[down[s][n]] \/ (n = y /\ s = side) THEN {z} ELSE {})
  <2>1. /\ down[s][n] \in below[r] \cup {Tree!Nil} /\ n \notin below[down[s][n]]
        /\ down[s][n] # Tree!Nil => up[down[s][n]] = n
    BY DEF Shape
  <2>2. below[Tree!Nil] = {}
    BY DEF Shape
  <2>3. n \in Tree!TreeNodes /\ n # z
    BY <1>1
  <2>4. CASE n = y /\ s = side
    <3>1. down2[s][n] = z /\ down[s][n] = Tree!Nil
      BY <2>3, <2>4
    <3> QED BY <1>3, <1>4, <2>2, <2>3, <2>4, <3>1
  <2>5. CASE ~(n = y /\ s = side)
    <3>1. down2[s][n] = down[s][n]
      BY <2>3, <2>5
    <3>2. CASE down[s][n] = Tree!Nil
      BY <1>4, <2>1, <2>2, <2>5, <3>1, <3>2
    <3>3. CASE down[s][n] # Tree!Nil
      <4>1. down[s][n] \in below[r] /\ down[s][n] # z /\ down[s][n] \in Tree!TreeNodes
        BY <1>1, <2>1, <3>3
      <4>2. below2[down[s][n]] = IF y \in below[down[s][n]] THEN below[down[s][n]] \cup {z}
                                 ELSE below[down[s][n]]
        BY <1>4, <4>1
      <4>3. up2[down[s][n]] = n
        BY <2>1, <3>3, <4>1
      <4> QED BY <2>1, <2>3, <2>5, <3>1, <4>1, <4>2, <4>3
    <3> QED BY <3>2, <3>3
  <2> QED BY <2>4, <2>5
<1>7. \A s \in Tree!Sides : down2[s][z] = Tree!Nil
  BY <1>3
<1>8. \A n \in below2[r] : \A s \in Tree!Sides :
           /\ down2[s][n] \in below2[r] \cup {Tree!Nil} /\ n \notin below2[down2[s][n]]
           /\ down2[s][n] # Tree!Nil => up2[down2[s][n]] = n
           /\ below2[down2[s][n]] \cap below2[down2[Tree!Opposite(s)][n]] = {}
           /\ below2[n] = {n} \cup below2[down2[s][n]] \cup below2[down2[Tree!Opposite(s)][n]]
  <2> SUFFICES ASSUME NEW n \in below[r] \cup {z}, NEW s \in Tree!Sides
               PROVE  /\ down2[s][n] \in below[r] \cup {Tree!Nil, z} /\ n \notin below2[down2[s][n]]
                      /\ down2[s][n] # Tree!Nil => up2[down2[s][n]] = n
                      /\ below2[down2[s][n]] \cap below2[down2[Tree!Opposite(s)][n]] = {}
                      /\ below2[n] = {n} \cup below2[down2[s][n]] \cup below2[down2[Tree!Opposite(s)][n]]
    BY <1>5
  <2>0. Tree!Opposite(s) \in Tree!Sides /\ Tree!Opposite(s) # s /\ (side = s \/ side = Tree!Opposite(s))
    BY SideFacts
  <2>1. CASE n = z
    BY <1>3, <1>4, <1>7, <2>0, <2>1
  <2>2. CASE n \in below[r]
    <3> DEFINE o == Tree!Opposite(s)
               u == below[down[s][n]]
               w == below[down[o][n]]
    <3>1. /\ below[n] = {n} \cup u \cup w /\ u \cap w = {} /\ n \notin u /\ n \notin w
      BY <2>0, <2>2 DEF Shape
    <3>2. /\ below2[down2[s][n]] = u \cup (IF y \in u \/ (n = y /\ s = side) THEN {z} ELSE {})
          /\ below2[down2[o][n]] = w \cup (IF y \in w \/ (n = y /\ o = side) THEN {z} ELSE {})
      BY <1>6, <2>0, <2>2
    <3>3. below2[n] = IF y \in below[n] THEN below[n] \cup {z} ELSE below[n]
      BY <1>4, <2>2
    <3>4. z \notin u /\ z \notin w
      BY <1>1, <2>2, <3>1
    <3>5. /\ down2[s][n] \in below[r] \cup {Tree!Nil, z} /\ n \notin below2[down2[s][n]]
          /\ down2[s][n] # Tree!Nil => up2[down2[s][n]] = n
      BY <1>6, <2>2
    <3> HIDE DEF u, w
    <3>6. /\ below2[down2[s][n]] \cap below2[down2[o][n]] = {}
          /\ below2[n] = {n} \cup below2[down2[s][n]] \cup below2[down2[o][n]]
      <4> HIDE DEF o
      <4>1. o # s /\ (side = s \/ side = o)
        BY <2>0 DEF o
      <4> QED BY <1>3, <3>1, <3>2, <3>3, <3>4, <4>1
    <3> QED BY <3>5, <3>6
  <2> QED BY <2>1, <2>2
<1>9. \A n \in below2[r] \ {r} : up2[n] \in below2[r] /\ \E s \in Tree!Sides : down2[s][up2[n]] = n
  <2> SUFFICES ASSUME NEW n \in below[r] \cup {z}, n # r
               PROVE  up2[n] \in below[r] \cup {z} /\ \E s \in Tree!Sides : down2[s][up2[n]] = n
    BY <1>5
  <2>1. CASE n = z
    BY <1>3, <2>1
  <2>2. CASE n \in below[r]
    <3>1. up2[n] = up[n] /\ n # Tree!Nil
      BY <1>1, <2>2
    <3>2. up[n] \in below[r] /\ up[n] \in Tree!TreeNodes
      BY <1>1, <2>2
    <3>3. PICK s \in Tree!Sides : down[s][up[n]] = n
      BY <2>2 DEF Shape
    <3>4. down2[s][up[n]] = n
      BY <3>1, <3>2, <3>3
    <3> QED BY <3>1, <3>2, <3>4
  <2> QED BY <2>1, <2>2
<1>10. \A n \in below2[r] : \A m \in below2[n] :
           /\ m \in below2[r] /\ below2[m] \subseteq below2[n]
           /\ m # n => up2[m] \in below2[n]
  <2> SUFFICES ASSUME NEW n \in below[r] \cup {z}, NEW m \in below2[n]
               PROVE  /\ m \in below[r] \cup {z} /\ below2[m] \subseteq below2[n]
                      /\ m # n => up2[m] \in below2[n]
    BY <1>5
  <2>1. CASE n = z
    BY <1>4, <2>1
  <2>2. CASE n \in below[r] /\ m = z
    <3>1. y \in below[n]
      BY <1>1, <1>4, <2>2
    <3>2. below2[n] = below[n] \cup {z} /\ up2[z] = y
      BY <1>4, <2>2, <3>1
    <3> QED BY <1>4, <2>2, <3>1, <3>2
  <2>3. CASE n \in below[r] /\ m # z
    <3>1. m \in below[n]
      BY <1>4, <2>3
    <3>2. m \in below[r] /\ below[m] \subseteq below[n] /\ (m # n => up[m] \in below[n])
      BY <2>3, <3>1 DEF Shape
    <3>3. up2[m] = up[m]
      BY <1>1, <2>3, <3>2
    <3>4. below[n] \subseteq below2[n] /\ below2[m] \subseteq below[m] \cup {z}
      BY <1>4, <2>3, <3>2
    <3>5. z \in below2[m] => z \in below2[n]
      <4>1. z \notin below[m]
        BY <1>1, <3>2
      <4>2. z \in below2[m] => y \in below[m]
        BY <1>4, <3>2, <4>1
      <4> QED BY <1>4, <2>3, <3>2, <4>2
    <3> QED BY <2>3, <3>2, <3>3, <3>4, <3>5
  <2> QED BY <2>1, <2>2, <2>3
<1>11. up2[r] = Tree!Nil
  BY <1>1, <1>2
<1>12. r \in Tree!Pointers
  BY DEF Shape
<1> QED BY <1>2, <1>4, <1>5, <1>8, <1>9, <1>10, <1>11, <1>12 DEF Shape

IsFirst(up, down, below, z, y, up2, below2) ==
    /\ z \in Tree!TreeNodes /\ \A s \in Tree!Sides : down[s][z] = Tree!Nil
    /\ below2 = HungBelow(Tree!Nil, z, y, below)
    /\ up2 \in [Tree!TreeNodes -> Tree!Pointers] /\ up2[z] = Tree!Nil

LEMMA FirstShape ==
    ASSUME NEW up, NEW down, NEW below, Shape(Tree!Nil, up, down, below),
           NEW z, NEW y, NEW up2, NEW below2, IsFirst(up, down, below, z, y, up2, below2)
    PROVE  Shape(z, up2, down, below2) /\ below2[z] = {z}
<1>0. /\ z \in Tree!TreeNodes /\ \A s \in Tree!Sides : down[s][z] = Tree!Nil
      /\ below2 = HungBelow(Tree!Nil, z, y, below)
      /\ up2 \in [Tree!TreeNodes -> Tree!Pointers] /\ up2[z] = Tree!Nil
  BY DEF IsFirst
<1> USE <1>0
<1>1. z \in Tree!Pointers /\ Tree!Nil \in Tree!Pointers /\ z # Tree!Nil
  BY NilFacts
<1>2. below \in [Tree!Pointers -> SUBSET Tree!TreeNodes] /\ below[Tree!Nil] = {}
  BY DEF Shape
<1>3. below2 \in [Tree!Pointers -> SUBSET Tree!TreeNodes] /\ below2[Tree!Nil] = {} /\ below2[z] = {z}
  BY <1>1, <1>2 DEF HungBelow
<1>4. down \in [Tree!Sides -> [Tree!TreeNodes -> Tree!Pointers]]
  BY DEF Shape
<1>5. \A s \in Tree!Sides : down[Tree!Opposite(s)][z] = Tree!Nil
  BY SideFacts
<1> QED BY <1>1, <1>3, <1>4, <1>5 DEF Shape

-----------------------------------------------------------------------------
\* The steps of LinkedTree, field by field.
TreeRecords ==
    [root : Tree!Pointers, count : Nat, red : SUBSET Tree!TreeNodes,
     val : [Tree!TreeNodes -> Int], size : [Tree!TreeNodes -> Int],
     parent : [Tree!TreeNodes -> Tree!Pointers],
     child : [Tree!Sides -> [Tree!TreeNodes -> Tree!Pointers]]]

TreeShape(t, below) == Shape(t.root, t.parent, t.child, below)

LEMMA TreeSplit ==
    ASSUME NEW t, NEW below, TreeShape(t, below), NEW n \in below[t.root], NEW s \in Tree!Sides
    PROVE  /\ t.child[s][n] \in below[t.root] \cup {Tree!Nil} /\ n \notin below[t.child[s][n]]
           /\ below[t.child[s][n]] \cap below[t.child[Tree!Opposite(s)][n]] = {}
           /\ below[n] = {n} \cup below[t.child[s][n]] \cup below[t.child[Tree!Opposite(s)][n]]
  BY SplitFacts DEF TreeShape

LEMMA TreeParent ==
    ASSUME NEW t, NEW below, TreeShape(t, below), NEW n \in below[t.root], n # t.root
    PROVE  t.parent[n] \in below[t.root] /\ \E s \in Tree!Sides : t.child[s][t.parent[n]] = n
  BY ParentLink DEF TreeShape

\* The child of a node has the node for its parent and is another node.
LEMMA TreeChild ==
    ASSUME NEW t, NEW below, TreeShape(t, below), NEW n \in below[t.root], NEW s \in Tree!Sides,
           t.child[s][n] # Tree!Nil
    PROVE  /\ t.child[s][n] \in below[t.root] /\ t.parent[t.child[s][n]] = n
           /\ t.child[s][n] # n /\ t.child[s][n] # t.root
           /\ t.child[s][n] # t.child[Tree!Opposite(s)][n]
  BY ShapeFacts DEF TreeShape

ChildInPlace(t, s, n) ==
    t.child[s][n] # Tree!Nil =>
        /\ t.parent[t.child[s][n]] = n /\ t.child[s][n] # n
        /\ t.child[s][n] # t.child[Tree!Opposite(s)][n]

LEMMA TreeChildren ==
    ASSUME NEW t, NEW below, TreeShape(t, below)
    PROVE  \A n \in below[t.root], s \in Tree!Sides : ChildInPlace(t, s, n)
  BY TreeChild DEF ChildInPlace

LEMMA RecordFields ==
    ASSUME NEW t \in TreeRecords
    PROVE  /\ t.root \in Tree!Pointers /\ t.count \in Nat /\ t.red \in SUBSET Tree!TreeNodes
           /\ t.val \in [Tree!TreeNodes -> Int] /\ t.size \in [Tree!TreeNodes -> Int]
           /\ t.parent \in [Tree!TreeNodes -> Tree!Pointers]
           /\ t.child \in [Tree!Sides -> [Tree!TreeNodes -> Tree!Pointers]]
           /\ \A s \in Tree!Sides, n \in Tree!TreeNodes : t.child[s][n] \in Tree!Pointers
  BY DEF TreeRecords

LEMMA LeftRight == "left" \in Tree!Sides /\ "right" \in Tree!Sides /\ Tree!Opposite("left") = "right"
                   /\ Tree!Opposite("right") = "left" /\ "left" # "right"
                   /\ \A s \in Tree!Sides : s = "left" \/ s = "right"
  BY DEF Tree!Sides, Tree!Opposite

LEMMA nodeSizeType ==
    ASSUME NEW t \in TreeRecords, NEW n \in Tree!Pointers
    PROVE  Tree!nodeSize(t, n) \in Int
  BY RecordFields, NilFacts DEF Tree!nodeSize

LEMMA ResizedFields ==
    ASSUME NEW t \in TreeRecords, NEW n \in Tree!TreeNodes, NEW t2, t2 = Tree!Resized(t, n)
    PROVE  /\ t2 \in TreeRecords
           /\ t2.root = t.root /\ t2.count = t.count /\ t2.red = t.red /\ t2.val = t.val
           /\ t2.parent = t.parent /\ t2.child = t.child
           /\ \A m \in Tree!TreeNodes :
                  t2.size[m] = IF m = n THEN 1 + Tree!nodeSize(t, t.child["left"][n])
                                               + Tree!nodeSize(t, t.child["right"][n])
                               ELSE t.size[m]
<1> DEFINE v == 1 + Tree!nodeSize(t, t.child["left"][n]) + Tree!nodeSize(t, t.child["right"][n])
<1>1. v \in Int
  <2>1. t.child["left"][n] \in Tree!Pointers /\ t.child["right"][n] \in Tree!Pointers
    BY LeftRight, RecordFields
  <2>2. Tree!nodeSize(t, t.child["left"][n]) \in Int /\ Tree!nodeSize(t, t.child["right"][n]) \in Int
    BY <2>1, nodeSizeType
  <2> QED BY <2>2
<1>2. t2 = [t EXCEPT !.size[n] = v]
  BY DEF Tree!Resized
<1> HIDE DEF v
<1>3. t2 = [t EXCEPT !.size = [t.size EXCEPT ![n] = v]]
  BY <1>2 DEF TreeRecords
<1>4. [t.size EXCEPT ![n] = v] \in [Tree!TreeNodes -> Int]
  BY <1>1, RecordFields
<1>5. t2 \in TreeRecords
  BY <1>3, <1>4 DEF TreeRecords
<1>6. t2.size = [t.size EXCEPT ![n] = v]
  BY <1>3 DEF TreeRecords
<1>7. \A m \in Tree!TreeNodes : t2.size[m] = IF m = n THEN v ELSE t.size[m]
  BY <1>6, RecordFields
<1> QED BY <1>3, <1>5, <1>7 DEF TreeRecords, v

\* Replace(t, x, y): the parent of x leads to y.
Replaced(t, below, x, y, t2) ==
    /\ t2 \in TreeRecords
    /\ t2.count = t.count /\ t2.red = t.red /\ t2.val = t.val /\ t2.size = t.size
    /\ t2.root = IF t.parent[x] = Tree!Nil THEN y ELSE t.root
    /\ t2.parent = [t.parent EXCEPT ![y] = t.parent[x]]
    /\ \A n \in below[t.root], u \in Tree!Sides :
           t2.child[u][n] = IF t.child[u][n] = x THEN y ELSE t.child[u][n]
    /\ \A n \in Tree!TreeNodes \ below[t.root], u \in Tree!Sides : t2.child[u][n] = t.child[u][n]

LEMMA ReplaceFields ==
    ASSUME NEW t \in TreeRecords, NEW below, TreeShape(t, below), NEW x \in below[t.root],
           NEW y \in Tree!TreeNodes, NEW t2, t2 = Tree!Replace(t, x, y)
    PROVE  Replaced(t, below, x, y, t2)
<1> USE DEF Replaced
<1> DEFINE p == t.parent[x]
           w == [t EXCEPT !.parent = [t.parent EXCEPT ![y] = p]]
<1>1. x \in Tree!TreeNodes /\ x # Tree!Nil /\ p \in Tree!Pointers /\ (p = Tree!Nil <=> x = t.root)
  BY ShapeFacts DEF TreeShape
<1>2. [t.parent EXCEPT ![y] = p] \in [Tree!TreeNodes -> Tree!Pointers]
  BY <1>1, RecordFields
<1>3. w \in TreeRecords
  BY <1>2 DEF TreeRecords
<1>4. /\ w.root = t.root /\ w.count = t.count /\ w.red = t.red /\ w.val = t.val /\ w.size = t.size
      /\ w.child = t.child /\ w.parent = [t.parent EXCEPT ![y] = p]
  BY DEF TreeRecords
<1>5. t2 = CASE p = Tree!Nil -> [w EXCEPT !.root = y]
             [] p # Tree!Nil /\ x = t.child["left"][p] -> [w EXCEPT !.child["left"][p] = y]
             [] p # Tree!Nil /\ x # t.child["left"][p] -> [w EXCEPT !.child["right"][p] = y]
  <2>1. [t EXCEPT !.parent[y] = t.parent[x]] = w
    BY DEF TreeRecords
  <2> QED BY <2>1 DEF Tree!Replace
<1> HIDE DEF w
<1>6. y \in Tree!Pointers
  BY NilFacts
\* Only the parent of x has x for a child.
<1>7. ASSUME NEW n \in below[t.root], NEW u \in Tree!Sides, t.child[u][n] = x
      PROVE  n = p /\ t.child[Tree!Opposite(u)][n] # x
  BY <1>1, <1>7, ShapeFacts DEF TreeShape
<1>8. CASE p = Tree!Nil
  <2>1. t2 = [w EXCEPT !.root = y]
    BY <1>5, <1>8
  <2>2. \A n \in below[t.root], u \in Tree!Sides : t.child[u][n] # x
    BY <1>1, <1>7, <1>8, NilFacts, ShapeFacts DEF TreeShape
  <2>3. t2 \in TreeRecords
    BY <1>3, <1>6, <2>1 DEF TreeRecords
  <2>4. /\ t2.root = y /\ t2.count = w.count /\ t2.red = w.red /\ t2.val = w.val /\ t2.size = w.size
        /\ t2.child = w.child /\ t2.parent = w.parent
    BY <1>3, <2>1 DEF TreeRecords
  <2> QED BY <1>4, <1>8, <2>2, <2>3, <2>4
<1>9. CASE p # Tree!Nil
  <2>1. PICK s \in Tree!Sides : t.child[s][p] = x
    BY <1>1, <1>9 DEF TreeShape, Shape
  <2>2. p \in below[t.root] /\ p \in Tree!TreeNodes
    BY <1>1, <1>9, ShapeFacts DEF TreeShape, Shape
  <2>3. t.child[Tree!Opposite(s)][p] # x
    BY <1>7, <2>1, <2>2
  <2>4. t2 = [w EXCEPT !.child[s][p] = y]
    <3>1. CASE s = "left"
      BY <1>5, <1>9, <2>1, <3>1
    <3>2. CASE s = "right"
      <4>1. x # t.child["left"][p]
        BY <2>3, <3>2, LeftRight
      <4> QED BY <1>5, <1>9, <3>2, <4>1
    <3> QED BY <3>1, <3>2, LeftRight
  <2> DEFINE c == [t.child EXCEPT ![s] = [t.child[s] EXCEPT ![p] = y]]
  <2>5. t2 = [w EXCEPT !.child = c]
    BY <1>3, <1>4, <2>4 DEF TreeRecords
  <2>6. /\ c \in [Tree!Sides -> [Tree!TreeNodes -> Tree!Pointers]]
        /\ \A n \in Tree!TreeNodes, u \in Tree!Sides : c[u][n] = IF u = s /\ n = p THEN y ELSE t.child[u][n]
    BY <1>6, <2>2, RecordFields
  <2> HIDE DEF c
  <2>7. t2 \in TreeRecords
    BY <1>3, <2>5, <2>6 DEF TreeRecords
  <2>8. /\ t2.root = w.root /\ t2.count = w.count /\ t2.red = w.red /\ t2.val = w.val /\ t2.size = w.size
        /\ t2.child = c /\ t2.parent = w.parent
    BY <1>3, <2>5 DEF TreeRecords
  <2>9. ASSUME NEW n \in below[t.root], NEW u \in Tree!Sides
        PROVE  c[u][n] = IF t.child[u][n] = x THEN y ELSE t.child[u][n]
    <3>1. n \in Tree!TreeNodes
      BY ShapeFacts DEF TreeShape
    <3>2. u = s \/ u = Tree!Opposite(s)
      BY SideFacts
    <3>3. t.child[u][n] = x => n = p /\ u = s
      BY <1>7, <2>3, <3>2
    <3> QED BY <2>1, <2>6, <3>1, <3>3
  <2>10. \A n \in Tree!TreeNodes \ below[t.root], u \in Tree!Sides : c[u][n] = t.child[u][n]
    BY <2>2, <2>6
  <2> QED BY <1>4, <1>9, <2>7, <2>8, <2>9, <2>10
<1> QED BY <1>8, <1>9

\* Rotate(t, s, x): x goes down to side s, its other child y up, and of y's children
\* the one on side s changes over to x.
Rotated(t, below, s, x, t2) ==
    LET y == t.child[Tree!Opposite(s)][x]
        b == t.child[s][y]
    IN  /\ t2 \in TreeRecords /\ t2.count = t.count /\ t2.red = t.red /\ t2.val = t.val
        /\ t2.root = IF t.parent[x] = Tree!Nil THEN y ELSE t.root
        /\ \A n \in Tree!TreeNodes :
               t2.parent[n] = IF n = y THEN t.parent[x] ELSE IF n = x THEN y ELSE IF n = b THEN x ELSE t.parent[n]
        /\ \A n \in below[t.root], u \in Tree!Sides :
               t2.child[u][n] = IF n = x THEN (IF u = s THEN t.child[s][x] ELSE b)
                             ELSE IF n = y THEN (IF u = s THEN x ELSE t.child[u][y])
                             ELSE IF t.child[u][n] = x THEN y ELSE t.child[u][n]
        /\ \A n \in Tree!TreeNodes \ below[t.root], u \in Tree!Sides : t2.child[u][n] = t.child[u][n]
        /\ \E t1 \in TreeRecords :
                  /\ t1.child = t2.child /\ t1.parent = t2.parent /\ t1.size = t.size
                  /\ t2 = Tree!Resized(Tree!Resized(t1, x), y)

LEMMA RotateFields ==
    ASSUME NEW t \in TreeRecords, NEW below, TreeShape(t, below),
           NEW s \in Tree!Sides, NEW x \in below[t.root],
           NEW y, y = t.child[Tree!Opposite(s)][x], y # Tree!Nil,
           NEW b, b = t.child[s][y],
           NEW t2, t2 = Tree!Rotate(t, s, x)
    PROVE  Rotated(t, below, s, x, t2)
<1> DEFINE o == Tree!Opposite(s)
           r == Tree!Replace(t, x, y)
<1>1. /\ o \in Tree!Sides /\ o # s /\ \A u \in Tree!Sides : u = s \/ u = o
  BY SideFacts
<1>2. x \in Tree!TreeNodes /\ x # Tree!Nil
  BY ShapeFacts DEF TreeShape
<1>3. y \in below[t.root] /\ y # x /\ y \in Tree!TreeNodes /\ t.parent[y] = x
  <2>1. y \in below[t.root] /\ y # x /\ t.parent[y] = x
    BY <1>1, ShapeFacts DEF TreeShape
  <2> QED BY <2>1, ShapeFacts DEF TreeShape
<1>4. b \in Tree!Pointers /\ b # y /\ b # x /\ (b # Tree!Nil => b \in Tree!TreeNodes)
  <2>1. b \in Tree!Pointers
    BY <1>3, RecordFields
  <2>2. b # Tree!Nil => b # y /\ t.parent[b] = y
    BY <1>3, ShapeFacts DEF TreeShape
  <2>3. t.parent[x] # y
    <3>1. x \notin below[y]
      BY <1>1, ShapeFacts DEF TreeShape
    <3>2. CASE x = t.root
      BY <1>3, <3>2, NilFacts, ShapeFacts DEF TreeShape
    <3>3. CASE x # t.root
      <4>1. \E u \in Tree!Sides : t.child[u][t.parent[x]] = x
        BY <3>3 DEF TreeShape, Shape
      <4>2. ASSUME t.parent[x] = y PROVE FALSE
        <5>1. PICK u \in Tree!Sides : t.child[u][y] = x
          BY <4>1, <4>2
        <5>2. x \in below[y]
          BY <1>2, <1>3, <5>1, ShapeFacts DEF TreeShape
        <5> QED BY <3>1, <5>2
      <4> QED BY <4>2
    <3> QED BY <3>2, <3>3
  <2> QED BY <1>2, <1>3, <2>1, <2>2, <2>3, NilFacts
<1>5. /\ r \in TreeRecords
      /\ r.count = t.count /\ r.red = t.red /\ r.val = t.val /\ r.size = t.size
      /\ r.root = IF t.parent[x] = Tree!Nil THEN y ELSE t.root
      /\ r.parent = [t.parent EXCEPT ![y] = t.parent[x]]
      /\ \A n \in below[t.root], u \in Tree!Sides :
             r.child[u][n] = IF t.child[u][n] = x THEN y ELSE t.child[u][n]
      /\ \A n \in Tree!TreeNodes \ below[t.root], u \in Tree!Sides : r.child[u][n] = t.child[u][n]
  <2>1. r = Tree!Replace(t, x, y)
    OBVIOUS
  <2> HIDE DEF r
  <2>2. Replaced(t, below, x, y, r)
    BY <1>3, <2>1, ReplaceFields
  <2> QED BY <2>2 DEF Replaced
<1>6. /\ x \in Tree!Pointers /\ y \in Tree!Pointers
      /\ t.parent \in [Tree!TreeNodes -> Tree!Pointers] /\ t.parent[x] \in Tree!Pointers
  BY <1>2, <1>3, NilFacts, RecordFields
<1> DEFINE U == [r EXCEPT !.child[o][x] = b, !.child[s][y] = x, !.parent[x] = y]
           w == IF b = Tree!Nil THEN U ELSE [U EXCEPT !.parent[b] = x]
<1>7. t2 = Tree!Resized(Tree!Resized(w, x), y)
  BY DEF Tree!Rotate
<1> HIDE DEF r
<1> DEFINE c == [[r.child EXCEPT ![o] = [r.child[o] EXCEPT ![x] = b]]
                    EXCEPT ![s] = [r.child[s] EXCEPT ![y] = x]]
           p == [r.parent EXCEPT ![x] = y]
           q == IF b = Tree!Nil THEN p ELSE [p EXCEPT ![b] = x]
<1>8. r.child \in [Tree!Sides -> [Tree!TreeNodes -> Tree!Pointers]] /\ r.parent \in [Tree!TreeNodes -> Tree!Pointers]
  BY <1>5, RecordFields
<1>9. U = [r EXCEPT !.child = c, !.parent = p]
  <2>1. U = [r EXCEPT !.child = [[r.child EXCEPT ![o] = [r.child[o] EXCEPT ![x] = b]]
                                   EXCEPT ![s][y] = x],
                      !.parent = p]
    BY <1>5, <1>1 DEF TreeRecords
  <2>2. [[r.child EXCEPT ![o] = [r.child[o] EXCEPT ![x] = b]] EXCEPT ![s][y] = x] = c
    BY <1>1, <1>8
  <2> QED BY <2>1, <2>2
<1>10. /\ c \in [Tree!Sides -> [Tree!TreeNodes -> Tree!Pointers]]
       /\ \A n \in Tree!TreeNodes, u \in Tree!Sides :
              c[u][n] = IF n = x /\ u = o THEN b ELSE IF n = y /\ u = s THEN x ELSE r.child[u][n]
  BY <1>1, <1>2, <1>3, <1>4, <1>6, <1>8
<1>11. /\ q \in [Tree!TreeNodes -> Tree!Pointers]
       /\ \A n \in Tree!TreeNodes : q[n] = IF n = b THEN x ELSE IF n = x THEN y ELSE r.parent[n]
  <2>1. p \in [Tree!TreeNodes -> Tree!Pointers]
    BY <1>6, <1>8
  <2>2. \A n \in Tree!TreeNodes : n # Tree!Nil
    BY NilFacts
  <2>3. \A n \in Tree!TreeNodes : p[n] = IF n = x THEN y ELSE r.parent[n]
    BY <1>8
  <2> HIDE DEF p
  <2> QED BY <1>6, <2>1, <2>2, <2>3
<1>12. /\ U \in TreeRecords /\ U.root = r.root /\ U.count = r.count /\ U.red = r.red /\ U.val = r.val
       /\ U.size = r.size /\ U.child = c /\ U.parent = p
  <2>1. p \in [Tree!TreeNodes -> Tree!Pointers]
    BY <1>6, <1>8
  <2> HIDE DEF U, c, p
  <2> QED BY <1>5, <1>9, <1>10, <2>1 DEF TreeRecords
<1>13. /\ w \in TreeRecords /\ w.root = r.root /\ w.count = r.count /\ w.red = r.red /\ w.val = r.val
       /\ w.size = r.size /\ w.child = c /\ w.parent = q
  <2> HIDE DEF U, c, p
  <2>1. CASE b = Tree!Nil
    BY <1>12, <2>1
  <2>2. CASE b # Tree!Nil
    <3>1. w = [U EXCEPT !.parent = q]
      BY <1>12, <2>2 DEF TreeRecords
    <3> HIDE DEF q
    <3> QED BY <1>11, <1>12, <3>1 DEF TreeRecords
  <2> QED BY <2>1, <2>2
<1> HIDE DEF U, w, c, p, q
<1> DEFINE v == Tree!Resized(w, x)
<1>14. /\ v \in TreeRecords
       /\ v.root = w.root /\ v.count = w.count /\ v.red = w.red /\ v.val = w.val
       /\ v.parent = w.parent /\ v.child = w.child
  BY <1>2, <1>13, ResizedFields
<1>15. t2 = Tree!Resized(v, y)
  BY <1>7
<1> HIDE DEF v
<1>16. /\ t2 \in TreeRecords
       /\ t2.root = v.root /\ t2.count = v.count /\ t2.red = v.red /\ t2.val = v.val
       /\ t2.parent = v.parent /\ t2.child = v.child
  BY <1>3, <1>14, <1>15, ResizedFields
<1>17. t2.parent = q /\ t2.child = c
  BY <1>13, <1>14, <1>16
<1>18. \A n \in Tree!TreeNodes :
               q[n] = IF n = y THEN t.parent[x] ELSE IF n = x THEN y ELSE IF n = b THEN x ELSE t.parent[n]
  <2>1. \A n \in Tree!TreeNodes : r.parent[n] = IF n = y THEN t.parent[x] ELSE t.parent[n]
    BY <1>5, <1>6
  <2> QED BY <1>3, <1>4, <1>11, <2>1
<1>19. \A n \in below[t.root], u \in Tree!Sides :
               c[u][n] = IF n = x THEN (IF u = s THEN t.child[s][x] ELSE b)
                             ELSE IF n = y THEN (IF u = s THEN x ELSE t.child[u][y])
                             ELSE IF t.child[u][n] = x THEN y ELSE t.child[u][n]
  <2> SUFFICES ASSUME NEW n \in below[t.root], NEW u \in Tree!Sides
               PROVE  c[u][n] = IF n = x THEN (IF u = s THEN t.child[s][x] ELSE b)
                             ELSE IF n = y THEN (IF u = s THEN x ELSE t.child[u][y])
                             ELSE IF t.child[u][n] = x THEN y ELSE t.child[u][n]
    OBVIOUS
  <2>1. n \in Tree!TreeNodes
    BY ShapeFacts DEF TreeShape
  <2>2. t.child[u][x] # x
    BY <1>2, ShapeFacts DEF TreeShape
  <2>3. t.child[u][y] # x
    <3>1. t.child[u][y] = x => t.parent[x] = y /\ x \in below[y]
      BY <1>2, <1>3, ShapeFacts DEF TreeShape
    <3>2. x \notin below[y]
      BY <1>1, ShapeFacts DEF TreeShape
    <3> QED BY <3>1, <3>2
  <2>4. r.child[u][n] = IF t.child[u][n] = x THEN y ELSE t.child[u][n]
    BY <1>5
  <2>5. c[u][n] = IF n = x /\ u = o THEN b ELSE IF n = y /\ u = s THEN x ELSE r.child[u][n]
    BY <1>10, <2>1
  <2>6. u = s \/ u = o
    BY <1>1
  <2> HIDE DEF o
  <2> QED BY <1>1, <1>3, <2>2, <2>3, <2>4, <2>5, <2>6
<1>20. \A n \in Tree!TreeNodes \ below[t.root], u \in Tree!Sides : c[u][n] = t.child[u][n]
  BY <1>3, <1>5, <1>10
<1>21. w.child = t2.child /\ w.parent = t2.parent /\ w.size = t.size /\ t2 = Tree!Resized(Tree!Resized(w, x), y)
  BY <1>5, <1>7, <1>13, <1>17
<1>22. /\ t2 \in TreeRecords /\ t2.count = t.count /\ t2.red = t.red /\ t2.val = t.val
       /\ t2.root = IF t.parent[x] = Tree!Nil THEN y ELSE t.root
  BY <1>5, <1>13, <1>14, <1>16
<1> DEFINE Y == t.child[Tree!Opposite(s)][x]
           B == t.child[s][Y]
<1>27. Y = y /\ B = b
  OBVIOUS
<1> HIDE DEF Y, B, o
<1>28. t2.root = IF t.parent[x] = Tree!Nil THEN Y ELSE t.root
  BY <1>22, <1>27
<1>23. \A n \in Tree!TreeNodes :
          t2.parent[n] = IF n = Y THEN t.parent[x] ELSE IF n = x THEN Y ELSE IF n = B THEN x ELSE t.parent[n]
  BY <1>17, <1>18, <1>27
<1>24. \A n \in below[t.root], u \in Tree!Sides :
          t2.child[u][n] = IF n = x THEN (IF u = s THEN t.child[s][x] ELSE B)
                           ELSE IF n = Y THEN (IF u = s THEN x ELSE t.child[u][Y])
                           ELSE IF t.child[u][n] = x THEN Y ELSE t.child[u][n]
  BY <1>17, <1>19, <1>27
<1>25. \A n \in Tree!TreeNodes \ below[t.root], u \in Tree!Sides : t2.child[u][n] = t.child[u][n]
  BY <1>17, <1>20
<1>26. \E t1 \in TreeRecords :
           /\ t1.child = t2.child /\ t1.parent = t2.parent /\ t1.size = t.size
           /\ t2 = Tree!Resized(Tree!Resized(t1, x), Y)
  BY <1>13, <1>21, <1>27
<1> QED BY <1>22, <1>23, <1>24, <1>25, <1>26, <1>28 DEF Rotated, Y, B

LEMMA RotateShape ==
    ASSUME NEW t \in TreeRecords, NEW below, TreeShape(t, below),
           NEW s \in Tree!Sides, NEW x \in below[t.root],
           t.child[Tree!Opposite(s)][x] # Tree!Nil,
           NEW t2, t2 = Tree!Rotate(t, s, x),
           NEW below2, below2 = TurnedBelow(s, x, t.child, below)
    PROVE  /\ Rotated(t, below, s, x, t2)
           /\ TreeShape(t2, below2) /\ below2[t2.root] = below[t.root]
<1>1. Rotated(t, below, s, x, t2)
  BY RotateFields
<1>2. t2 \in TreeRecords
  BY <1>1 DEF Rotated
<1>3. t2.parent \in [Tree!TreeNodes -> Tree!Pointers] /\ t2.child \in [Tree!Sides -> [Tree!TreeNodes -> Tree!Pointers]]
  BY <1>2, RecordFields
<1>4. Turns(t.root, t.parent, t.child, below, s, x, t2.root, t2.parent, t2.child, below2)
  BY <1>1, <1>3 DEF Rotated, Turns
<1>8. Shape(t2.root, t2.parent, t2.child, below2) /\ below2[t2.root] = below[t.root]
  <2>1. Shape(t.root, t.parent, t.child, below)
    BY DEF TreeShape
  <2> QED BY <1>4, <2>1, TurnShape
<1> QED BY <1>1, <1>8 DEF TreeShape

-----------------------------------------------------------------------------
\* Smaller numbers are on the left, greater ones on the right, equal ones on either side.
OnSide(s, u, v) == IF s = "left" THEN u <= v ELSE u >= v
Sorted(t, below) ==
    \A n \in below[t.root] : \A s \in Tree!Sides : \A m \in below[t.child[s][n]] : OnSide(s, t.val[m], t.val[n])

LEMMA OnSideFacts ==
    ASSUME NEW s \in Tree!Sides, NEW u \in Int, NEW v \in Int
    PROVE  /\ OnSide(s, u, u)
           /\ OnSide(s, u, v) => OnSide(Tree!Opposite(s), v, u)
           /\ \A w \in Int : OnSide(s, u, v) /\ OnSide(s, v, w) => OnSide(s, u, w)
<1>1. CASE s = "left"
  BY <1>1, LeftRight DEF OnSide
<1>2. CASE s = "right"
  BY <1>2, LeftRight DEF OnSide
<1> QED BY <1>1, <1>2, LeftRight

\* A rotation keeps the order: x < what changes over < y, or the other way round.
LEMMA RotateSorted ==
    ASSUME NEW t \in TreeRecords, NEW below, TreeShape(t, below), Sorted(t, below),
           NEW s \in Tree!Sides, NEW x \in below[t.root],
           t.child[Tree!Opposite(s)][x] # Tree!Nil,
           NEW t2, Rotated(t, below, s, x, t2),
           NEW below2, below2 = TurnedBelow(s, x, t.child, below),
           TreeShape(t2, below2), below2[t2.root] = below[t.root]
    PROVE  Sorted(t2, below2)
<1> DEFINE o == Tree!Opposite(s)
           y == t.child[o][x]
           a == t.child[s][x]
           b == t.child[s][y]
           c == t.child[o][y]
<1>1. /\ o \in Tree!Sides /\ o # s /\ Tree!Opposite(o) = s
      /\ \A u \in Tree!Sides : u = s \/ u = o
  BY SideFacts
<1>2. x \in Tree!TreeNodes /\ x # Tree!Nil /\ x \in Tree!Pointers
  BY ShapeFacts DEF TreeShape
<1>3. y \in below[t.root] /\ y # x /\ x \notin below[y] /\ y \in below[x] /\ t.parent[y] = x
  BY <1>1, ShapeFacts DEF TreeShape
<1>4. y \in Tree!TreeNodes /\ y \in below[y] /\ y # Tree!Nil /\ y \in Tree!Pointers
  BY <1>3, ShapeFacts DEF TreeShape
<1>5. /\ below[y] = {y} \cup below[b] \cup below[c] /\ below[x] = {x} \cup below[a] \cup below[y]
      /\ y \notin below[b] /\ y \notin below[c]
      /\ b \in below[t.root] \cup {Tree!Nil} /\ a \in below[t.root] \cup {Tree!Nil} /\ c \in below[t.root] \cup {Tree!Nil}
      /\ x \notin below[a]
      /\ below[y] \cap below[a] = {}
  <2>1. /\ t.child[s][x] \in below[t.root] \cup {Tree!Nil} /\ x \notin below[t.child[s][x]]
        /\ below[t.child[s][x]] \cap below[t.child[Tree!Opposite(s)][x]] = {}
        /\ below[x] = {x} \cup below[t.child[s][x]] \cup below[t.child[Tree!Opposite(s)][x]]
    BY TreeSplit
  <2>2. /\ t.child[s][y] \in below[t.root] \cup {Tree!Nil} /\ y \notin below[t.child[s][y]]
        /\ below[y] = {y} \cup below[t.child[s][y]] \cup below[t.child[Tree!Opposite(s)][y]]
    BY <1>3, TreeSplit
  <2>3. t.child[o][y] \in below[t.root] \cup {Tree!Nil} /\ y \notin below[t.child[o][y]]
    BY <1>1, <1>3, TreeSplit
  <2> QED BY <2>1, <2>2, <2>3
<1>6. \A n \in below[t.root] : n \in Tree!TreeNodes /\ n \in below[n]
  BY ShapeFacts DEF TreeShape
<1>7. /\ below2[y] = below[x] /\ below2[x] = {x} \cup below[a] \cup below[b]
      /\ \A n \in Tree!Pointers : n # x /\ n # y => below2[n] = below[n]
  <2>1. below2 = [n \in Tree!Pointers |->
            IF n = y THEN below[x]
            ELSE IF n = x THEN {x} \cup below[a] \cup below[b]
            ELSE below[n]]
    BY DEF TurnedBelow
  <2> HIDE DEF o, y, a, b, c
  <2> QED BY <1>2, <1>3, <1>4, <2>1
<1>8. /\ t2.val = t.val
      /\ \A n \in below[t.root], u \in Tree!Sides :
               t2.child[u][n] = IF n = x THEN (IF u = s THEN a ELSE b)
                             ELSE IF n = y THEN (IF u = s THEN x ELSE t.child[u][y])
                             ELSE IF t.child[u][n] = x THEN y ELSE t.child[u][n]
  BY DEF Rotated
<1>9. \A n \in below[t.root] : t.val[n] \in Int
  BY <1>6, RecordFields
<1>10. \A n \in below[t.root] : \A u \in Tree!Sides : \A m \in below[t.child[u][n]] :
           OnSide(u, t.val[m], t.val[n]) /\ m \in below[t.root]
  <2>1. \A n \in below[t.root] : \A u \in Tree!Sides : \A m \in below[t.child[u][n]] : m \in below[n]
    BY DEF TreeShape, Shape
  <2> QED BY <2>1 DEF Sorted, TreeShape, Shape
<1>11. b # x /\ b # y /\ a # x /\ a # y /\ c # x /\ c # y
  BY <1>2, <1>3, <1>4, <1>5, <1>6
<1> HIDE DEF a, b, c, y, o
<1> SUFFICES ASSUME NEW n \in below[t.root], NEW u \in Tree!Sides, NEW m \in below2[t2.child[u][n]]
             PROVE  OnSide(u, t.val[m], t.val[n])
  BY <1>8 DEF Sorted
<1>12. a \in Tree!Pointers /\ b \in Tree!Pointers /\ c \in Tree!Pointers
  BY <1>5, <1>6, NilFacts
<1>13. below2[a] = below[a] /\ below2[b] = below[b] /\ below2[c] = below[c]
  BY <1>7, <1>11, <1>12
<1>14. y = t.child[o][x] /\ a = t.child[s][x] /\ b = t.child[s][y] /\ c = t.child[o][y]
  BY DEF a, b, c, y
<1>15. OnSide(o, t.val[y], t.val[x]) /\ OnSide(s, t.val[x], t.val[y])
  <2>1. OnSide(o, t.val[y], t.val[x])
    BY <1>1, <1>4, <1>10, <1>14
  <2> QED BY <1>1, <1>3, <1>9, <2>1, OnSideFacts
<1>16. CASE n = x
  <2>1. CASE u = s
    BY <1>8, <1>10, <1>13, <1>14, <1>16, <2>1
  <2>2. CASE u = o
    <3>1. m \in below[b]
      BY <1>1, <1>8, <1>13, <1>16, <2>2
    <3>2. m \in below[t.child[o][x]]
      BY <1>5, <1>14, <3>1
    <3> QED BY <1>1, <1>10, <1>16, <2>2, <3>2
  <2> QED BY <1>1, <2>1, <2>2
<1>17. CASE n = y
  <2>1. CASE u = s
    <3>1. m \in {x} \cup below[a] \cup below[b]
      BY <1>3, <1>7, <1>8, <1>17, <2>1
    <3>2. CASE m = x
      BY <1>15, <1>17, <2>1, <3>2
    <3>3. CASE m \in below[a]
      <4>1. OnSide(s, t.val[m], t.val[x]) /\ m \in below[t.root]
        BY <1>10, <1>14, <3>3
      <4> QED BY <1>3, <1>9, <1>15, <1>17, <2>1, <4>1, OnSideFacts
    <3>4. CASE m \in below[b]
      BY <1>3, <1>10, <1>14, <1>17, <2>1, <3>4
    <3> QED BY <3>1, <3>2, <3>3, <3>4
  <2>2. CASE u = o
    <3>1. t2.child[u][n] = c
      BY <1>1, <1>3, <1>8, <1>14, <1>17, <2>2
    <3> QED BY <1>1, <1>3, <1>10, <1>13, <1>14, <1>17, <2>2, <3>1
  <2> QED BY <1>1, <2>1, <2>2
<1>18. CASE n # x /\ n # y
  <2>1. t2.child[u][n] = IF t.child[u][n] = x THEN y ELSE t.child[u][n]
    BY <1>8, <1>18
  <2>2. t.child[u][n] # y
    <3>1. t.child[u][n] = y => t.parent[y] = n
      BY <1>4 DEF TreeShape, Shape
    <3> QED BY <1>3, <1>18, <3>1
  <2>3. t.child[u][n] \in Tree!Pointers
    BY <1>6, RecordFields
  <2>4. below2[t2.child[u][n]] = below[t.child[u][n]]
    BY <1>7, <2>1, <2>2, <2>3
  <2> QED BY <1>10, <2>4
<1> QED BY <1>16, <1>17, <1>18

-----------------------------------------------------------------------------
\* The sizes.
SizeRight(t, below, n) == t.size[n] = Cardinality(below[n])
Sized(t, below) == \A n \in below[t.root] : SizeRight(t, below, n)

LEMMA BelowSize ==
    ASSUME NEW r, NEW up, NEW down, NEW below, Shape(r, up, down, below)
    PROVE  /\ Cardinality(below[Tree!Nil]) = 0
           /\ \A S \in SUBSET Tree!TreeNodes : IsFiniteSet(S) /\ Cardinality(S) \in 0 .. MaxNodes
           /\ \A n \in below[r] :
                  Cardinality(below[n]) = 1 + Cardinality(below[down["left"][n]])
                                            + Cardinality(below[down["right"][n]])
<1>1. IsFiniteSet(Tree!TreeNodes) /\ Cardinality(Tree!TreeNodes) = MaxNodes /\ MaxNodes \in Nat
  <2>1. 1 \in Int /\ MaxNodes \in Int /\ MaxNodes \in Nat
    BY StructuresAssumption
  <2> QED BY <2>1, FS_Interval DEF Tree!TreeNodes
<1>2. \A S \in SUBSET Tree!TreeNodes : IsFiniteSet(S) /\ Cardinality(S) \in Nat /\ Cardinality(S) <= MaxNodes
  BY <1>1, FS_Subset, FS_CardinalityType
<1>3. Cardinality(below[Tree!Nil]) = 0
  BY FS_EmptySet DEF Shape
<1>4. ASSUME NEW n \in below[r]
      PROVE  Cardinality(below[n]) = 1 + Cardinality(below[down["left"][n]])
                                       + Cardinality(below[down["right"][n]])
  <2> DEFINE u == below[down["left"][n]]
             w == below[down["right"][n]]
  <2>1. u \cap w = {} /\ n \notin u /\ n \notin w /\ below[n] = {n} \cup u \cup w
    BY LeftRight DEF Shape
  <2>2. down["left"][n] \in Tree!Pointers /\ down["right"][n] \in Tree!Pointers
    BY LeftRight, NilFacts, ShapeFacts DEF Shape
  <2>3. u \in SUBSET Tree!TreeNodes /\ w \in SUBSET Tree!TreeNodes
    BY <2>2 DEF Shape
  <2> HIDE DEF u, w
  <2>4. IsFiniteSet(u) /\ IsFiniteSet(w) /\ Cardinality(u) \in Nat /\ Cardinality(w) \in Nat
    BY <1>2, <2>3
  <2>5. IsFiniteSet(u \cup w) /\ Cardinality(u \cup w) = Cardinality(u) + Cardinality(w)
    <3>1. Cardinality(u \cap w) = 0
      BY <2>1, FS_EmptySet
    <3>2. Cardinality(u \cup w) = Cardinality(u) + Cardinality(w) - Cardinality(u \cap w)
      BY <2>4, FS_Union
    <3> QED BY <2>4, <3>1, <3>2, FS_Union
  <2>6. n \notin u \cup w /\ below[n] = (u \cup w) \cup {n}
    BY <2>1
  <2>7. Cardinality((u \cup w) \cup {n}) = Cardinality(u \cup w) + 1
    BY <2>5, <2>6, FS_AddElement
  <2> QED BY <2>4, <2>5, <2>6, <2>7 DEF u, w
<1>5. \A S \in SUBSET Tree!TreeNodes : Cardinality(S) \in 0 .. MaxNodes
  BY <1>1, <1>2
<1> QED BY <1>2, <1>3, <1>4, <1>5

\* A size computed anew is right if those of the children are.
LEMMA ResizedSize ==
    ASSUME NEW t \in TreeRecords, NEW below, TreeShape(t, below), NEW n \in below[t.root],
           \A s \in Tree!Sides : t.child[s][n] # Tree!Nil => SizeRight(t, below, t.child[s][n]),
           NEW t2, t2 = Tree!Resized(t, n)
    PROVE  /\ TreeShape(t2, below) /\ SizeRight(t2, below, n)
           /\ \A m \in Tree!TreeNodes \ {n} : t2.size[m] = t.size[m]
<1>1. n \in Tree!TreeNodes
  BY ShapeFacts DEF TreeShape
<1>2. /\ t2.root = t.root /\ t2.parent = t.parent /\ t2.child = t.child
      /\ \A m \in Tree!TreeNodes :
             t2.size[m] = IF m = n THEN 1 + Tree!nodeSize(t, t.child["left"][n])
                                          + Tree!nodeSize(t, t.child["right"][n])
                          ELSE t.size[m]
  BY <1>1, ResizedFields
<1>3. \A s \in Tree!Sides : Tree!nodeSize(t, t.child[s][n]) = Cardinality(below[t.child[s][n]])
  <2>1. Cardinality(below[Tree!Nil]) = 0
    BY BelowSize DEF TreeShape
  <2> QED BY <2>1 DEF Tree!nodeSize, SizeRight
<1>4. /\ Tree!nodeSize(t, t.child["left"][n]) = Cardinality(below[t.child["left"][n]])
      /\ Tree!nodeSize(t, t.child["right"][n]) = Cardinality(below[t.child["right"][n]])
  BY <1>3, LeftRight
<1>5. Cardinality(below[n]) = 1 + Cardinality(below[t.child["left"][n]])
                                + Cardinality(below[t.child["right"][n]])
  BY BelowSize DEF TreeShape
<1>6. t2.size[n] = Cardinality(below[n])
  BY <1>1, <1>2, <1>4, <1>5
<1> QED BY <1>2, <1>6 DEF TreeShape, SizeRight

LEMMA RotateSized ==
    ASSUME NEW t \in TreeRecords, NEW below, TreeShape(t, below), Sized(t, below),
           NEW s \in Tree!Sides, NEW x \in below[t.root],
           t.child[Tree!Opposite(s)][x] # Tree!Nil,
           NEW t2, Rotated(t, below, s, x, t2),
           NEW below2, below2 = TurnedBelow(s, x, t.child, below),
           TreeShape(t2, below2), below2[t2.root] = below[t.root]
    PROVE  Sized(t2, below2)
<1> DEFINE o == Tree!Opposite(s)
           y == t.child[o][x]
<1>1. PICK t1 \in TreeRecords : /\ t1.child = t2.child /\ t1.parent = t2.parent /\ t1.size = t.size
                                /\ t2 = Tree!Resized(Tree!Resized(t1, x), y)
  BY DEF Rotated
<1>2. o \in Tree!Sides /\ o # s /\ Tree!Opposite(o) = s /\ \A u \in Tree!Sides : u = s \/ u = o
  BY SideFacts
<1>3. x \in Tree!TreeNodes /\ x # Tree!Nil /\ y \in below[t.root] /\ y # x /\ x \notin below[y]
  BY <1>2, ShapeFacts DEF TreeShape
<1>4. y \in Tree!TreeNodes /\ y # Tree!Nil
  BY <1>3, ShapeFacts DEF TreeShape
<1> DEFINE v == Tree!Resized(t1, x)
<1>5. /\ v \in TreeRecords /\ v.parent = t1.parent /\ v.child = t1.child /\ v.root = t1.root
      /\ \A m \in Tree!TreeNodes \ {x} : v.size[m] = t1.size[m]
  BY <1>3, ResizedFields
<1>6. /\ t2 = Tree!Resized(v, y)
      /\ t2.parent = v.parent /\ t2.child = v.child /\ t2.root = v.root
      /\ \A m \in Tree!TreeNodes \ {y} : t2.size[m] = v.size[m]
  <2>1. t2 = Tree!Resized(v, y)
    BY <1>1
  <2> HIDE DEF v, y
  <2> QED BY <1>4, <1>5, <2>1, ResizedFields
<1>7. TreeShape(t1, below2) /\ TreeShape(v, below2) /\ t1.root = t2.root /\ v.root = t2.root
  <2> HIDE DEF v
  <2> QED BY <1>1, <1>5, <1>6 DEF TreeShape
<1>8. \A n \in Tree!Pointers : n # x /\ n # y => below2[n] = below[n]
  BY DEF TurnedBelow
<1>9. /\ t2.child[s][x] = t.child[s][x] /\ t2.child[o][x] = t.child[s][y]
      /\ t2.child[s][y] = x /\ t2.child[o][y] = t.child[o][y]
  <2>1. \A n \in below[t.root], u \in Tree!Sides :
               t2.child[u][n] = IF n = x THEN (IF u = s THEN t.child[s][x] ELSE t.child[s][y])
                             ELSE IF n = y THEN (IF u = s THEN x ELSE t.child[u][y])
                             ELSE IF t.child[u][n] = x THEN y ELSE t.child[u][n]
    BY DEF Rotated
  <2> HIDE DEF o, y
  <2> QED BY <1>2, <1>3, <2>1
<1>10. \A n \in below[t.root] : n \in Tree!TreeNodes /\ n \in Tree!Pointers
  BY ShapeFacts DEF TreeShape
<1>11. \A n \in below[t.root] \ {x, y} : t.size[n] = Cardinality(below2[n])
  BY <1>8, <1>10 DEF Sized, SizeRight
<1>12. \A u \in Tree!Sides : /\ t2.child[u][x] # Tree!Nil => t2.child[u][x] \in below[t.root] \ {x, y}
                             /\ t2.child[o][y] # Tree!Nil => t2.child[o][y] \in below[t.root] \ {x, y}
  <2>1. x \in below2[t2.root] /\ y \in below2[t2.root]
    BY <1>3
  <2>2. t2.parent[x] = y
    <3>1. x # y /\ x \in Tree!TreeNodes
      BY <1>3
    <3> QED BY <3>1 DEF Rotated
  <2>3. ASSUME NEW u \in Tree!Sides, t2.child[u][x] # Tree!Nil
        PROVE  t2.child[u][x] \in below[t.root] \ {x, y}
    <3>1. t2.child[u][x] \in below2[t2.root] /\ t2.child[u][x] # x /\ x \notin below2[t2.child[u][x]]
      BY <2>1, <2>3, ShapeFacts DEF TreeShape
    <3>2. x \in below2[y]
      BY <1>2, <1>3, <1>9, <2>1, ShapeFacts DEF TreeShape
    <3> QED BY <3>1, <3>2
  <2>4. ASSUME t2.child[o][y] # Tree!Nil
        PROVE  t2.child[o][y] \in below[t.root] \ {x, y}
    <3>1. t2.child[o][y] \in below2[t2.root] /\ t2.child[o][y] # y /\ t2.child[o][y] # t2.child[s][y]
      BY <1>2, <2>1, <2>4, ShapeFacts DEF TreeShape
    <3> QED BY <1>9, <3>1
  <2> QED BY <2>3, <2>4
<1>13. SizeRight(v, below2, x)
  <2>1. \A u \in Tree!Sides : t1.child[u][x] # Tree!Nil => SizeRight(t1, below2, t1.child[u][x])
    BY <1>1, <1>11, <1>12 DEF SizeRight
  <2>2. x \in below2[t1.root]
    BY <1>3, <1>7
  <2> QED BY <1>7, <2>1, <2>2, ResizedSize
<1> HIDE DEF v
<1>14. SizeRight(t2, below2, y)
  <2>1. v.child[s][y] = x /\ v.child[o][y] = t2.child[o][y]
    BY <1>6, <1>9
  <2>2. ASSUME v.child[o][y] # Tree!Nil PROVE SizeRight(v, below2, v.child[o][y])
    <3>1. v.child[o][y] \in below[t.root] \ {x, y}
      BY <1>2, <1>12, <2>1, <2>2
    <3>2. v.size[v.child[o][y]] = t.size[v.child[o][y]]
      BY <1>1, <1>5, <1>10, <3>1
    <3> QED BY <1>11, <3>1, <3>2 DEF SizeRight
  <2>3. \A u \in Tree!Sides : v.child[u][y] # Tree!Nil => SizeRight(v, below2, v.child[u][y])
    BY <1>2, <1>13, <2>1, <2>2
  <2>4. y \in below2[v.root]
    BY <1>3, <1>7
  <2> HIDE DEF y
  <2> QED BY <1>5, <1>6, <1>7, <2>3, <2>4, ResizedSize
<1>15. \A n \in below[t.root] \ {x, y} : t2.size[n] = t.size[n]
  BY <1>1, <1>5, <1>6, <1>10
<1>16. SizeRight(t2, below2, x)
  BY <1>3, <1>6, <1>13 DEF SizeRight
<1> QED BY <1>11, <1>14, <1>15, <1>16 DEF Sized, SizeRight

-----------------------------------------------------------------------------
\* The colours of src/295.c: from n down there are black[n] black nodes on every way, and
\* no red node but e is the root or has a red parent.
Weight(t, n) == IF n \in t.red THEN 0 ELSE 1
Painted(t, below, black, e) ==
    /\ black \in [Tree!Pointers -> Nat] /\ black[Tree!Nil] = 0
    /\ \A n \in below[t.root] : \A s \in Tree!Sides : black[n] = black[t.child[s][n]] + Weight(t, n)
    /\ \A n \in below[t.root] \cap t.red : n # e => n # t.root /\ t.parent[n] \notin t.red

RedBlackTree(t, below, black, e) ==
    /\ t \in TreeRecords /\ TreeShape(t, below)
    /\ Sorted(t, below) /\ Sized(t, below) /\ Painted(t, below, black, e)

\* Two red nodes may be turned: it is the lower one then that has a red parent.
LEMMA StraightenPainted ==
    ASSUME NEW t \in TreeRecords, NEW below, NEW black, TreeShape(t, below),
           NEW z \in below[t.root] \cap t.red, Painted(t, below, black, z),
           NEW s \in Tree!Sides, NEW p \in t.red, p = t.parent[z], t.child[Tree!Opposite(s)][p] = z,
           NEW t2, Rotated(t, below, s, p, t2),
           NEW below2, TreeShape(t2, below2), below2[t2.root] = below[t.root]
    PROVE  Painted(t2, below2, black, p)
<1> DEFINE o == Tree!Opposite(s)
           b == t.child[s][z]
<1>1. /\ o \in Tree!Sides /\ o # s /\ \A u \in Tree!Sides : u = s \/ u = o
  BY SideFacts
<1>2. t.red \subseteq Tree!TreeNodes /\ Tree!Nil \notin t.red
  BY RecordFields, NilFacts
<1>3. p # Tree!Nil /\ z # t.root /\ p \in below[t.root]
  <2>1. p # Tree!Nil
    BY <1>2
  <2>2. z # t.root
    BY <2>1, ShapeFacts DEF TreeShape
  <2> QED BY <2>1, <2>2 DEF TreeShape, Shape
<1>4. p # z /\ p # t.root /\ t.parent[p] \notin t.red
  <2>1. z # p
    <3>1. z # Tree!Nil
      BY <1>2
    <3> QED BY <1>1, <1>3, <3>1, ShapeFacts DEF TreeShape
  <2> QED BY <1>3, <2>1 DEF Painted
<1>5. \A n \in below[t.root] : n \in Tree!TreeNodes /\ (t.parent[n] = Tree!Nil => n = t.root)
  BY ShapeFacts DEF TreeShape
<1>6. /\ t2.red = t.red /\ t2.root = t.root
      /\ \A n \in Tree!TreeNodes :
               t2.parent[n] = IF n = z THEN t.parent[p] ELSE IF n = p THEN z ELSE IF n = b THEN p ELSE t.parent[n]
      /\ \A n \in below[t.root], u \in Tree!Sides :
               t2.child[u][n] = IF n = p THEN (IF u = s THEN t.child[s][p] ELSE b)
                             ELSE IF n = z THEN (IF u = s THEN p ELSE t.child[u][z])
                             ELSE IF t.child[u][n] = p THEN z ELSE t.child[u][n]
  <2>1. t.parent[p] # Tree!Nil
    BY <1>3, <1>4, <1>5
  <2> QED BY <2>1 DEF Rotated
<1> HIDE DEF b, o
<1>7. \A n \in below[t.root] : \A u \in Tree!Sides : black[n] = black[t.child[u][n]] + Weight(t, n)
  BY DEF Painted
<1>8. black \in [Tree!Pointers -> Nat] /\ black[Tree!Nil] = 0
  BY DEF Painted
<1>9. \A n : Weight(t2, n) = Weight(t, n) /\ Weight(t, n) \in {0, 1}
  BY <1>6 DEF Weight
<1>10. Weight(t, p) = 0 /\ Weight(t, z) = 0
  BY DEF Weight
<1>11. \A n \in below[t.root], u \in Tree!Sides : black[n] \in Nat /\ black[t.child[u][n]] \in Nat
  BY <1>5, <1>8, NilFacts, RecordFields
<1>12. black[p] = black[z] /\ black[b] = black[z]
  <2>1. black[p] = black[t.child[o][p]] + 0
    BY <1>1, <1>3, <1>7, <1>10
  <2>2. black[z] = black[b] + 0
    BY <1>7, <1>10 DEF b
  <2>3. t.child[o][p] = z
    BY DEF o
  <2> QED BY <1>1, <1>3, <1>11, <2>1, <2>2, <2>3 DEF b
<1>13. ASSUME NEW n \in below[t.root], NEW u \in Tree!Sides
       PROVE  black[t2.child[u][n]] = black[t.child[u][n]]
  <2>1. CASE n = p
    <3>1. CASE u = s
      BY <1>6, <2>1, <3>1
    <3>2. CASE u = o
      <4>1. t2.child[u][n] = b /\ t.child[u][n] = z
        BY <1>1, <1>6, <2>1, <3>2 DEF o
      <4> QED BY <1>12, <4>1
    <3> QED BY <1>1, <3>1, <3>2
  <2>2. CASE n = z
    <3>1. CASE u = s
      BY <1>4, <1>6, <1>12, <2>2, <3>1 DEF b
    <3>2. CASE u = o
      BY <1>1, <1>4, <1>6, <2>2, <3>2
    <3> QED BY <1>1, <3>1, <3>2
  <2>3. CASE n # p /\ n # z
    BY <1>6, <1>12, <2>3
  <2> QED BY <2>1, <2>2, <2>3
\* The child that changes over is black, since z is red.
<1>14. b \notin t.red
  <2>1. ASSUME b \in t.red PROVE FALSE
    <3>1. b # Tree!Nil
      BY <1>2, <2>1
    <3>2. b \in below[t.root] /\ t.parent[b] = z /\ b # z
      BY <3>1, ShapeFacts DEF b, TreeShape
    <3> QED BY <2>1, <3>2 DEF Painted
  <2> QED BY <2>1
<1>15. ASSUME NEW n \in below[t.root] \cap t.red, n # p
       PROVE  n # t.root /\ t2.parent[n] \notin t.red
  <2>1. CASE n = z
    BY <1>3, <1>4, <1>5, <1>6, <2>1
  <2>2. CASE n # z
    <3>1. n # t.root /\ t.parent[n] \notin t.red
      BY <2>2 DEF Painted
    <3> QED BY <1>5, <1>6, <1>14, <1>15, <2>2, <3>1
  <2> QED BY <2>1, <2>2
<1>16. \A n \in below[t.root] : \A u \in Tree!Sides : black[n] = black[t2.child[u][n]] + Weight(t2, n)
  BY <1>7, <1>9, <1>13
<1> QED BY <1>6, <1>8, <1>15, <1>16 DEF Painted

\* The links of a rotated tree by those of one that differs in the colours.
Relinked(t, below, s, x, y, t2) ==
    /\ t2.root = IF t.parent[x] = Tree!Nil THEN y ELSE t.root
    /\ \A n \in Tree!TreeNodes :
           t2.parent[n] = IF n = y THEN t.parent[x] ELSE IF n = x THEN y
                          ELSE IF n = t.child[s][y] THEN x ELSE t.parent[n]
    /\ \A n \in below[t.root], u \in Tree!Sides :
           t2.child[u][n] = IF n = x THEN (IF u = s THEN t.child[s][x] ELSE t.child[s][y])
                            ELSE IF n = y THEN (IF u = s THEN x ELSE t.child[u][y])
                            ELSE IF t.child[u][n] = x THEN y ELSE t.child[u][n]

LEMMA RelinkedChild ==
    ASSUME NEW t, NEW below, NEW s, NEW x, NEW y, NEW t2, Relinked(t, below, s, x, y, t2)
    PROVE  \A n \in below[t.root], u \in Tree!Sides :
               t2.child[u][n] = IF n = x THEN (IF u = s THEN t.child[s][x] ELSE t.child[s][y])
                                ELSE IF n = y THEN (IF u = s THEN x ELSE t.child[u][y])
                                ELSE IF t.child[u][n] = x THEN y ELSE t.child[u][n]
  BY DEF Relinked

LEMMA RelinkedIs ==
    ASSUME NEW t, NEW t1, t1.root = t.root, t1.parent = t.parent, t1.child = t.child,
           NEW below, NEW s, NEW x, NEW y, y = t.child[Tree!Opposite(s)][x],
           NEW t2, Rotated(t1, below, s, x, t2)
    PROVE  Relinked(t, below, s, x, y, t2) /\ t2.red = t1.red
<1> DEFINE b == t.child[s][y]
<1>1. t1.child[Tree!Opposite(s)][x] = y /\ t1.child[s][y] = b
  OBVIOUS
<1>2. t2.red = t1.red /\ t2.root = IF t1.parent[x] = Tree!Nil THEN y ELSE t1.root
  BY <1>1 DEF Rotated
<1> HIDE DEF b
<1>3. \A n \in Tree!TreeNodes :
          t2.parent[n] = IF n = y THEN t1.parent[x] ELSE IF n = x THEN y ELSE IF n = b THEN x ELSE t1.parent[n]
  BY <1>1 DEF Rotated
<1>4. ASSUME NEW n \in below[t.root], NEW u \in Tree!Sides
      PROVE  t2.child[u][n] = IF n = x THEN (IF u = s THEN t1.child[s][x] ELSE b)
                              ELSE IF n = y THEN (IF u = s THEN x ELSE t1.child[u][y])
                              ELSE IF t1.child[u][n] = x THEN y ELSE t1.child[u][n]
  BY <1>1 DEF Rotated
<1>5. t.child[s][y] = b
  BY DEF b
<1>6. t2.root = IF t.parent[x] = Tree!Nil THEN y ELSE t.root
  BY <1>2
<1>7. \A n \in Tree!TreeNodes :
          t2.parent[n] = IF n = y THEN t.parent[x] ELSE IF n = x THEN y
                         ELSE IF n = t.child[s][y] THEN x ELSE t.parent[n]
  BY <1>3, <1>5
<1>8. \A n \in below[t.root], u \in Tree!Sides :
          t2.child[u][n] = IF n = x THEN (IF u = s THEN t.child[s][x] ELSE t.child[s][y])
                           ELSE IF n = y THEN (IF u = s THEN x ELSE t.child[u][y])
                           ELSE IF t.child[u][n] = x THEN y ELSE t.child[u][n]
  BY <1>4, <1>5
<1> QED BY <1>2, <1>6, <1>7, <1>8, ZenonT(20) DEF Relinked

\* Parent q black and grandparent g red, and g is turned down: q has as many black nodes
\* below it as g had.
Restructures(t, below, black, z, q, g, s, t1, t2, below2) ==
    /\ t \in TreeRecords /\ TreeShape(t, below)
    /\ z \in below[t.root] \cap t.red /\ Painted(t, below, black, z)
    /\ q \in t.red /\ q = t.parent[z] /\ g = t.parent[q]
    /\ s \in Tree!Sides /\ t.child[s][g] = q /\ t.child[s][q] = z
    /\ t.child[Tree!Opposite(s)][g] \notin t.red
    /\ t1 \in TreeRecords /\ t1.root = t.root /\ t1.parent = t.parent /\ t1.child = t.child
    /\ t1.red = (t.red \ {q}) \cup {g}
    /\ Rotated(t1, below, Tree!Opposite(s), g, t2)
    /\ TreeShape(t2, below2) /\ below2[t2.root] = below[t.root]

LEMMA RestructurePainted ==
    ASSUME NEW t, NEW below, NEW black, NEW z, NEW q, NEW g, NEW s, NEW t1, NEW t2, NEW below2,
           Restructures(t, below, black, z, q, g, s, t1, t2, below2)
    PROVE  Painted(t2, below2, [black EXCEPT ![g] = @ - 1, ![q] = black[g]], z)
<1> SUFFICES ASSUME t \in TreeRecords, TreeShape(t, below),
                    z \in below[t.root] \cap t.red, Painted(t, below, black, z),
                    q \in t.red, q = t.parent[z], g = t.parent[q],
                    s \in Tree!Sides, t.child[s][g] = q, t.child[s][q] = z,
                    t.child[Tree!Opposite(s)][g] \notin t.red,
                    t1 \in TreeRecords, t1.root = t.root, t1.parent = t.parent, t1.child = t.child,
                    t1.red = (t.red \ {q}) \cup {g},
                    Rotated(t1, below, Tree!Opposite(s), g, t2),
                    TreeShape(t2, below2), below2[t2.root] = below[t.root]
             PROVE  Painted(t2, below2, [black EXCEPT ![g] = @ - 1, ![q] = black[g]], z)
  BY DEF Restructures
<1> DEFINE o == Tree!Opposite(s)
           b == t.child[o][q]
           u == t.child[o][g]
           bl == [black EXCEPT ![g] = @ - 1, ![q] = black[g]]
<1>1. /\ o \in Tree!Sides /\ o # s /\ Tree!Opposite(o) = s /\ \A i \in Tree!Sides : i = s \/ i = o
  BY SideFacts
<1>2. t.red \subseteq Tree!TreeNodes /\ Tree!Nil \notin t.red
  BY RecordFields, NilFacts
<1>3. z # t.root /\ q \in below[t.root] /\ q # z
  <2>1. z # t.root
    BY <1>2, ShapeFacts DEF TreeShape
  <2>2. q \in below[t.root]
    BY <2>1 DEF TreeShape, Shape
  <2> QED BY <1>2, <2>1, <2>2, ShapeFacts DEF TreeShape
<1>4. q # t.root /\ g \notin t.red
  BY <1>3 DEF Painted
<1>5. g \in below[t.root] /\ g # q /\ g # z
  <2>1. g \in below[t.root]
    BY <1>3, <1>4 DEF TreeShape, Shape
  <2>2. g # q
    BY <1>2, <2>1, ShapeFacts DEF TreeShape
  <2> QED BY <1>4, <2>1, <2>2
<1>6. \A n \in below[t.root] : n \in Tree!TreeNodes /\ n \in Tree!Pointers /\ n # Tree!Nil
                               /\ (t.parent[n] = Tree!Nil <=> n = t.root)
  BY ShapeFacts DEF TreeShape
<1>7. /\ t2.red = (t.red \ {q}) \cup {g}
      /\ t2.root = IF g = t.root THEN q ELSE t.root
      /\ \A n \in Tree!TreeNodes :
               t2.parent[n] = IF n = q THEN t.parent[g] ELSE IF n = g THEN q ELSE IF n = b THEN g ELSE t.parent[n]
      /\ \A n \in below[t.root], i \in Tree!Sides :
               t2.child[i][n] = IF n = g THEN (IF i = o THEN u ELSE b)
                             ELSE IF n = q THEN (IF i = o THEN g ELSE t.child[i][q])
                             ELSE IF t.child[i][n] = g THEN q ELSE t.child[i][n]
  <2>1. t1.child[Tree!Opposite(o)][g] = q
    BY <1>1
  <2>2. t.parent[g] = Tree!Nil <=> g = t.root
    BY <1>5, <1>6
  <2>3. Rotated(t1, below, o, g, t2)
    OBVIOUS
  <2>4. q = t.child[Tree!Opposite(o)][g]
    BY <2>1
  <2> HIDE DEF o
  <2>9. b = t.child[o][q] /\ u = t.child[o][g]
    BY DEF b, u
  <2> HIDE DEF b, u, bl
  <2>6. t1.root = t.root /\ t1.parent = t.parent /\ t1.child = t.child
    OBVIOUS
  <2>7. Relinked(t, below, o, g, q, t2)
    BY <2>3, <2>4, <2>6, RelinkedIs
  <2>8. t2.red = t1.red
    BY <2>3 DEF Rotated
  <2>5. t2.red = (t.red \ {q}) \cup {g}
    BY <2>8
  <2>10. t2.root = IF g = t.root THEN q ELSE t.root
    BY <2>2, <2>7 DEF Relinked
  <2>11. \A n \in Tree!TreeNodes :
               t2.parent[n] = IF n = q THEN t.parent[g] ELSE IF n = g THEN q ELSE IF n = b THEN g ELSE t.parent[n]
    BY <2>7, <2>9 DEF Relinked
  <2>12. \A n \in below[t.root], i \in Tree!Sides :
               t2.child[i][n] = IF n = g THEN (IF i = o THEN u ELSE b)
                             ELSE IF n = q THEN (IF i = o THEN g ELSE t.child[i][q])
                             ELSE IF t.child[i][n] = g THEN q ELSE t.child[i][n]
    <3>1. ASSUME NEW n \in below[t.root], NEW i \in Tree!Sides
          PROVE  t2.child[i][n] = IF n = g THEN (IF i = o THEN t.child[o][g] ELSE t.child[o][q])
                             ELSE IF n = q THEN (IF i = o THEN g ELSE t.child[i][q])
                             ELSE IF t.child[i][n] = g THEN q ELSE t.child[i][n]
      BY <2>7, RelinkedChild
    <3> QED BY <2>9, <3>1
  <2> QED BY <2>5, <2>10, <2>11, <2>12
<1>8. \A n \in below[t.root] : \A i \in Tree!Sides : black[n] = black[t.child[i][n]] + Weight(t, n)
  BY DEF Painted
<1>9. black \in [Tree!Pointers -> Nat] /\ black[Tree!Nil] = 0
  BY DEF Painted
<1>10. Weight(t, q) = 0 /\ Weight(t, z) = 0 /\ Weight(t, g) = 1
  BY <1>4 DEF Weight
<1>11. b \in Tree!Pointers /\ u \in Tree!Pointers /\ z \in Tree!Pointers
  BY <1>1, <1>3, <1>5, <1>6, RecordFields
<1>12. /\ black[g] = black[q] + 1 /\ black[q] = black[z] /\ black[b] = black[q] /\ black[u] = black[q]
  <2>1. black[g] = black[q] + 1
    BY <1>5, <1>8, <1>10
  <2>2. black[q] = black[z] + 0
    BY <1>3, <1>8, <1>10
  <2>3. black[q] = black[b] + 0
    BY <1>1, <1>3, <1>8, <1>10
  <2>4. black[g] = black[u] + 1
    BY <1>1, <1>5, <1>8, <1>10
  <2>5. black[q] \in Nat /\ black[z] \in Nat /\ black[b] \in Nat /\ black[u] \in Nat
    BY <1>3, <1>6, <1>9, <1>11
  <2> HIDE DEF b, u
  <2> QED BY <2>1, <2>2, <2>3, <2>4, <2>5
<1>13. /\ bl \in [Tree!Pointers -> Nat] /\ bl[Tree!Nil] = 0
       /\ bl[g] = black[q] /\ bl[q] = black[q] + 1
       /\ \A n \in Tree!Pointers : n # g /\ n # q => bl[n] = black[n]
  <2>1. g \in Tree!Pointers /\ q \in Tree!Pointers /\ g # Tree!Nil /\ q # Tree!Nil /\ Tree!Nil \in Tree!Pointers
    BY <1>3, <1>5, <1>6, NilFacts
  <2>2. black[q] \in Nat /\ black[g] - 1 = black[q] /\ black[g] \in Nat
    BY <1>9, <1>12, <2>1
  <2> QED BY <1>5, <1>9, <1>12, <2>1, <2>2
<1>14. b # q /\ b # g /\ b # z /\ u # q /\ u # g
  <2>1. b # Tree!Nil => b # q /\ b # z /\ t.parent[b] = q
    <3>1. \A m \in below[t.root], j \in Tree!Sides : ChildInPlace(t, j, m)
      BY TreeChildren
    <3>2. ChildInPlace(t, o, q)
      BY <1>1, <1>3, <3>1
    <3> QED BY <1>1, <3>2 DEF ChildInPlace
  <2>2. u # Tree!Nil => u # q /\ u # g /\ t.parent[u] = g
    <3>1. \A m \in below[t.root], j \in Tree!Sides : ChildInPlace(t, j, m)
      BY TreeChildren
    <3>2. ChildInPlace(t, o, g)
      BY <1>1, <1>5, <3>1
    <3> QED BY <1>1, <3>2 DEF ChildInPlace
  <2>3. t.parent[g] # q
    <3>1. q \in below[g] /\ g \notin below[q]
      BY <1>2, <1>5, ShapeFacts DEF TreeShape
    <3>2. ASSUME t.parent[g] = q PROVE g \in below[q]
      <4>1. g # t.root
        BY <1>2, <1>5, <1>6, <3>2
      <4>2. PICK i \in Tree!Sides : t.child[i][q] = g
        BY <1>5, <3>2, <4>1, TreeParent
      <4> QED BY <1>3, <1>5, <1>6, <4>2, ShapeFacts DEF TreeShape
    <3> QED BY <3>1, <3>2
  <2> HIDE DEF b, u
  <2> QED BY <1>2, <1>3, <1>5, <1>6, <2>1, <2>2, <2>3
<1> HIDE DEF b, u, bl, o
<1>15. /\ t.child[s][g] = q /\ t.child[s][q] = z /\ t.child[o][g] = u /\ t.child[o][q] = b
       /\ Painted(t2, below2, bl, z) <=> Painted(t2, below2, [black EXCEPT ![g] = @ - 1, ![q] = black[g]], z)
  BY DEF b, u, o, bl
<1>16. \A n : Weight(t2, n) = IF n = q THEN 1 ELSE IF n = g THEN 0 ELSE Weight(t, n)
  BY <1>5, <1>7 DEF Weight
<1>17. ASSUME NEW n \in below[t.root], NEW i \in Tree!Sides
       PROVE  bl[n] = bl[t2.child[i][n]] + Weight(t2, n)
  <2>1. CASE n = g
    <3>1. t2.child[i][n] = IF i = o THEN u ELSE b
      BY <1>7, <2>1
    <3>2. bl[u] = black[q] /\ bl[b] = black[q]
      BY <1>11, <1>12, <1>13, <1>14
    <3>3. bl[n] \in Nat /\ Weight(t2, n) = 0
      BY <1>5, <1>6, <1>13, <1>16, <2>1
    <3> QED BY <1>13, <2>1, <3>1, <3>2, <3>3
  <2>2. CASE n = q
    <3>1. t2.child[i][n] = IF i = o THEN g ELSE z
      <4>1. t2.child[i][q] = IF i = o THEN g ELSE t.child[i][q]
        BY <1>3, <1>5, <1>7
      <4>2. i = o \/ (i = s /\ i # o)
        BY <1>1
      <4> QED BY <1>15, <2>2, <4>1, <4>2
    <3>2. bl[g] = black[q] /\ bl[z] = black[q]
      BY <1>3, <1>5, <1>11, <1>12, <1>13
    <3> QED BY <1>13, <1>16, <2>2, <3>1, <3>2
  <2>3. CASE n # g /\ n # q
    <3>1. t2.child[i][n] = IF t.child[i][n] = g THEN q ELSE t.child[i][n]
      BY <1>7, <2>3
    <3>2. t.child[i][n] # q
      <4>1. ASSUME t.child[i][n] = q PROVE FALSE
        <5>1. \A m \in below[t.root], j \in Tree!Sides : ChildInPlace(t, j, m)
          BY TreeChildren
        <5>2. q # Tree!Nil
          BY <1>2
        <5>3. t.parent[q] = n
          BY <4>1, <5>1, <5>2 DEF ChildInPlace
        <5> QED BY <2>3, <5>3
      <4> QED BY <4>1
    <3>3. t.child[i][n] \in Tree!Pointers
      BY <1>6, RecordFields
    <3>4. bl[t2.child[i][n]] = black[t.child[i][n]]
      BY <1>12, <1>13, <3>1, <3>2, <3>3
    <3> QED BY <1>6, <1>8, <1>13, <1>16, <2>3, <3>4
  <2> QED BY <2>1, <2>2, <2>3
\* The children of q other than z, and the uncle, are black.
<1>18. b \notin t.red
  <2>1. ASSUME b \in t.red PROVE FALSE
    <3>1. b # Tree!Nil
      BY <1>2, <2>1
    <3>2. b \in below[t.root] /\ t.parent[b] = q
      BY <1>1, <1>3, <1>15, <3>1, ShapeFacts DEF TreeShape
    <3> QED BY <1>14, <2>1, <3>2 DEF Painted
  <2> QED BY <2>1
<1>19. ASSUME NEW n \in below[t.root] \cap t2.red, n # z
       PROVE  n # t2.root /\ t2.parent[n] \notin t2.red
  <2>1. CASE n = g
    <3>1. t2.parent[g] = q /\ n # t2.root
      BY <1>5, <1>6, <1>7, <2>1
    <3> QED BY <1>5, <1>7, <2>1, <3>1
  <2>2. CASE n # g
    <3>1. n \in t.red /\ n # q /\ n \in Tree!TreeNodes
      BY <1>6, <1>7, <1>19, <2>2
    <3>2. n # t.root /\ t.parent[n] \notin t.red
      BY <1>19, <3>1 DEF Painted
    <3>3. n # b
      BY <1>18, <3>1
    <3>4. t2.parent[n] = t.parent[n]
      BY <1>7, <2>2, <3>1, <3>3
    <3>5. t.parent[n] # g
      <4>1. ASSUME t.parent[n] = g PROVE FALSE
        <5>1. PICK i \in Tree!Sides : t.child[i][g] = n
          BY <3>2, <4>1, TreeParent
        <5>2. n = u
          BY <1>1, <1>15, <3>1, <5>1
        <5>3. u \notin t.red
          BY DEF u, o
        <5> QED BY <3>1, <5>2, <5>3
      <4> QED BY <4>1
    <3> QED BY <1>7, <3>1, <3>2, <3>4, <3>5
  <2> QED BY <2>1, <2>2
<1>20. /\ \A n \in below2[t2.root] : \A i \in Tree!Sides : bl[n] = bl[t2.child[i][n]] + Weight(t2, n)
       /\ \A n \in below2[t2.root] \cap t2.red : n # z => n # t2.root /\ t2.parent[n] \notin t2.red
  BY <1>17, <1>19
<1>21. Painted(t2, below2, bl, z)
  BY <1>13, <1>20 DEF Painted
<1> QED BY <1>15, <1>21

\* Parent and uncle black and grandparent red: below each as many black nodes as before.
Recolours(t, below, black, z, p, g, s, q, t2, black2) ==
    /\ t \in TreeRecords /\ TreeShape(t, below)
    /\ z \in below[t.root] \cap t.red /\ Painted(t, below, black, z)
    /\ p \in t.red /\ p = t.parent[z] /\ g = t.parent[p]
    /\ s \in Tree!Sides /\ t.child[s][g] = p
    /\ q \in t.red /\ t.child[Tree!Opposite(s)][g] = q
    /\ t2 \in TreeRecords /\ t2.root = t.root /\ t2.parent = t.parent /\ t2.child = t.child
    /\ t2.red = (t.red \ {p, q}) \cup {g}
    /\ black2 = [n \in Tree!Pointers |-> IF n \in {p, q} THEN black[n] + 1 ELSE black[n]]

LEMMA RecolourPainted ==
    ASSUME NEW t, NEW below, NEW black, NEW z, NEW p, NEW g, NEW s, NEW q, NEW t2, NEW black2,
           Recolours(t, below, black, z, p, g, s, q, t2, black2)
    PROVE  Painted(t2, below, black2, g) /\ g \in below[t2.root] \cap t2.red
<1> USE DEF Recolours
<1>1. Tree!Opposite(s) \in Tree!Sides /\ \A i \in Tree!Sides : i = s \/ i = Tree!Opposite(s)
  BY SideFacts
<1>2. t.red \subseteq Tree!TreeNodes /\ Tree!Nil \notin t.red
  BY RecordFields, NilFacts
<1>3. z # t.root /\ p \in below[t.root]
  <2>1. z # t.root
    BY <1>2, ShapeFacts DEF TreeShape
  <2> QED BY <2>1 DEF TreeShape, Shape
<1>4. p # z
  BY <1>2, <1>3, ShapeFacts DEF TreeShape, Shape
<1>5. p # t.root /\ g \notin t.red
  BY <1>3, <1>4 DEF Painted
<1>6. g \in below[t.root] /\ q \in below[t.root] /\ t.parent[q] = g
  <2>1. g \in below[t.root]
    BY <1>3, <1>5 DEF TreeShape, Shape
  <2> QED BY <1>1, <1>2, <2>1, ShapeFacts DEF TreeShape
<1>7. \A n \in below[t.root] : n \in Tree!TreeNodes /\ n \in Tree!Pointers /\ n # Tree!Nil
  BY ShapeFacts DEF TreeShape
<1>8. \A n \in below[t.root] : \A i \in Tree!Sides : black[n] = black[t.child[i][n]] + Weight(t, n)
  BY DEF Painted
<1>9. black \in [Tree!Pointers -> Nat] /\ black[Tree!Nil] = 0
  BY DEF Painted
<1>10. black2 \in [Tree!Pointers -> Nat] /\ black2[Tree!Nil] = 0
  BY <1>2, <1>9, NilFacts
<1>11. \A n : Weight(t2, n) = IF n = g THEN 0 ELSE IF n \in {p, q} THEN 1 ELSE Weight(t, n)
  BY <1>5 DEF Weight
<1>12. p \in Tree!Pointers /\ q \in Tree!Pointers /\ g \in Tree!Pointers /\ g # p /\ g # q
  BY <1>3, <1>5, <1>6, <1>7
<1>13. ASSUME NEW n \in below[t.root], NEW i \in Tree!Sides
       PROVE  black2[n] = black2[t.child[i][n]] + Weight(t2, n)
  <2>1. t.child[i][n] \in Tree!Pointers /\ n \in Tree!Pointers
    BY <1>7, RecordFields
  <2>2. black[n] \in Nat /\ black[t.child[i][n]] \in Nat /\ black[n] = black[t.child[i][n]] + Weight(t, n)
    BY <1>8, <1>9, <2>1
  <2>3. CASE n = g
    <3>1. t.child[i][n] \in {p, q}
      BY <1>1, <2>3
    <3>2. Weight(t, n) = 1 /\ Weight(t2, n) = 0
      BY <1>5, <1>11, <2>3 DEF Weight
    <3>3. black2[t.child[i][n]] = black[t.child[i][n]] + 1 /\ black2[n] = black[n]
      BY <1>12, <2>1, <2>3, <3>1
    <3> QED BY <2>2, <3>2, <3>3
  <2>4. CASE n # g
    <3>1. t.child[i][n] \notin {p, q}
      <4>1. t.child[i][n] # Tree!Nil => t.parent[t.child[i][n]] = n
        BY TreeChild
      <4> QED BY <1>2, <1>6, <2>4, <4>1
    <3>2. black2[t.child[i][n]] = black[t.child[i][n]]
      BY <2>1, <3>1
    <3>3. CASE n \in {p, q}
      <4>1. Weight(t, n) = 0 /\ Weight(t2, n) = 1
        BY <1>11, <2>4, <3>3 DEF Weight
      <4>2. black2[n] = black[n] + 1
        BY <2>1, <3>3
      <4> QED BY <2>2, <3>2, <4>1, <4>2
    <3>4. CASE n \notin {p, q}
      <4>1. Weight(t2, n) = Weight(t, n) /\ black2[n] = black[n]
        BY <1>11, <2>1, <2>4, <3>4
      <4> QED BY <2>2, <3>2, <4>1
    <3> QED BY <3>3, <3>4
  <2> QED BY <2>3, <2>4
<1>14. ASSUME NEW n \in below[t.root] \cap t2.red, n # g
       PROVE  n # t.root /\ t.parent[n] \notin t2.red
  <2>1. n \in t.red /\ n \notin {p, q}
    BY <1>14
  <2>2. CASE n = z
    BY <1>3, <1>12, <2>2
  <2>3. CASE n # z
    <3>1. n # t.root /\ t.parent[n] \notin t.red
      BY <2>1, <2>3 DEF Painted
    <3>2. t.parent[n] # g
      <4>1. t.parent[n] = g => \E i \in Tree!Sides : t.child[i][g] = n
        BY <3>1 DEF TreeShape, Shape
      <4> QED BY <1>1, <2>1, <4>1
    <3> QED BY <3>1, <3>2
  <2> QED BY <2>2, <2>3
<1>15. g \in t2.red
  OBVIOUS
<1>16. t2.root = t.root /\ t2.child = t.child /\ t2.parent = t.parent
  OBVIOUS
<1> HIDE DEF Recolours
<1>17. \A n \in below[t2.root] : \A i \in Tree!Sides : black2[n] = black2[t2.child[i][n]] + Weight(t2, n)
  BY <1>13, <1>16
<1>18. \A n \in below[t2.root] \cap t2.red : n # g => n # t2.root /\ t2.parent[n] \notin t2.red
  BY <1>14, <1>16
<1>19. Painted(t2, below, black2, g)
  BY <1>10, <1>17, <1>18, Zenon DEF Painted
<1> QED BY <1>6, <1>15, <1>16, <1>19

\* The loop is over: a black root adds one to every way.
LEMMA FixedPainted ==
    ASSUME NEW t \in TreeRecords, NEW below, NEW black, TreeShape(t, below),
           NEW z, Painted(t, below, black, z), z \in below[t.root] => t.parent[z] \notin t.red,
           NEW t2 \in TreeRecords, t2.root = t.root, t2.parent = t.parent, t2.child = t.child,
           t2.red = t.red \ {t.root},
           NEW black2,
           black2 = [n \in Tree!Pointers |-> IF n = t.root /\ n \in t.red THEN black[n] + 1 ELSE black[n]]
    PROVE  Painted(t2, below, black2, Tree!Nil)
<1>1. t.red \subseteq Tree!TreeNodes /\ Tree!Nil \notin t.red
  BY RecordFields, NilFacts
<1>2. \A n \in below[t.root] : /\ n \in Tree!TreeNodes /\ n \in Tree!Pointers /\ n # Tree!Nil
                               /\ t.parent[n] = Tree!Nil <=> n = t.root
  BY ShapeFacts DEF TreeShape
<1>3. \A n \in below[t.root] : \A i \in Tree!Sides : black[n] = black[t.child[i][n]] + Weight(t, n)
  BY DEF Painted
<1>4. black \in [Tree!Pointers -> Nat] /\ black[Tree!Nil] = 0
  BY DEF Painted
<1>5. black2 \in [Tree!Pointers -> Nat] /\ black2[Tree!Nil] = 0
  BY <1>1, <1>4, NilFacts
<1>6. ASSUME NEW n \in below[t.root], NEW i \in Tree!Sides
      PROVE  black2[n] = black2[t.child[i][n]] + Weight(t2, n)
  <2>1. t.child[i][n] \in Tree!Pointers /\ n \in Tree!Pointers
    BY <1>2, RecordFields
  <2>2. black[n] \in Nat /\ black[t.child[i][n]] \in Nat /\ black[n] = black[t.child[i][n]] + Weight(t, n)
    BY <1>3, <1>4, <2>1
  <2>3. t.child[i][n] = t.root => t.child[i][n] = Tree!Nil
    BY ShapeFacts DEF TreeShape
  <2>4. black2[t.child[i][n]] = black[t.child[i][n]]
    BY <1>1, <2>1, <2>3
  <2>5. CASE n = t.root /\ n \in t.red
    <3>1. Weight(t, n) = 0 /\ Weight(t2, n) = 1 /\ black2[n] = black[n] + 1
      BY <2>1, <2>5 DEF Weight
    <3> QED BY <2>2, <2>4, <3>1
  <2>6. CASE ~(n = t.root /\ n \in t.red)
    <3>1. Weight(t2, n) = Weight(t, n) /\ black2[n] = black[n]
      BY <2>1, <2>6 DEF Weight
    <3> QED BY <2>2, <2>4, <3>1
  <2> QED BY <2>5, <2>6
<1>7. ASSUME NEW n \in below[t.root] \cap t2.red
      PROVE  n # t.root /\ t.parent[n] \notin t2.red
  <2>1. n \in t.red /\ n # t.root
    BY <1>7
  <2> QED BY <2>1 DEF Painted
<1> QED BY <1>5, <1>6, <1>7 DEF Painted

-----------------------------------------------------------------------------
\* Hang(t, y, z): a leaf below y, on the side on which a search for its number goes on,
\* or the first node.
Hangs(t, below, y, z) ==
    /\ t \in TreeRecords /\ TreeShape(t, below)
    /\ z \in Tree!TreeNodes /\ z \notin below[t.root] /\ \A s \in Tree!Sides : t.child[s][z] = Tree!Nil
    /\ \/ y = Tree!Nil /\ t.root = Tree!Nil
       \/ y \in below[t.root] /\ t.child[Tree!SideFor(t, y, t.val[z])][y] = Tree!Nil

Hung(t, below, y, z, t2) ==
    /\ t2 \in TreeRecords /\ t2.count = t.count /\ t2.red = t.red /\ t2.val = t.val /\ t2.size = t.size
    /\ t2.root = IF y = Tree!Nil THEN z ELSE t.root
    /\ \A n \in Tree!TreeNodes : t2.parent[n] = IF n = z THEN y ELSE t.parent[n]
    /\ \A n \in Tree!TreeNodes, s \in Tree!Sides :
           t2.child[s][n] = IF n = y /\ s = Tree!SideFor(t, y, t.val[z]) THEN z ELSE t.child[s][n]

LEMMA HangFields ==
    ASSUME NEW t, NEW below, NEW y, NEW z, Hangs(t, below, y, z),
           NEW t2, t2 = Tree!Hang(t, y, z)
    PROVE  Hung(t, below, y, z, t2)
<1> DEFINE side == Tree!SideFor(t, y, t.val[z])
           u == [t EXCEPT !.parent = [t.parent EXCEPT ![z] = y]]
<1>1. side \in Tree!Sides
  BY LeftRight DEF Tree!SideFor
<1>2. /\ t \in TreeRecords /\ z \in Tree!TreeNodes /\ z \in Tree!Pointers
      /\ y \in Tree!Pointers /\ (y # Tree!Nil => y \in Tree!TreeNodes)
  BY NilFacts, ShapeFacts DEF Hangs, TreeShape
<1>3. [t.parent EXCEPT ![z] = y] \in [Tree!TreeNodes -> Tree!Pointers]
  BY <1>2, RecordFields
<1>4. /\ u \in TreeRecords
      /\ u.root = t.root /\ u.count = t.count /\ u.red = t.red /\ u.val = t.val /\ u.size = t.size
      /\ u.child = t.child /\ u.parent = [t.parent EXCEPT ![z] = y]
  BY <1>2, <1>3 DEF TreeRecords
<1>5. [t EXCEPT !.parent[z] = y] = u
  BY <1>2 DEF TreeRecords
<1>6. \A n \in Tree!TreeNodes : u.parent[n] = IF n = z THEN y ELSE t.parent[n]
  BY <1>2, <1>4, RecordFields
<1>7. Tree!SideFor(t, y, t.val[z]) = side
  OBVIOUS
<1> HIDE DEF side, u
<1>8. CASE y = Tree!Nil
  <2>1. t2 = [u EXCEPT !.root = z]
    BY <1>5, <1>8 DEF Tree!Hang
  <2>2. /\ t2 \in TreeRecords
        /\ t2.root = z /\ t2.count = u.count /\ t2.red = u.red /\ t2.val = u.val /\ t2.size = u.size
        /\ t2.child = u.child /\ t2.parent = u.parent
    BY <1>2, <1>4, <2>1 DEF TreeRecords
  <2>3. \A n \in Tree!TreeNodes : n # y
    BY <1>8, NilFacts
  <2> QED BY <1>4, <1>6, <1>8, <2>2, <2>3 DEF Hung
<1>9. CASE y # Tree!Nil
  <2> DEFINE c == [t.child EXCEPT ![side] = [t.child[side] EXCEPT ![y] = z]]
  <2>1. Tree!SideFor(t, y, t.val[z]) = side
    BY <1>7
  <2>2. t2 = [u EXCEPT !.child[side][y] = z]
    BY <1>5, <1>9, <2>1 DEF Tree!Hang
  <2>3. t2 = [u EXCEPT !.child = c]
    BY <1>4, <2>2 DEF TreeRecords
  <2>4. /\ c \in [Tree!Sides -> [Tree!TreeNodes -> Tree!Pointers]]
        /\ \A n \in Tree!TreeNodes, s \in Tree!Sides :
               c[s][n] = IF n = y /\ s = side THEN z ELSE t.child[s][n]
    BY <1>1, <1>2, <1>9, RecordFields
  <2> HIDE DEF c
  <2>5. /\ t2 \in TreeRecords
        /\ t2.root = u.root /\ t2.count = u.count /\ t2.red = u.red /\ t2.val = u.val /\ t2.size = u.size
        /\ t2.child = c /\ t2.parent = u.parent
    BY <1>4, <2>3, <2>4 DEF TreeRecords
  <2> QED BY <1>4, <1>6, <1>7, <1>9, <2>4, <2>5 DEF Hung
<1> QED BY <1>8, <1>9

LEMMA HangTreeShape ==
    ASSUME NEW t, NEW below, NEW y, NEW z, Hangs(t, below, y, z),
           NEW t2, Hung(t, below, y, z, t2),
           NEW below2, below2 = HungBelow(t.root, z, y, below)
    PROVE  TreeShape(t2, below2) /\ below2[t2.root] = below[t.root] \cup {z}
<1>1. /\ t2.parent \in [Tree!TreeNodes -> Tree!Pointers]
      /\ t2.child \in [Tree!Sides -> [Tree!TreeNodes -> Tree!Pointers]]
  BY RecordFields DEF Hung
<1>2. Shape(t.root, t.parent, t.child, below) /\ z \in Tree!TreeNodes /\ z \notin below[t.root]
      /\ \A s \in Tree!Sides : t.child[s][z] = Tree!Nil
  BY DEF Hangs, TreeShape
<1> DEFINE side == Tree!SideFor(t, y, t.val[z])
<1>3. /\ side \in Tree!Sides
      /\ \A n \in Tree!TreeNodes : t2.parent[n] = IF n = z THEN y ELSE t.parent[n]
      /\ \A n \in Tree!TreeNodes, s \in Tree!Sides :
           t2.child[s][n] = IF n = y /\ s = side THEN z ELSE t.child[s][n]
      /\ t2.root = IF y = Tree!Nil THEN z ELSE t.root
  <2>1. side \in Tree!Sides
    BY LeftRight DEF Tree!SideFor
  <2> HIDE DEF side
  <2>2. side = Tree!SideFor(t, y, t.val[z])
    BY DEF side
  <2> QED BY <2>1, <2>2 DEF Hung
<1>4. CASE y = Tree!Nil /\ t.root = Tree!Nil
  <2>1. t2.child = t.child
    <3>1. \A n \in Tree!TreeNodes, s \in Tree!Sides : t2.child[s][n] = t.child[s][n]
      BY <1>3, <1>4, NilFacts
    <3>2. t.child \in [Tree!Sides -> [Tree!TreeNodes -> Tree!Pointers]]
      BY <1>2 DEF Shape
    <3>3. \A s \in Tree!Sides : t2.child[s] = t.child[s]
      BY <1>1, <3>1, <3>2
    <3> QED BY <1>1, <3>2, <3>3
  <2>2. t2.root = z /\ t2.parent[z] = Tree!Nil
    BY <1>2, <1>3, <1>4
  <2>3. Shape(Tree!Nil, t.parent, t.child, below) /\ below2 = HungBelow(Tree!Nil, z, y, below)
    BY <1>2, <1>4
  <2>6. IsFirst(t.parent, t.child, below, z, y, t2.parent, below2)
    BY <1>1, <1>2, <2>2, <2>3 DEF IsFirst
  <2>4. Shape(z, t2.parent, t.child, below2) /\ below2[z] = {z}
    BY <2>3, <2>6, FirstShape
  <2>5. below[Tree!Nil] = {}
    BY <1>2 DEF Shape
  <2> QED BY <1>4, <2>1, <2>2, <2>4, <2>5 DEF TreeShape
<1>5. CASE y \in below[t.root] /\ t.child[side][y] = Tree!Nil
  <2>1. t2.root = t.root
    BY <1>2, <1>3, <1>5, ShapeFacts
  <2> HIDE DEF side
  <2>2. Shape(t.root, t2.parent, t2.child, below2) /\ below2[t.root] = below[t.root] \cup {z}
    <3>1. Attaches(t.root, t.parent, t.child, below, z, y, side, t2.parent, t2.child, below2)
      BY <1>1, <1>2, <1>3, <1>5 DEF Attaches
    <3> QED BY <1>2, <3>1, HangShape
  <2> QED BY <2>1, <2>2 DEF TreeShape
<1> QED BY <1>4, <1>5 DEF Hangs

\* What is below the nodes after that.
LEMMA HungBelowIs ==
    ASSUME NEW t, NEW below, NEW y, NEW z, Hangs(t, below, y, z),
           NEW below2, below2 = HungBelow(t.root, z, y, below)
    PROVE  /\ below2[z] = {z} /\ below2[Tree!Nil] = {} /\ below[Tree!Nil] = {}
           /\ \A n \in below[t.root] : /\ n # z /\ z \notin below[n] /\ n \in Tree!TreeNodes
                                       /\ below2[n] = IF y \in below[n] THEN below[n] \cup {z} ELSE below[n]
<1>1. Shape(t.root, t.parent, t.child, below) /\ z \in Tree!TreeNodes /\ z \notin below[t.root]
  BY DEF Hangs, TreeShape
<1>2. below[Tree!Nil] = {} /\ z \in Tree!Pointers /\ Tree!Nil \in Tree!Pointers /\ Tree!Nil # z
      /\ Tree!Nil \notin below[t.root]
  BY <1>1, NilFacts, ShapeFacts DEF Shape
<1>3. \A n \in below[t.root] : /\ n # z /\ z \notin below[n] /\ n \in Tree!TreeNodes /\ n \in Tree!Pointers
  BY <1>1, ShapeFacts
<1> QED BY <1>2, <1>3 DEF HungBelow

\* The nodes from which a search for v goes on towards y, all on the side of y.
OnPath(t, below, y, v) ==
    \A n \in below[t.root] : \A s \in Tree!Sides : y \in below[t.child[s][n]] => s = Tree!SideFor(t, n, v)

LEMMA SideForSorts ==
    ASSUME NEW t \in TreeRecords, NEW n \in Tree!TreeNodes, NEW v \in Int
    PROVE  Tree!SideFor(t, n, v) \in Tree!Sides /\ OnSide(Tree!SideFor(t, n, v), v, t.val[n])
<1>1. t.val[n] \in Int
  BY RecordFields
<1> QED BY <1>1, LeftRight DEF Tree!SideFor, OnSide

LEMMA HangSorted ==
    ASSUME NEW t, NEW below, NEW y, NEW z, Hangs(t, below, y, z),
           NEW t2, Hung(t, below, y, z, t2),
           NEW below2, below2 = HungBelow(t.root, z, y, below),
           below2[t2.root] = below[t.root] \cup {z},
           Sorted(t, below), OnPath(t, below, y, t.val[z])
    PROVE  Sorted(t2, below2)
<1> DEFINE side == Tree!SideFor(t, y, t.val[z])
<1>1. /\ t \in TreeRecords /\ z \in Tree!TreeNodes /\ \A s \in Tree!Sides : t.child[s][z] = Tree!Nil
      /\ TreeShape(t, below)
      /\ z # Tree!Nil /\ t.val[z] \in Int
  BY NilFacts, RecordFields DEF Hangs
<1>2. /\ t2.val = t.val
      /\ \A n \in Tree!TreeNodes, s \in Tree!Sides :
           t2.child[s][n] = IF n = y /\ s = side THEN z ELSE t.child[s][n]
  BY DEF Hung
<1> HIDE DEF side
<1>3. /\ below2[z] = {z} /\ below2[Tree!Nil] = {} /\ below[Tree!Nil] = {}
      /\ \A n \in below[t.root] : /\ n # z /\ z \notin below[n] /\ n \in Tree!TreeNodes
                                  /\ below2[n] = IF y \in below[n] THEN below[n] \cup {z} ELSE below[n]
  BY HungBelowIs
<1> SUFFICES ASSUME NEW n \in below[t.root] \cup {z}, NEW s \in Tree!Sides, NEW m \in below2[t2.child[s][n]]
             PROVE  OnSide(s, t.val[m], t.val[n])
  BY <1>2 DEF Sorted
<1>4. CASE n = y /\ s = side
  <2>1. m = z
    <3>1. n \in Tree!TreeNodes
      BY <1>1, <1>3
    <3> QED BY <1>2, <1>3, <1>4, <3>1
  <2>2. y \in Tree!TreeNodes
    BY <1>1, <1>3, <1>4
  <2> QED BY <1>1, <1>4, <2>1, <2>2, SideForSorts DEF side
<1>5. CASE ~(n = y /\ s = side) /\ n = z
  <2>1. t2.child[s][n] = Tree!Nil
    BY <1>1, <1>2, <1>5
  <2> QED BY <1>3, <2>1
<1>6. CASE ~(n = y /\ s = side) /\ n # z
  <2>1. t2.child[s][n] = t.child[s][n] /\ n \in below[t.root] /\ n \in Tree!TreeNodes
    BY <1>2, <1>3, <1>6
  <2>2. t.child[s][n] \in below[t.root] \cup {Tree!Nil}
    BY <1>1, <2>1 DEF TreeShape, Shape
  <2>3. CASE m = z
    <3>1. t.child[s][n] \in below[t.root] /\ y \in below[t.child[s][n]]
      BY <1>3, <2>1, <2>2, <2>3
    <3>2. s = Tree!SideFor(t, n, t.val[z])
      BY <2>1, <3>1 DEF OnPath
    <3> QED BY <1>1, <2>1, <2>3, <3>2, SideForSorts
  <2>4. CASE m # z
    <3>1. m \in below[t.child[s][n]]
      BY <1>3, <2>1, <2>2, <2>4
    <3> QED BY <2>1, <3>1 DEF Sorted
  <2> QED BY <2>3, <2>4
<1> QED BY <1>4, <1>5, <1>6

LEMMA HangSize ==
    ASSUME NEW t, NEW below, NEW y, NEW z, Hangs(t, below, y, z),
           NEW below2, below2 = HungBelow(t.root, z, y, below)
    PROVE  /\ Cardinality(below2[z]) = 1
           /\ \A n \in below[t.root] :
                  Cardinality(below2[n]) = Cardinality(below[n]) + IF y \in below[n] THEN 1 ELSE 0
<1>1. /\ below2[z] = {z} /\ below2[Tree!Nil] = {} /\ below[Tree!Nil] = {}
      /\ \A n \in below[t.root] : /\ n # z /\ z \notin below[n] /\ n \in Tree!TreeNodes
                                  /\ below2[n] = IF y \in below[n] THEN below[n] \cup {z} ELSE below[n]
  BY HungBelowIs
<1>2. Shape(t.root, t.parent, t.child, below)
  BY DEF Hangs, TreeShape
<1>3. \A S \in SUBSET Tree!TreeNodes : IsFiniteSet(S) /\ Cardinality(S) \in Nat
  BY <1>2, BelowSize
<1>4. ASSUME NEW n \in below[t.root]
      PROVE  Cardinality(below2[n]) = Cardinality(below[n]) + IF y \in below[n] THEN 1 ELSE 0
  <2>1. below[n] \in SUBSET Tree!TreeNodes
    BY <1>2, ShapeFacts
  <2>2. IsFiniteSet(below[n]) /\ Cardinality(below[n]) \in Nat /\ z \notin below[n]
    BY <1>1, <1>3, <2>1
  <2>3. Cardinality(below[n] \cup {z}) = Cardinality(below[n]) + 1
    BY <2>2, FS_AddElement
  <2>4. CASE y \in below[n]
    BY <1>1, <2>2, <2>3, <2>4
  <2>5. CASE y \notin below[n]
    <3>1. below2[n] = below[n]
      BY <1>1, <2>5
    <3> QED BY <2>2, <2>5, <3>1
  <2> QED BY <2>4, <2>5
<1>5. Cardinality({z}) = 1
  BY FS_Singleton
<1> QED BY <1>1, <1>4, <1>5

LEMMA HangPainted ==
    ASSUME NEW t, NEW below, NEW y, NEW z, Hangs(t, below, y, z), z \in t.red,
           NEW t2, Hung(t, below, y, z, t2),
           NEW below2, below2[t2.root] = below[t.root] \cup {z},
           NEW black, Painted(t, below, black, Tree!Nil),
           NEW black2, black2 = [black EXCEPT ![z] = 0]
    PROVE  Painted(t2, below2, black2, z)
<1> DEFINE side == Tree!SideFor(t, y, t.val[z])
<1>1. /\ t \in TreeRecords /\ z \in Tree!TreeNodes /\ \A s \in Tree!Sides : t.child[s][z] = Tree!Nil
      /\ TreeShape(t, below) /\ z \notin below[t.root]
      /\ z # Tree!Nil /\ z \in Tree!Pointers
  BY NilFacts DEF Hangs
<1>2. /\ t2.red = t.red /\ t2.root = IF y = Tree!Nil THEN z ELSE t.root
      /\ \A n \in Tree!TreeNodes : t2.parent[n] = IF n = z THEN y ELSE t.parent[n]
      /\ \A n \in Tree!TreeNodes, s \in Tree!Sides :
           t2.child[s][n] = IF n = y /\ s = side THEN z ELSE t.child[s][n]
  BY DEF Hung
<1>3. y \in below[t.root] => t.child[side][y] = Tree!Nil
  BY NilFacts, ShapeFacts DEF Hangs, TreeShape
<1>4. \A n \in below[t.root] : n \in Tree!TreeNodes /\ n \in Tree!Pointers /\ n # z /\ n # Tree!Nil
  BY <1>1, ShapeFacts DEF TreeShape
<1> HIDE DEF side
<1>5. black \in [Tree!Pointers -> Nat] /\ black[Tree!Nil] = 0
  BY DEF Painted
<1>6. /\ black2 \in [Tree!Pointers -> Nat] /\ black2[Tree!Nil] = 0 /\ black2[z] = 0
      /\ \A n \in Tree!Pointers : n # z => black2[n] = black[n]
  BY <1>1, <1>5, NilFacts
<1>7. \A n : Weight(t2, n) = Weight(t, n)
  BY <1>2 DEF Weight
<1>8. ASSUME NEW n \in below[t.root] \cup {z}, NEW s \in Tree!Sides
      PROVE  black2[n] = black2[t2.child[s][n]] + Weight(t2, n)
  <2>1. CASE n = z
    <3>1. t2.child[s][n] \in {Tree!Nil, z}
      BY <1>1, <1>2, <2>1
    <3>2. Weight(t, n) = 0
      BY <2>1 DEF Weight
    <3> QED BY <1>6, <1>7, <2>1, <3>1, <3>2
  <2>2. CASE n # z
    <3>1. n \in below[t.root] /\ n \in Tree!TreeNodes /\ n \in Tree!Pointers
      BY <1>4, <2>2
    <3>2. black[n] = black[t.child[s][n]] + Weight(t, n) /\ black2[n] = black[n]
      BY <1>6, <2>2, <3>1 DEF Painted
    <3>3. t.child[s][n] \in Tree!Pointers /\ t.child[s][n] # z
      BY <1>1, <3>1, RecordFields DEF TreeShape, Shape
    <3>4. CASE n = y /\ s = side
      <4>1. t2.child[s][n] = z /\ t.child[s][n] = Tree!Nil
        BY <1>2, <1>3, <3>1, <3>4
      <4> QED BY <1>5, <1>6, <1>7, <3>2, <4>1
    <3>5. CASE ~(n = y /\ s = side)
      <4>1. t2.child[s][n] = t.child[s][n]
        BY <1>2, <3>1, <3>5
      <4> QED BY <1>6, <1>7, <3>2, <3>3, <4>1
    <3> QED BY <3>4, <3>5
  <2> QED BY <2>1, <2>2
<1>9. ASSUME NEW n \in (below[t.root] \cup {z}) \cap t2.red, n # z
      PROVE  n # t2.root /\ t2.parent[n] \notin t2.red
  <2>1. n \in below[t.root] \cap t.red /\ n # Tree!Nil /\ n \in Tree!TreeNodes
    BY <1>2, <1>4, <1>9
  <2>2. n # t.root /\ t.parent[n] \notin t.red
    BY <2>1 DEF Painted
  <2> QED BY <1>2, <1>9, <2>1, <2>2
<1> QED BY <1>6, <1>8, <1>9 DEF Painted

-----------------------------------------------------------------------------
\* What the recursive functions of LinkedTree are on such a tree.  A function that goes
\* on from each number to the next is defined.
Steps(X, step, base) == step \in [X -> X] /\ base \in X
Iterates(g, X, step, base) ==
    g \in [Nat -> X] /\ g[0] = base /\ \A n \in Nat : g[n + 1] = step[g[n]]

LEMMA IterateExists ==
    ASSUME NEW X, NEW step, NEW base, Steps(X, step, base)
    PROVE  \E g : Iterates(g, X, step, base)
<1> USE DEF Steps, Iterates
<1> DEFINE Reaches(n, h) == /\ h \in [0 .. n -> X] /\ h[0] = base
                         /\ \A k \in 1 .. n : h[k] = step[h[k - 1]]
           S == {n \in Nat : \E h : Reaches(n, h)}
<1>1. 0 \in S
  <2> DEFINE h == [n \in 0 .. 0 |-> base]
  <2>1. Reaches(0, h)
    OBVIOUS
  <2> HIDE DEF Reaches
  <2> QED BY <2>1
<1>2. ASSUME NEW n \in Nat, n \in S PROVE n + 1 \in S
  <2>1. PICK h : Reaches(n, h)
    BY <1>2
  <2> DEFINE f == [k \in 0 .. n + 1 |-> IF k <= n THEN h[k] ELSE step[h[n]]]
  <2>2. h[n] \in X /\ step[h[n]] \in X
    BY <2>1
  <2>3. f \in [0 .. n + 1 -> X] /\ f[0] = base
    BY <2>1, <2>2
  <2>4. ASSUME NEW k \in 1 .. n + 1 PROVE f[k] = step[f[k - 1]]
    <3>1. CASE k = n + 1
      <4>1. k - 1 = n /\ k \in 0 .. n + 1 /\ n \in 0 .. n + 1 /\ ~(k <= n) /\ n <= n
        BY <3>1
      <4>2. f[k] = step[h[n]] /\ f[n] = h[n]
        BY <4>1
      <4> QED BY <3>1, <4>1, <4>2
    <3>2. CASE k # n + 1
      <4>1. k \in 1 .. n /\ k \in 0 .. n + 1 /\ k - 1 \in 0 .. n + 1 /\ k <= n /\ k - 1 <= n
        BY <3>2
      <4>2. f[k] = h[k] /\ f[k - 1] = h[k - 1]
        BY <4>1
      <4> QED BY <2>1, <4>1, <4>2
    <3> QED BY <3>1, <3>2
  <2>5. Reaches(n + 1, f)
    BY <2>3, <2>4
  <2> HIDE DEF Reaches, f
  <2> QED BY <2>5
<1>3. \A n \in Nat : n \in S
  <2> SUFFICES ASSUME NEW n \in Nat PROVE n \in S
    OBVIOUS
  <2>1. \A k \in 0 .. n - 1 : k \in S => k + 1 \in S
    BY <1>2
  <2> HIDE DEF S
  <2>2. \A k \in 0 .. n : k \in S
    BY <1>1, <2>1, UpTo
  <2> QED BY <2>2
\* Two that go on in the same way agree as far as both go.
<1>4. ASSUME NEW n \in Nat, NEW h, NEW f, Reaches(n, h), Reaches(n + 1, f)
      PROVE  h[n] = f[n]
  <2> DEFINE T == {k \in 0 .. n : h[k] = f[k]}
  <2>1. 0 \in T
    BY <1>4
  <2>2. ASSUME NEW k \in 0 .. n - 1, k \in T PROVE k + 1 \in T
    <3>1. k + 1 \in 1 .. n /\ k + 1 \in 1 .. n + 1 /\ (k + 1) - 1 = k
      OBVIOUS
    <3>2. h[k + 1] = step[h[k]] /\ f[k + 1] = step[f[k]]
      BY <1>4, <3>1
    <3> QED BY <2>2, <3>1, <3>2
  <2> HIDE DEF T
  <2>3. \A k \in 0 .. n : k \in T
    BY <2>1, <2>2, UpTo
  <2> QED BY <2>3 DEF T
<1> DEFINE c(n) == CHOOSE h : Reaches(n, h)
           g == [n \in Nat |-> c(n)[n]]
<1>5. \A n \in Nat : Reaches(n, c(n))
  <2> HIDE DEF Reaches
  <2> QED BY <1>3
<1>6. \A n \in Nat : c(n)[n] \in X
  <2> HIDE DEF c
  <2> QED BY <1>5
<1>7. c(0)[0] = base
  <2> HIDE DEF c
  <2> QED BY <1>5
<1>8. ASSUME NEW n \in Nat PROVE c(n + 1)[n + 1] = step[c(n)[n]]
  <2> HIDE DEF c
  <2>1. n + 1 \in Nat /\ n + 1 \in 1 .. n + 1 /\ (n + 1) - 1 = n
    OBVIOUS
  <2>2. Reaches(n + 1, c(n + 1)) /\ Reaches(n, c(n))
    BY <1>5, <2>1
  <2>3. c(n + 1)[n + 1] = step[c(n + 1)[n]]
    BY <2>1, <2>2
  <2>4. c(n)[n] = c(n + 1)[n]
    <3> HIDE DEF Reaches
    <3> QED BY <1>4, <2>2
  <2> QED BY <2>3, <2>4
<1> HIDE DEF c
<1>9. g \in [Nat -> X] /\ g[0] = base
  BY <1>6, <1>7
<1>10. \A n \in Nat : g[n + 1] = step[g[n]]
  BY <1>8
<1> HIDE DEF g
<1> QED BY <1>9, <1>10

\* What holds of the root and goes on from each node to its children holds of all.
LEMMA DownTheTree ==
    ASSUME NEW r, NEW up, NEW down, NEW below, Shape(r, up, down, below),
           NEW S, r \in below[r] => r \in S,
           \A n \in below[r] : n \in S => \A s \in Tree!Sides : down[s][n] # Tree!Nil => down[s][n] \in S
    PROVE  \A n \in below[r] : n \in S
<1>1. MaxNodes \in Nat /\ \A A \in SUBSET Tree!TreeNodes : Cardinality(A) \in 0 .. MaxNodes
  BY BelowSize, StructuresAssumption
<1>2. \A n \in below[r] : Cardinality(below[n]) \in 0 .. MaxNodes
  <2>1. \A n \in below[r] : below[n] \in SUBSET Tree!TreeNodes
    BY ShapeFacts
  <2> QED BY <1>1, <2>1
<1>3. ASSUME NEW n \in below[r], n # r
      PROVE  /\ up[n] \in below[r] /\ Cardinality(below[n]) < Cardinality(below[up[n]])
             /\ up[n] \in S => n \in S
  <2>1. up[n] \in below[r] /\ n # Tree!Nil
    BY <1>3, ShapeFacts DEF Shape
  <2>2. PICK s \in Tree!Sides : down[s][up[n]] = n
    BY <1>3 DEF Shape
  <2>3. up[n] \in S => n \in S
    BY <2>1, <2>2
  <2>4. Cardinality(below[up[n]]) = 1 + Cardinality(below[down["left"][up[n]]])
                                      + Cardinality(below[down["right"][up[n]]])
    BY <2>1, BelowSize
  <2>5. \A i \in Tree!Sides : below[down[i][up[n]]] \in SUBSET Tree!TreeNodes
    BY <2>1, NilFacts DEF Shape
  <2>6. \A i \in Tree!Sides : Cardinality(below[down[i][up[n]]]) \in Nat
    BY <1>1, <2>5
  <2>7. s = "left" \/ s = "right"
    BY LeftRight
  <2>8. Cardinality(below[n]) < Cardinality(below[up[n]])
    <3>1. Cardinality(below[down["left"][up[n]]]) \in Nat /\ Cardinality(below[down["right"][up[n]]]) \in Nat
      BY <2>6, LeftRight
    <3> QED BY <2>2, <2>4, <2>7, <3>1
  <2> QED BY <2>1, <2>3, <2>8
<1> DEFINE K == {k \in Nat : \A n \in below[r] : Cardinality(below[n]) >= MaxNodes - k => n \in S}
<1>4. 0 \in K
  <2> SUFFICES ASSUME NEW n \in below[r], Cardinality(below[n]) >= MaxNodes - 0 PROVE n \in S
    OBVIOUS
  <2>1. n # r => Cardinality(below[n]) < MaxNodes
    <3>1. n # r => up[n] \in below[r] /\ Cardinality(below[n]) < Cardinality(below[up[n]])
      BY <1>3
    <3> QED BY <1>1, <1>2, <3>1
  <2>2. n = r
    BY <1>1, <1>2, <2>1
  <2> QED BY <2>2
<1>5. ASSUME NEW k \in 0 .. MaxNodes - 1, k \in K PROVE k + 1 \in K
  <2> SUFFICES ASSUME NEW n \in below[r], Cardinality(below[n]) >= MaxNodes - (k + 1), n # r
               PROVE  n \in S
    BY <1>1
  <2>1. up[n] \in below[r] /\ Cardinality(below[n]) < Cardinality(below[up[n]]) /\ (up[n] \in S => n \in S)
    BY <1>3
  <2>2. Cardinality(below[n]) \in Nat /\ Cardinality(below[up[n]]) \in Nat
    BY <1>2, <2>1
  <2>3. Cardinality(below[up[n]]) >= MaxNodes - k
    BY <1>1, <2>1, <2>2
  <2> QED BY <1>5, <2>1, <2>3
<1> HIDE DEF K
<1>6. MaxNodes \in K
  <2>1. \A k \in 0 .. MaxNodes : k \in K
    BY <1>1, <1>4, <1>5, UpTo
  <2> QED BY <1>1, <2>1
<1> QED BY <1>1, <1>2, <1>6 DEF K

LEMMA ChildSmaller ==
    ASSUME NEW r, NEW up, NEW down, NEW below, Shape(r, up, down, below),
           NEW n \in below[r], NEW s \in Tree!Sides, down[s][n] # Tree!Nil
    PROVE  /\ Cardinality(below[n]) \in 0 .. MaxNodes /\ Cardinality(below[down[s][n]]) \in 0 .. MaxNodes
           /\ Cardinality(below[down[s][n]]) < Cardinality(below[n])
<1>1. \A A \in SUBSET Tree!TreeNodes : Cardinality(A) \in 0 .. MaxNodes
  BY BelowSize
<1>2. \A i \in Tree!Sides : below[down[i][n]] \in SUBSET Tree!TreeNodes
  BY NilFacts DEF Shape
<1>3. Cardinality(below[n]) = 1 + Cardinality(below[down["left"][n]]) + Cardinality(below[down["right"][n]])
  BY BelowSize
<1>4. below[n] \in SUBSET Tree!TreeNodes
  BY ShapeFacts
<1>5. /\ Cardinality(below[down["left"][n]]) \in 0 .. MaxNodes
      /\ Cardinality(below[down["right"][n]]) \in 0 .. MaxNodes
      /\ Cardinality(below[n]) \in 0 .. MaxNodes
  BY <1>1, <1>2, <1>4, LeftRight
<1>6. CASE s = "left"
  BY <1>3, <1>5, <1>6
<1>7. CASE s = "right"
  BY <1>3, <1>5, <1>7
<1> QED BY <1>6, <1>7, LeftRight

LEMMA MembersIs ==
    ASSUME NEW t \in TreeRecords, NEW below, TreeShape(t, below)
    PROVE  Tree!Members(t) = below[t.root]
<1> DEFINE next(A) == {t.child[side][n] : side \in Tree!Sides, n \in A} \ {Tree!Nil}
           Fits(f) == f = [d \in Nat |-> IF d = 0 THEN {t.root} \ {Tree!Nil}
                                         ELSE next(f[d - 1])]
           f == CHOOSE g : Fits(g)
<1>1. Tree!Members(t) = UNION {f[d] : d \in 0 .. MaxNodes}
  BY DEF Tree!Members
<1>2. Fits(f)
  <2> DEFINE X == SUBSET Tree!TreeNodes
             step == [A \in X |-> next(A)]
             base == {t.root} \ {Tree!Nil}
  <2>1. base \in X /\ step \in [X -> X]
    <3>1. t.root \in Tree!Pointers /\ \A s \in Tree!Sides, n \in Tree!TreeNodes : t.child[s][n] \in Tree!Pointers
      BY RecordFields
    <3>2. base \in X
      BY <3>1, NilFacts
    <3>3. \A A \in X : next(A) \in X
      BY <3>1, NilFacts
    <3> QED BY <3>2, <3>3
  <2> HIDE DEF X, next, f
  <2>6. PICK g : Iterates(g, X, step, base)
    <3> HIDE DEF step, base
    <3>1. Steps(X, step, base)
      BY <2>1 DEF Steps
    <3> QED BY <3>1, IterateExists
  <2>2. g \in [Nat -> X] /\ g[0] = base /\ \A n \in Nat : g[n + 1] = step[g[n]]
    <3> HIDE DEF step, base
    <3> QED BY <2>6 DEF Iterates
  <2>3. \A d \in Nat : g[d] = IF d = 0 THEN {t.root} \ {Tree!Nil} ELSE next(g[d - 1])
    <3> SUFFICES ASSUME NEW d \in Nat, d # 0 PROVE g[d] = next(g[d - 1])
      BY <2>2
    <3>1. d - 1 \in Nat /\ (d - 1) + 1 = d
      OBVIOUS
    <3>2. g[d] = step[g[d - 1]] /\ g[d - 1] \in X
      <4> HIDE DEF step
      <4> QED BY <2>2, <3>1
    <3> QED BY <3>2
  <2>4. g = [d \in Nat |-> IF d = 0 THEN {t.root} \ {Tree!Nil} ELSE next(g[d - 1])]
    <3> HIDE DEF step, base, Fits
    <3> QED BY <2>2, <2>3
  <2>5. Fits(g)
    <3> HIDE DEF step, base
    <3> QED BY <2>4
  <2> HIDE DEF Fits
  <2> QED BY <2>5 DEF f
<1> HIDE DEF f
<1>3. f[0] = {t.root} \ {Tree!Nil} /\ \A d \in Nat : f[d + 1] = next(f[d])
  <2>1. f = [d \in Nat |-> IF d = 0 THEN {t.root} \ {Tree!Nil} ELSE next(f[d - 1])]
    BY <1>2
  <2> HIDE DEF next, Fits
  <2>2. f[0] = {t.root} \ {Tree!Nil}
    BY <2>1
  <2>3. ASSUME NEW d \in Nat PROVE f[d + 1] = next(f[d])
    <3>1. d + 1 \in Nat /\ d + 1 # 0 /\ (d + 1) - 1 = d
      OBVIOUS
    <3>2. f[d + 1] = IF d + 1 = 0 THEN {t.root} \ {Tree!Nil} ELSE next(f[(d + 1) - 1])
      BY <2>1, <3>1
    <3> QED BY <3>1, <3>2
  <2> QED BY <2>2, <2>3
<1> HIDE DEF Fits
<1>4. MaxNodes \in Nat
  BY StructuresAssumption
<1>5. \A d \in 0 .. MaxNodes : f[d] \subseteq below[t.root]
  <2> DEFINE D == {d \in Nat : f[d] \subseteq below[t.root]}
  <2>1. 0 \in D
    BY <1>3 DEF TreeShape, Shape
  <2>2. ASSUME NEW d \in 0 .. MaxNodes - 1, d \in D PROVE d + 1 \in D
    <3>1. f[d + 1] = next(f[d])
      BY <1>3
    <3>2. \A s \in Tree!Sides, n \in f[d] : t.child[s][n] \in below[t.root] \cup {Tree!Nil}
      BY <2>2 DEF TreeShape, Shape
    <3> QED BY <3>1, <3>2
  <2> HIDE DEF D
  <2>3. \A d \in 0 .. MaxNodes : d \in D
    BY <1>4, <2>1, <2>2, UpTo
  <2> QED BY <2>3 DEF D
<1> DEFINE extent(n) == Cardinality(below[n])
           S == {n \in below[t.root] : \E d \in 0 .. MaxNodes - extent(n) : n \in f[d]}
<1>6. t.root \in below[t.root] => t.root \in S
  <2> SUFFICES ASSUME t.root \in below[t.root] PROVE t.root \in S
    OBVIOUS
  <2>1. t.root # Tree!Nil /\ below[t.root] \in SUBSET Tree!TreeNodes
    BY ShapeFacts DEF TreeShape
  <2>2. extent(t.root) \in 0 .. MaxNodes
    BY <2>1, BelowSize DEF TreeShape
  <2>3. t.root \in f[0] /\ 0 \in 0 .. MaxNodes - extent(t.root)
    BY <1>3, <1>4, <2>1, <2>2
  <2> QED BY <2>3
<1>7. ASSUME NEW n \in below[t.root], n \in S, NEW s \in Tree!Sides, t.child[s][n] # Tree!Nil
      PROVE  t.child[s][n] \in S
  <2>1. PICK d \in 0 .. MaxNodes - extent(n) : n \in f[d]
    BY <1>7
  <2>2. extent(n) \in 0 .. MaxNodes /\ extent(t.child[s][n]) \in 0 .. MaxNodes /\ extent(t.child[s][n]) < extent(n)
    BY <1>7, ChildSmaller DEF TreeShape
  <2>3. d + 1 \in 0 .. MaxNodes - extent(t.child[s][n])
    BY <1>4, <2>1, <2>2
  <2>4. t.child[s][n] \in f[d + 1]
    BY <1>3, <1>7, <2>1
  <2>5. t.child[s][n] \in below[t.root]
    BY <1>7 DEF TreeShape, Shape
  <2> QED BY <2>3, <2>4, <2>5
<1>8. \A n \in below[t.root] : n \in S
  <2> HIDE DEF S
  <2> QED BY <1>6, <1>7, DownTheTree DEF TreeShape
<1>9. \A n \in below[t.root] : \E d \in 0 .. MaxNodes : n \in f[d]
  <2> SUFFICES ASSUME NEW n \in below[t.root] PROVE \E d \in 0 .. MaxNodes : n \in f[d]
    OBVIOUS
  <2>1. PICK d \in 0 .. MaxNodes - extent(n) : n \in f[d]
    BY <1>8
  <2>2. extent(n) \in 0 .. MaxNodes
    <3>1. below[n] \in SUBSET Tree!TreeNodes
      BY ShapeFacts DEF TreeShape
    <3> QED BY <3>1, BelowSize DEF TreeShape
  <2> QED BY <1>4, <2>1, <2>2
<1> QED BY <1>1, <1>5, <1>9

LEMMA IsAncestorIs ==
    ASSUME NEW t \in TreeRecords, NEW below, TreeShape(t, below),
           NEW a \in below[t.root], NEW n \in below[t.root] \cup {Tree!Nil}
    PROVE  Tree!IsAncestor(t, a, n) <=> n \in below[a]
<1> DEFINE next(p) == IF p = Tree!Nil THEN Tree!Nil ELSE t.parent[p]
           Fits(f) == f = [d \in Nat |-> IF d = 0 THEN n
                                         ELSE IF f[d - 1] = Tree!Nil THEN Tree!Nil ELSE t.parent[f[d - 1]]]
           f == CHOOSE g : Fits(g)
<1>1. Tree!IsAncestor(t, a, n) <=> \E d \in 0 .. MaxNodes : f[d] = a
  BY DEF Tree!IsAncestor
<1>0. n \in Tree!Pointers
  BY NilFacts, ShapeFacts DEF TreeShape
<1>2. Fits(f)
  <2> DEFINE step == [p \in Tree!Pointers |-> next(p)]
  <2>1. step \in [Tree!Pointers -> Tree!Pointers]
    BY NilFacts, RecordFields
  <2> HIDE DEF step
  <2>6. PICK g : Iterates(g, Tree!Pointers, step, n)
    <3>1. Steps(Tree!Pointers, step, n)
      BY <1>0, <2>1 DEF Steps
    <3> QED BY <3>1, IterateExists
  <2>2. g \in [Nat -> Tree!Pointers] /\ g[0] = n /\ \A i \in Nat : g[i + 1] = step[g[i]]
    BY <2>6 DEF Iterates
  <2>3. \A d \in Nat : g[d] = IF d = 0 THEN n ELSE next(g[d - 1])
    <3> SUFFICES ASSUME NEW d \in Nat, d # 0 PROVE g[d] = next(g[d - 1])
      BY <2>2
    <3>1. d - 1 \in Nat /\ (d - 1) + 1 = d
      OBVIOUS
    <3>2. g[d] = step[g[d - 1]] /\ g[d - 1] \in Tree!Pointers
      BY <2>2, <3>1
    <3> QED BY <3>2 DEF step
  <2>4. g = [d \in Nat |-> IF d = 0 THEN n ELSE next(g[d - 1])]
    BY <2>2, <2>3
  <2>5. Fits(g)
    BY <2>4
  <2> HIDE DEF Fits
  <2> QED BY <2>5
<1> HIDE DEF f
<1>3. f[0] = n /\ \A d \in Nat : f[d + 1] = next(f[d])
  <2>1. f = [d \in Nat |-> IF d = 0 THEN n ELSE next(f[d - 1])]
    BY <1>2
  <2> HIDE DEF next, Fits
  <2>2. f[0] = n
    BY <2>1
  <2>3. ASSUME NEW d \in Nat PROVE f[d + 1] = next(f[d])
    <3>1. d + 1 \in Nat /\ d + 1 # 0 /\ (d + 1) - 1 = d
      OBVIOUS
    <3>2. f[d + 1] = IF d + 1 = 0 THEN n ELSE next(f[(d + 1) - 1])
      BY <2>1, <3>1
    <3> QED BY <3>1, <3>2
  <2> QED BY <2>2, <2>3
<1> HIDE DEF Fits
<1>4. MaxNodes \in Nat
  BY StructuresAssumption
<1>5. \A d \in 0 .. MaxNodes : f[d] = Tree!Nil \/ (f[d] \in below[t.root] /\ n \in below[f[d]])
  <2> DEFINE D == {d \in Nat : f[d] = Tree!Nil \/ (f[d] \in below[t.root] /\ n \in below[f[d]])}
  <2>1. 0 \in D
    BY <1>3, ShapeFacts DEF TreeShape
  <2>2. ASSUME NEW d \in 0 .. MaxNodes - 1, d \in D PROVE d + 1 \in D
    <3>1. f[d + 1] = next(f[d])
      BY <1>3
    <3>2. CASE f[d] = Tree!Nil
      BY <3>1, <3>2
    <3>3. CASE f[d] # Tree!Nil
      <4>1. f[d] \in below[t.root] /\ n \in below[f[d]] /\ f[d + 1] = t.parent[f[d]]
        BY <2>2, <3>1, <3>3
      <4>2. CASE f[d] = t.root
        BY <4>1, <4>2, ShapeFacts DEF TreeShape
      <4>3. CASE f[d] # t.root
        <5>1. /\ t.parent[f[d]] \in below[t.root]
              /\ \E s \in Tree!Sides : t.child[s][t.parent[f[d]]] = f[d]
          BY <4>1, <4>3 DEF TreeShape, Shape
        <5>2. below[f[d]] \subseteq below[t.parent[f[d]]]
          BY <3>3, <5>1, ShapeFacts DEF TreeShape
        <5> QED BY <4>1, <5>1, <5>2
      <4> QED BY <4>2, <4>3
    <3> QED BY <3>2, <3>3
  <2> HIDE DEF D
  <2>3. \A d \in 0 .. MaxNodes : d \in D
    BY <1>4, <2>1, <2>2, UpTo
  <2> QED BY <2>3 DEF D
<1>6. (\E d \in 0 .. MaxNodes : f[d] = a) => n \in below[a]
  <2>1. a # Tree!Nil
    BY ShapeFacts DEF TreeShape
  <2> QED BY <1>5, <2>1
<1>7. ASSUME n \in below[a], \A d \in 0 .. MaxNodes : f[d] # a PROVE FALSE
  <2> DEFINE D == {d \in Nat : f[d] \in below[a] /\ Cardinality(below[f[d]]) >= d + 1}
  <2>1. \A i \in below[t.root] : Cardinality(below[i]) \in 1 .. MaxNodes
    <3> SUFFICES ASSUME NEW i \in below[t.root] PROVE Cardinality(below[i]) \in 1 .. MaxNodes
      OBVIOUS
    <3>1. below[i] \in SUBSET Tree!TreeNodes /\ i \in below[i]
      BY ShapeFacts DEF TreeShape
    <3>2. IsFiniteSet(below[i]) /\ Cardinality(below[i]) \in 0 .. MaxNodes
      BY <3>1, BelowSize DEF TreeShape
    <3>3. Cardinality(below[i]) # 0
      BY <3>1, <3>2, FS_EmptySet
    <3> QED BY <3>2, <3>3
  <2>2. below[a] \subseteq below[t.root]
    BY ShapeFacts DEF TreeShape
  <2>3. 0 \in D
    <3>1. f[0] = n /\ n \in below[t.root]
      BY <1>3, <1>7, <2>2
    <3>2. Cardinality(below[f[0]]) >= 0 + 1
      BY <2>1, <3>1
    <3> QED BY <1>7, <3>1, <3>2
  <2>4. ASSUME NEW d \in 0 .. MaxNodes - 1, d \in D PROVE d + 1 \in D
    <3>1. f[d] \in below[a] /\ f[d] # a /\ f[d] \in below[t.root]
      BY <1>4, <1>7, <2>2, <2>4
    <3>2. t.parent[f[d]] \in below[a] /\ f[d] # Tree!Nil
      BY <3>1, ShapeFacts DEF TreeShape, Shape
    <3>3. f[d + 1] = t.parent[f[d]]
      BY <1>3, <3>2
    <3>4. f[d] # t.root
      <4>1. t.parent[f[d]] # Tree!Nil
        BY <2>2, <3>2, NilFacts, ShapeFacts DEF TreeShape
      <4> QED BY <3>1, <4>1, ShapeFacts DEF TreeShape
    <3>5. PICK s \in Tree!Sides : t.child[s][t.parent[f[d]]] = f[d]
      BY <3>1, <3>4 DEF TreeShape, Shape
    <3>6. Cardinality(below[f[d]]) < Cardinality(below[t.parent[f[d]]])
      BY <2>2, <3>2, <3>5, ChildSmaller DEF TreeShape
    <3>7. Cardinality(below[f[d]]) \in Nat /\ Cardinality(below[t.parent[f[d]]]) \in Nat
      BY <2>1, <2>2, <3>1, <3>2
    <3>8. Cardinality(below[f[d]]) >= d + 1
      BY <2>4
    <3>9. Cardinality(below[f[d + 1]]) >= (d + 1) + 1
      BY <3>3, <3>6, <3>7, <3>8
    <3> QED BY <3>2, <3>3, <3>9
  <2> HIDE DEF D
  <2>5. \A d \in 0 .. MaxNodes : d \in D
    BY <1>4, <2>3, <2>4, UpTo
  <2>6. f[MaxNodes] \in below[a] /\ Cardinality(below[f[MaxNodes]]) >= MaxNodes + 1
    BY <1>4, <2>5 DEF D
  <2>7. Cardinality(below[f[MaxNodes]]) \in 1 .. MaxNodes
    BY <2>1, <2>2, <2>6
  <2> QED BY <1>4, <2>6, <2>7
<1> QED BY <1>1, <1>6, <1>7

LEMMA SubtreeIs ==
    ASSUME NEW t \in TreeRecords, NEW below, TreeShape(t, below), NEW n \in below[t.root]
    PROVE  Tree!Subtree(t, n) = below[n]
<1>1. \A m \in below[t.root] : Tree!IsAncestor(t, n, m) <=> m \in below[n]
  BY IsAncestorIs
<1>2. Tree!Members(t) = below[t.root]
  BY MembersIs
<1>3. below[n] \subseteq below[t.root]
  BY ShapeFacts DEF TreeShape
<1> QED BY <1>1, <1>2, <1>3 DEF Tree!Subtree

LEMMA TreeIsLinked ==
    ASSUME NEW t \in TreeRecords, NEW below, TreeShape(t, below)
    PROVE  Tree!WellLinked(t)
<1>1. Tree!Members(t) = below[t.root]
  BY MembersIs
<1>2. t.root # Tree!Nil => t.parent[t.root] = Tree!Nil
  BY DEF TreeShape, Shape
<1>3. ASSUME NEW n \in below[t.root], NEW s \in Tree!Sides, t.child[s][n] # Tree!Nil
      PROVE  t.parent[t.child[s][n]] = n /\ t.child[s][n] # t.child[Tree!Opposite(s)][n]
  BY <1>3, ShapeFacts DEF TreeShape
<1>4. \A n \in below[t.root] \ {t.root} : t.parent[n] \in below[t.root]
  BY DEF TreeShape, Shape
<1> QED BY <1>1, <1>2, <1>3, <1>4 DEF Tree!WellLinked

LEMMA TreeIsOrdered ==
    ASSUME NEW t \in TreeRecords, NEW below, TreeShape(t, below), Sorted(t, below)
    PROVE  Tree!Ordered(t)
<1>1. Tree!Members(t) = below[t.root]
  BY MembersIs
<1>2. ASSUME NEW n \in below[t.root], NEW s \in Tree!Sides, t.child[s][n] # Tree!Nil,
             NEW m \in Tree!Subtree(t, t.child[s][n])
      PROVE  OnSide(s, t.val[m], t.val[n])
  <2>1. t.child[s][n] \in below[t.root]
    BY <1>2, ShapeFacts DEF TreeShape
  <2>2. m \in below[t.child[s][n]]
    BY <1>2, <2>1, SubtreeIs
  <2> QED BY <2>2 DEF Sorted
<1>3. \A n \in below[t.root] :
         t.child["left"][n] # Tree!Nil => \A m \in Tree!Subtree(t, t.child["left"][n]) : t.val[m] <= t.val[n]
  BY <1>2, LeftRight DEF OnSide
<1>4. \A n \in below[t.root] :
         t.child["right"][n] # Tree!Nil => \A m \in Tree!Subtree(t, t.child["right"][n]) : t.val[m] >= t.val[n]
  BY <1>2, LeftRight DEF OnSide
<1> QED BY <1>1, <1>3, <1>4 DEF Tree!Ordered

\* The black nodes on the way down to a node and those below it are as many as there
\* are below the root.
LEMMA DepthsAreEqual ==
    ASSUME NEW t \in TreeRecords, NEW below, TreeShape(t, below),
           NEW black, NEW e, Painted(t, below, black, e)
    PROVE  Tree!EqualBlackDepths(t)
<1> DEFINE M == below[t.root]
           Above(n) == {a \in M \ t.red : n \in below[a]}
           depth(n) == Cardinality(Above(n))
           S == {n \in M : depth(n) + black[n] = black[t.root] + Weight(t, n)}
<1>1. Tree!Members(t) = M
  BY MembersIs
<1>2. \A n \in M : Tree!BlackDepth(t, n) = depth(n)
  <2> SUFFICES ASSUME NEW n \in M PROVE Tree!BlackDepth(t, n) = depth(n)
    OBVIOUS
  <2>1. \A a \in M : Tree!IsAncestor(t, a, n) <=> n \in below[a]
    BY IsAncestorIs
  <2>2. {a \in M \ t.red : Tree!IsAncestor(t, a, n)} = Above(n)
    BY <2>1
  <2>3. \A A : Tree!Cardinality(A) = Cardinality(A)
    BY DEF Tree!Cardinality, Cardinality
  <2>4. Tree!Members(t) \ t.red = M \ t.red
    BY <1>1
  <2> QED BY <2>2, <2>3, <2>4 DEF Tree!BlackDepth
<1>3. \A n \in M : IsFiniteSet(Above(n)) /\ depth(n) \in Nat /\ n \in Tree!Pointers /\ n \in Tree!TreeNodes /\ n # Tree!Nil
  <2> SUFFICES ASSUME NEW n \in M
               PROVE IsFiniteSet(Above(n)) /\ depth(n) \in Nat /\ n \in Tree!Pointers /\ n \in Tree!TreeNodes /\ n # Tree!Nil
    OBVIOUS
  <2>1. M \subseteq Tree!TreeNodes /\ n \in Tree!Pointers /\ n # Tree!Nil
    BY ShapeFacts DEF TreeShape
  <2>2. Above(n) \in SUBSET Tree!TreeNodes
    BY <2>1
  <2> HIDE DEF Above
  <2>3. IsFiniteSet(Above(n)) /\ Cardinality(Above(n)) \in 0 .. MaxNodes
    BY <2>2, BelowSize DEF TreeShape
  <2> QED BY <2>1, <2>3
<1>4. t.root \in M => t.root \in S
  <2> SUFFICES ASSUME t.root \in M PROVE depth(t.root) + black[t.root] = black[t.root] + Weight(t, t.root)
    OBVIOUS
  <2>1. \A a \in M : t.root \in below[a] => a = t.root
    BY ShapeFacts DEF TreeShape
  <2>2. t.root \in below[t.root] /\ t.root \in Tree!Pointers
    BY ShapeFacts DEF TreeShape
  <2>3. Above(t.root) = {t.root} \ t.red
    BY <2>1, <2>2
  <2>4. Cardinality({t.root} \ t.red) = Weight(t, t.root)
    <3>1. CASE t.root \in t.red
      <4>1. {t.root} \ t.red = {}
        BY <3>1
      <4> QED BY <3>1, <4>1, FS_EmptySet DEF Weight
    <3>2. CASE t.root \notin t.red
      <4>1. {t.root} \ t.red = {t.root}
        BY <3>2
      <4> QED BY <3>2, <4>1, FS_Singleton DEF Weight
    <3> QED BY <3>1, <3>2
  <2>5. depth(t.root) = Weight(t, t.root) /\ black[t.root] \in Nat
    BY <2>2, <2>3, <2>4 DEF Painted
  <2> HIDE DEF depth
  <2> QED BY <2>5 DEF Weight
<1>5. ASSUME NEW n \in M, n \in S, NEW s \in Tree!Sides, t.child[s][n] # Tree!Nil
      PROVE  t.child[s][n] \in S
  <2> DEFINE c == t.child[s][n]
  <2>1. c \in M /\ t.parent[c] = n /\ c # n /\ n \notin below[c] /\ c \in below[n] /\ c # t.root
    BY <1>5, ShapeFacts DEF TreeShape
  <2>2. \A a \in M : c \in below[a] <=> a = c \/ n \in below[a]
    <3>1. \A a \in M : c \in below[a] /\ a # c => n \in below[a]
      BY <2>1 DEF TreeShape, Shape
    <3>2. \A a \in M : n \in below[a] => below[n] \subseteq below[a]
      BY DEF TreeShape, Shape
    <3>3. c \in below[c]
      BY <2>1, ShapeFacts DEF TreeShape
    <3> QED BY <2>1, <3>1, <3>2, <3>3
  <2> HIDE DEF c
  <2>3. Above(c) = Above(n) \cup ({c} \ t.red) /\ c \notin Above(n)
    BY <2>1, <2>2
  <2>4. depth(c) = depth(n) + Weight(t, c)
    <3> HIDE DEF Above
    <3>1. CASE c \in t.red
      <4>1. Above(c) = Above(n)
        BY <2>3, <3>1
      <4> QED BY <1>3, <3>1, <4>1 DEF Weight
    <3>2. CASE c \notin t.red
      <4>1. Above(c) = Above(n) \cup {c}
        BY <2>3, <3>2
      <4>2. Cardinality(Above(n) \cup {c}) = Cardinality(Above(n)) + 1
        BY <1>3, <2>3, FS_AddElement
      <4> QED BY <3>2, <4>1, <4>2 DEF Weight
    <3> QED BY <3>1, <3>2
  <2>5. black[n] = black[c] + Weight(t, n)
    BY DEF Painted, c
  <2>6. black[n] \in Nat /\ black[c] \in Nat /\ black[t.root] \in Nat
    <3>1. t.root \in Tree!Pointers
      BY RecordFields
    <3> QED BY <1>3, <2>1, <3>1 DEF Painted
  <2>7. depth(n) + black[n] = black[t.root] + Weight(t, n)
    BY <1>5
  <2>8. depth(n) \in Nat /\ depth(c) \in Nat /\ Weight(t, n) \in Int /\ Weight(t, c) \in Int
    <3>1. \A m : Weight(t, m) \in Int
      BY DEF Weight
    <3>2. depth(n) \in Nat /\ depth(c) \in Nat
      <4> HIDE DEF depth
      <4> QED BY <1>3, <2>1
    <3> QED BY <3>1, <3>2
  <2> HIDE DEF depth
  <2>9. depth(c) + black[c] = black[t.root] + Weight(t, c)
    BY <2>4, <2>5, <2>6, <2>7, <2>8
  <2> QED BY <2>1, <2>9 DEF c
<1>6. \A n \in M : n \in S
  <2> HIDE DEF S
  <2> QED BY <1>4, <1>5, DownTheTree DEF TreeShape
<1>7. ASSUME NEW n \in Tree!Ends(t) PROVE Tree!BlackDepth(t, n) = black[t.root]
  <2>1. PICK s \in Tree!Sides : t.child[s][n] = Tree!Nil
    BY DEF Tree!Ends
  <2>2. n \in M
    BY <1>1 DEF Tree!Ends
  <2>3. black[n] = black[Tree!Nil] + Weight(t, n) /\ black[Tree!Nil] = 0
    BY <2>1, <2>2 DEF Painted
  <2>4. depth(n) + black[n] = black[t.root] + Weight(t, n)
    BY <1>6, <2>2
  <2>5. depth(n) \in Nat /\ Weight(t, n) \in Int /\ black[t.root] \in Nat
    <3>1. t.root \in Tree!Pointers
      BY RecordFields
    <3>2. black[t.root] \in Nat
      BY <3>1 DEF Painted
    <3>3. Weight(t, n) \in Int
      BY DEF Weight
    <3> HIDE DEF depth
    <3> QED BY <1>3, <2>2, <3>2, <3>3
  <2>6. Tree!BlackDepth(t, n) = depth(n)
    BY <1>2, <2>2
  <2> HIDE DEF depth
  <2> QED BY <2>3, <2>4, <2>5, <2>6
<1> QED BY <1>7 DEF Tree!EqualBlackDepths

\* LinkedTree as MedianFinder and as ThirdMax have it is one and the same.
LEMMA MedianOperators ==
    /\ Median!Nil = Tree!Nil
    /\ Median!TreeNodes = Tree!TreeNodes
    /\ Median!Pointers = Tree!Pointers
    /\ Median!Sides = Tree!Sides
    /\ Median!EmptyTree = Tree!EmptyTree
    /\ \A side : Median!Opposite(side) = Tree!Opposite(side)
    /\ \A t, v : Median!newNode(t, v) = Tree!newNode(t, v)
    /\ \A t, n : Median!nodeSize(t, n) = Tree!nodeSize(t, n)
    /\ \A t, n : Median!Resized(t, n) = Tree!Resized(t, n)
    /\ \A t, n, v : Median!SideFor(t, n, v) = Tree!SideFor(t, n, v)
    /\ \A t, y, n : Median!Hang(t, y, n) = Tree!Hang(t, y, n)
    /\ \A t, x, y : Median!Replace(t, x, y) = Tree!Replace(t, x, y)
    /\ \A t, side, x : Median!Rotate(t, side, x) = Tree!Rotate(t, side, x)
    /\ \A t, n : Median!IsRed(t, n) = Tree!IsRed(t, n)
    /\ \A t, ns : Median!Blacken(t, ns) = Tree!Blacken(t, ns)
    /\ \A t, n : Median!Redden(t, n) = Tree!Redden(t, n)
    /\ \A t : Median!Members(t) = Tree!Members(t)
    /\ \A t, a, n : Median!IsAncestor(t, a, n) = Tree!IsAncestor(t, a, n)
    /\ \A t, n : Median!Subtree(t, n) = Tree!Subtree(t, n)
    /\ \A t : Median!WellLinked(t) = Tree!WellLinked(t)
    /\ \A t : Median!Ordered(t) = Tree!Ordered(t)
    /\ \A t, n : Median!BlackDepth(t, n) = Tree!BlackDepth(t, n)
    /\ \A t : Median!Ends(t) = Tree!Ends(t)
    /\ \A t : Median!EqualBlackDepths(t) = Tree!EqualBlackDepths(t)
<1>1. Median!Nil = Tree!Nil
  BY DEF Median!Nil, Tree!Nil
<1>2. Median!TreeNodes = Tree!TreeNodes
  BY DEF Median!TreeNodes, Tree!TreeNodes
<1>3. Median!Pointers = Tree!Pointers
  BY <1>2, <1>1 DEF Median!Pointers, Tree!Pointers
<1>4. Median!Sides = Tree!Sides
  BY DEF Median!Sides, Tree!Sides
<1>5. Median!EmptyTree = Tree!EmptyTree
  BY DEF Median!EmptyTree, Tree!EmptyTree, Median!Nil, Tree!Nil, Median!TreeNodes, Tree!TreeNodes, Median!Sides, Tree!Sides
<1>6. \A side : Median!Opposite(side) = Tree!Opposite(side)
  BY DEF Median!Opposite, Tree!Opposite
<1>7. \A t, v : Median!newNode(t, v) = Tree!newNode(t, v)
  BY DEF Median!newNode, Tree!newNode
<1>8. \A t, n : Median!nodeSize(t, n) = Tree!nodeSize(t, n)
  BY <1>1 DEF Median!nodeSize, Tree!nodeSize
<1>9. \A t, n : Median!Resized(t, n) = Tree!Resized(t, n)
  BY <1>8 DEF Median!Resized, Tree!Resized
<1>10. \A t, n, v : Median!SideFor(t, n, v) = Tree!SideFor(t, n, v)
  BY DEF Median!SideFor, Tree!SideFor
<1>11. \A t, y, n : Median!Hang(t, y, n) = Tree!Hang(t, y, n)
  BY DEF Median!Hang, Tree!Hang, Median!SideFor, Tree!SideFor, Median!Nil, Tree!Nil
<1>12. \A t, x, y : Median!Replace(t, x, y) = Tree!Replace(t, x, y)
  BY <1>1 DEF Median!Replace, Tree!Replace
<1>13. ASSUME NEW t, NEW side, NEW x PROVE Median!Rotate(t, side, x) = Tree!Rotate(t, side, x)
  <2> DEFINE up == Tree!Opposite(side)
             y == t.child[up][x]
             b == t.child[side][y]
             u(r) == [r EXCEPT !.child[up][x] = b, !.child[side][y] = x, !.parent[x] = y]
             w(r) == IF b = Tree!Nil THEN u(r) ELSE [u(r) EXCEPT !.parent[b] = x]
  <2>1. Tree!Rotate(t, side, x) = Tree!Resized(Tree!Resized(w(Tree!Replace(t, x, y)), x), y)
    BY DEF Tree!Rotate
  <2>2. Median!Rotate(t, side, x) = Median!Resized(Median!Resized(w(Median!Replace(t, x, y)), x), y)
    BY DEF Median!Rotate, Median!Opposite, Tree!Opposite, Median!Nil, Tree!Nil
  <2> HIDE DEF w, y
  <2> QED BY <2>1, <2>2, <1>12, <1>9
<1>14. \A t, n : Median!IsRed(t, n) = Tree!IsRed(t, n)
  BY <1>1 DEF Median!IsRed, Tree!IsRed
<1>15. \A t, ns : Median!Blacken(t, ns) = Tree!Blacken(t, ns)
  BY DEF Median!Blacken, Tree!Blacken
<1>16. \A t, n : Median!Redden(t, n) = Tree!Redden(t, n)
  BY DEF Median!Redden, Tree!Redden
<1>17. \A t : Median!Members(t) = Tree!Members(t)
  BY DEF Median!Members, Tree!Members, Median!Sides, Tree!Sides, Median!Nil, Tree!Nil
<1>18. \A t, a, n : Median!IsAncestor(t, a, n) = Tree!IsAncestor(t, a, n)
  BY DEF Median!IsAncestor, Tree!IsAncestor, Median!Nil, Tree!Nil
<1>19. \A t, n : Median!Subtree(t, n) = Tree!Subtree(t, n)
  BY <1>17, <1>18 DEF Median!Subtree, Tree!Subtree
<1>20. \A t : Median!WellLinked(t) = Tree!WellLinked(t)
  BY <1>17, <1>1, <1>4, <1>6 DEF Median!WellLinked, Tree!WellLinked
<1>21. \A t : Median!Ordered(t) = Tree!Ordered(t)
  BY <1>17, <1>1, <1>19 DEF Median!Ordered, Tree!Ordered
<1>22. \A t, n : Median!BlackDepth(t, n) = Tree!BlackDepth(t, n)
  BY <1>17, <1>18 DEF Median!BlackDepth, Tree!BlackDepth, Median!Cardinality, Tree!Cardinality
<1>23. \A t : Median!Ends(t) = Tree!Ends(t)
  BY <1>17, <1>4, <1>1 DEF Median!Ends, Tree!Ends
<1>24. \A t : Median!EqualBlackDepths(t) = Tree!EqualBlackDepths(t)
  BY <1>23, <1>22 DEF Median!EqualBlackDepths, Tree!EqualBlackDepths
<1> QED BY <1>1, <1>2, <1>3, <1>4, <1>5, <1>6, <1>7, <1>8, <1>9, <1>10, <1>11, <1>12, <1>13, <1>14, <1>15, <1>16, <1>17, <1>18, <1>19, <1>20, <1>21, <1>22, <1>23, <1>24

LEMMA ThirdOperators ==
    /\ Third!Nil = Tree!Nil
    /\ Third!TreeNodes = Tree!TreeNodes
    /\ Third!Pointers = Tree!Pointers
    /\ Third!Sides = Tree!Sides
    /\ Third!EmptyTree = Tree!EmptyTree
    /\ \A side : Third!Opposite(side) = Tree!Opposite(side)
    /\ \A t, v : Third!newNode(t, v) = Tree!newNode(t, v)
    /\ \A t, n : Third!nodeSize(t, n) = Tree!nodeSize(t, n)
    /\ \A t, n : Third!Resized(t, n) = Tree!Resized(t, n)
    /\ \A t, n, v : Third!SideFor(t, n, v) = Tree!SideFor(t, n, v)
    /\ \A t, y, n : Third!Hang(t, y, n) = Tree!Hang(t, y, n)
    /\ \A t, x, y : Third!Replace(t, x, y) = Tree!Replace(t, x, y)
    /\ \A t, side, x : Third!Rotate(t, side, x) = Tree!Rotate(t, side, x)
    /\ \A t, n : Third!IsRed(t, n) = Tree!IsRed(t, n)
    /\ \A t, ns : Third!Blacken(t, ns) = Tree!Blacken(t, ns)
    /\ \A t, n : Third!Redden(t, n) = Tree!Redden(t, n)
    /\ \A t : Third!Members(t) = Tree!Members(t)
    /\ \A t, a, n : Third!IsAncestor(t, a, n) = Tree!IsAncestor(t, a, n)
    /\ \A t, n : Third!Subtree(t, n) = Tree!Subtree(t, n)
    /\ \A t : Third!WellLinked(t) = Tree!WellLinked(t)
    /\ \A t : Third!Ordered(t) = Tree!Ordered(t)
    /\ \A t, n : Third!BlackDepth(t, n) = Tree!BlackDepth(t, n)
    /\ \A t : Third!Ends(t) = Tree!Ends(t)
    /\ \A t : Third!EqualBlackDepths(t) = Tree!EqualBlackDepths(t)
<1>1. Third!Nil = Tree!Nil
  BY DEF Third!Nil, Tree!Nil
<1>2. Third!TreeNodes = Tree!TreeNodes
  BY DEF Third!TreeNodes, Tree!TreeNodes
<1>3. Third!Pointers = Tree!Pointers
  BY <1>2, <1>1 DEF Third!Pointers, Tree!Pointers
<1>4. Third!Sides = Tree!Sides
  BY DEF Third!Sides, Tree!Sides
<1>5. Third!EmptyTree = Tree!EmptyTree
  BY DEF Third!EmptyTree, Tree!EmptyTree, Third!Nil, Tree!Nil, Third!TreeNodes, Tree!TreeNodes, Third!Sides, Tree!Sides
<1>6. \A side : Third!Opposite(side) = Tree!Opposite(side)
  BY DEF Third!Opposite, Tree!Opposite
<1>7. \A t, v : Third!newNode(t, v) = Tree!newNode(t, v)
  BY DEF Third!newNode, Tree!newNode
<1>8. \A t, n : Third!nodeSize(t, n) = Tree!nodeSize(t, n)
  BY <1>1 DEF Third!nodeSize, Tree!nodeSize
<1>9. \A t, n : Third!Resized(t, n) = Tree!Resized(t, n)
  BY <1>8 DEF Third!Resized, Tree!Resized
<1>10. \A t, n, v : Third!SideFor(t, n, v) = Tree!SideFor(t, n, v)
  BY DEF Third!SideFor, Tree!SideFor
<1>11. \A t, y, n : Third!Hang(t, y, n) = Tree!Hang(t, y, n)
  BY DEF Third!Hang, Tree!Hang, Third!SideFor, Tree!SideFor, Third!Nil, Tree!Nil
<1>12. \A t, x, y : Third!Replace(t, x, y) = Tree!Replace(t, x, y)
  BY <1>1 DEF Third!Replace, Tree!Replace
<1>13. ASSUME NEW t, NEW side, NEW x PROVE Third!Rotate(t, side, x) = Tree!Rotate(t, side, x)
  <2> DEFINE up == Tree!Opposite(side)
             y == t.child[up][x]
             b == t.child[side][y]
             u(r) == [r EXCEPT !.child[up][x] = b, !.child[side][y] = x, !.parent[x] = y]
             w(r) == IF b = Tree!Nil THEN u(r) ELSE [u(r) EXCEPT !.parent[b] = x]
  <2>1. Tree!Rotate(t, side, x) = Tree!Resized(Tree!Resized(w(Tree!Replace(t, x, y)), x), y)
    BY DEF Tree!Rotate
  <2>2. Third!Rotate(t, side, x) = Third!Resized(Third!Resized(w(Third!Replace(t, x, y)), x), y)
    BY DEF Third!Rotate, Third!Opposite, Tree!Opposite, Third!Nil, Tree!Nil
  <2> HIDE DEF w, y
  <2> QED BY <2>1, <2>2, <1>12, <1>9
<1>14. \A t, n : Third!IsRed(t, n) = Tree!IsRed(t, n)
  BY <1>1 DEF Third!IsRed, Tree!IsRed
<1>15. \A t, ns : Third!Blacken(t, ns) = Tree!Blacken(t, ns)
  BY DEF Third!Blacken, Tree!Blacken
<1>16. \A t, n : Third!Redden(t, n) = Tree!Redden(t, n)
  BY DEF Third!Redden, Tree!Redden
<1>17. \A t : Third!Members(t) = Tree!Members(t)
  BY DEF Third!Members, Tree!Members, Third!Sides, Tree!Sides, Third!Nil, Tree!Nil
<1>18. \A t, a, n : Third!IsAncestor(t, a, n) = Tree!IsAncestor(t, a, n)
  BY DEF Third!IsAncestor, Tree!IsAncestor, Third!Nil, Tree!Nil
<1>19. \A t, n : Third!Subtree(t, n) = Tree!Subtree(t, n)
  BY <1>17, <1>18 DEF Third!Subtree, Tree!Subtree
<1>20. \A t : Third!WellLinked(t) = Tree!WellLinked(t)
  BY <1>17, <1>1, <1>4, <1>6 DEF Third!WellLinked, Tree!WellLinked
<1>21. \A t : Third!Ordered(t) = Tree!Ordered(t)
  BY <1>17, <1>1, <1>19 DEF Third!Ordered, Tree!Ordered
<1>22. \A t, n : Third!BlackDepth(t, n) = Tree!BlackDepth(t, n)
  BY <1>17, <1>18 DEF Third!BlackDepth, Tree!BlackDepth, Third!Cardinality, Tree!Cardinality
<1>23. \A t : Third!Ends(t) = Tree!Ends(t)
  BY <1>17, <1>4, <1>1 DEF Third!Ends, Tree!Ends
<1>24. \A t : Third!EqualBlackDepths(t) = Tree!EqualBlackDepths(t)
  BY <1>23, <1>22 DEF Third!EqualBlackDepths, Tree!EqualBlackDepths
<1> QED BY <1>1, <1>2, <1>3, <1>4, <1>5, <1>6, <1>7, <1>8, <1>9, <1>10, <1>11, <1>12, <1>13, <1>14, <1>15, <1>16, <1>17, <1>18, <1>19, <1>20, <1>21, <1>22, <1>23, <1>24

-----------------------------------------------------------------------------
\* Two trees that differ in nothing but colours and sizes.
SameLinks(t, t2) ==
    /\ t2.root = t.root /\ t2.parent = t.parent /\ t2.child = t.child
    /\ t2.val = t.val /\ t2.count = t.count

LEMMA SameLinksFacts ==
    ASSUME NEW t, NEW t2, SameLinks(t, t2), NEW below
    PROVE  /\ TreeShape(t, below) => TreeShape(t2, below)
           /\ Sorted(t, below) => Sorted(t2, below)
           /\ t2.size = t.size /\ Sized(t, below) => Sized(t2, below)
  BY DEF SameLinks, TreeShape, Sorted, Sized, SizeRight

LEMMA ColourFields ==
    ASSUME NEW t \in TreeRecords
    PROVE  /\ \A ns : Tree!Blacken(t, ns) \in TreeRecords /\ SameLinks(t, Tree!Blacken(t, ns))
                      /\ Tree!Blacken(t, ns).size = t.size /\ Tree!Blacken(t, ns).red = t.red \ ns
           /\ \A n \in Tree!TreeNodes :
                  /\ Tree!Redden(t, n) \in TreeRecords /\ SameLinks(t, Tree!Redden(t, n))
                  /\ Tree!Redden(t, n).size = t.size /\ Tree!Redden(t, n).red = t.red \cup {n}
  BY DEF Tree!Blacken, Tree!Redden, TreeRecords, SameLinks

LEMMA RecolouredFields ==
    ASSUME NEW t \in TreeRecords, NEW ns, NEW n \in Tree!TreeNodes,
           NEW t2, t2 = Tree!Redden(Tree!Blacken(t, ns), n)
    PROVE  /\ t2 \in TreeRecords /\ SameLinks(t, t2) /\ t2.size = t.size
           /\ t2.red = (t.red \ ns) \cup {n}
<1>1. Tree!Blacken(t, ns) \in TreeRecords /\ SameLinks(t, Tree!Blacken(t, ns))
      /\ Tree!Blacken(t, ns).size = t.size /\ Tree!Blacken(t, ns).red = t.red \ ns
  BY ColourFields
<1>2. t2 \in TreeRecords /\ SameLinks(Tree!Blacken(t, ns), t2) /\ t2.size = Tree!Blacken(t, ns).size
      /\ t2.red = Tree!Blacken(t, ns).red \cup {n}
  BY <1>1, ColourFields
<1> QED BY <1>1, <1>2 DEF SameLinks

\* A red node below a red node, which hangs on the given side of its own parent.
Clashes(t, below, z, p, g, s) ==
    /\ z \in below[t.root] /\ z \in t.red /\ p \in t.red /\ p \in below[t.root] /\ g \in below[t.root]
    /\ p = t.parent[z] /\ g = t.parent[p] /\ s \in Tree!Sides /\ t.child[s][g] = p
    /\ \E u \in Tree!Sides : t.child[u][p] = z

LEMMA ClashFacts ==
    ASSUME NEW t, NEW below, NEW black, NEW z, RedBlackTree(t, below, black, z),
           z \in below[t.root], z \in t.red, Tree!IsRed(t, t.parent[z]),
           NEW s, s = IF t.parent[z] = t.child["left"][t.parent[t.parent[z]]] THEN "left" ELSE "right"
    PROVE  Clashes(t, below, z, t.parent[z], t.parent[t.parent[z]], s)
<1> DEFINE p == t.parent[z]
           g == t.parent[p]
<1>1. t \in TreeRecords /\ TreeShape(t, below) /\ Painted(t, below, black, z)
  BY DEF RedBlackTree
<1>2. p # Tree!Nil /\ p \in t.red
  BY DEF Tree!IsRed
<1>3. z # t.root
  BY <1>1, <1>2, ShapeFacts DEF TreeShape
<1>4. p \in below[t.root] /\ \E u \in Tree!Sides : t.child[u][p] = z
  BY <1>1, <1>3 DEF TreeShape, Shape
<1>5. p # z
  <2>1. PICK u \in Tree!Sides : t.child[u][p] = z
    BY <1>4
  <2>2. z # Tree!Nil
    BY <1>1, ShapeFacts DEF TreeShape
  <2> QED BY <1>1, <1>4, <2>1, <2>2, ShapeFacts DEF TreeShape
<1>6. p # t.root
  BY <1>1, <1>2, <1>4, <1>5 DEF Painted
<1>7. g \in below[t.root] /\ \E u \in Tree!Sides : t.child[u][g] = p
  BY <1>1, <1>4, <1>6 DEF TreeShape, Shape
<1>8. s \in Tree!Sides /\ t.child[s][g] = p
  BY <1>7, LeftRight
<1> HIDE DEF p, g
<1> QED BY <1>2, <1>4, <1>7, <1>8 DEF Clashes, p, g

\* What a turn of the repair makes of a tree: a red-black tree of the same nodes, with
\* a red parent at most for z2.
Repaired(t, below, z2, t2) ==
    /\ t2.count = t.count /\ t2.val = t.val
    /\ \A n \in Tree!TreeNodes \ below[t.root], u \in Tree!Sides : t2.child[u][n] = t.child[u][n]
    /\ z2 \in t2.red /\ z2 \in below[t.root]
    /\ \E below2, black2 : /\ RedBlackTree(t2, below2, black2, z2)
                           /\ below2[t2.root] = below[t.root]

LEMMA RecolourRepairs ==
    ASSUME NEW t, NEW below, NEW black, NEW z, RedBlackTree(t, below, black, z),
           NEW p, NEW g, NEW s, Clashes(t, below, z, p, g, s),
           NEW q \in t.red, t.child[Tree!Opposite(s)][g] = q,
           NEW t2, t2 = Tree!Redden(Tree!Blacken(t, {p, q}), g)
    PROVE  Repaired(t, below, g, t2)
<1> DEFINE black2 == [n \in Tree!Pointers |-> IF n \in {p, q} THEN black[n] + 1 ELSE black[n]]
<1>1. t \in TreeRecords /\ TreeShape(t, below) /\ Painted(t, below, black, z)
      /\ Sorted(t, below) /\ Sized(t, below)
  BY DEF RedBlackTree
<1>2. g \in Tree!TreeNodes
  BY <1>1, ShapeFacts DEF Clashes, TreeShape
<1>3. /\ t2 \in TreeRecords /\ SameLinks(t, t2) /\ t2.size = t.size
      /\ t2.red = (t.red \ {p, q}) \cup {g}
  BY <1>1, <1>2, RecolouredFields
<1>4. t2.root = t.root /\ t2.parent = t.parent /\ t2.child = t.child /\ t2.val = t.val /\ t2.count = t.count
  BY <1>3 DEF SameLinks
<1>5. /\ z \in below[t.root] \cap t.red /\ p \in t.red /\ p = t.parent[z] /\ g = t.parent[p]
      /\ s \in Tree!Sides /\ t.child[s][g] = p
  BY DEF Clashes
<1>6. Painted(t2, below, black2, g) /\ g \in below[t2.root] \cap t2.red
  <2>1. black2 = [n \in Tree!Pointers |-> IF n \in {p, q} THEN black[n] + 1 ELSE black[n]]
    OBVIOUS
  <2> HIDE DEF black2
  <2>2. t2 \in TreeRecords /\ t2.red = (t.red \ {p, q}) \cup {g}
    BY <1>3
  <2>3. Recolours(t, below, black, z, p, g, s, q, t2, black2)
    BY <1>1, <1>4, <1>5, <2>1, <2>2 DEF Recolours
  <2> QED BY <2>3, RecolourPainted
<1> HIDE DEF black2
<1>7. TreeShape(t2, below) /\ Sorted(t2, below) /\ Sized(t2, below)
  BY <1>1, <1>3, SameLinksFacts
<1>8. RedBlackTree(t2, below, black2, g)
  BY <1>3, <1>6, <1>7 DEF RedBlackTree
<1> QED BY <1>4, <1>6, <1>8 DEF Repaired

\* The turn at the grandparent, for a node on the outside.
LEMMA LastTurnRepairs ==
    ASSUME NEW t, NEW below, NEW black, NEW z, RedBlackTree(t, below, black, z),
           NEW p, NEW g, NEW s, Clashes(t, below, z, p, g, s), t.child[s][p] = z,
           t.child[Tree!Opposite(s)][g] \notin t.red,
           NEW t1, t1 = Tree!Redden(Tree!Blacken(t, {p}), g),
           NEW t2, t2 = Tree!Rotate(t1, Tree!Opposite(s), g)
    PROVE  Repaired(t, below, z, t2)
<1> DEFINE below2 == TurnedBelow(Tree!Opposite(s), g, t1.child, below)
           black2 == [black EXCEPT ![g] = @ - 1, ![p] = black[g]]
<1>1. t \in TreeRecords /\ TreeShape(t, below) /\ Painted(t, below, black, z)
      /\ Sorted(t, below) /\ Sized(t, below)
  BY DEF RedBlackTree
<1>2. /\ z \in below[t.root] \cap t.red /\ p \in t.red /\ p = t.parent[z] /\ g = t.parent[p]
      /\ s \in Tree!Sides /\ t.child[s][g] = p /\ p \in below[t.root] /\ g \in below[t.root]
  BY DEF Clashes
<1>3. g \in Tree!TreeNodes /\ p # Tree!Nil /\ z # Tree!Nil /\ p # z /\ g # p /\ z # g
  <2>1. g \in Tree!TreeNodes /\ p # Tree!Nil /\ z # Tree!Nil
    BY <1>1, <1>2, ShapeFacts DEF TreeShape
  <2>2. p # z /\ z \in below[p]
    BY <1>1, <1>2, <2>1, ShapeFacts DEF TreeShape
  <2>3. p # g /\ g \notin below[p]
    BY <1>1, <1>2, <2>1, ShapeFacts DEF TreeShape
  <2> QED BY <2>1, <2>2, <2>3
<1>4. /\ t1 \in TreeRecords /\ SameLinks(t, t1) /\ t1.size = t.size
      /\ t1.red = (t.red \ {p}) \cup {g}
  BY <1>1, <1>3, RecolouredFields
<1>5. t1.root = t.root /\ t1.parent = t.parent /\ t1.child = t.child /\ t1.val = t.val /\ t1.count = t.count
  BY <1>4 DEF SameLinks
<1>6. TreeShape(t1, below) /\ Sorted(t1, below) /\ Sized(t1, below)
  BY <1>1, <1>4, SameLinksFacts
<1>7. /\ Tree!Opposite(s) \in Tree!Sides /\ Tree!Opposite(Tree!Opposite(s)) = s /\ g \in below[t1.root]
      /\ t1.child[Tree!Opposite(Tree!Opposite(s))][g] # Tree!Nil
  BY <1>2, <1>3, <1>5, SideFacts
<1> HIDE DEF below2, black2
<1>8. Rotated(t1, below, Tree!Opposite(s), g, t2) /\ TreeShape(t2, below2) /\ below2[t2.root] = below[t1.root]
  BY <1>4, <1>6, <1>7, RotateShape DEF below2
<1>9. Sorted(t2, below2)
  BY <1>4, <1>6, <1>7, <1>8, RotateSorted DEF below2
<1>10. Sized(t2, below2)
  BY <1>4, <1>6, <1>7, <1>8, RotateSized DEF below2
<1>11. Painted(t2, below2, black2, z)
  <2>1. below2[t2.root] = below[t.root] /\ TreeShape(t2, below2)
    BY <1>5, <1>8
  <2>2. /\ t1 \in TreeRecords /\ t1.root = t.root /\ t1.parent = t.parent /\ t1.child = t.child
        /\ t1.red = (t.red \ {p}) \cup {g}
    BY <1>4, <1>5
  <2>3. Restructures(t, below, black, z, p, g, s, t1, t2, below2)
    BY <1>1, <1>2, <1>8, <2>1, <2>2 DEF Restructures
  <2>4. Painted(t2, below2, [black EXCEPT ![g] = @ - 1, ![p] = black[g]], z)
    BY <2>3, RestructurePainted
  <2> QED BY <2>4 DEF black2
<1>12. /\ t2 \in TreeRecords /\ t2.count = t1.count /\ t2.red = t1.red /\ t2.val = t1.val
       /\ \A n \in Tree!TreeNodes \ below[t1.root], u \in Tree!Sides : t2.child[u][n] = t1.child[u][n]
  BY <1>8 DEF Rotated
<1>13. RedBlackTree(t2, below2, black2, z)
  BY <1>8, <1>9, <1>10, <1>11, <1>12 DEF RedBlackTree
<1>14. z \in t2.red /\ t2.count = t.count /\ t2.val = t.val /\ below2[t2.root] = below[t.root]
  BY <1>2, <1>3, <1>4, <1>5, <1>8, <1>12
<1>15. \A n \in Tree!TreeNodes \ below[t.root], u \in Tree!Sides : t2.child[u][n] = t.child[u][n]
  BY <1>5, <1>12
<1> QED BY <1>2, <1>13, <1>14, <1>15 DEF Repaired

\* The turn at the parent, for a node on the inside: the parent is then the lower one.
Straightened(t, below, z, p, g, s, t0, below0, black) ==
    /\ t0.count = t.count /\ t0.val = t.val /\ t0.parent[p] = z
    /\ \A n \in Tree!TreeNodes \ below[t.root], u \in Tree!Sides : t0.child[u][n] = t.child[u][n]
    /\ RedBlackTree(t0, below0, black, p) /\ below0[t0.root] = below[t.root]
    /\ Clashes(t0, below0, p, z, g, s) /\ t0.child[s][z] = p
    /\ t0.child[Tree!Opposite(s)][g] \notin t0.red

LEMMA InnerTurn ==
    ASSUME NEW t, NEW below, NEW black, NEW z, RedBlackTree(t, below, black, z),
           NEW p, NEW g, NEW s, Clashes(t, below, z, p, g, s), t.child[Tree!Opposite(s)][p] = z,
           t.child[Tree!Opposite(s)][g] \notin t.red,
           NEW t0, t0 = Tree!Rotate(t, s, p),
           NEW below0, below0 = TurnedBelow(s, p, t.child, below)
    PROVE  Straightened(t, below, z, p, g, s, t0, below0, black)
<1>1. t \in TreeRecords /\ TreeShape(t, below) /\ Painted(t, below, black, z)
      /\ Sorted(t, below) /\ Sized(t, below)
  BY DEF RedBlackTree
<1>2. /\ z \in below[t.root] /\ z \in t.red /\ p \in t.red /\ p = t.parent[z] /\ g = t.parent[p]
      /\ s \in Tree!Sides /\ t.child[s][g] = p /\ p \in below[t.root] /\ g \in below[t.root]
  BY DEF Clashes
<1>3. /\ g \in Tree!TreeNodes /\ p \in Tree!TreeNodes /\ z \in Tree!TreeNodes
      /\ p # Tree!Nil /\ z # Tree!Nil /\ g # Tree!Nil /\ p # z /\ g # p /\ z # g
      /\ t.child[Tree!Opposite(s)][g] # p
  <2>1. /\ g \in Tree!TreeNodes /\ p \in Tree!TreeNodes /\ z \in Tree!TreeNodes
        /\ p # Tree!Nil /\ z # Tree!Nil /\ g # Tree!Nil
    BY <1>1, <1>2, ShapeFacts DEF TreeShape
  <2>2. p # z /\ z \in below[p]
    BY <1>1, <1>2, <2>1, SideFacts, ShapeFacts DEF TreeShape
  <2>3. p # g /\ g \notin below[p] /\ t.child[Tree!Opposite(s)][g] # p
    BY <1>1, <1>2, <2>1, ShapeFacts DEF TreeShape
  <2> QED BY <2>1, <2>2, <2>3
<1>4. Rotated(t, below, s, p, t0) /\ TreeShape(t0, below0) /\ below0[t0.root] = below[t.root]
  BY <1>1, <1>2, <1>3, RotateShape
<1>5. Sorted(t0, below0)
  BY <1>1, <1>2, <1>3, <1>4, RotateSorted
<1>6. Sized(t0, below0)
  BY <1>1, <1>2, <1>3, <1>4, RotateSized
<1>7. Painted(t0, below0, black, p)
  BY <1>1, <1>2, <1>4, StraightenPainted
<1>8. /\ t0 \in TreeRecords /\ t0.count = t.count /\ t0.red = t.red /\ t0.val = t.val
      /\ \A n \in Tree!TreeNodes \ below[t.root], u \in Tree!Sides : t0.child[u][n] = t.child[u][n]
  BY <1>4 DEF Rotated
<1>9. t0.parent[z] = g /\ t0.parent[p] = z
  BY <1>2, <1>3, <1>4 DEF Rotated
<1>10. t0.child[s][z] = p /\ t0.child[s][g] = z /\ t0.child[Tree!Opposite(s)][g] = t.child[Tree!Opposite(s)][g]
  BY <1>2, <1>3, <1>4, SideFacts DEF Rotated
<1>11. RedBlackTree(t0, below0, black, p)
  BY <1>4, <1>5, <1>6, <1>7, <1>8 DEF RedBlackTree
<1>12. Clashes(t0, below0, p, z, g, s)
  BY <1>2, <1>4, <1>8, <1>9, <1>10 DEF Clashes
<1> QED BY <1>4, <1>8, <1>9, <1>10, <1>11, <1>12 DEF Straightened

LEMMA RestructureRepairs ==
    ASSUME NEW t, NEW below, NEW black, NEW z, RedBlackTree(t, below, black, z),
           NEW p, NEW g, NEW s, Clashes(t, below, z, p, g, s),
           t.child[Tree!Opposite(s)][g] \notin t.red,
           NEW t0, t0 = IF z = t.child[Tree!Opposite(s)][p] THEN Tree!Rotate(t, s, p) ELSE t,
           NEW z0, z0 = IF z = t.child[Tree!Opposite(s)][p] THEN p ELSE z,
           NEW t2, t2 = Tree!Rotate(Tree!Redden(Tree!Blacken(t0, {t0.parent[z0]}), g), Tree!Opposite(s), g)
    PROVE  Repaired(t, below, z0, t2)
<1>1. CASE z = t.child[Tree!Opposite(s)][p]
  <2> DEFINE below0 == TurnedBelow(s, p, t.child, below)
  <2>1. t0 = Tree!Rotate(t, s, p) /\ z0 = p
    BY <1>1
  <2> HIDE DEF below0
  <2>2. Straightened(t, below, z, p, g, s, t0, below0, black)
    BY <1>1, <2>1, InnerTurn DEF below0
  <2>3. /\ t0.count = t.count /\ t0.val = t.val /\ t0.parent[p] = z
        /\ \A n \in Tree!TreeNodes \ below[t.root], u \in Tree!Sides : t0.child[u][n] = t.child[u][n]
        /\ RedBlackTree(t0, below0, black, p) /\ below0[t0.root] = below[t.root]
        /\ Clashes(t0, below0, p, z, g, s) /\ t0.child[s][z] = p
        /\ t0.child[Tree!Opposite(s)][g] \notin t0.red
    BY <2>2 DEF Straightened
  <2>4. t2 = Tree!Rotate(Tree!Redden(Tree!Blacken(t0, {z}), g), Tree!Opposite(s), g)
    BY <2>1, <2>3
  <2>5. Repaired(t0, below0, p, t2)
    BY <2>3, <2>4, LastTurnRepairs
  <2> QED BY ZenonT(20), <2>1, <2>3, <2>5 DEF Repaired
<1>2. CASE z # t.child[Tree!Opposite(s)][p]
  <2>1. t0 = t /\ z0 = z /\ p = t.parent[z]
    BY <1>2 DEF Clashes
  <2>2. t.child[s][p] = z
    BY <1>2, SideFacts DEF Clashes
  <2>3. t2 = Tree!Rotate(Tree!Redden(Tree!Blacken(t, {p}), g), Tree!Opposite(s), g)
    BY <2>1
  <2> QED BY <2>1, <2>2, <2>3, LastTurnRepairs
<1> QED BY <1>1, <1>2

LEMMA BlackenRepairs ==
    ASSUME NEW t, NEW below, NEW black, NEW z, RedBlackTree(t, below, black, z),
           z \in below[t.root], ~Tree!IsRed(t, t.parent[z]),
           NEW t2, t2 = Tree!Blacken(t, {t.root})
    PROVE  /\ SameLinks(t, t2) /\ t2.red = t.red \ {t.root} /\ t2.size = t.size
           /\ \E black2 : RedBlackTree(t2, below, black2, Tree!Nil)
<1> DEFINE black2 == [n \in Tree!Pointers |-> IF n = t.root /\ n \in t.red THEN black[n] + 1 ELSE black[n]]
<1>1. t \in TreeRecords /\ TreeShape(t, below) /\ Painted(t, below, black, z)
      /\ Sorted(t, below) /\ Sized(t, below)
  BY DEF RedBlackTree
<1>2. t2 \in TreeRecords /\ SameLinks(t, t2) /\ t2.size = t.size /\ t2.red = t.red \ {t.root}
  BY <1>1, ColourFields
<1>3. t2.root = t.root /\ t2.parent = t.parent /\ t2.child = t.child
  BY <1>2 DEF SameLinks
<1>4. TreeShape(t2, below) /\ Sorted(t2, below) /\ Sized(t2, below)
  BY <1>1, <1>2, SameLinksFacts
<1>5. t.parent[z] \notin t.red
  <2>1. Tree!Nil \notin t.red
    BY <1>1, NilFacts, RecordFields
  <2> QED BY <2>1 DEF Tree!IsRed
<1> HIDE DEF black2
<1>6. Painted(t2, below, black2, Tree!Nil)
  BY <1>1, <1>2, <1>3, <1>5, FixedPainted DEF black2
<1> QED BY <1>2, <1>4, <1>6 DEF RedBlackTree

-----------------------------------------------------------------------------
\* The search for the place of v has come from y to x.
Searches(t, below, y, x, v) ==
    /\ y \in below[t.root] \cup {Tree!Nil} /\ OnPath(t, below, y, v)
    /\ x = IF y = Tree!Nil THEN t.root ELSE t.child[Tree!SideFor(t, y, v)][y]

LEMMA SearchStarts ==
    ASSUME NEW t \in TreeRecords, NEW below, TreeShape(t, below), NEW v
    PROVE  Searches(t, below, Tree!Nil, t.root, v)
<1>1. \A n \in below[t.root], s \in Tree!Sides : t.child[s][n] \in Tree!Pointers
  BY ShapeFacts, RecordFields DEF TreeShape
<1>2. \A p \in Tree!Pointers : Tree!Nil \notin below[p]
  BY NilFacts DEF TreeShape, Shape
<1> QED BY <1>1, <1>2 DEF Searches, OnPath

LEMMA SearchGoesOn ==
    ASSUME NEW t \in TreeRecords, NEW below, TreeShape(t, below),
           NEW y, NEW x, NEW v \in Int, Searches(t, below, y, x, v), x # Tree!Nil
    PROVE  /\ x \in below[t.root] /\ x \in Tree!TreeNodes
           /\ \A n \in below[t.root] : x \in below[n] <=> n = x \/ y \in below[n]
           /\ y \notin below[x]
           /\ \A x2 : x2 = t.child[Tree!SideFor(t, x, v)][x] => Searches(t, below, x, x2, v)
<1>1. y \in below[t.root] => Tree!SideFor(t, y, v) \in Tree!Sides /\ y \in Tree!TreeNodes /\ y # Tree!Nil
  BY ShapeFacts, SideForSorts DEF TreeShape
<1>2. x \in below[t.root]
  <2>1. CASE y = Tree!Nil
    BY <2>1 DEF Searches, TreeShape, Shape
  <2>2. CASE y # Tree!Nil
    BY <1>1, <2>2, ShapeFacts DEF TreeShape, Searches
  <2> QED BY <2>1, <2>2
<1>3. x \in Tree!TreeNodes /\ x \in below[x] /\ Tree!Nil \notin below[x]
  <2>1. Tree!Nil \notin Tree!TreeNodes /\ below[x] \subseteq below[t.root] /\ x \in Tree!TreeNodes /\ x \in below[x]
    BY <1>2, NilFacts, ShapeFacts DEF TreeShape
  <2> QED BY <1>2, <2>1, ShapeFacts DEF TreeShape
<1>4. \A n \in below[t.root] : Tree!Nil \notin below[n]
  <2>1. \A n \in below[t.root] : n \in Tree!TreeNodes /\ below[n] \subseteq below[t.root]
    BY ShapeFacts DEF TreeShape
  <2> QED BY <2>1, NilFacts
<1>5. y # Tree!Nil =>
        /\ y \in below[t.root] /\ t.parent[x] = y /\ x # t.root /\ x \in below[y] /\ y \notin below[x]
        /\ x = t.child[Tree!SideFor(t, y, v)][y]
        /\ \A s \in Tree!Sides : t.child[s][y] = x => s = Tree!SideFor(t, y, v)
  <2> SUFFICES ASSUME y # Tree!Nil
      PROVE  /\ y \in below[t.root] /\ t.parent[x] = y /\ x # t.root /\ x \in below[y] /\ y \notin below[x]
             /\ x = t.child[Tree!SideFor(t, y, v)][y]
             /\ \A s \in Tree!Sides : t.child[s][y] = x => s = Tree!SideFor(t, y, v)
    OBVIOUS
  <2>1. y \in below[t.root] /\ x = t.child[Tree!SideFor(t, y, v)][y]
    BY DEF Searches
  <2>2. t.parent[x] = y /\ x # t.root /\ x \in below[y] /\ y \notin below[x]
        /\ x # t.child[Tree!Opposite(Tree!SideFor(t, y, v))][y]
    BY <1>1, <2>1, ShapeFacts DEF TreeShape
  <2>3. \A s \in Tree!Sides : t.child[s][y] = x => s = Tree!SideFor(t, y, v)
    <3>1. Tree!SideFor(t, y, v) \in Tree!Sides
      BY <1>1, <2>1
    <3>2. \A s \in Tree!Sides : s = Tree!SideFor(t, y, v) \/ s = Tree!Opposite(Tree!SideFor(t, y, v))
      BY <3>1, SideFacts
    <3> QED BY <2>2, <3>2
  <2> QED BY <2>1, <2>2, <2>3
<1>6. \A n \in below[t.root] : x \in below[n] <=> n = x \/ y \in below[n]
  <2> SUFFICES ASSUME NEW n \in below[t.root] PROVE x \in below[n] <=> n = x \/ y \in below[n]
    OBVIOUS
  <2>1. CASE y = Tree!Nil
    <3>1. x = t.root
      BY <2>1 DEF Searches
    <3>2. t.root \in below[n] => n = t.root
      BY ShapeFacts DEF TreeShape
    <3> QED BY <1>3, <1>4, <2>1, <3>1, <3>2
  <2>2. CASE y # Tree!Nil
    <3>1. x \in below[n] /\ n # x => y \in below[n]
      BY <1>5, <2>2 DEF TreeShape, Shape
    <3>2. y \in below[n] => x \in below[n]
      BY <1>5, <2>2 DEF TreeShape, Shape
    <3> QED BY <1>3, <3>1, <3>2
  <2> QED BY <2>1, <2>2
<1>7. y \notin below[x]
  BY <1>3, <1>5
<1>8. OnPath(t, below, x, v)
  <2> SUFFICES ASSUME NEW n \in below[t.root], NEW s \in Tree!Sides, x \in below[t.child[s][n]]
               PROVE  s = Tree!SideFor(t, n, v)
    BY DEF OnPath
  <2> DEFINE c == t.child[s][n]
  <2>1. c \in below[t.root]
    <3>1. below[Tree!Nil] = {} /\ c \in below[t.root] \cup {Tree!Nil}
      BY DEF TreeShape, Shape
    <3> QED BY <3>1
  <2>2. c = x \/ y \in below[c]
    BY <1>6, <2>1
  <2>3. CASE c = x
    <3>1. t.parent[x] = n /\ x # t.root /\ n \in Tree!TreeNodes /\ n # Tree!Nil
      <4>1. c # Tree!Nil
        BY <2>3
      <4> QED BY <2>3, <4>1, ShapeFacts DEF TreeShape
    <3>2. y # Tree!Nil
      BY <3>1 DEF Searches
    <3> QED BY <1>5, <2>3, <3>1, <3>2
  <2>4. CASE y \in below[c]
    BY <2>4 DEF Searches, OnPath
  <2> QED BY <2>2, <2>3, <2>4
<1>9. ASSUME NEW x2, x2 = t.child[Tree!SideFor(t, x, v)][x] PROVE Searches(t, below, x, x2, v)
  <2>1. x # Tree!Nil
    OBVIOUS
  <2> QED BY <1>2, <1>8, <1>9, <2>1 DEF Searches
<1> QED BY <1>2, <1>3, <1>6, <1>7, <1>9

LEMMA SearchEnds ==
    ASSUME NEW t \in TreeRecords, NEW below, TreeShape(t, below),
           NEW y, NEW z \in Tree!TreeNodes, z \notin below[t.root], Searches(t, below, y, Tree!Nil, t.val[z]),
           \A s \in Tree!Sides : t.child[s][z] = Tree!Nil
    PROVE  Hangs(t, below, y, z)
<1>1. CASE y = Tree!Nil
  BY <1>1 DEF Hangs, Searches
<1>2. CASE y # Tree!Nil
  BY <1>2 DEF Hangs, Searches
<1> QED BY <1>1, <1>2

\* Nodes that have not been given out yet have no children.
Fresh(t) == \A n \in Tree!TreeNodes : n > t.count => \A s \in Tree!Sides : t.child[s][n] = Tree!Nil

LEMMA newNodeFields ==
    ASSUME NEW t \in TreeRecords, t.count < MaxNodes, NEW v \in Int, NEW t2, t2 = Tree!newNode(t, v)
    PROVE  /\ t2 \in TreeRecords /\ t.count + 1 \in Tree!TreeNodes
           /\ t2.root = t.root /\ t2.parent = t.parent /\ t2.child = t.child
           /\ t2.count = t.count + 1 /\ t2.red = t.red \cup {t.count + 1}
           /\ t2.val[t.count + 1] = v /\ t2.size[t.count + 1] = 1
           /\ \A n \in Tree!TreeNodes \ {t.count + 1} : t2.val[n] = t.val[n] /\ t2.size[n] = t.size[n]
<1>1. t.count + 1 \in Tree!TreeNodes
  <2>1. t.count \in Nat /\ MaxNodes \in Nat
    BY RecordFields, StructuresAssumption
  <2> QED BY <2>1 DEF Tree!TreeNodes
<1>2. t.count + 1 \in Nat /\ 1 \in Int
  BY RecordFields
<1>3. t2 = [t EXCEPT !.count = t.count + 1, !.val[t.count + 1] = v, !.size[t.count + 1] = 1,
                     !.red = t.red \cup {t.count + 1}]
  BY DEF Tree!newNode
<1>4. t2 = [t EXCEPT !.count = t.count + 1, !.val = [t.val EXCEPT ![t.count + 1] = v],
                     !.size = [t.size EXCEPT ![t.count + 1] = 1], !.red = t.red \cup {t.count + 1}]
  BY <1>3 DEF TreeRecords
<1>5. [t.val EXCEPT ![t.count + 1] = v] \in [Tree!TreeNodes -> Int]
      /\ [t.size EXCEPT ![t.count + 1] = 1] \in [Tree!TreeNodes -> Int]
  BY <1>1, <1>2, RecordFields
<1>6. t.red \cup {t.count + 1} \in SUBSET Tree!TreeNodes
  BY <1>1, RecordFields
<1>7. t2 \in TreeRecords
  BY <1>2, <1>4, <1>5, <1>6 DEF TreeRecords
<1>8. /\ t2.root = t.root /\ t2.parent = t.parent /\ t2.child = t.child
      /\ t2.count = t.count + 1 /\ t2.red = t.red \cup {t.count + 1}
      /\ t2.val = [t.val EXCEPT ![t.count + 1] = v] /\ t2.size = [t.size EXCEPT ![t.count + 1] = 1]
  BY <1>4 DEF TreeRecords
<1>9. t2.val[t.count + 1] = v /\ t2.size[t.count + 1] = 1
      /\ \A n \in Tree!TreeNodes \ {t.count + 1} : t2.val[n] = t.val[n] /\ t2.size[n] = t.size[n]
  BY <1>1, <1>8, RecordFields
<1> QED BY <1>1, <1>7, <1>8, <1>9

LEMMA EmptyTreeIs ==
    LET t == Tree!EmptyTree
        below == [p \in Tree!Pointers |-> {}]
        black == [p \in Tree!Pointers |-> 0]
    IN  /\ t \in TreeRecords /\ t.count = 0 /\ t.root = Tree!Nil /\ Fresh(t)
        /\ RedBlackTree(t, below, black, Tree!Nil) /\ below[t.root] = {}
<1> DEFINE t == Tree!EmptyTree
           below == [p \in Tree!Pointers |-> {}]
           black == [p \in Tree!Pointers |-> 0]
<1>1. /\ t \in TreeRecords /\ t.count = 0 /\ t.root = Tree!Nil
      /\ \A s \in Tree!Sides, n \in Tree!TreeNodes : t.child[s][n] = Tree!Nil
  BY NilFacts DEF Tree!EmptyTree, TreeRecords
<1>2. Fresh(t)
  BY <1>1 DEF Fresh
<1> HIDE DEF t
<1>3. below[t.root] = {} /\ below \in [Tree!Pointers -> SUBSET Tree!TreeNodes] /\ below[Tree!Nil] = {}
  BY <1>1, NilFacts
<1>4. TreeShape(t, below)
  <2> HIDE DEF below
  <2>1. t.parent \in [Tree!TreeNodes -> Tree!Pointers] /\ t.child \in [Tree!Sides -> [Tree!TreeNodes -> Tree!Pointers]]
        /\ t.root \in Tree!Pointers
    BY <1>1, RecordFields
  <2> QED BY <1>1, <1>3, <2>1 DEF TreeShape, Shape
<1>5. Sorted(t, below) /\ Sized(t, below)
  BY <1>3 DEF Sorted, Sized
<1>6. Painted(t, below, black, Tree!Nil)
  BY <1>3, NilFacts DEF Painted
<1> QED BY <1>1, <1>2, <1>3, <1>4, <1>5, <1>6 DEF RedBlackTree, t

-----------------------------------------------------------------------------
\* The median finder while it searches: the nodes passed have counted the new one.
Counting(t, below, black, z, y, x) ==
    /\ t \in TreeRecords /\ TreeShape(t, below)
    /\ Sorted(t, below) /\ Painted(t, below, black, Tree!Nil)
    /\ \A n \in below[t.root] : t.size[n] = Cardinality(below[n]) + IF y \in below[n] THEN 1 ELSE 0
    /\ z \in Tree!TreeNodes /\ z \notin below[t.root] /\ z \in t.red /\ t.size[z] = 1
    /\ \A s \in Tree!Sides : t.child[s][z] = Tree!Nil
    /\ Searches(t, below, y, x, t.val[z])

LEMMA NewNodeTree ==
    ASSUME NEW t \in TreeRecords, NEW below, TreeShape(t, below), Sorted(t, below),
           t.count < MaxNodes, below[t.root] = 1 .. t.count, Fresh(t),
           NEW v \in Int, NEW t2, t2 = Tree!newNode(t, v)
    PROVE  /\ t2 \in TreeRecords /\ TreeShape(t2, below) /\ Sorted(t2, below) /\ Fresh(t2)
           /\ t.count + 1 \in Tree!TreeNodes /\ t.count + 1 \notin below[t.root]
           /\ \A s \in Tree!Sides : t2.child[s][t.count + 1] = Tree!Nil
           /\ \A n \in below[t.root] : /\ n \in Tree!TreeNodes \ {t.count + 1} /\ Tree!Nil \notin below[n]
                                       /\ t2.val[n] = t.val[n] /\ t2.size[n] = t.size[n]
<1> DEFINE z == t.count + 1
<1>2. /\ t2 \in TreeRecords /\ z \in Tree!TreeNodes
      /\ t2.root = t.root /\ t2.parent = t.parent /\ t2.child = t.child
      /\ t2.count = z
      /\ \A n \in Tree!TreeNodes \ {z} : t2.val[n] = t.val[n] /\ t2.size[n] = t.size[n]
  BY newNodeFields
<1>3. z \notin below[t.root] /\ z > t.count /\ \A n \in Int : n > z => n > t.count
  <2>1. t.count \in Nat
    BY RecordFields
  <2> QED BY <2>1
<1>4. Tree!TreeNodes \subseteq Int
  BY DEF Tree!TreeNodes
<1> HIDE DEF z
<1>5. \A n \in below[t.root] : n \in Tree!TreeNodes \ {z} /\ Tree!Nil \notin below[n]
  <2>1. ASSUME NEW n \in below[t.root] PROVE n \in Tree!TreeNodes /\ below[n] \subseteq below[t.root]
    BY DEF TreeShape, Shape
  <2> QED BY <1>3, <2>1, NilFacts
<1>6. TreeShape(t2, below)
  BY <1>2 DEF TreeShape
<1>7. Sorted(t2, below)
  <2> SUFFICES ASSUME NEW n \in below[t.root], NEW s \in Tree!Sides, NEW m \in below[t.child[s][n]]
               PROVE  OnSide(s, t2.val[m], t2.val[n])
    BY <1>2 DEF Sorted
  <2>1. m \in below[t.root]
    BY DEF TreeShape, Shape
  <2>2. t2.val[m] = t.val[m] /\ t2.val[n] = t.val[n]
    BY <1>2, <1>5, <2>1
  <2> QED BY <2>2 DEF Sorted
<1>11. \A s \in Tree!Sides : t2.child[s][z] = Tree!Nil
  BY <1>2, <1>3 DEF Fresh
<1>13. Fresh(t2)
  BY <1>2, <1>3, <1>4 DEF Fresh
<1> QED BY <1>2, <1>3, <1>5, <1>6, <1>7, <1>11, <1>13 DEF z

LEMMA NewNodeCounts ==
    ASSUME NEW t, NEW below, NEW black, RedBlackTree(t, below, black, Tree!Nil),
           t.count < MaxNodes, below[t.root] = 1 .. t.count, Fresh(t),
           NEW v \in Int, NEW t2, t2 = Tree!newNode(t, v)
    PROVE  /\ Counting(t2, below, black, t.count + 1, Tree!Nil, t2.root)
           /\ t2.root = t.root /\ t2.count = t.count + 1 /\ Fresh(t2)
<1> DEFINE z == t.count + 1
<1>1. t \in TreeRecords /\ TreeShape(t, below) /\ Painted(t, below, black, Tree!Nil)
      /\ Sorted(t, below) /\ Sized(t, below)
  BY DEF RedBlackTree
<1>2. /\ t2 \in TreeRecords /\ z \in Tree!TreeNodes
      /\ t2.root = t.root /\ t2.parent = t.parent /\ t2.child = t.child
      /\ t2.count = z /\ t2.red = t.red \cup {z} /\ t2.val[z] = v /\ t2.size[z] = 1
      /\ \A n \in Tree!TreeNodes \ {z} : t2.val[n] = t.val[n] /\ t2.size[n] = t.size[n]
  BY <1>1, newNodeFields
<1>3. /\ TreeShape(t2, below) /\ Sorted(t2, below) /\ Fresh(t2) /\ z \notin below[t.root]
      /\ \A s \in Tree!Sides : t2.child[s][z] = Tree!Nil
      /\ \A n \in below[t.root] : /\ n \in Tree!TreeNodes \ {z} /\ Tree!Nil \notin below[n]
                                  /\ t2.size[n] = t.size[n]
  <2>1. t \in TreeRecords /\ TreeShape(t, below) /\ Sorted(t, below)
    BY <1>1
  <2>2. z = t.count + 1
    OBVIOUS
  <2>3. t.count \in Nat /\ MaxNodes \in Nat
    BY <1>1, RecordFields, StructuresAssumption
  <2> HIDE DEF z
  <2> QED BY <2>1, <2>2, <2>3, NewNodeTree
<1> HIDE DEF z
<1>8. Painted(t2, below, black, Tree!Nil)
  <2>1. \A n \in below[t.root] : Weight(t2, n) = Weight(t, n) /\ (n \in t2.red <=> n \in t.red)
    BY <1>2, <1>3 DEF Weight
  <2>2. \A n \in below[t.root] : n # t.root => t.parent[n] \in below[t.root]
    BY <1>1 DEF TreeShape, Shape
  <2>3. \A n \in below[t.root] : \A s \in Tree!Sides : black[n] = black[t2.child[s][n]] + Weight(t2, n)
    BY <1>1, <1>2, <2>1 DEF Painted
  <2>4. \A n \in below[t.root] \cap t2.red : n # Tree!Nil => n # t.root /\ t2.parent[n] \notin t2.red
    <3> SUFFICES ASSUME NEW n \in below[t.root] \cap t2.red, n # Tree!Nil
                 PROVE  n # t.root /\ t2.parent[n] \notin t2.red
      OBVIOUS
    <3>1. n # t.root /\ t.parent[n] \notin t.red
      BY <1>1, <2>1 DEF Painted
    <3>2. t.parent[n] \in below[t.root]
      BY <2>2, <3>1
    <3> QED BY <1>2, <2>1, <3>1, <3>2
  <2> QED BY <1>1, <1>2, <2>3, <2>4 DEF Painted
<1>9. \A n \in below[t.root] :
        t2.size[n] = Cardinality(below[n]) + IF Tree!Nil \in below[n] THEN 1 ELSE 0
  <2> SUFFICES ASSUME NEW n \in below[t.root] PROVE t2.size[n] = Cardinality(below[n]) + 0
    BY <1>3
  <2>1. t2.size[n] = Cardinality(below[n])
    BY <1>1, <1>3 DEF Sized, SizeRight
  <2>2. Cardinality(below[n]) \in 0 .. MaxNodes
    <3>1. below[n] \in SUBSET Tree!TreeNodes
      BY <1>1 DEF TreeShape, Shape
    <3> QED BY <1>1, <3>1, BelowSize DEF TreeShape
  <2> QED BY <2>1, <2>2
<1>10. Searches(t2, below, Tree!Nil, t2.root, t2.val[z])
  BY <1>2, <1>3, SearchStarts
<1>12. Counting(t2, below, black, z, Tree!Nil, t2.root)
  BY <1>2, <1>3, <1>8, <1>9, <1>10 DEF Counting
<1> QED BY <1>2, <1>3, <1>12 DEF z

LEMMA CountingGoesOn ==
    ASSUME NEW t, NEW below, NEW black, NEW z, NEW y, NEW x,
           Counting(t, below, black, z, y, x), x # Tree!Nil,
           NEW t2, t2 = [t EXCEPT !.size[x] = @ + 1],
           NEW x2, x2 = t.child[Tree!SideFor(t, x, t.val[z])][x]
    PROVE  Counting(t2, below, black, z, x, x2) /\ SameLinks(t, t2)
<1>1. /\ t \in TreeRecords /\ TreeShape(t, below)
      /\ Sorted(t, below) /\ Painted(t, below, black, Tree!Nil)
      /\ z \in Tree!TreeNodes /\ z \notin below[t.root] /\ z \in t.red /\ t.size[z] = 1
      /\ \A s \in Tree!Sides : t.child[s][z] = Tree!Nil
      /\ Searches(t, below, y, x, t.val[z])
  BY DEF Counting
<1>2. t.val[z] \in Int /\ \A n \in Tree!TreeNodes : t.size[n] \in Int
  BY <1>1, RecordFields
<1>3. /\ x \in below[t.root] /\ x \in Tree!TreeNodes
      /\ \A n \in below[t.root] : x \in below[n] <=> n = x \/ y \in below[n]
      /\ y \notin below[x]
      /\ Searches(t, below, x, x2, t.val[z])
  BY <1>1, <1>2, SearchGoesOn
<1>4. /\ t2 \in TreeRecords /\ SameLinks(t, t2) /\ t2.red = t.red
      /\ \A n \in Tree!TreeNodes : t2.size[n] = IF n = x THEN t.size[x] + 1 ELSE t.size[n]
  <2>1. t2 = [t EXCEPT !.size = [t.size EXCEPT ![x] = t.size[x] + 1]]
    BY <1>1 DEF TreeRecords
  <2>2. [t.size EXCEPT ![x] = t.size[x] + 1] \in [Tree!TreeNodes -> Int]
    BY <1>1, <1>2, <1>3, RecordFields
  <2>3. t2 \in TreeRecords
    BY <1>1, <2>1, <2>2 DEF TreeRecords
  <2>4. SameLinks(t, t2) /\ t2.red = t.red /\ t2.size = [t.size EXCEPT ![x] = t.size[x] + 1]
    BY <1>1, <2>1 DEF TreeRecords, SameLinks
  <2> QED BY <1>1, <2>3, <2>4, RecordFields
<1>5. t2.root = t.root /\ t2.parent = t.parent /\ t2.child = t.child /\ t2.val = t.val
  BY <1>4 DEF SameLinks
<1>6. TreeShape(t2, below) /\ Sorted(t2, below)
  BY <1>1, <1>4, SameLinksFacts
<1>7. Painted(t2, below, black, Tree!Nil)
  BY <1>1, <1>4, <1>5 DEF Painted, Weight
<1>8. ASSUME NEW n \in below[t2.root]
      PROVE  t2.size[n] = Cardinality(below[n]) + IF x \in below[n] THEN 1 ELSE 0
  <2>1. n \in below[t.root] /\ n \in Tree!TreeNodes /\ n \in below[n]
    BY <1>1, <1>5, <1>8, ShapeFacts DEF TreeShape
  <2>2. below[n] \in SUBSET Tree!TreeNodes
    BY <1>1, <2>1, ShapeFacts DEF TreeShape
  <2>3. Cardinality(below[n]) \in 0 .. MaxNodes
    BY <1>1, <2>2, BelowSize DEF TreeShape
  <2>4. t.size[n] = Cardinality(below[n]) + IF y \in below[n] THEN 1 ELSE 0
    BY <2>1 DEF Counting
  <2>5. CASE n = x
    <3>1. y \notin below[n] /\ x \in below[n]
      BY <1>3, <2>1, <2>5
    <3> QED BY <1>4, <2>1, <2>3, <2>4, <2>5, <3>1
  <2>6. CASE n # x
    <3>1. x \in below[n] <=> y \in below[n]
      BY <1>3, <2>1, <2>6
    <3>2. t2.size[n] = t.size[n]
      BY <1>4, <2>1, <2>6
    <3> QED BY <2>4, <3>1, <3>2
  <2> QED BY <2>5, <2>6
<1>9. z # x /\ t2.size[z] = 1
  BY <1>1, <1>3, <1>4
<1>10. Searches(t2, below, x, x2, t2.val[z])
  BY <1>3, <1>5 DEF Searches, OnPath, Tree!SideFor
<1> QED BY <1>1, <1>4, <1>5, <1>6, <1>7, <1>8, <1>9, <1>10 DEF Counting

Attached(t, below, y, z, t2) ==
    /\ Hangs(t, below, y, z) /\ Hung(t, below, y, z, t2)
    /\ \E below2, black2 : /\ RedBlackTree(t2, below2, black2, z)
                           /\ below2[t2.root] = below[t.root] \cup {z}

LEMMA CountingEnds ==
    ASSUME NEW t, NEW below, NEW black, NEW z, NEW y,
           Counting(t, below, black, z, y, Tree!Nil), NEW t2, t2 = Tree!Hang(t, y, z)
    PROVE  Attached(t, below, y, z, t2)
<1> DEFINE below2 == HungBelow(t.root, z, y, below)
           black2 == [black EXCEPT ![z] = 0]
<1>1. /\ t \in TreeRecords /\ TreeShape(t, below)
      /\ Sorted(t, below) /\ Painted(t, below, black, Tree!Nil)
      /\ z \in Tree!TreeNodes /\ z \notin below[t.root] /\ z \in t.red /\ t.size[z] = 1
      /\ \A s \in Tree!Sides : t.child[s][z] = Tree!Nil
      /\ Searches(t, below, y, Tree!Nil, t.val[z])
  BY DEF Counting
<1>2. Hangs(t, below, y, z)
  BY <1>1, SearchEnds
<1>3. Hung(t, below, y, z, t2)
  BY <1>2, HangFields
<1> HIDE DEF below2, black2
<1>4. TreeShape(t2, below2) /\ below2[t2.root] = below[t.root] \cup {z}
  BY <1>2, <1>3, HangTreeShape DEF below2
<1>5. Sorted(t2, below2)
  <2>1. OnPath(t, below, y, t.val[z])
    BY <1>1 DEF Searches
  <2> QED BY <1>1, <1>2, <1>3, <1>4, <2>1, HangSorted DEF below2
<1>6. Painted(t2, below2, black2, z)
  BY <1>1, <1>2, <1>3, <1>4, HangPainted DEF black2
<1>7. /\ Cardinality(below2[z]) = 1
      /\ \A n \in below[t.root] :
             Cardinality(below2[n]) = Cardinality(below[n]) + IF y \in below[n] THEN 1 ELSE 0
  BY <1>2, HangSize DEF below2
<1>8. t2 \in TreeRecords /\ t2.size = t.size
  BY <1>3 DEF Hung
<1>9. Sized(t2, below2)
  <2> SUFFICES ASSUME NEW n \in below[t.root] \cup {z} PROVE t2.size[n] = Cardinality(below2[n])
    BY <1>4 DEF Sized, SizeRight
  <2>1. CASE n = z
    BY <1>1, <1>7, <1>8, <2>1
  <2>2. CASE n \in below[t.root]
    BY <1>7, <1>8, <2>2 DEF Counting
  <2> QED BY <2>1, <2>2
<1> QED BY <1>2, <1>3, <1>4, <1>5, <1>6, <1>8, <1>9 DEF RedBlackTree, Attached

-----------------------------------------------------------------------------
\* The median finder keeps a red-black tree of all the nodes given out, at every turn of
\* its loops: while it searches, of all but the new one; during the repair only z may
\* have a red parent.
MedianGood(t, pc, x, y, z, below, black) ==
    /\ t \in TreeRecords /\ Fresh(t)
    /\ \/ /\ pc \in {"idle", "freed"}
          /\ RedBlackTree(t, below, black, Tree!Nil) /\ below[t.root] = 1 .. t.count
       \/ /\ pc = "descend"
          /\ Counting(t, below, black, z, y, x) /\ z = t.count /\ below[t.root] = 1 .. t.count - 1
       \/ /\ pc = "fixup"
          /\ RedBlackTree(t, below, black, z) /\ below[t.root] = 1 .. t.count
          /\ z \in below[t.root] /\ z \in t.red

MedianInv == \E below, black : MedianGood(mTree, mPc, mX, mY, mZ, below, black)

\* What a turn of a loop leaves alone.
SameNumbers == mTree'.count = mTree.count /\ mTree'.val = mTree.val

LEMMA AddNumKeeps ==
    ASSUME MedianInv, NEW num \in Numbers, Median!AddNum(num) PROVE MedianInv'
<1> DEFINE t == mTree
           t2 == Tree!newNode(t, num)
<1>1. PICK below, black : MedianGood(mTree, mPc, mX, mY, mZ, below, black)
  BY DEF MedianInv
<1>2. /\ mPc = "idle" /\ t.count < MaxNodes /\ mTree' = t2 /\ mZ' = t.count + 1
      /\ mX' = t.root /\ mY' = Tree!Nil /\ mPc' = "descend"
  BY MedianOperators DEF Median!AddNum
<1>3. t \in TreeRecords /\ Fresh(t) /\ RedBlackTree(t, below, black, Tree!Nil) /\ below[t.root] = 1 .. t.count
  BY <1>1, <1>2 DEF MedianGood
<1>4. num \in Int /\ t.count \in Nat
  BY <1>3, RecordFields, StructuresAssumption
<1> HIDE DEF t, t2
<1>5. /\ Counting(t2, below, black, t.count + 1, Tree!Nil, t2.root)
      /\ t2.root = t.root /\ t2.count = t.count + 1 /\ Fresh(t2)
  BY <1>2, <1>3, <1>4, NewNodeCounts DEF t2
<1>6. t2.count - 1 = t.count
  BY <1>4, <1>5
<1>7. t2 \in TreeRecords
  BY <1>5 DEF Counting
<1>8. MedianGood(t2, "descend", t2.root, Tree!Nil, t.count + 1, below, black)
  BY <1>3, <1>5, <1>6, <1>7 DEF MedianGood
<1> QED BY <1>2, <1>5, <1>8 DEF MedianInv

LEMMA DescendKeeps == ASSUME MedianInv, Median!Descend PROVE MedianInv' /\ SameNumbers
<1> DEFINE t == mTree
           t2 == [t EXCEPT !.size[mX] = @ + 1]
           x2 == t.child[Tree!SideFor(t, mX, t.val[mZ])][mX]
<1>1. PICK below, black : MedianGood(mTree, mPc, mX, mY, mZ, below, black)
  BY DEF MedianInv
<1>2. /\ mPc = "descend" /\ mX # Tree!Nil /\ mTree' = t2
      /\ mY' = mX /\ mX' = x2 /\ mPc' = mPc /\ mZ' = mZ
  BY MedianOperators DEF Median!Descend
<1>3. /\ t \in TreeRecords /\ Fresh(t)
      /\ Counting(t, below, black, mZ, mY, mX) /\ mZ = t.count /\ below[t.root] = 1 .. t.count - 1
  BY <1>1, <1>2 DEF MedianGood
<1> HIDE DEF t
<1>4. Counting(t2, below, black, mZ, mX, x2) /\ SameLinks(t, t2)
  BY <1>2, <1>3, CountingGoesOn
<1> HIDE DEF t2, x2
<1>5. t2.root = t.root /\ t2.child = t.child /\ t2.count = t.count
  BY <1>4 DEF SameLinks
<1>6. t2 \in TreeRecords /\ Fresh(t2)
  BY <1>3, <1>4, <1>5 DEF Counting, Fresh
<1>7. MedianGood(t2, "descend", x2, mX, mZ, below, black)
  BY <1>3, <1>4, <1>5, <1>6 DEF MedianGood
<1>8. t2.count = t.count /\ t2.val = t.val
  BY <1>4 DEF SameLinks
<1> QED BY <1>2, <1>7, <1>8 DEF MedianInv, SameNumbers, t

LEMMA AttachKeeps == ASSUME MedianInv, Median!Attach PROVE MedianInv' /\ SameNumbers
<1> DEFINE t == mTree
           t2 == Tree!Hang(t, mY, mZ)
<1>1. PICK below, black : MedianGood(mTree, mPc, mX, mY, mZ, below, black)
  BY DEF MedianInv
<1>2. /\ mPc = "descend" /\ mX = Tree!Nil /\ mTree' = t2
      /\ mPc' = "fixup" /\ mZ' = mZ
  BY MedianOperators DEF Median!Attach
<1>3. /\ t \in TreeRecords /\ Fresh(t)
      /\ Counting(t, below, black, mZ, mY, Tree!Nil) /\ mZ = t.count /\ below[t.root] = 1 .. t.count - 1
  BY <1>1, <1>2 DEF MedianGood
<1> HIDE DEF t
<1>0. t2 = Tree!Hang(t, mY, mZ)
  OBVIOUS
<1> HIDE DEF t2
<1>4. /\ Hangs(t, below, mY, mZ) /\ Hung(t, below, mY, mZ, t2)
      /\ \E below2, black2 : /\ RedBlackTree(t2, below2, black2, mZ)
                             /\ below2[t2.root] = below[t.root] \cup {mZ}
  <2>1. Attached(t, below, mY, mZ, t2)
    BY <1>0, <1>3, CountingEnds
  <2> QED BY <2>1 DEF Attached
<1>5. PICK below2, black2 : RedBlackTree(t2, below2, black2, mZ) /\ below2[t2.root] = below[t.root] \cup {mZ}
  BY <1>4
<1>6. /\ t2 \in TreeRecords /\ t2.count = t.count /\ t2.red = t.red
      /\ \A n \in Tree!TreeNodes, s \in Tree!Sides :
             t2.child[s][n] = IF n = mY /\ s = Tree!SideFor(t, mY, t.val[mZ]) THEN mZ ELSE t.child[s][n]
  BY <1>4 DEF Hung
<1>7. mZ \in t2.red /\ mZ \in Tree!TreeNodes /\ t.count \in Nat
  BY <1>3, <1>6, RecordFields DEF Counting
<1>8. below2[t2.root] = 1 .. t2.count
  <2>1. 1 <= mZ
    BY <1>7 DEF Tree!TreeNodes
  <2> QED BY <1>3, <1>5, <1>6, <1>7, <2>1
<1>9. Fresh(t2)
  <2> SUFFICES ASSUME NEW n \in Tree!TreeNodes, n > t.count, NEW s \in Tree!Sides
               PROVE  t2.child[s][n] = Tree!Nil
    BY <1>6 DEF Fresh
  <2>1. n \in Int
    BY DEF Tree!TreeNodes
  <2>2. mY \in 1 .. t.count - 1 \cup {Tree!Nil}
    BY <1>3 DEF Counting, Searches
  <2>3. n # mY
    BY <1>7, <2>1, <2>2, NilFacts
  <2> QED BY <1>3, <1>6, <2>3 DEF Fresh
<1>10. MedianGood(t2, "fixup", mX', mY', mZ, below2, black2)
  BY <1>5, <1>6, <1>7, <1>8, <1>9 DEF MedianGood
<1>11. t2.count = t.count /\ t2.val = t.val
  BY <1>4 DEF Hung
<1> QED BY <1>2, <1>10, <1>11 DEF MedianInv, SameNumbers, t

\* A tree repaired as far as z2 is one the finder may keep.
LEMMA RepairedIsGood ==
    ASSUME NEW t \in TreeRecords, NEW below, Fresh(t), below[t.root] = 1 .. t.count,
           NEW z2, NEW t2, Repaired(t, below, z2, t2), NEW x, NEW y
    PROVE  \E below2, black2 : MedianGood(t2, "fixup", x, y, z2, below2, black2)
<1>1. PICK below2, black2 : RedBlackTree(t2, below2, black2, z2) /\ below2[t2.root] = below[t.root]
  BY DEF Repaired
<1>2. t2 \in TreeRecords
  BY <1>1 DEF RedBlackTree
<1>3. t.count \in Nat /\ Tree!TreeNodes \subseteq Int
  BY RecordFields DEF Tree!TreeNodes
<1>4. Fresh(t2)
  <2> SUFFICES ASSUME NEW n \in Tree!TreeNodes, n > t.count, NEW s \in Tree!Sides
               PROVE  t2.child[s][n] = Tree!Nil
    BY DEF Fresh, Repaired
  <2>1. n \in Tree!TreeNodes \ below[t.root]
    BY <1>3
  <2> QED BY <2>1 DEF Repaired, Fresh
<1>5. MedianGood(t2, "fixup", x, y, z2, below2, black2)
  BY <1>1, <1>2, <1>4 DEF MedianGood, Repaired
<1> QED BY <1>5

LEMMA ClashIs ==
    ASSUME NEW below, NEW black, MedianGood(mTree, mPc, mX, mY, mZ, below, black), Median!Clash
    PROVE  /\ mPc = "fixup" /\ RedBlackTree(mTree, below, black, mZ)
           /\ mTree \in TreeRecords /\ Fresh(mTree) /\ below[mTree.root] = 1 .. mTree.count
           /\ Clashes(mTree, below, mZ, Median!Parent, Median!Grandparent, Median!ParentSide)
<1>1. mPc = "fixup" /\ Tree!IsRed(mTree, mTree.parent[mZ])
  BY MedianOperators DEF Median!Clash, Median!Parent
<1>2. /\ mTree \in TreeRecords /\ Fresh(mTree) /\ RedBlackTree(mTree, below, black, mZ)
      /\ below[mTree.root] = 1 .. mTree.count /\ mZ \in below[mTree.root] /\ mZ \in mTree.red
  BY <1>1 DEF MedianGood
<1>3. Clashes(mTree, below, mZ, Median!Parent, Median!Grandparent, Median!ParentSide)
  BY <1>1, <1>2, ClashFacts DEF Median!Parent, Median!Grandparent, Median!ParentSide
<1> QED BY <1>1, <1>2, <1>3

LEMMA RecolourKeeps == ASSUME MedianInv, Median!Recolour PROVE MedianInv' /\ SameNumbers
<1>1. PICK below, black : MedianGood(mTree, mPc, mX, mY, mZ, below, black)
  BY DEF MedianInv
<1> DEFINE p == Median!Parent
           g == Median!Grandparent
           s == Median!ParentSide
           q == Median!Uncle
<1>2. /\ mPc = "fixup" /\ RedBlackTree(mTree, below, black, mZ)
      /\ mTree \in TreeRecords /\ Fresh(mTree) /\ below[mTree.root] = 1 .. mTree.count
      /\ Clashes(mTree, below, mZ, p, g, s)
  BY <1>1, ClashIs DEF Median!Recolour
<1>3. /\ Tree!IsRed(mTree, q) /\ mTree' = Tree!Redden(Tree!Blacken(mTree, {p, q}), g)
      /\ mZ' = g /\ mPc' = mPc
  BY MedianOperators DEF Median!Recolour
<1>4. mTree.child[Tree!Opposite(s)][g] = q
  BY MedianOperators DEF Median!Uncle
<1> HIDE DEF p, g, s, q
<1>5. q \in mTree.red
  BY <1>3 DEF Tree!IsRed
<1>6. Repaired(mTree, below, g, mTree')
  BY <1>2, <1>3, <1>4, <1>5, RecolourRepairs
<1>7. \E below2, black2 : MedianGood(mTree', "fixup", mX', mY', g, below2, black2)
  BY <1>2, <1>6, RepairedIsGood
<1> QED BY <1>2, <1>3, <1>6, <1>7 DEF MedianInv, SameNumbers, Repaired

LEMMA RestructureKeeps == ASSUME MedianInv, Median!Restructure PROVE MedianInv' /\ SameNumbers
<1>1. PICK below, black : MedianGood(mTree, mPc, mX, mY, mZ, below, black)
  BY DEF MedianInv
<1> DEFINE p == Median!Parent
           g == Median!Grandparent
           s == Median!ParentSide
           t0 == IF mZ = mTree.child[Tree!Opposite(s)][p] THEN Tree!Rotate(mTree, s, p) ELSE mTree
           z0 == IF mZ = mTree.child[Tree!Opposite(s)][p] THEN p ELSE mZ
<1>2. /\ mPc = "fixup" /\ RedBlackTree(mTree, below, black, mZ)
      /\ mTree \in TreeRecords /\ Fresh(mTree) /\ below[mTree.root] = 1 .. mTree.count
      /\ Clashes(mTree, below, mZ, p, g, s)
  BY <1>1, ClashIs DEF Median!Restructure
<1>3. ~Tree!IsRed(mTree, mTree.child[Tree!Opposite(s)][g])
  BY MedianOperators DEF Median!Restructure, Median!Uncle
<1>4. Median!Straighten(s).tree = t0 /\ Median!Straighten(s).z = z0
  BY MedianOperators DEF Median!Straighten
<1>5. /\ mTree' = Tree!Rotate(Tree!Redden(Tree!Blacken(t0, {t0.parent[z0]}), g), Tree!Opposite(s), g)
      /\ mZ' = z0 /\ mPc' = mPc
  <2> DEFINE S == Median!Straighten(s)
  <2>1. /\ mTree' = Median!Rotate(Median!Redden(Median!Blacken(S.tree, {S.tree.parent[S.z]}), g), Median!Opposite(s), g)
        /\ mZ' = S.z /\ mPc' = mPc
    BY DEF Median!Restructure
  <2>2. S.tree = t0 /\ S.z = z0
    BY <1>4
  <2> HIDE DEF S, t0, z0, s, g
  <2> QED BY <2>1, <2>2, MedianOperators
<1>6. mTree.child[Tree!Opposite(s)][g] \notin mTree.red
  <2>1. Tree!Nil \notin mTree.red
    BY <1>2, NilFacts, RecordFields
  <2> HIDE DEF s, g
  <2> QED BY <1>3, <2>1 DEF Tree!IsRed
<1>7. /\ t0 = IF mZ = mTree.child[Tree!Opposite(s)][p] THEN Tree!Rotate(mTree, s, p) ELSE mTree
      /\ z0 = IF mZ = mTree.child[Tree!Opposite(s)][p] THEN p ELSE mZ
  OBVIOUS
<1> HIDE DEF p, g, s, t0, z0
<1>8. Repaired(mTree, below, z0, mTree')
  BY <1>2, <1>5, <1>6, <1>7, RestructureRepairs
<1>9. \E below2, black2 : MedianGood(mTree', "fixup", mX', mY', z0, below2, black2)
  BY <1>2, <1>8, RepairedIsGood
<1> QED BY <1>2, <1>5, <1>8, <1>9 DEF MedianInv, SameNumbers, Repaired

LEMMA FixedKeeps == ASSUME MedianInv, Median!Fixed PROVE MedianInv' /\ SameNumbers
<1>1. PICK below, black : MedianGood(mTree, mPc, mX, mY, mZ, below, black)
  BY DEF MedianInv
<1>2. /\ mPc = "fixup" /\ ~Tree!IsRed(mTree, mTree.parent[mZ])
      /\ mTree' = Tree!Blacken(mTree, {mTree.root}) /\ mPc' = "idle"
  BY MedianOperators DEF Median!Fixed, Median!Parent
<1>3. /\ mTree \in TreeRecords /\ Fresh(mTree) /\ RedBlackTree(mTree, below, black, mZ)
      /\ below[mTree.root] = 1 .. mTree.count /\ mZ \in below[mTree.root]
  BY <1>1, <1>2 DEF MedianGood
<1>4. /\ SameLinks(mTree, mTree')
      /\ \E black2 : RedBlackTree(mTree', below, black2, Tree!Nil)
  BY <1>2, <1>3, BlackenRepairs
<1>5. PICK black2 : RedBlackTree(mTree', below, black2, Tree!Nil)
  BY <1>4
<1>6. mTree' \in TreeRecords /\ Fresh(mTree') /\ below[mTree'.root] = 1 .. mTree'.count
  BY <1>3, <1>4, <1>5 DEF SameLinks, RedBlackTree, Fresh
<1>7. MedianGood(mTree', "idle", mX', mY', mZ', below, black2)
  BY <1>5, <1>6 DEF MedianGood
<1> QED BY <1>2, <1>4, <1>7 DEF MedianInv, SameNumbers, SameLinks

LEMMA EmptyIsGood ==
    ASSUME NEW pc \in {"idle", "freed"}, NEW x, NEW y, NEW z
    PROVE  \E below, black : MedianGood(Tree!EmptyTree, pc, x, y, z, below, black)
<1> DEFINE below == [n \in Tree!Pointers |-> {}]
           black == [n \in Tree!Pointers |-> 0]
<1>1. MedianGood(Tree!EmptyTree, pc, x, y, z, below, black)
  <2>1. /\ Tree!EmptyTree \in TreeRecords /\ Tree!EmptyTree.count = 0 /\ Fresh(Tree!EmptyTree)
        /\ RedBlackTree(Tree!EmptyTree, below, black, Tree!Nil) /\ below[Tree!EmptyTree.root] = {}
    BY EmptyTreeIs
  <2>2. 1 .. 0 = {}
    OBVIOUS
  <2> HIDE DEF below, black
  <2> QED BY <2>1, <2>2 DEF MedianGood
<1> QED BY <1>1

LEMMA NextMedianInv == MedianInv /\ [Median!Next]_(Median!vars) => MedianInv'
<1> SUFFICES ASSUME MedianInv, [Median!Next]_(Median!vars) PROVE MedianInv'
  OBVIOUS
<1>1. CASE \E num \in Numbers : Median!AddNum(num)
  BY <1>1, AddNumKeeps
<1>2. CASE Median!Descend
  BY <1>2, DescendKeeps
<1>3. CASE Median!Attach
  BY <1>3, AttachKeeps
<1>4. CASE Median!Recolour
  BY <1>4, RecolourKeeps
<1>5. CASE Median!Restructure
  BY <1>5, RestructureKeeps
<1>6. CASE Median!Fixed
  BY <1>6, FixedKeeps
<1>7. CASE Median!FindMedian
  BY <1>7 DEF Median!FindMedian, MedianInv
<1>8. CASE Median!Free
  <2>1. mTree' = Tree!EmptyTree /\ mPc' = "freed"
    BY <1>8, MedianOperators DEF Median!Free
  <2> QED BY <2>1, EmptyIsGood DEF MedianInv
<1>9. CASE UNCHANGED Median!vars
  BY <1>9 DEF Median!vars, MedianInv
<1> QED BY <1>1, <1>2, <1>3, <1>4, <1>5, <1>6, <1>7, <1>8, <1>9 DEF Median!Next

LEMMA RedBlackFromInv == MedianInv => RedBlack
<1> SUFFICES ASSUME MedianInv PROVE RedBlack
  OBVIOUS
<1> DEFINE t == mTree
<1>1. PICK below, black : MedianGood(mTree, mPc, mX, mY, mZ, below, black)
  BY DEF MedianInv
<1>2. t \in TreeRecords /\ t.count \in Nat
  BY <1>1, RecordFields DEF MedianGood
<1> DEFINE e == IF mPc = "fixup" THEN mZ ELSE Tree!Nil
<1>3. TreeShape(t, below) /\ Sorted(t, below) /\ Painted(t, below, black, e)
  BY <1>1 DEF MedianGood, RedBlackTree, Counting
<1> HIDE DEF t
<1>4. Tree!WellLinked(t) /\ Tree!Ordered(t) /\ Tree!EqualBlackDepths(t) /\ Tree!Members(t) = below[t.root]
  BY <1>2, <1>3, TreeIsLinked, TreeIsOrdered, DepthsAreEqual, MembersIs
<1>5. below[t.root] = IF mPc = "descend" THEN 1 .. t.count \ {mZ} ELSE 1 .. t.count
  <2>1. CASE mPc = "descend"
    <3>1. mZ = t.count /\ below[t.root] = 1 .. t.count - 1
      BY <1>1, <2>1 DEF MedianGood, t
    <3> QED BY <1>2, <2>1, <3>1
  <2>2. CASE mPc # "descend"
    BY <1>1, <2>2 DEF MedianGood, t
  <2> QED BY <2>1, <2>2
<1>6. ASSUME NEW n \in below[t.root]
      PROVE  /\ Tree!Subtree(t, n) = below[n] /\ Cardinality(below[n]) \in Nat
             /\ t.size[n] = Cardinality(below[n]) + IF mPc = "descend" /\ Tree!IsAncestor(t, n, mY) THEN 1 ELSE 0
  <2>1. Tree!Subtree(t, n) = below[n]
    BY <1>2, <1>3, SubtreeIs
  <2>2. Cardinality(below[n]) \in 0 .. MaxNodes
    <3>1. below[n] \in SUBSET Tree!TreeNodes
      BY <1>3, ShapeFacts DEF TreeShape
    <3> QED BY <1>3, <3>1, BelowSize DEF TreeShape
  <2>3. CASE mPc = "descend"
    <3>1. Counting(t, below, black, mZ, mY, mX)
      BY <1>1, <2>3 DEF MedianGood, t
    <3>2. mY \in below[t.root] \cup {Tree!Nil}
      BY <3>1 DEF Counting, Searches
    <3>3. Tree!IsAncestor(t, n, mY) <=> mY \in below[n]
      BY <1>2, <1>3, <3>2, IsAncestorIs
    <3>4. t.size[n] = Cardinality(below[n]) + IF mY \in below[n] THEN 1 ELSE 0
      BY <3>1 DEF Counting
    <3> QED BY <2>1, <2>2, <2>3, <3>3, <3>4
  <2>4. CASE mPc # "descend"
    <3>1. Sized(t, below)
      BY <1>1, <2>4 DEF MedianGood, RedBlackTree, t
    <3>2. t.size[n] = Cardinality(below[n])
      BY <3>1 DEF Sized, SizeRight
    <3> QED BY <2>1, <2>2, <2>4, <3>2
  <2> QED BY <2>3, <2>4
<1>7. ASSUME NEW n \in below[t.root] \cap t.red
      PROVE  \/ ~Tree!IsRed(t, t.parent[n]) /\ (n = t.root => mPc = "fixup" /\ n = mZ)
             \/ mPc = "fixup" /\ n = mZ
  <2>1. n # Tree!Nil
    BY <1>3, ShapeFacts DEF TreeShape
  <2>2. n # e => n # t.root /\ t.parent[n] \notin t.red
    BY <1>3 DEF Painted
  <2> QED BY <2>1, <2>2 DEF Tree!IsRed
<1>8. Median!SearchTree
  <2>1. \A A : Median!Cardinality(A) = Cardinality(A)
    BY DEF Median!Cardinality, Cardinality
  <2>2. Median!WellLinked(t) /\ Median!Ordered(t)
    BY <1>4, MedianOperators
  <2>3. Median!Members(t) = below[t.root]
    BY <1>4, MedianOperators
  <2>4. \A n \in below[t.root] : n \in Median!Passed <=> mPc = "descend" /\ Tree!IsAncestor(t, n, mY)
    BY <2>3, MedianOperators DEF Median!Passed, t
  <2>5. \A n \in below[t.root] : t.size[n] = Median!Cardinality(Median!Subtree(t, n)) + IF n \in Median!Passed THEN 1 ELSE 0
    <3> SUFFICES ASSUME NEW n \in below[t.root]
                 PROVE  t.size[n] = Median!Cardinality(Median!Subtree(t, n)) + IF n \in Median!Passed THEN 1 ELSE 0
      OBVIOUS
    <3>1. Median!Cardinality(Median!Subtree(t, n)) = Cardinality(below[n])
      BY <1>6, <2>1, MedianOperators
    <3> QED BY <1>6, <2>4, <3>1
  <2> QED BY <1>5, <2>2, <2>3, <2>5 DEF Median!SearchTree, t
<1>9. Median!EqualBlackDepths(t) /\ Median!Members(t) = below[t.root]
  BY <1>4, MedianOperators
<1>10. \A n \in Median!Members(t) \cap t.red :
         \/ ~Median!IsRed(t, t.parent[n]) /\ (n = t.root => mPc = "fixup" /\ n = mZ)
         \/ mPc = "fixup" /\ n = mZ
  BY <1>7, <1>9, MedianOperators
<1> QED BY <1>8, <1>9, <1>10 DEF RedBlack, Median!RedBlack, t

\* At every turn of the finder's loops its tree is a search tree of the numbers added,
\* with the sizes kthSmallest goes by and the colours that bound its depth: insertRBT
\* and insertFixup, with their rotations (src/295.c).
THEOREM TreeStaysRedBlack == StructuresSpec => []RedBlack
<1>1. StructuresInit => MedianInv
  <2> SUFFICES ASSUME Median!Init PROVE MedianInv
    BY DEF StructuresInit
  <2>1. mTree = Tree!EmptyTree /\ mPc = "idle"
    BY MedianOperators DEF Median!Init
  <2> QED BY <2>1, EmptyIsGood DEF MedianInv
<1>2. MedianInv /\ [StructuresNext]_structureVars => MedianInv'
  <2> SUFFICES ASSUME MedianInv, [StructuresNext]_structureVars PROVE MedianInv'
    OBVIOUS
  <2>1. Median!Next \/ UNCHANGED mVars
    BY DEF StructuresNext, structureVars
  <2>2. [Median!Next]_(Median!vars)
    BY <2>1 DEF mVars, Median!vars
  <2> QED BY <2>2, NextMedianInv
<1> QED BY <1>1, <1>2, RedBlackFromInv, PTL DEF StructuresSpec

-----------------------------------------------------------------------------
\* The third maximum.  A search tree of the nodes given out, whose values differ.
Vals(t) == {t.val[n] : n \in 1 .. t.count}

SearchTree(t, below) ==
    /\ t \in TreeRecords /\ Fresh(t) /\ TreeShape(t, below) /\ Sorted(t, below)
    /\ below[t.root] = 1 .. t.count /\ Cardinality(Vals(t)) = t.count

LEMMA ValsFinite == ASSUME NEW t \in TreeRecords PROVE IsFiniteSet(Vals(t))
<1>1. t.count \in Nat /\ 1 \in Int /\ t.count \in Int
  BY RecordFields
<1>2. IsFiniteSet(1 .. t.count)
  BY <1>1, FS_Interval
<1> DEFINE f == [n \in 1 .. t.count |-> t.val[n]]
<1>3. f \in Surjection(1 .. t.count, Vals(t))
  BY DEF Surjection, Vals
<1> QED BY <1>2, <1>3, FS_Surjection

LEMMA SameLinksSearchTree ==
    ASSUME NEW t, NEW below, SearchTree(t, below), NEW t2 \in TreeRecords, SameLinks(t, t2)
    PROVE  SearchTree(t2, below)
<1>1. t2.root = t.root /\ t2.parent = t.parent /\ t2.child = t.child
      /\ t2.val = t.val /\ t2.count = t.count
  BY DEF SameLinks
<1>2. TreeShape(t2, below) /\ Sorted(t2, below)
  BY SameLinksFacts DEF SearchTree
<1>3. Fresh(t2) /\ Vals(t2) = Vals(t)
  BY <1>1 DEF Fresh, Vals, SearchTree
<1> QED BY <1>1, <1>2, <1>3 DEF SearchTree

\* A rotation of a search tree with right sizes.
Turned(t, below, s, x, t2) ==
    /\ t2 \in TreeRecords /\ t2.red = t.red /\ t2.val = t.val /\ t2.count = t.count
    /\ t2.root = IF t.parent[x] = Tree!Nil THEN t.child[Tree!Opposite(s)][x] ELSE t.root
    /\ \E below2 : SearchTree(t2, below2) /\ Sized(t2, below2)

LEMMA TurnKeeps ==
    ASSUME NEW t, NEW below, SearchTree(t, below), Sized(t, below),
           NEW s \in Tree!Sides, NEW x \in below[t.root], t.child[Tree!Opposite(s)][x] # Tree!Nil,
           NEW t2, t2 = Tree!Rotate(t, s, x)
    PROVE  Turned(t, below, s, x, t2)
<1> DEFINE below2 == TurnedBelow(s, x, t.child, below)
<1>1. t \in TreeRecords /\ Fresh(t) /\ TreeShape(t, below) /\ Sorted(t, below)
      /\ below[t.root] = 1 .. t.count /\ Cardinality(Vals(t)) = t.count
  BY DEF SearchTree
<1> HIDE DEF below2
<1>2. Rotated(t, below, s, x, t2) /\ TreeShape(t2, below2) /\ below2[t2.root] = below[t.root]
  <2>1. below2 = TurnedBelow(s, x, t.child, below)
    BY DEF below2
  <2>2. t \in TreeRecords /\ TreeShape(t, below)
    BY <1>1
  <2> QED BY <2>1, <2>2, RotateShape
<1>3. Sorted(t2, below2)
  BY <1>1, <1>2, RotateSorted DEF below2
<1>4. Sized(t2, below2)
  BY <1>1, <1>2, RotateSized DEF below2
<1>5. /\ t2 \in TreeRecords /\ t2.count = t.count /\ t2.red = t.red /\ t2.val = t.val
      /\ t2.root = IF t.parent[x] = Tree!Nil THEN t.child[Tree!Opposite(s)][x] ELSE t.root
      /\ \A n \in Tree!TreeNodes \ below[t.root], u \in Tree!Sides : t2.child[u][n] = t.child[u][n]
  BY <1>2 DEF Rotated
<1>6. Vals(t2) = Vals(t)
  BY <1>5 DEF Vals
<1>7. Fresh(t2)
  <2> SUFFICES ASSUME NEW n \in Tree!TreeNodes, n > t.count, NEW u \in Tree!Sides
               PROVE  t2.child[u][n] = Tree!Nil
    BY <1>5 DEF Fresh
  <2>1. n \in Int /\ t.count \in Int
    BY <1>1, RecordFields DEF Tree!TreeNodes
  <2>2. n \notin below[t.root]
    BY <1>1, <2>1
  <2> QED BY <1>1, <1>5, <2>2 DEF Fresh
<1>8. SearchTree(t2, below2)
  BY <1>1, <1>2, <1>3, <1>5, <1>6, <1>7 DEF SearchTree
<1> QED BY <1>4, <1>5, <1>8 DEF Turned

\* What holds besides at each place of the program: while it searches, a node that has
\* the value already is below x; while it climbs, the sizes of the nodes that x is not
\* below are right; the root is red only if it is z.
Seeking(t, below, v, x, y, seen) ==
    /\ seen = Vals(t) \cup {v} /\ v \in Int /\ (v \in Vals(t) \/ t.count < MaxNodes)
    /\ Searches(t, below, y, x, v) /\ t.root \notin t.red /\ Sized(t, below)
    /\ \A n \in below[t.root] : t.val[n] = v => n \in below[x]

Climbing(t, below, x, z, seen) ==
    /\ seen = Vals(t) /\ z \in below[t.root] /\ (t.root \in t.red => t.root = z)
    /\ x \in below[t.root] \cup {Tree!Nil}
    /\ \A n \in below[t.root] : x \notin below[n] => SizeRight(t, below, n)

Repairing(t, below, z, seen) ==
    /\ seen = Vals(t) /\ z \in below[t.root] /\ (t.root \in t.red => t.root = z)
    /\ Sized(t, below)

ThirdGood(t, pc, v, x, y, z, seen, below) ==
    /\ SearchTree(t, below)
    /\ \/ pc \in {"idle", "done"} /\ seen = Vals(t) /\ t.root \notin t.red /\ Sized(t, below)
       \/ pc = "descend" /\ Seeking(t, below, v, x, y, seen)
       \/ pc = "climb" /\ Climbing(t, below, x, z, seen)
       \/ pc = "fixup" /\ Repairing(t, below, z, seen)

ThirdInv == \E below : ThirdGood(tTree, tPc, tVal, tX, tY, tZ, tSeen, below)

LEMMA SeekingGoesOn ==
    ASSUME NEW t, NEW below, SearchTree(t, below), NEW v, NEW x, NEW y, NEW seen,
           Seeking(t, below, v, x, y, seen), x # Tree!Nil, t.val[x] # v,
           NEW x2, x2 = t.child[Tree!SideFor(t, x, v)][x]
    PROVE  Seeking(t, below, v, x2, x, seen)
<1>1. t \in TreeRecords /\ TreeShape(t, below) /\ Sorted(t, below) /\ v \in Int
      /\ Searches(t, below, y, x, v)
  BY DEF SearchTree, Seeking
<1>2. x \in below[t.root] /\ x \in Tree!TreeNodes /\ Searches(t, below, x, x2, v)
  BY <1>1, SearchGoesOn
<1>3. ASSUME NEW n \in below[t.root], t.val[n] = v PROVE n \in below[x2]
  <2>1. n \in below[x] /\ n # x
    BY <1>3 DEF Seeking
  <2>2. \E s \in Tree!Sides : n \in below[t.child[s][x]]
    <3>1. below[x] = {x} \cup below[t.child["left"][x]] \cup below[t.child[Tree!Opposite("left")][x]]
      BY <1>1, <1>2, LeftRight DEF TreeShape, Shape
    <3> QED BY <2>1, <3>1, LeftRight
  <2>3. PICK s \in Tree!Sides : n \in below[t.child[s][x]]
    BY <2>2
  <2>4. OnSide(s, v, t.val[x])
    BY <1>1, <1>2, <1>3, <2>3 DEF Sorted
  <2>5. t.val[x] \in Int
    BY <1>1, <1>2, RecordFields
  <2>6. s = Tree!SideFor(t, x, v)
    BY <1>1, <2>4, <2>5, LeftRight DEF OnSide, Tree!SideFor
  <2> QED BY <2>3, <2>6
<1> QED BY <1>2, <1>3 DEF Seeking

LEMMA SeekingFinds ==
    ASSUME NEW t, NEW below, SearchTree(t, below), NEW v, NEW x, NEW y, NEW seen,
           Seeking(t, below, v, x, y, seen), x # Tree!Nil, t.val[x] = v
    PROVE  seen = Vals(t)
<1>0. t \in TreeRecords /\ TreeShape(t, below) /\ v \in Int /\ Searches(t, below, y, x, v)
  BY DEF Seeking, SearchTree
<1>1. x \in below[t.root]
  BY <1>0, SearchGoesOn
<1>2. v \in Vals(t)
  BY <1>1 DEF SearchTree, Vals
<1> QED BY <1>2 DEF Seeking

LEMMA SeekingEnds ==
    ASSUME NEW t, NEW below, SearchTree(t, below), NEW v, NEW y, NEW seen,
           Seeking(t, below, v, Tree!Nil, y, seen),
           NEW z, z = t.count + 1, NEW t2, t2 = Tree!Hang(Tree!newNode(t, v), y, z)
    PROVE  \E below2 : SearchTree(t2, below2) /\ Climbing(t2, below2, z, z, seen)
<1> DEFINE t1 == Tree!newNode(t, v)
           below2 == HungBelow(t.root, z, y, below)
<1>1. /\ t \in TreeRecords /\ TreeShape(t, below) /\ Sorted(t, below) /\ Fresh(t)
      /\ below[t.root] = 1 .. t.count /\ Cardinality(Vals(t)) = t.count
      /\ v \in Int /\ Searches(t, below, y, Tree!Nil, v) /\ Sized(t, below) /\ t.root \notin t.red
      /\ seen = Vals(t) \cup {v} /\ t.count \in Nat
  BY RecordFields DEF SearchTree, Seeking
<1>2. v \notin Vals(t)
  <2>1. \A n \in 1 .. t.count : t.val[n] # v
    BY <1>1 DEF Seeking, TreeShape, Shape
  <2> QED BY <2>1 DEF Vals
<1>3. t.count < MaxNodes
  BY <1>2 DEF Seeking
<1> HIDE DEF t1, below2
<1>4. /\ t1 \in TreeRecords /\ t1.root = t.root /\ t1.parent = t.parent /\ t1.child = t.child
      /\ t1.count = z /\ t1.red = t.red \cup {z} /\ t1.val[z] = v
  BY <1>1, <1>3, newNodeFields DEF t1
<1>5. /\ TreeShape(t1, below) /\ Sorted(t1, below) /\ Fresh(t1)
      /\ z \in Tree!TreeNodes /\ z \notin below[t.root]
      /\ \A s \in Tree!Sides : t1.child[s][z] = Tree!Nil
      /\ \A n \in below[t.root] : /\ n \in Tree!TreeNodes \ {z} /\ Tree!Nil \notin below[n]
                                  /\ t1.val[n] = t.val[n] /\ t1.size[n] = t.size[n]
  BY <1>1, <1>3, NewNodeTree DEF t1
<1>6. Searches(t1, below, y, Tree!Nil, t1.val[z])
  <2>1. \A n \in below[t.root] : Tree!SideFor(t1, n, v) = Tree!SideFor(t, n, v)
    BY <1>5 DEF Tree!SideFor
  <2>2. y \in below[t.root] \cup {Tree!Nil} /\ OnPath(t, below, y, v)
        /\ Tree!Nil = IF y = Tree!Nil THEN t.root ELSE t.child[Tree!SideFor(t, y, v)][y]
    BY <1>1 DEF Searches
  <2>3. OnPath(t1, below, y, v)
    BY <1>4, <2>1, <2>2 DEF OnPath
  <2>4. Tree!Nil = IF y = Tree!Nil THEN t1.root ELSE t1.child[Tree!SideFor(t1, y, v)][y]
    BY <1>4, <2>1, <2>2
  <2> QED BY <1>4, <2>2, <2>3, <2>4 DEF Searches
<1>7. Hangs(t1, below, y, z)
  BY <1>4, <1>5, <1>6, SearchEnds
<1>8. Hung(t1, below, y, z, t2)
  <2>1. t2 = Tree!Hang(t1, y, z)
    BY DEF t1
  <2> QED BY <1>7, <2>1, HangFields
<1>0. below2 = HungBelow(t1.root, z, y, below)
  BY <1>4 DEF below2
<1>9. TreeShape(t2, below2) /\ below2[t2.root] = below[t.root] \cup {z}
  BY <1>0, <1>4, <1>7, <1>8, HangTreeShape
<1>10. Sorted(t2, below2)
  <2>1. OnPath(t1, below, y, t1.val[z])
    BY <1>6 DEF Searches
  <2>2. below2[t2.root] = below[t1.root] \cup {z}
    BY <1>4, <1>9
  <2> QED BY <1>0, <1>5, <1>7, <1>8, <2>1, <2>2, HangSorted
<1>11. /\ t2 \in TreeRecords /\ t2.count = z /\ t2.red = t.red \cup {z} /\ t2.val = t1.val /\ t2.size = t1.size
       /\ t2.root = IF y = Tree!Nil THEN z ELSE t.root
       /\ \A n \in Tree!TreeNodes, s \in Tree!Sides :
              t2.child[s][n] = IF n = y /\ s = Tree!SideFor(t1, y, t1.val[z]) THEN z ELSE t1.child[s][n]
  BY <1>4, <1>8 DEF Hung
<1>12. below2[t2.root] = 1 .. t2.count
  BY <1>1, <1>9, <1>11
<1>13. Vals(t2) = Vals(t) \cup {v}
  <2>1. t2.count = t.count + 1 /\ 1 .. t2.count = (1 .. t.count) \cup {z}
    BY <1>1, <1>11
  <2>2. t2.val[z] = v /\ \A n \in 1 .. t.count : t2.val[n] = t.val[n]
    BY <1>1, <1>4, <1>5, <1>11
  <2> QED BY <2>1, <2>2 DEF Vals
<1>14. Cardinality(Vals(t2)) = t2.count
  <2>1. IsFiniteSet(Vals(t))
    BY <1>1, ValsFinite
  <2>2. Cardinality(Vals(t) \cup {v}) = Cardinality(Vals(t)) + 1
    BY <1>2, <2>1, FS_AddElement
  <2> QED BY <1>1, <1>11, <1>13, <2>2
<1>15. Fresh(t2)
  <2> SUFFICES ASSUME NEW n \in Tree!TreeNodes, n > z, NEW s \in Tree!Sides
               PROVE  t2.child[s][n] = Tree!Nil
    BY <1>11 DEF Fresh
  <2>1. n \in Int
    BY DEF Tree!TreeNodes
  <2>2. y \in 1 .. t.count \cup {Tree!Nil}
    BY <1>1 DEF Searches
  <2>3. n # y
    BY <1>1, <2>1, <2>2, NilFacts
  <2>4. t1.child[s][n] = Tree!Nil
    BY <1>4, <1>5 DEF Fresh
  <2> QED BY <1>11, <2>3, <2>4
<1>16. SearchTree(t2, below2)
  BY <1>9, <1>10, <1>11, <1>12, <1>14, <1>15 DEF SearchTree
<1>17. ASSUME NEW n \in below2[t2.root], z \notin below2[n] PROVE SizeRight(t2, below2, n)
  <2>1. /\ below2[z] = {z}
        /\ \A m \in below[t.root] : below2[m] = IF y \in below[m] THEN below[m] \cup {z} ELSE below[m]
    BY <1>0, <1>4, <1>7, HungBelowIs
  <2>2. n \in below[t.root] /\ below2[n] = below[n]
    BY <1>9, <1>17, <2>1
  <2> QED BY <1>1, <1>5, <1>11, <2>2 DEF Sized, SizeRight
<1>18. Climbing(t2, below2, z, z, seen)
  BY <1>1, <1>9, <1>11, <1>13, <1>17 DEF Climbing
<1> QED BY <1>16, <1>18

LEMMA ClimbingGoesOn ==
    ASSUME NEW t, NEW below, SearchTree(t, below), NEW x, NEW z, NEW seen,
           Climbing(t, below, x, z, seen), x # Tree!Nil,
           NEW t2, t2 = Tree!Resized(t, x)
    PROVE  SearchTree(t2, below) /\ Climbing(t2, below, t.parent[x], z, seen)
<1>1. t \in TreeRecords /\ TreeShape(t, below) /\ x \in below[t.root]
  BY DEF SearchTree, Climbing
<1>2. x \in Tree!TreeNodes
  BY <1>1, ShapeFacts DEF TreeShape
<1>3. \A s \in Tree!Sides : t.child[s][x] # Tree!Nil => SizeRight(t, below, t.child[s][x])
  <2> SUFFICES ASSUME NEW s \in Tree!Sides, t.child[s][x] # Tree!Nil
               PROVE  SizeRight(t, below, t.child[s][x])
    OBVIOUS
  <2>1. t.child[s][x] \in below[t.root] /\ x \notin below[t.child[s][x]]
    BY <1>1, ShapeFacts DEF TreeShape
  <2> QED BY <2>1 DEF Climbing
<1>4. /\ t2 \in TreeRecords /\ t2.red = t.red
      /\ t2.root = t.root /\ t2.parent = t.parent /\ t2.child = t.child /\ t2.val = t.val /\ t2.count = t.count
  BY <1>1, <1>2, ResizedFields
<1>5. SizeRight(t2, below, x) /\ \A m \in Tree!TreeNodes \ {x} : t2.size[m] = t.size[m]
  BY <1>1, <1>3, ResizedSize
<1>6. SearchTree(t2, below)
  <2>1. SameLinks(t, t2)
    BY <1>4 DEF SameLinks
  <2> QED BY <1>4, <2>1, SameLinksSearchTree
<1>7. t.parent[x] \in below[t.root] \cup {Tree!Nil}
  BY <1>1 DEF TreeShape, Shape
<1>8. ASSUME NEW n \in below[t.root], t.parent[x] \notin below[n] PROVE SizeRight(t2, below, n)
  <2>1. CASE n = x
    BY <1>5, <2>1
  <2>2. CASE n # x
    <3>1. x \in below[n] => t.parent[x] \in below[n]
      BY <1>1, <2>2 DEF TreeShape, Shape
    <3>2. SizeRight(t, below, n) /\ n \in Tree!TreeNodes
      BY <1>1, <1>8, <3>1 DEF Climbing, TreeShape, Shape
    <3> QED BY <1>5, <2>2, <3>2 DEF SizeRight
  <2> QED BY <2>1, <2>2
<1>9. Vals(t2) = Vals(t)
  BY <1>4 DEF Vals
<1>10. Climbing(t2, below, t.parent[x], z, seen)
  BY <1>4, <1>7, <1>8, <1>9 DEF Climbing
<1> QED BY <1>6, <1>10

LEMMA ClimbingEnds ==
    ASSUME NEW t, NEW below, SearchTree(t, below), NEW z, NEW seen,
           Climbing(t, below, Tree!Nil, z, seen)
    PROVE  Repairing(t, below, z, seen)
<1>1. \A n \in below[t.root] : Tree!Nil \notin below[n]
  <2>1. \A n \in below[t.root] : below[n] \subseteq below[t.root] /\ below[t.root] \subseteq Tree!TreeNodes
    BY DEF SearchTree, TreeShape, Shape
  <2> QED BY <2>1, NilFacts
<1> QED BY <1>1 DEF Climbing, Repairing, Sized

\* The parent of a node with a red parent has a parent of its own.
LEMMA ThirdClashIs ==
    ASSUME NEW below, ThirdGood(tTree, tPc, tVal, tX, tY, tZ, tSeen, below), Third!Clash
    PROVE  /\ tPc = "fixup" /\ SearchTree(tTree, below) /\ Repairing(tTree, below, tZ, tSeen)
           /\ Third!Parent \in below[tTree.root] /\ Third!Parent \in tTree.red /\ tTree.root \notin tTree.red
           /\ Third!Grandparent \in below[tTree.root] /\ Third!Grandparent = tTree.parent[Third!Parent]
           /\ \E s \in Tree!Sides : tTree.child[s][Third!Grandparent] = Third!Parent
<1> DEFINE t == tTree
           p == Third!Parent
           g == Third!Grandparent
<1>1. tPc = "fixup" /\ tZ # t.root /\ Tree!IsRed(t, p) /\ p = t.parent[tZ] /\ g = t.parent[p]
  BY ThirdOperators DEF Third!Clash, Third!Parent, Third!Grandparent
<1>2. SearchTree(t, below) /\ Repairing(t, below, tZ, tSeen)
  BY <1>1 DEF ThirdGood
<1> HIDE DEF t, p, g
<1>3. TreeShape(t, below) /\ tZ \in below[t.root] /\ t.root \notin t.red /\ p \in t.red
  BY <1>1, <1>2 DEF SearchTree, Repairing, Tree!IsRed
<1>4. p \in below[t.root] /\ p # t.root
  BY <1>1, <1>3 DEF TreeShape, Shape
<1>5. g \in below[t.root] /\ \E s \in Tree!Sides : t.child[s][g] = p
  BY <1>1, <1>3, <1>4 DEF TreeShape, Shape
<1> QED BY <1>1, <1>2, <1>3, <1>4, <1>5 DEF t, p, g

LEMMA insertValueKeeps ==
    ASSUME ThirdInv, NEW num \in Distinct, Third!insertValue(num) PROVE ThirdInv'
<1>1. PICK below : ThirdGood(tTree, tPc, tVal, tX, tY, tZ, tSeen, below)
  BY DEF ThirdInv
<1>2. /\ tPc = "idle" /\ (num \in tSeen \/ tTree.count < MaxNodes) /\ tPc' = "descend"
      /\ tVal' = num /\ tSeen' = tSeen \cup {num} /\ tX' = tTree.root /\ tY' = Tree!Nil
      /\ tTree' = tTree
  BY ThirdOperators DEF Third!insertValue
<1>3. /\ SearchTree(tTree, below) /\ tSeen = Vals(tTree) /\ tTree.root \notin tTree.red
      /\ Sized(tTree, below)
  BY <1>1, <1>2 DEF ThirdGood
<1>4. num \in Int
  BY StructuresAssumption
<1>5. tTree \in TreeRecords /\ TreeShape(tTree, below)
  BY <1>3 DEF SearchTree
<1>6. Searches(tTree, below, Tree!Nil, tTree.root, num)
  BY <1>5, SearchStarts
<1>7. Seeking(tTree, below, num, tTree.root, Tree!Nil, tSeen')
  BY <1>2, <1>3, <1>4, <1>6 DEF Seeking
<1>8. ThirdGood(tTree', tPc', tVal', tX', tY', tZ', tSeen', below)
  BY <1>2, <1>3, <1>7 DEF ThirdGood
<1> QED BY <1>8 DEF ThirdInv

LEMMA SeekKeeps == ASSUME ThirdInv, Third!Descend PROVE ThirdInv'
<1>1. PICK below : ThirdGood(tTree, tPc, tVal, tX, tY, tZ, tSeen, below)
  BY DEF ThirdInv
<1> DEFINE x2 == tTree.child[Tree!SideFor(tTree, tX, tVal)][tX]
<1>2. /\ tPc = "descend" /\ tX # Tree!Nil /\ tVal # tTree.val[tX]
      /\ tY' = tX /\ tX' = x2 /\ tTree' = tTree /\ tPc' = tPc /\ tVal' = tVal /\ tSeen' = tSeen
  BY ThirdOperators DEF Third!Descend
<1>3. SearchTree(tTree, below) /\ Seeking(tTree, below, tVal, tX, tY, tSeen)
  BY <1>1, <1>2 DEF ThirdGood
<1>4. Seeking(tTree, below, tVal, x2, tX, tSeen)
  BY <1>2, <1>3, SeekingGoesOn
<1> HIDE DEF x2
<1>5. ThirdGood(tTree', tPc', tVal', tX', tY', tZ', tSeen', below)
  BY <1>2, <1>3, <1>4 DEF ThirdGood
<1> QED BY <1>5 DEF ThirdInv

LEMMA DuplicateKeeps == ASSUME ThirdInv, Third!Duplicate PROVE ThirdInv'
<1>1. PICK below : ThirdGood(tTree, tPc, tVal, tX, tY, tZ, tSeen, below)
  BY DEF ThirdInv
<1>2. /\ tPc = "descend" /\ tX # Tree!Nil /\ tVal = tTree.val[tX] /\ tPc' = "idle"
      /\ tTree' = tTree /\ tSeen' = tSeen
  BY ThirdOperators DEF Third!Duplicate
<1>3. SearchTree(tTree, below) /\ Seeking(tTree, below, tVal, tX, tY, tSeen)
  BY <1>1, <1>2 DEF ThirdGood
<1>4. tSeen = Vals(tTree)
  BY <1>2, <1>3, SeekingFinds
<1>5. ThirdGood(tTree', tPc', tVal', tX', tY', tZ', tSeen', below)
  BY <1>2, <1>3, <1>4 DEF ThirdGood, Seeking
<1> QED BY <1>5 DEF ThirdInv

LEMMA HangKeeps == ASSUME ThirdInv, Third!Attach PROVE ThirdInv'
<1>1. PICK below : ThirdGood(tTree, tPc, tVal, tX, tY, tZ, tSeen, below)
  BY DEF ThirdInv
<1>2. /\ tPc = "descend" /\ tX = Tree!Nil /\ tZ' = tTree.count + 1 /\ tX' = tZ' /\ tPc' = "climb"
      /\ tTree' = Tree!Hang(Tree!newNode(tTree, tVal), tY, tTree.count + 1) /\ tSeen' = tSeen
  BY ThirdOperators DEF Third!Attach
<1>3. SearchTree(tTree, below) /\ Seeking(tTree, below, tVal, Tree!Nil, tY, tSeen)
  BY <1>1, <1>2 DEF ThirdGood
<1>4. \E below2 : SearchTree(tTree', below2) /\ Climbing(tTree', below2, tZ', tZ', tSeen)
  BY <1>2, <1>3, SeekingEnds
<1>5. PICK below2 : SearchTree(tTree', below2) /\ Climbing(tTree', below2, tZ', tZ', tSeen)
  BY <1>4
<1>6. ThirdGood(tTree', tPc', tVal', tX', tY', tZ', tSeen', below2)
  BY <1>2, <1>5 DEF ThirdGood
<1> QED BY <1>6 DEF ThirdInv

LEMMA ClimbKeeps == ASSUME ThirdInv, Third!Climb PROVE ThirdInv'
<1>1. PICK below : ThirdGood(tTree, tPc, tVal, tX, tY, tZ, tSeen, below)
  BY DEF ThirdInv
<1>2. /\ tPc = "climb" /\ tX # Tree!Nil /\ tTree' = Tree!Resized(tTree, tX) /\ tX' = tTree.parent[tX]
      /\ tPc' = tPc /\ tZ' = tZ /\ tSeen' = tSeen
  BY ThirdOperators DEF Third!Climb, Third!After
<1>3. SearchTree(tTree, below) /\ Climbing(tTree, below, tX, tZ, tSeen)
  BY <1>1, <1>2 DEF ThirdGood
<1>4. SearchTree(tTree', below) /\ Climbing(tTree', below, tTree.parent[tX], tZ, tSeen)
  BY <1>2, <1>3, ClimbingGoesOn
<1>5. ThirdGood(tTree', tPc', tVal', tX', tY', tZ', tSeen', below)
  BY <1>2, <1>4 DEF ThirdGood
<1> QED BY <1>5 DEF ThirdInv

LEMMA ClimbedKeeps == ASSUME ThirdInv, Third!Climbed PROVE ThirdInv'
<1>1. PICK below : ThirdGood(tTree, tPc, tVal, tX, tY, tZ, tSeen, below)
  BY DEF ThirdInv
<1>2. /\ tPc = "climb" /\ tX = Tree!Nil /\ tPc' = "fixup"
      /\ tTree' = tTree /\ tZ' = tZ /\ tSeen' = tSeen
  BY ThirdOperators DEF Third!Climbed
<1>3. SearchTree(tTree, below) /\ Climbing(tTree, below, Tree!Nil, tZ, tSeen)
  BY <1>1, <1>2 DEF ThirdGood
<1>4. Repairing(tTree, below, tZ, tSeen)
  BY <1>3, ClimbingEnds
<1>5. ThirdGood(tTree', tPc', tVal', tX', tY', tZ', tSeen', below)
  BY <1>2, <1>3, <1>4 DEF ThirdGood
<1> QED BY <1>5 DEF ThirdInv

LEMMA RecolouringKeeps == ASSUME ThirdInv, Third!Recolour PROVE ThirdInv'
<1>1. PICK below : ThirdGood(tTree, tPc, tVal, tX, tY, tZ, tSeen, below)
  BY DEF ThirdInv
<1> DEFINE p == Third!Parent
           g == Third!Grandparent
           q == Third!Uncle
<1>2. Third!Clash /\ tTree' = Tree!Redden(Tree!Blacken(tTree, {p, q}), g) /\ tZ' = g /\ tPc' = tPc /\ tSeen' = tSeen
  BY ThirdOperators DEF Third!Recolour
<1>3. /\ tPc = "fixup" /\ SearchTree(tTree, below) /\ Repairing(tTree, below, tZ, tSeen)
      /\ tTree.root \notin tTree.red /\ g \in below[tTree.root]
  BY <1>1, <1>2, ThirdClashIs
<1> HIDE DEF p, g, q
<1>4. tTree \in TreeRecords /\ g \in Tree!TreeNodes
  BY <1>3 DEF SearchTree, TreeShape, Shape
<1>5. /\ tTree' \in TreeRecords /\ SameLinks(tTree, tTree') /\ tTree'.size = tTree.size
      /\ tTree'.red = (tTree.red \ {p, q}) \cup {g}
  BY <1>2, <1>4, RecolouredFields
<1>6. SearchTree(tTree', below)
  BY <1>3, <1>5, SameLinksSearchTree
<1>7. Sized(tTree', below)
  BY <1>3, <1>5, SameLinksFacts DEF Repairing
<1>8. tTree'.root = tTree.root /\ Vals(tTree') = Vals(tTree)
  BY <1>5 DEF SameLinks, Vals
<1>9. Repairing(tTree', below, g, tSeen)
  BY <1>3, <1>5, <1>7, <1>8 DEF Repairing
<1>10. ThirdGood(tTree', tPc', tVal', tX', tY', tZ', tSeen', below)
  BY <1>2, <1>3, <1>6, <1>9 DEF ThirdGood
<1> QED BY <1>10 DEF ThirdInv

LEMMA TurnParentKeeps == ASSUME ThirdInv, Third!TurnParent PROVE ThirdInv'
<1>1. PICK below : ThirdGood(tTree, tPc, tVal, tX, tY, tZ, tSeen, below)
  BY DEF ThirdInv
<1> DEFINE t == tTree
           p == Third!Parent
           g == Third!Grandparent
<1>2. /\ Third!Clash /\ tZ = t.child["right"][p] /\ tTree' = Third!GuardedRotate(t, "left", p)
      /\ tZ' = p /\ tPc' = tPc /\ tSeen' = tSeen
  BY DEF Third!TurnParent
<1>3. /\ tPc = "fixup" /\ SearchTree(t, below) /\ Repairing(t, below, tZ, tSeen)
      /\ p \in below[t.root] /\ t.root \notin t.red /\ g \in below[t.root] /\ g = t.parent[p]
  BY <1>1, <1>2, ThirdClashIs
<1> HIDE DEF t, p, g
<1>4. tZ \in below[t.root] /\ TreeShape(t, below) /\ Sized(t, below) /\ tSeen = Vals(t) /\ t \in TreeRecords
  BY <1>3 DEF Repairing, SearchTree
<1>5. tZ # Tree!Nil /\ p # Tree!Nil /\ g # Tree!Nil
  <2>1. \A n \in below[t.root] : n \in Tree!TreeNodes
    BY <1>4 DEF TreeShape, Shape
  <2> QED BY <1>3, <1>4, <2>1, NilFacts
<1>6. tTree' = Tree!Rotate(t, "left", p)
  BY <1>2, <1>5, LeftRight, ThirdOperators DEF Third!GuardedRotate
<1>7. Turned(t, below, "left", p, tTree')
  <2>1. "left" \in Tree!Sides /\ t.child[Tree!Opposite("left")][p] # Tree!Nil
    BY <1>2, <1>5, LeftRight
  <2> QED BY <1>3, <1>4, <1>6, <2>1, TurnKeeps
<1>8. /\ tTree' \in TreeRecords /\ tTree'.red = t.red /\ tTree'.val = t.val /\ tTree'.count = t.count
      /\ tTree'.root = t.root
      /\ \E below2 : SearchTree(tTree', below2) /\ Sized(tTree', below2)
  BY <1>3, <1>5, <1>7 DEF Turned
<1>9. PICK below2 : SearchTree(tTree', below2) /\ Sized(tTree', below2)
  BY <1>8
<1>10. Vals(tTree') = Vals(t) /\ below2[tTree'.root] = below[t.root]
  BY <1>3, <1>8, <1>9 DEF Vals, SearchTree
<1>11. Repairing(tTree', below2, p, tSeen)
  BY <1>3, <1>4, <1>8, <1>9, <1>10 DEF Repairing
<1>12. ThirdGood(tTree', tPc', tVal', tX', tY', tZ', tSeen', below2)
  BY <1>2, <1>3, <1>9, <1>11 DEF ThirdGood
<1> QED BY <1>12 DEF ThirdInv

LEMMA TurnGrandparentKeeps == ASSUME ThirdInv, Third!TurnGrandparent PROVE ThirdInv'
<1>1. PICK below : ThirdGood(tTree, tPc, tVal, tX, tY, tZ, tSeen, below)
  BY DEF ThirdInv
<1> DEFINE t == tTree
           p == Third!Parent
           g == Third!Grandparent
           t1 == Tree!Redden(Tree!Blacken(t, {p}), g)
<1>2. /\ Third!Clash /\ p = t.child["left"][g] /\ tTree' = Third!GuardedRotate(t1, "right", g)
      /\ tZ' = tZ /\ tPc' = tPc /\ tSeen' = tSeen
  <2>1. /\ Third!Clash /\ Third!OnLeft
        /\ tTree' = Third!GuardedRotate(Third!Redden(Third!Blacken(t, {p}), g), "right", g)
        /\ tZ' = tZ /\ tPc' = tPc /\ tSeen' = tSeen
    BY DEF Third!TurnGrandparent
  <2>2. Third!Redden(Third!Blacken(t, {p}), g) = t1
    <3> HIDE DEF p, g
    <3> QED BY ThirdOperators
  <2>3. p = t.child["left"][g]
    BY <2>1 DEF Third!OnLeft
  <2> HIDE DEF t1
  <2> QED BY <2>1, <2>2, <2>3
<1>3. /\ tPc = "fixup" /\ SearchTree(t, below) /\ Repairing(t, below, tZ, tSeen)
      /\ p \in below[t.root] /\ t.root \notin t.red /\ g \in below[t.root] /\ g = t.parent[p]
  BY <1>1, <1>2, ThirdClashIs
<1>0. t1 = Tree!Redden(Tree!Blacken(t, {p}), g)
  OBVIOUS
<1> HIDE DEF t, p, g, t1
<1>4. /\ tZ \in below[t.root] /\ TreeShape(t, below) /\ Sized(t, below) /\ tSeen = Vals(t) /\ t \in TreeRecords
      /\ g \in Tree!TreeNodes
  <2>1. /\ tZ \in below[t.root] /\ TreeShape(t, below) /\ Sized(t, below) /\ tSeen = Vals(t)
        /\ t \in TreeRecords
    BY <1>3 DEF Repairing, SearchTree
  <2>2. g \in Tree!TreeNodes
    BY <1>3, <2>1 DEF TreeShape, Shape
  <2> QED BY <2>1, <2>2
<1>5. p # Tree!Nil /\ g # Tree!Nil /\ p # g
  <2>1. \A n \in below[t.root] : n \in Tree!TreeNodes
    BY <1>4 DEF TreeShape, Shape
  <2>2. p # Tree!Nil /\ g # Tree!Nil
    BY <1>3, <2>1, NilFacts
  <2>3. t.child["left"][g] = p /\ "left" \in Tree!Sides
    BY <1>2, LeftRight
  <2> QED BY <1>3, <1>4, <2>2, <2>3, TreeChild
<1>6. /\ t1 \in TreeRecords /\ SameLinks(t, t1) /\ t1.size = t.size
      /\ t1.red = (t.red \ {p}) \cup {g}
  BY <1>0, <1>4, RecolouredFields
<1>7. t1.root = t.root /\ t1.parent = t.parent /\ t1.child = t.child /\ t1.val = t.val /\ t1.count = t.count
  BY <1>6 DEF SameLinks
<1>8. SearchTree(t1, below) /\ Sized(t1, below)
  BY <1>3, <1>4, <1>6, SameLinksSearchTree, SameLinksFacts
<1>9. tTree' = Tree!Rotate(t1, "right", g)
  BY <1>2, <1>5, <1>7, LeftRight, ThirdOperators DEF Third!GuardedRotate
<1>10. Turned(t1, below, "right", g, tTree')
  <2>1. "right" \in Tree!Sides /\ t1.child[Tree!Opposite("right")][g] # Tree!Nil /\ g \in below[t1.root]
    BY <1>2, <1>3, <1>5, <1>7, LeftRight
  <2> QED BY <1>8, <1>9, <2>1, TurnKeeps
<1>11. /\ tTree' \in TreeRecords /\ tTree'.red = t1.red /\ tTree'.val = t.val /\ tTree'.count = t.count
       /\ tTree'.root = IF t.parent[g] = Tree!Nil THEN p ELSE t.root
       /\ \E below2 : SearchTree(tTree', below2) /\ Sized(tTree', below2)
  BY <1>2, <1>7, <1>10, LeftRight DEF Turned
<1>12. PICK below2 : SearchTree(tTree', below2) /\ Sized(tTree', below2)
  BY <1>11
<1>13. Vals(tTree') = Vals(t) /\ below2[tTree'.root] = below[t.root]
  BY <1>3, <1>11, <1>12 DEF Vals, SearchTree
<1>14. tTree'.root \notin tTree'.red
  <2>1. CASE t.parent[g] = Tree!Nil
    BY <1>5, <1>6, <1>11, <2>1
  <2>2. CASE t.parent[g] # Tree!Nil
    <3>1. t.root # g
      BY <1>3, <1>4, <1>5, <2>2 DEF TreeShape, Shape
    <3> QED BY <1>3, <1>6, <1>11, <2>2, <3>1
  <2> QED BY <2>1, <2>2
<1>15. Repairing(tTree', below2, tZ, tSeen)
  BY <1>4, <1>12, <1>13, <1>14 DEF Repairing
<1>16. ThirdGood(tTree', tPc', tVal', tX', tY', tZ', tSeen', below2)
  BY <1>2, <1>3, <1>12, <1>15 DEF ThirdGood
<1> QED BY <1>16 DEF ThirdInv

LEMMA BlackenKeeps == ASSUME ThirdInv, Third!Fixed PROVE ThirdInv'
<1>1. PICK below : ThirdGood(tTree, tPc, tVal, tX, tY, tZ, tSeen, below)
  BY DEF ThirdInv
<1>2. tPc = "fixup" /\ tTree' = Tree!Blacken(tTree, {tTree.root}) /\ tPc' = "idle" /\ tSeen' = tSeen
  BY ThirdOperators DEF Third!Fixed
<1>3. SearchTree(tTree, below) /\ tSeen = Vals(tTree) /\ Sized(tTree, below) /\ tTree \in TreeRecords
  BY <1>1, <1>2 DEF ThirdGood, Repairing, SearchTree
<1>4. /\ tTree' \in TreeRecords /\ SameLinks(tTree, tTree') /\ tTree'.size = tTree.size
      /\ tTree'.red = tTree.red \ {tTree.root}
  BY <1>2, <1>3, ColourFields
<1>5. SearchTree(tTree', below) /\ Sized(tTree', below)
  BY <1>3, <1>4, SameLinksSearchTree, SameLinksFacts
<1>6. Vals(tTree') = Vals(tTree) /\ tTree'.root = tTree.root
  BY <1>4 DEF SameLinks, Vals
<1>7. ThirdGood(tTree', tPc', tVal', tX', tY', tZ', tSeen', below)
  BY <1>2, <1>3, <1>4, <1>5, <1>6 DEF ThirdGood
<1> QED BY <1>7 DEF ThirdInv

LEMMA InitThirdInv == ASSUME Third!Init PROVE ThirdInv
<1> DEFINE below == [n \in Tree!Pointers |-> {}]
           black == [n \in Tree!Pointers |-> 0]
           t == Tree!EmptyTree
<1>1. tTree = t /\ tPc = "idle" /\ tSeen = {}
  BY ThirdOperators DEF Third!Init
<1>2. /\ t \in TreeRecords /\ t.count = 0 /\ t.root = Tree!Nil /\ Fresh(t)
      /\ RedBlackTree(t, below, black, Tree!Nil) /\ below[t.root] = {}
  BY EmptyTreeIs
<1> HIDE DEF below, black, t
<1>3. 1 .. t.count = {}
  BY <1>2
<1>4. Vals(t) = {} /\ Cardinality(Vals(t)) = 0
  BY <1>3, FS_EmptySet DEF Vals
<1>5. t.root \notin t.red
  BY <1>2, NilFacts, RecordFields
<1>6. SearchTree(t, below) /\ Sized(t, below)
  BY <1>2, <1>3, <1>4 DEF SearchTree, RedBlackTree
<1>7. ThirdGood(tTree, tPc, tVal, tX, tY, tZ, tSeen, below)
  BY <1>1, <1>4, <1>5, <1>6 DEF ThirdGood
<1> QED BY <1>7 DEF ThirdInv

LEMMA NextThirdInv == ThirdInv /\ [Third!Next]_(Third!vars) => ThirdInv'
<1> SUFFICES ASSUME ThirdInv, [Third!Next]_(Third!vars) PROVE ThirdInv'
  OBVIOUS
<1>1. CASE \E num \in Distinct : Third!insertValue(num)
  BY <1>1, insertValueKeeps
<1>2. CASE Third!Descend
  BY <1>2, SeekKeeps
<1>3. CASE Third!Duplicate
  BY <1>3, DuplicateKeeps
<1>4. CASE Third!Attach
  BY <1>4, HangKeeps
<1>5. CASE Third!Climb
  BY <1>5, ClimbKeeps
<1>6. CASE Third!Climbed
  BY <1>6, ClimbedKeeps
<1>7. CASE Third!Recolour
  BY <1>7, RecolouringKeeps
<1>8. CASE Third!TurnParent
  BY <1>8, TurnParentKeeps
<1>9. CASE Third!TurnGrandparent
  BY <1>9, TurnGrandparentKeeps
<1>10. CASE Third!Fixed
  BY <1>10, BlackenKeeps
<1>11. CASE Third!Answer
  BY <1>11 DEF Third!Answer, ThirdInv, ThirdGood
<1>12. CASE UNCHANGED Third!vars
  BY <1>12 DEF Third!vars, ThirdInv
<1> QED BY <1>1, <1>2, <1>3, <1>4, <1>5, <1>6, <1>7, <1>8, <1>9, <1>10, <1>11, <1>12 DEF Third!Next

LEMMA SoundFromInv == ThirdInv => TreeSound
<1> SUFFICES ASSUME ThirdInv PROVE TreeSound
  OBVIOUS
<1> DEFINE t == tTree
<1>1. PICK below : ThirdGood(tTree, tPc, tVal, tX, tY, tZ, tSeen, below)
  BY DEF ThirdInv
<1>2. t \in TreeRecords /\ TreeShape(t, below) /\ Sorted(t, below) /\ below[t.root] = 1 .. t.count
      /\ Cardinality(Vals(t)) = t.count
  BY <1>1 DEF ThirdGood, SearchTree
<1> HIDE DEF t
<1>3. Third!WellLinked(t) /\ Third!Ordered(t) /\ Third!Members(t) = 1 .. t.count
  BY <1>2, TreeIsLinked, TreeIsOrdered, MembersIs, ThirdOperators
<1>4. Third!Clash => Third!Grandparent # Third!Nil /\ (~Third!OnLeft => Third!Uncle = Third!Parent)
  <2> SUFFICES ASSUME Third!Clash
               PROVE  Third!Grandparent # Third!Nil /\ (~Third!OnLeft => Third!Uncle = Third!Parent)
    OBVIOUS
  <2> DEFINE p == Third!Parent
             g == Third!Grandparent
  <2>1. g \in below[t.root] /\ \E s \in Tree!Sides : t.child[s][g] = p
    BY <1>1, ThirdClashIs DEF t
  <2> HIDE DEF p, g
  <2>2. g # Third!Nil
    <3>1. g \in Tree!TreeNodes
      BY <1>2, <2>1 DEF TreeShape, Shape
    <3> QED BY <3>1, NilFacts, ThirdOperators
  <2>3. ~Third!OnLeft => t.child["right"][g] = p
    <3>1. t.child["left"][g] = p \/ t.child["right"][g] = p
      BY <2>1, LeftRight
    <3> QED BY <2>2, <3>1 DEF Third!OnLeft, p, g, t
  <2> QED BY <2>2, <2>3 DEF Third!Uncle, p, g, t
<1>5. ASSUME tPc \in {"idle", "fixup", "done"}
      PROVE  /\ {t.val[n] : n \in Third!Members(t)} = tSeen /\ Third!Cardinality(tSeen) = t.count
             /\ \A n \in Third!Members(t) : t.size[n] = Third!Cardinality(Third!Subtree(t, n))
  <2>1. tSeen = Vals(t) /\ Sized(t, below)
    BY <1>1, <1>5 DEF ThirdGood, Repairing, t
  <2>2. \A A : Third!Cardinality(A) = Cardinality(A)
    BY DEF Third!Cardinality, Cardinality
  <2>3. {t.val[n] : n \in Third!Members(t)} = tSeen /\ Third!Cardinality(tSeen) = t.count
    BY <1>2, <1>3, <2>1, <2>2 DEF Vals
  <2>4. \A n \in below[t.root] : t.size[n] = Cardinality(below[n]) /\ Third!Subtree(t, n) = below[n]
    <3>1. \A n \in below[t.root] : t.size[n] = Cardinality(below[n])
      BY <2>1 DEF Sized, SizeRight
    <3>2. \A n \in below[t.root] : Tree!Subtree(t, n) = below[n]
      BY <1>2, SubtreeIs
    <3>3. \A n : Third!Subtree(t, n) = Tree!Subtree(t, n)
      BY ThirdOperators
    <3> QED BY <3>1, <3>2, <3>3
  <2> QED BY <1>2, <1>3, <2>2, <2>3, <2>4
<1> QED BY <1>3, <1>4, <1>5 DEF TreeSound, Third!TreeSound, t

\* The tree of src/414.c stays a search tree of the numbers it was given, each once, at
\* every turn of its loops, with right sizes whenever an insertion is over; the repair
\* never follows the parent of the root, and on the right-hand side the uncle it looks
\* at is the parent itself.
THEOREM ThirdTreeIsSound == StructuresSpec => []TreeSound
<1>1. StructuresInit => ThirdInv
  BY InitThirdInv DEF StructuresInit
<1>2. ThirdInv /\ [StructuresNext]_structureVars => ThirdInv'
  <2> SUFFICES ASSUME ThirdInv, [StructuresNext]_structureVars PROVE ThirdInv'
    OBVIOUS
  <2>1. Third!Next \/ UNCHANGED tVars
    BY DEF StructuresNext, structureVars
  <2>2. [Third!Next]_(Third!vars)
    BY <2>1 DEF tVars, Third!vars
  <2> QED BY <2>2, NextThirdInv
<1> QED BY <1>1, <1>2, SoundFromInv, PTL DEF StructuresSpec

-----------------------------------------------------------------------------
\* The value at a position.  What one turn of the search answers if f does at the children.
KthTurn(t, side, f, n, i) ==
    LET before == Tree!nodeSize(t, t.child[side][n])
    IN  IF n = Tree!Nil THEN -1
        ELSE IF i = before + 1 THEN t.val[n]
        ELSE IF i <= before THEN f[t.child[side][n]][i]
        ELSE f[t.child[Tree!Opposite(side)][n]][i - before - 1]
KthSpace == [Tree!Pointers -> [Int -> Int]]
IsFind(f, t, side) == f = [n \in Tree!Pointers |-> [i \in Int |-> KthTurn(t, side, f, n, i)]]

LEMMA KthOperators ==
    /\ \A t, side, k : Tree!Kth(t, side, k) = (CHOOSE f : IsFind(f, t, side))[t.root][k]
    /\ \A t, side, k : Median!Kth(t, side, k) = Tree!Kth(t, side, k)
    /\ \A t, side, k : Third!Kth(t, side, k) = Tree!Kth(t, side, k)
<1>1. \A t, side, k : Tree!Kth(t, side, k) = (CHOOSE f : IsFind(f, t, side))[t.root][k]
  BY DEF Tree!Kth, IsFind, KthTurn
<1>2. \A t, side, k : Median!Kth(t, side, k) = Tree!Kth(t, side, k)
  BY DEF Median!Kth, Tree!Kth, Median!Pointers, Tree!Pointers, Median!TreeNodes, Tree!TreeNodes,
         Median!Nil, Tree!Nil, Median!nodeSize, Tree!nodeSize, Median!Opposite, Tree!Opposite
<1>3. \A t, side, k : Third!Kth(t, side, k) = Tree!Kth(t, side, k)
  BY DEF Third!Kth, Tree!Kth, Third!Pointers, Tree!Pointers, Third!TreeNodes, Tree!TreeNodes,
         Third!Nil, Tree!Nil, Third!nodeSize, Tree!nodeSize, Third!Opposite, Tree!Opposite
<1> QED BY <1>1, <1>2, <1>3

\* A turn answers with a number, and looks at f for the children of n only.
LEMMA KthTurnFacts ==
    ASSUME NEW t \in TreeRecords, NEW side \in Tree!Sides, NEW f \in KthSpace, NEW n \in Tree!Pointers, NEW i \in Int
    PROVE  /\ KthTurn(t, side, f, n, i) \in Int
           /\ \A h : (n # Tree!Nil => \A s \in Tree!Sides : h[t.child[s][n]] = f[t.child[s][n]])
                     => KthTurn(t, side, h, n, i) = KthTurn(t, side, f, n, i)
<1> DEFINE before == Tree!nodeSize(t, t.child[side][n])
<1>1. n # Tree!Nil => n \in Tree!TreeNodes
  BY NilFacts
<1>2. n # Tree!Nil => /\ \A s \in Tree!Sides : t.child[s][n] \in Tree!Pointers
                      /\ t.val[n] \in Int
  BY <1>1, RecordFields
<1>3. n # Tree!Nil => before \in Int
  <2>1. \A m \in Tree!Pointers : Tree!nodeSize(t, m) \in Int
    BY nodeSizeType
  <2> QED BY <1>2, <2>1
<1>4. n # Tree!Nil => /\ f[t.child[side][n]] \in [Int -> Int]
                      /\ f[t.child[Tree!Opposite(side)][n]] \in [Int -> Int]
  BY <1>2, SideFacts DEF KthSpace
<1>5. KthTurn(t, side, f, n, i) \in Int
  <2>1. CASE n = Tree!Nil
    BY <2>1 DEF KthTurn
  <2>2. CASE n # Tree!Nil
    <3> DEFINE a == f[t.child[side][n]]
               b == f[t.child[Tree!Opposite(side)][n]]
    <3>1. KthTurn(t, side, f, n, i) = IF i = before + 1 THEN t.val[n]
                                      ELSE IF i <= before THEN a[i] ELSE b[i - before - 1]
      BY <2>2 DEF KthTurn
    <3>2. a \in [Int -> Int] /\ b \in [Int -> Int] /\ before \in Int /\ t.val[n] \in Int
      BY <1>2, <1>3, <1>4, <2>2
    <3> HIDE DEF a, b, before
    <3>3. i - before - 1 \in Int
      BY <3>2
    <3>4. a[i] \in Int /\ b[i - before - 1] \in Int
      BY <3>2, <3>3
    <3> QED BY <3>1, <3>2, <3>4
  <2> QED BY <2>1, <2>2
<1>6. Tree!Opposite(side) \in Tree!Sides
  BY SideFacts
<1> QED BY <1>5, <1>6 DEF KthTurn

IsStep(step, t, side) ==
    step = [f \in KthSpace |-> [n \in Tree!Pointers |-> [i \in Int |-> KthTurn(t, side, f, n, i)]]]

LEMMA StepFacts ==
    ASSUME NEW t \in TreeRecords, NEW side \in Tree!Sides, NEW step, IsStep(step, t, side)
    PROVE  /\ step \in [KthSpace -> KthSpace]
           /\ \A f \in KthSpace : step[f] = f => IsFind(f, t, side)
           /\ \A f \in KthSpace, n \in Tree!Pointers, i \in Int : step[f][n][i] = KthTurn(t, side, f, n, i)
<1>1. \A f \in KthSpace : step[f] \in KthSpace
  <2> SUFFICES ASSUME NEW f \in KthSpace PROVE step[f] \in KthSpace
    OBVIOUS
  <2>1. \A n \in Tree!Pointers, i \in Int : KthTurn(t, side, f, n, i) \in Int
    BY KthTurnFacts
  <2> QED BY <2>1 DEF KthSpace, IsStep
<1> QED BY <1>1 DEF IsStep, IsFind

LEMMA FindValue ==
    ASSUME NEW t, NEW side, NEW f, IsFind(f, t, side), NEW n \in Tree!Pointers, NEW i \in Int
    PROVE  f[n][i] = KthTurn(t, side, f, n, i)
  BY DEF IsFind

\* The search is defined: on a tree, what it answers at a node is settled after as many
\* turns as there are nodes below it.
SearchesTree(t, below) ==
    /\ t \in TreeRecords /\ TreeShape(t, below)
    /\ \A n \in Tree!TreeNodes \ below[t.root] : \A s \in Tree!Sides : t.child[s][n] = Tree!Nil
Rank(t, below, n) == IF n = Tree!Nil THEN 0 ELSE IF n \in below[t.root] THEN Cardinality(below[n]) ELSE 1

LEMMA RankFacts ==
    ASSUME NEW t, NEW below, SearchesTree(t, below), NEW n \in Tree!Pointers
    PROVE  /\ Rank(t, below, n) \in 0 .. MaxNodes
           /\ n # Tree!Nil => \A s \in Tree!Sides : /\ t.child[s][n] \in Tree!Pointers
                                                   /\ Rank(t, below, t.child[s][n]) < Rank(t, below, n)
<1>1. \A A \in SUBSET Tree!TreeNodes : Cardinality(A) \in 0 .. MaxNodes
  BY BelowSize DEF SearchesTree, TreeShape
<1>2. CASE n = Tree!Nil
  BY <1>2, StructuresAssumption DEF Rank
<1>3. CASE n \in below[t.root]
  <2>1. n \in Tree!TreeNodes /\ n # Tree!Nil /\ below[n] \in SUBSET Tree!TreeNodes /\ n \in below[n]
    BY <1>3, ShapeFacts DEF SearchesTree, TreeShape
  <2>2. Rank(t, below, n) = Cardinality(below[n]) /\ Cardinality(below[n]) \in 0 .. MaxNodes
    BY <1>1, <1>3, <2>1 DEF Rank
  <2>3. Cardinality(below[n]) # 0
    <3>1. IsFiniteSet(below[n])
      BY <2>1, BelowSize DEF SearchesTree, TreeShape
    <3> QED BY <2>1, <3>1, FS_EmptySet
  <2>4. ASSUME NEW s \in Tree!Sides
        PROVE  t.child[s][n] \in Tree!Pointers /\ Rank(t, below, t.child[s][n]) < Rank(t, below, n)
    <3>1. t.child[s][n] \in Tree!Pointers
      BY <2>1, RecordFields DEF SearchesTree
    <3>2. CASE t.child[s][n] = Tree!Nil
      <4>1. Rank(t, below, t.child[s][n]) = 0
        BY <3>2 DEF Rank
      <4> QED BY <2>2, <2>3, <3>1, <4>1
    <3>3. CASE t.child[s][n] # Tree!Nil
      <4>1. t.child[s][n] \in below[t.root]
        BY <1>3, <3>3 DEF SearchesTree, TreeShape, Shape
      <4>2. Rank(t, below, t.child[s][n]) = Cardinality(below[t.child[s][n]])
        BY <3>3, <4>1 DEF Rank
      <4>3. Cardinality(below[t.child[s][n]]) < Cardinality(below[n])
        BY <1>3, <3>3, ChildSmaller DEF SearchesTree, TreeShape
      <4> QED BY <2>2, <3>1, <4>2, <4>3
    <3> QED BY <3>2, <3>3
  <2> QED BY <2>2, <2>4
<1>4. CASE n # Tree!Nil /\ n \notin below[t.root]
  <2>1. n \in Tree!TreeNodes
    BY <1>4, NilFacts
  <2>2. MaxNodes \in Nat /\ 1 \in 0 .. MaxNodes
    BY <2>1, StructuresAssumption DEF Tree!TreeNodes
  <2>3. Rank(t, below, n) = 1
    BY <1>4 DEF Rank
  <2>4. \A s \in Tree!Sides : t.child[s][n] = Tree!Nil
    BY <1>4, <2>1 DEF SearchesTree
  <2>5. Rank(t, below, Tree!Nil) = 0 /\ Tree!Nil \in Tree!Pointers
    BY NilFacts DEF Rank
  <2> QED BY <2>2, <2>3, <2>4, <2>5
<1> QED BY <1>2, <1>3, <1>4

LEMMA FindExists ==
    ASSUME NEW t, NEW below, SearchesTree(t, below), NEW side \in Tree!Sides
    PROVE  \E f : IsFind(f, t, side)
<1> DEFINE step == [f \in KthSpace |-> [n \in Tree!Pointers |-> [i \in Int |-> KthTurn(t, side, f, n, i)]]]
           base == [n \in Tree!Pointers |-> [i \in Int |-> 0]]
<1>1. IsStep(step, t, side) /\ base \in KthSpace
  BY DEF IsStep, KthSpace
<1> HIDE DEF step, base
<1>2. t \in TreeRecords /\ MaxNodes \in Nat
  BY StructuresAssumption DEF SearchesTree
<1>3. /\ step \in [KthSpace -> KthSpace]
      /\ \A f \in KthSpace : step[f] = f => IsFind(f, t, side)
      /\ \A f \in KthSpace, n \in Tree!Pointers, i \in Int : step[f][n][i] = KthTurn(t, side, f, n, i)
  BY <1>1, <1>2, StepFacts
<1>4. PICK g : Iterates(g, KthSpace, step, base)
  BY <1>1, <1>3, IterateExists DEF Steps
<1>5. \A d \in Nat : g[d] \in KthSpace /\ g[d + 1] = step[g[d]]
  BY <1>4 DEF Iterates
<1> DEFINE D == {d \in Nat : \A n \in Tree!Pointers : Rank(t, below, n) <= d => g[d + 2][n] = g[d + 1][n]}
<1>6. ASSUME NEW d \in Nat, NEW n \in Tree!Pointers,
             n # Tree!Nil => \A s \in Tree!Sides : g[d + 1][t.child[s][n]] = g[d][t.child[s][n]]
      PROVE  g[d + 2][n] = g[d + 1][n]
  <2>1. d + 1 \in Nat /\ (d + 1) + 1 = d + 2
    OBVIOUS
  <2>2. g[d] \in KthSpace /\ g[d + 1] \in KthSpace /\ g[d + 2] \in KthSpace
        /\ g[d + 1] = step[g[d]] /\ g[d + 2] = step[g[d + 1]]
    BY <1>5, <2>1
  <2>3. ASSUME NEW i \in Int PROVE g[d + 2][n][i] = g[d + 1][n][i]
    <3>1. KthTurn(t, side, g[d + 1], n, i) = KthTurn(t, side, g[d], n, i)
      BY <1>2, <1>6, <2>2, KthTurnFacts
    <3> QED BY <1>3, <2>2, <3>1
  <2>4. g[d + 2][n] \in [Int -> Int] /\ g[d + 1][n] \in [Int -> Int]
    BY <2>2 DEF KthSpace
  <2> QED BY <2>3, <2>4
<1>7. 0 \in D
  <2> SUFFICES ASSUME NEW n \in Tree!Pointers, Rank(t, below, n) <= 0 PROVE g[0 + 2][n] = g[0 + 1][n]
    OBVIOUS
  <2>1. n = Tree!Nil
    <3>1. Rank(t, below, n) \in 0 .. MaxNodes
      BY RankFacts
    <3>2. n # Tree!Nil => /\ t.child["left"][n] \in Tree!Pointers
                          /\ Rank(t, below, t.child["left"][n]) < Rank(t, below, n)
      BY RankFacts, LeftRight
    <3>3. n # Tree!Nil => Rank(t, below, t.child["left"][n]) \in 0 .. MaxNodes
      BY <3>2, RankFacts
    <3> QED BY <3>1, <3>2, <3>3
  <2> QED BY <1>6, <2>1
<1>8. ASSUME NEW d \in 0 .. MaxNodes - 1, d \in D PROVE d + 1 \in D
  <2> SUFFICES ASSUME NEW n \in Tree!Pointers, Rank(t, below, n) <= d + 1
               PROVE  g[(d + 1) + 2][n] = g[(d + 1) + 1][n]
    OBVIOUS
  <2>1. ASSUME n # Tree!Nil, NEW s \in Tree!Sides
        PROVE  g[(d + 1) + 1][t.child[s][n]] = g[d + 1][t.child[s][n]]
    <3>1. t.child[s][n] \in Tree!Pointers /\ Rank(t, below, t.child[s][n]) < Rank(t, below, n)
      BY <2>1, RankFacts
    <3>2. Rank(t, below, t.child[s][n]) \in Int /\ Rank(t, below, n) \in Int
      BY <3>1, RankFacts
    <3>3. Rank(t, below, t.child[s][n]) <= d
      BY <3>1, <3>2
    <3>4. g[d + 2][t.child[s][n]] = g[d + 1][t.child[s][n]]
      BY <1>8, <3>1, <3>3
    <3> QED BY <3>4
  <2>2. d + 1 \in Nat
    OBVIOUS
  <2> QED BY <1>6, <2>1, <2>2
<1>9. MaxNodes \in D
  <2> HIDE DEF D
  <2>1. \A d \in 0 .. MaxNodes : d \in D
    BY <1>2, <1>7, <1>8, UpTo
  <2> QED BY <1>2, <2>1
<1>10. g[MaxNodes + 1] \in KthSpace /\ g[MaxNodes + 2] \in KthSpace /\ g[MaxNodes + 2] = step[g[MaxNodes + 1]]
  <2>1. MaxNodes + 1 \in Nat /\ MaxNodes + 2 \in Nat /\ (MaxNodes + 1) + 1 = MaxNodes + 2
    BY <1>2
  <2> QED BY <1>5, <2>1
<1>11. \A n \in Tree!Pointers : g[MaxNodes + 2][n] = g[MaxNodes + 1][n]
  <2>1. \A n \in Tree!Pointers : Rank(t, below, n) <= MaxNodes
    BY <1>2, RankFacts
  <2> QED BY <1>9, <2>1
<1>12. g[MaxNodes + 2] = g[MaxNodes + 1]
  BY <1>10, <1>11 DEF KthSpace
<1> QED BY <1>3, <1>10, <1>12

-----------------------------------------------------------------------------
\* v is the value of a node of A at place i, counted from side s: fewer nodes are ahead of
\* it, and with those that have the same value there are enough.
Ahead(t, A, s, v) == {a \in A : ~OnSide(Tree!Opposite(s), t.val[a], v)}
NotBehind(t, A, s, v) == {a \in A : OnSide(s, t.val[a], v)}
IsKth(t, A, s, i, v) ==
    /\ \E m \in A : t.val[m] = v
    /\ Cardinality(Ahead(t, A, s, v)) < i /\ i <= Cardinality(NotBehind(t, A, s, v))

Parts(t, s, n, L, R) ==
    /\ t \in TreeRecords /\ s \in Tree!Sides /\ n \in Tree!TreeNodes
    /\ L \in SUBSET Tree!TreeNodes /\ R \in SUBSET Tree!TreeNodes
    /\ L \cap R = {} /\ n \notin L /\ n \notin R
    /\ \A a \in L : OnSide(s, t.val[a], t.val[n])
    /\ \A a \in R : OnSide(Tree!Opposite(s), t.val[a], t.val[n])

LEMMA NodeSets ==
    /\ \A A \in SUBSET Tree!TreeNodes : IsFiniteSet(A) /\ Cardinality(A) \in Nat
    /\ \A A \in SUBSET Tree!TreeNodes : \A B \in SUBSET A : Cardinality(B) <= Cardinality(A)
    /\ \A A, B \in SUBSET Tree!TreeNodes : A \cap B = {} => Cardinality(A \cup B) = Cardinality(A) + Cardinality(B)
    /\ \A A \in SUBSET Tree!TreeNodes : \A n : n \notin A => Cardinality(A \cup {n}) = Cardinality(A) + 1
<1>1. IsFiniteSet(Tree!TreeNodes)
  <2>1. 1 \in Int /\ MaxNodes \in Int
    BY StructuresAssumption
  <2> QED BY <2>1, FS_Interval DEF Tree!TreeNodes
<1>2. \A A \in SUBSET Tree!TreeNodes : IsFiniteSet(A) /\ Cardinality(A) \in Nat
  BY <1>1, FS_Subset, FS_CardinalityType
<1>3. ASSUME NEW A \in SUBSET Tree!TreeNodes, NEW B \in SUBSET Tree!TreeNodes, A \cap B = {}
      PROVE  Cardinality(A \cup B) = Cardinality(A) + Cardinality(B)
  <2>1. IsFiniteSet(A) /\ IsFiniteSet(B) /\ Cardinality(A) \in Nat /\ Cardinality(B) \in Nat
    BY <1>2
  <2>2. Cardinality(A \cap B) = 0
    BY <1>3, FS_EmptySet
  <2>3. Cardinality(A \cup B) = Cardinality(A) + Cardinality(B) - Cardinality(A \cap B)
    BY <2>1, FS_Union
  <2> QED BY <2>1, <2>2, <2>3
<1>4. \A A \in SUBSET Tree!TreeNodes : \A B \in SUBSET A : Cardinality(B) <= Cardinality(A)
  BY <1>2, FS_Subset
<1>5. \A A \in SUBSET Tree!TreeNodes : \A n : n \notin A => Cardinality(A \cup {n}) = Cardinality(A) + 1
  BY <1>2, FS_AddElement
<1> QED BY <1>2, <1>3, <1>4, <1>5

LEMMA KthAtNode ==
    ASSUME NEW t, NEW s, NEW n, NEW L, NEW R, Parts(t, s, n, L, R)
    PROVE  IsKth(t, {n} \cup L \cup R, s, Cardinality(L) + 1, t.val[n])
<1> DEFINE A == {n} \cup L \cup R
           u == Ahead(t, A, s, t.val[n])
           w == NotBehind(t, A, s, t.val[n])
<1>1. /\ s \in Tree!Sides /\ n \in Tree!TreeNodes /\ A \in SUBSET Tree!TreeNodes
      /\ L \in SUBSET Tree!TreeNodes /\ n \notin L
      /\ \A a \in A : t.val[a] \in Int
  BY RecordFields DEF Parts
<1>2. u \subseteq L
  <2>1. \A a \in R : OnSide(Tree!Opposite(s), t.val[a], t.val[n])
    BY DEF Parts
  <2>2. OnSide(Tree!Opposite(s), t.val[n], t.val[n])
    BY <1>1, SideFacts, OnSideFacts
  <2> QED BY <2>1, <2>2 DEF Ahead
<1>3. L \cup {n} \subseteq w /\ w \subseteq A
  <2>1. \A a \in L : OnSide(s, t.val[a], t.val[n])
    BY DEF Parts
  <2>2. OnSide(s, t.val[n], t.val[n])
    BY <1>1, OnSideFacts
  <2> QED BY <2>1, <2>2 DEF NotBehind
<1> HIDE DEF u, w, A
<1>4. Cardinality(u) <= Cardinality(L) /\ Cardinality(L \cup {n}) <= Cardinality(w)
      /\ Cardinality(L \cup {n}) = Cardinality(L) + 1
  <2>1. w \in SUBSET Tree!TreeNodes
    BY <1>1, <1>3
  <2> QED BY <1>1, <1>2, <1>3, <2>1, NodeSets
<1>5. Cardinality(u) \in Nat /\ Cardinality(w) \in Nat /\ Cardinality(L) \in Nat
  <2>1. w \in SUBSET Tree!TreeNodes /\ u \in SUBSET Tree!TreeNodes
    BY <1>1, <1>2, <1>3
  <2> QED BY <1>1, <2>1, NodeSets
<1>6. Cardinality(u) < Cardinality(L) + 1 /\ Cardinality(L) + 1 <= Cardinality(w)
  BY <1>4, <1>5
<1>7. n \in A
  BY DEF A
<1> QED BY <1>6, <1>7 DEF IsKth, A, u, w

LEMMA KthBefore ==
    ASSUME NEW t, NEW s, NEW n, NEW L, NEW R, Parts(t, s, n, L, R),
           NEW i \in Int, NEW v, IsKth(t, L, s, i, v)
    PROVE  IsKth(t, {n} \cup L \cup R, s, i, v)
<1> DEFINE A == {n} \cup L \cup R
<1>1. /\ s \in Tree!Sides /\ Tree!Opposite(s) \in Tree!Sides /\ n \in Tree!TreeNodes /\ A \in SUBSET Tree!TreeNodes
      /\ L \in SUBSET Tree!TreeNodes
      /\ \A a \in A : t.val[a] \in Int
  BY RecordFields, SideFacts DEF Parts
<1>2. v \in Int /\ OnSide(s, v, t.val[n]) /\ t.val[n] \in Int
  BY <1>1 DEF IsKth, Parts
<1>3. Ahead(t, A, s, v) = Ahead(t, L, s, v)
  <2>1. OnSide(Tree!Opposite(s), t.val[n], v)
    BY <1>1, <1>2, OnSideFacts
  <2>2. \A a \in R : t.val[a] \in Int /\ OnSide(Tree!Opposite(s), t.val[a], t.val[n])
    BY <1>1 DEF Parts
  <2>3. \A a \in R : OnSide(Tree!Opposite(s), t.val[a], v)
    BY <1>1, <1>2, <2>1, <2>2, OnSideFacts
  <2> QED BY <2>1, <2>3 DEF Ahead
<1>4. NotBehind(t, L, s, v) \in SUBSET NotBehind(t, A, s, v) /\ NotBehind(t, A, s, v) \in SUBSET Tree!TreeNodes
  BY <1>1 DEF NotBehind
<1>5. Cardinality(NotBehind(t, L, s, v)) <= Cardinality(NotBehind(t, A, s, v))
      /\ Cardinality(NotBehind(t, L, s, v)) \in Nat /\ Cardinality(NotBehind(t, A, s, v)) \in Nat
  <2>1. NotBehind(t, L, s, v) \in SUBSET Tree!TreeNodes
    BY <1>4
  <2> QED BY <1>4, <2>1, NodeSets
<1>6. \E m \in A : t.val[m] = v
  BY DEF IsKth
<1> HIDE DEF A
<1>7. i <= Cardinality(NotBehind(t, A, s, v))
  BY <1>5 DEF IsKth
<1> QED BY <1>3, <1>6, <1>7 DEF IsKth, A

LEMMA KthBehind ==
    ASSUME NEW t, NEW s, NEW n, NEW L, NEW R, Parts(t, s, n, L, R),
           NEW i \in Int, NEW v, IsKth(t, R, s, i, v)
    PROVE  IsKth(t, {n} \cup L \cup R, s, i + Cardinality(L) + 1, v)
<1> DEFINE A == {n} \cup L \cup R
           u == Ahead(t, R, s, v)
           w == NotBehind(t, R, s, v)
<1>1. /\ s \in Tree!Sides /\ Tree!Opposite(s) \in Tree!Sides /\ n \in Tree!TreeNodes /\ A \in SUBSET Tree!TreeNodes
      /\ L \in SUBSET Tree!TreeNodes /\ R \in SUBSET Tree!TreeNodes /\ n \notin L /\ n \notin R /\ L \cap R = {}
      /\ \A a \in A : t.val[a] \in Int
  BY RecordFields, SideFacts DEF Parts
<1>2. v \in Int /\ OnSide(Tree!Opposite(s), v, t.val[n]) /\ t.val[n] \in Int
  BY <1>1 DEF IsKth, Parts
<1>3. Ahead(t, A, s, v) \subseteq (L \cup {n}) \cup u
  BY DEF Ahead
<1>4. (L \cup {n}) \cup w \subseteq NotBehind(t, A, s, v)
  <2>1. OnSide(s, t.val[n], v)
    BY <1>1, <1>2, OnSideFacts, SideFacts
  <2>2. \A a \in L : t.val[a] \in Int /\ OnSide(s, t.val[a], t.val[n])
    BY <1>1 DEF Parts
  <2>3. \A a \in L : OnSide(s, t.val[a], v)
    BY <1>1, <1>2, <2>1, <2>2, OnSideFacts
  <2> QED BY <2>1, <2>3 DEF NotBehind
<1>5. u \in SUBSET R /\ w \in SUBSET R /\ NotBehind(t, A, s, v) \in SUBSET A /\ Ahead(t, A, s, v) \in SUBSET A
  BY DEF Ahead, NotBehind
<1>6. \E m \in A : t.val[m] = v
  BY DEF IsKth
<1>7. Cardinality(u) < i /\ i <= Cardinality(w)
  BY DEF IsKth
<1> HIDE DEF A, u, w
<1>8. /\ Cardinality(L \cup {n}) = Cardinality(L) + 1
      /\ Cardinality((L \cup {n}) \cup u) = Cardinality(L \cup {n}) + Cardinality(u)
      /\ Cardinality((L \cup {n}) \cup w) = Cardinality(L \cup {n}) + Cardinality(w)
  <2>1. L \cup {n} \in SUBSET Tree!TreeNodes /\ (L \cup {n}) \cap u = {} /\ (L \cup {n}) \cap w = {}
        /\ u \in SUBSET Tree!TreeNodes /\ w \in SUBSET Tree!TreeNodes
    BY <1>1, <1>5
  <2> QED BY <1>1, <2>1, NodeSets
<1>9. /\ Cardinality(Ahead(t, A, s, v)) <= Cardinality((L \cup {n}) \cup u)
      /\ Cardinality((L \cup {n}) \cup w) <= Cardinality(NotBehind(t, A, s, v))
  <2>1. (L \cup {n}) \cup u \in SUBSET Tree!TreeNodes /\ NotBehind(t, A, s, v) \in SUBSET Tree!TreeNodes
    BY <1>1, <1>5
  <2> QED BY <1>3, <1>4, <2>1, NodeSets
<1>10. /\ Cardinality(L) \in Nat /\ Cardinality(u) \in Nat /\ Cardinality(w) \in Nat
       /\ Cardinality(Ahead(t, A, s, v)) \in Nat /\ Cardinality(NotBehind(t, A, s, v)) \in Nat
  <2>1. /\ u \in SUBSET Tree!TreeNodes /\ w \in SUBSET Tree!TreeNodes
        /\ Ahead(t, A, s, v) \in SUBSET Tree!TreeNodes /\ NotBehind(t, A, s, v) \in SUBSET Tree!TreeNodes
    BY <1>1, <1>5
  <2> QED BY <1>1, <2>1, NodeSets
<1>11. /\ Cardinality(Ahead(t, A, s, v)) < i + Cardinality(L) + 1
       /\ i + Cardinality(L) + 1 <= Cardinality(NotBehind(t, A, s, v))
  BY <1>7, <1>8, <1>9, <1>10
<1> QED BY <1>6, <1>11 DEF IsKth, A

\* The search on a search tree with right sizes, at one node and from the root.
FindsRight(t, below, s, f, n) ==
    \A i \in 1 .. Cardinality(below[n]) : IsKth(t, below[n], s, i, f[n][i])

LEMMA KthTurnRight ==
    ASSUME NEW t, NEW below, SearchesTree(t, below), Sorted(t, below), Sized(t, below),
           NEW s \in Tree!Sides, NEW f, IsFind(f, t, s), NEW n \in below[t.root],
           \A u \in Tree!Sides : t.child[u][n] # Tree!Nil => FindsRight(t, below, s, f, t.child[u][n])
    PROVE  FindsRight(t, below, s, f, n)
<1> DEFINE a == t.child[s][n]
           b == t.child[Tree!Opposite(s)][n]
           L == below[a]
           R == below[b]
<1>1. /\ t \in TreeRecords /\ TreeShape(t, below) /\ n \in Tree!TreeNodes /\ n \in Tree!Pointers /\ n # Tree!Nil
      /\ Tree!Opposite(s) \in Tree!Sides /\ Tree!Opposite(Tree!Opposite(s)) = s
  BY ShapeFacts, SideFacts DEF SearchesTree, TreeShape
<1>2. a \in Tree!Pointers /\ b \in Tree!Pointers /\ L \in SUBSET Tree!TreeNodes /\ R \in SUBSET Tree!TreeNodes
  <2>1. a \in Tree!Pointers /\ b \in Tree!Pointers
    BY <1>1, RecordFields
  <2> QED BY <2>1 DEF SearchesTree, TreeShape, Shape
<1>3. below[n] = {n} \cup L \cup R /\ L \cap R = {} /\ n \notin L /\ n \notin R
  BY <1>1 DEF TreeShape, Shape
<1>4. Parts(t, s, n, L, R)
  <2>1. /\ \A m \in L : OnSide(s, t.val[m], t.val[n])
        /\ \A m \in R : OnSide(Tree!Opposite(s), t.val[m], t.val[n])
    BY <1>1 DEF Sorted
  <2> QED BY <1>1, <1>2, <1>3, <2>1 DEF Parts
<1>5. Cardinality(L) \in Nat /\ Cardinality(R) \in Nat /\ Cardinality(below[n]) = Cardinality(L) + Cardinality(R) + 1
  <2> HIDE DEF L, R
  <2>1. Cardinality(L \cup R) = Cardinality(L) + Cardinality(R) /\ Cardinality(L) \in Nat /\ Cardinality(R) \in Nat
    BY <1>2, <1>3, NodeSets
  <2>2. Cardinality((L \cup R) \cup {n}) = Cardinality(L \cup R) + 1
    <3>1. L \cup R \in SUBSET Tree!TreeNodes /\ n \notin L \cup R
      BY <1>2, <1>3
    <3> QED BY <3>1, NodeSets
  <2>3. below[n] = (L \cup R) \cup {n}
    BY <1>3
  <2> QED BY <2>1, <2>2, <2>3
<1>6. Tree!nodeSize(t, a) = Cardinality(L)
  <2>1. CASE a = Tree!Nil
    BY <1>1, <2>1, BelowSize DEF Tree!nodeSize, TreeShape
  <2>2. CASE a # Tree!Nil
    <3>1. a \in below[t.root]
      BY <1>1, <2>2 DEF TreeShape, Shape
    <3> QED BY <2>2, <3>1 DEF Tree!nodeSize, Sized, SizeRight
  <2> QED BY <2>1, <2>2
<1>7. ASSUME NEW u \in Tree!Sides, NEW i \in 1 .. Cardinality(below[t.child[u][n]])
      PROVE  IsKth(t, below[t.child[u][n]], s, i, f[t.child[u][n]][i])
  <2>1. t.child[u][n] # Tree!Nil
    <3>1. Cardinality(below[Tree!Nil]) = 0
      BY <1>1, BelowSize DEF TreeShape
    <3> QED BY <1>7, <3>1
  <2> QED BY <1>7, <2>1 DEF FindsRight
<1> SUFFICES ASSUME NEW i \in 1 .. Cardinality(below[n]) PROVE IsKth(t, below[n], s, i, f[n][i])
  BY DEF FindsRight
<1>8. f[n][i] = IF i = Cardinality(L) + 1 THEN t.val[n]
                ELSE IF i <= Cardinality(L) THEN f[a][i] ELSE f[b][i - Cardinality(L) - 1]
  <2>1. i \in Int
    OBVIOUS
  <2>2. f[n][i] = KthTurn(t, s, f, n, i)
    BY <1>1, <2>1, FindValue
  <2> HIDE DEF L
  <2> QED BY <1>1, <1>6, <2>2 DEF KthTurn
<1>9. CASE i = Cardinality(L) + 1
  <2>1. IsKth(t, {n} \cup L \cup R, s, Cardinality(L) + 1, t.val[n])
    BY <1>4, KthAtNode
  <2> HIDE DEF L, R, a, b
  <2> QED BY <1>3, <1>8, <1>9, <2>1
<1>10. CASE i <= Cardinality(L)
  <2>1. i \in 1 .. Cardinality(L) /\ i # Cardinality(L) + 1 /\ i \in Int
    <3> HIDE DEF L
    <3> QED BY <1>5, <1>10
  <2>2. IsKth(t, L, s, i, f[a][i])
    BY <1>7, <2>1
  <2>3. IsKth(t, {n} \cup L \cup R, s, i, f[a][i])
    <3> HIDE DEF L, R, a, b
    <3> QED BY <1>4, <2>1, <2>2, KthBefore
  <2> HIDE DEF L, R, a, b
  <2> QED BY <1>3, <1>8, <1>10, <2>1, <2>3
<1>11. CASE i > Cardinality(L) + 1
  <2> DEFINE j == i - Cardinality(L) - 1
  <2>1. j \in 1 .. Cardinality(R) /\ j \in Int /\ j + Cardinality(L) + 1 = i
        /\ i # Cardinality(L) + 1 /\ ~(i <= Cardinality(L))
    <3> HIDE DEF L, R
    <3> QED BY <1>5, <1>11
  <2> HIDE DEF j
  <2>2. IsKth(t, R, s, j, f[b][j])
    BY <1>1, <1>7, <2>1
  <2>3. IsKth(t, {n} \cup L \cup R, s, j + Cardinality(L) + 1, f[b][j])
    <3> HIDE DEF L, R, a, b
    <3> QED BY <1>4, <2>1, <2>2, KthBehind
  <2>4. f[n][i] = f[b][j]
    <3> HIDE DEF L, R, a, b
    <3> QED BY <1>8, <2>1 DEF j
  <2> HIDE DEF L, R, a, b
  <2> QED BY <1>3, <2>1, <2>3, <2>4
<1>12. i = Cardinality(L) + 1 \/ i <= Cardinality(L) \/ i > Cardinality(L) + 1
  <2> HIDE DEF L
  <2> QED BY <1>5
<1> QED BY <1>9, <1>10, <1>11, <1>12

\* kthSmallest and findKthLargest find the value at the place asked for.
LEMMA KthIsRight ==
    ASSUME NEW t, NEW below, SearchesTree(t, below), Sorted(t, below), Sized(t, below),
           NEW s \in Tree!Sides, NEW k \in 1 .. Cardinality(below[t.root])
    PROVE  IsKth(t, below[t.root], s, k, Tree!Kth(t, s, k))
<1> DEFINE f == CHOOSE g : IsFind(g, t, s)
<1>1. IsFind(f, t, s)
  BY FindExists
<1>2. Tree!Kth(t, s, k) = f[t.root][k]
  BY KthOperators
<1> HIDE DEF f
<1>3. t \in TreeRecords /\ TreeShape(t, below) /\ MaxNodes \in Nat
  BY StructuresAssumption DEF SearchesTree
<1>4. \A n \in below[t.root] : below[n] \in SUBSET Tree!TreeNodes /\ Cardinality(below[n]) \in 0 .. MaxNodes
  <2>1. \A n \in below[t.root] : below[n] \in SUBSET Tree!TreeNodes
    BY <1>3, ShapeFacts DEF TreeShape
  <2> QED BY <1>3, <2>1, BelowSize DEF TreeShape
<1> DEFINE D == {d \in Nat : \A n \in below[t.root] : Cardinality(below[n]) <= d => FindsRight(t, below, s, f, n)}
<1>5. 0 \in D
  <2> SUFFICES ASSUME NEW n \in below[t.root], Cardinality(below[n]) <= 0 PROVE FindsRight(t, below, s, f, n)
    OBVIOUS
  <2>1. \A i \in 1 .. Cardinality(below[n]) : FALSE
    BY <1>4
  <2> QED BY <2>1 DEF FindsRight
<1>6. ASSUME NEW d \in 0 .. MaxNodes - 1, d \in D PROVE d + 1 \in D
  <2> SUFFICES ASSUME NEW n \in below[t.root], Cardinality(below[n]) <= d + 1
               PROVE  FindsRight(t, below, s, f, n)
    OBVIOUS
  <2>1. ASSUME NEW u \in Tree!Sides, t.child[u][n] # Tree!Nil
        PROVE  FindsRight(t, below, s, f, t.child[u][n])
    <3>1. t.child[u][n] \in below[t.root]
      BY <1>3, <2>1 DEF TreeShape, Shape
    <3>2. Cardinality(below[t.child[u][n]]) < Cardinality(below[n])
      BY <1>3, <2>1, ChildSmaller DEF TreeShape
    <3>3. Cardinality(below[t.child[u][n]]) <= d
      BY <1>4, <3>1, <3>2
    <3> QED BY <1>6, <3>1, <3>3
  <2> HIDE DEF D
  <2> QED BY <1>1, <2>1, KthTurnRight
<1>7. MaxNodes \in D
  <2> HIDE DEF D
  <2>1. \A d \in 0 .. MaxNodes : d \in D
    BY <1>3, <1>5, <1>6, UpTo
  <2> QED BY <1>3, <2>1
<1>8. t.root \in below[t.root]
  <2>1. t.root # Tree!Nil
    <3>1. Cardinality(below[Tree!Nil]) = 0
      BY <1>3, BelowSize DEF TreeShape
    <3> QED BY <3>1
  <2> QED BY <1>3, <2>1 DEF TreeShape, Shape
<1>9. FindsRight(t, below, s, f, t.root)
  BY <1>4, <1>7, <1>8
<1> QED BY <1>2, <1>9 DEF FindsRight

\* In a search tree whose values differ, as many values are ahead as there are nodes.
LEMMA ValuesDiffer ==
    ASSUME NEW t, NEW below, SearchTree(t, below)
    PROVE  \A m, n \in below[t.root] : t.val[m] = t.val[n] => m = n
<1> DEFINE A == 1 .. t.count
           f == [n \in A |-> t.val[n]]
<1>1. t \in TreeRecords /\ below[t.root] = A /\ Cardinality(Vals(t)) = t.count /\ t.count \in Nat
  BY RecordFields DEF SearchTree
<1>2. IsFiniteSet(A) /\ Cardinality(A) = t.count
  <2>1. 1 \in Int /\ t.count \in Int /\ t.count \in Nat
    BY <1>1
  <2> QED BY SMTT(60), <2>1, FS_Interval
<1>3. f \in Surjection(A, Vals(t))
  BY DEF Surjection, Vals
<1> HIDE DEF f, A
<1>4. f \in Injection(A, Vals(t))
  BY <1>1, <1>2, <1>3, FS_Surjection
<1>5. \A m, n \in A : f[m] = f[n] => m = n
  BY <1>4 DEF Injection, IsInjective
<1>6. \A n \in A : f[n] = t.val[n]
  BY DEF f
<1> QED BY <1>1, <1>5, <1>6

LEMMA ThirdValue ==
    ASSUME NEW t, NEW below, SearchTree(t, below), Sized(t, below), t.root # Tree!Nil,
           NEW k \in 1 .. t.count, NEW v, v = Tree!Kth(t, "right", k)
    PROVE  v \in Vals(t) /\ Cardinality({m \in Vals(t) : m > v}) = k - 1
<1> DEFINE A == below[t.root]
           u == Ahead(t, A, "right", v)
           w == NotBehind(t, A, "right", v)
<1>1. t \in TreeRecords /\ Fresh(t) /\ TreeShape(t, below) /\ Sorted(t, below) /\ A = 1 .. t.count /\ t.count \in Nat
  BY RecordFields DEF SearchTree
<1>2. SearchesTree(t, below)
  <2>1. \A n \in Tree!TreeNodes \ A : n > t.count
    BY <1>1 DEF Tree!TreeNodes
  <2> QED BY <1>1, <2>1 DEF SearchesTree, Fresh
<1>3. Cardinality(A) = t.count
  <2>1. 1 \in Int /\ t.count \in Int /\ t.count \in Nat
    BY <1>1
  <2>2. Cardinality(1 .. t.count) = t.count
    BY <2>1, FS_Interval
  <2> QED BY <1>1, <2>2
<1>4. IsKth(t, A, "right", k, v)
  <2>1. k \in 1 .. Cardinality(below[t.root])
    BY <1>3
  <2> QED BY <1>1, <1>2, <2>1, LeftRight, KthIsRight
<1>5. PICK m \in A : t.val[m] = v
  BY <1>4 DEF IsKth
<1>6. A \in SUBSET Tree!TreeNodes /\ \A n \in A : t.val[n] \in Int
  <2>1. A \in SUBSET Tree!TreeNodes
    BY <1>1, ShapeFacts DEF TreeShape
  <2> QED BY <1>1, <2>1, RecordFields
<1>7. \A n \in A : /\ n \in u <=> t.val[n] > v
                   /\ n \in w <=> t.val[n] >= v
  BY <1>5, <1>6, LeftRight DEF Ahead, NotBehind, OnSide
<1>8. u \in SUBSET A /\ w \in SUBSET A
  BY DEF Ahead, NotBehind
<1>9. w = u \cup {m} /\ m \notin u
  <2> HIDE DEF u, w, A
  <2>1. \A n \in A : t.val[n] = v => n = m
    BY <1>5, ValuesDiffer DEF A
  <2> QED BY <1>5, <1>6, <1>7, <1>8, <2>1
<1>10. Cardinality(u) < k /\ k <= Cardinality(w)
  BY <1>4 DEF IsKth
<1> DEFINE f == [n \in u |-> t.val[n]]
           T == {e \in Vals(t) : e > v}
<1>11. f \in Surjection(u, T)
  <2>1. \A n \in u : f[n] \in T
    <3> HIDE DEF u
    <3> QED BY <1>1, <1>7, <1>8 DEF Vals
  <2>2. \A e \in T : \E n \in u : f[n] = e
    <3> HIDE DEF u
    <3> QED BY <1>1, <1>7 DEF Vals
  <2> HIDE DEF T, u
  <2> QED BY <2>1, <2>2 DEF Surjection
<1>12. \A a, b \in u : f[a] = f[b] => a = b
  <2>1. \A a, b \in A : t.val[a] = t.val[b] => a = b
    BY ValuesDiffer
  <2> HIDE DEF u, A
  <2> QED BY <1>8, <2>1
<1> HIDE DEF A, u, w, f, T
<1>13. Cardinality(w) = Cardinality(u) + 1 /\ IsFiniteSet(u) /\ Cardinality(u) \in Nat
  <2>1. u \in SUBSET Tree!TreeNodes
    BY <1>6, <1>8
  <2> QED BY <1>9, <2>1, NodeSets
<1>14. Cardinality(u) = k - 1
  BY <1>10, <1>13
<1>15. Cardinality(T) = Cardinality(u)
  <2>1. f \in Injection(u, T)
    BY <1>11, <1>12 DEF Injection, IsInjective, Surjection
  <2> QED BY <1>11, <1>13, <2>1, FS_Surjection
<1>16. v \in Vals(t)
  BY <1>1, <1>5 DEF Vals, A
<1> QED BY <1>14, <1>15, <1>16 DEF T

\* Once the answer is given it is right.
ThirdAnswered == ThirdInv /\ ThirdMaxIsRight

LEMMA AnswerIsRight == ASSUME ThirdInv, Third!Answer PROVE ThirdMaxIsRight'
<1> DEFINE k == Third!Place(tTree.count)
<1>1. PICK below : ThirdGood(tTree, tPc, tVal, tX, tY, tZ, tSeen, below)
  BY DEF ThirdInv
<1>2. /\ tPc = "idle" /\ tTree.root # Tree!Nil /\ tSeen' = tSeen
      /\ tResult' = Tree!Kth(tTree, "right", Third!Place(Tree!nodeSize(tTree, tTree.root)))
  BY ThirdOperators, KthOperators DEF Third!Answer
<1>3. SearchTree(tTree, below) /\ Sized(tTree, below) /\ tSeen = Vals(tTree)
  BY <1>1, <1>2 DEF ThirdGood
<1>4. /\ tTree \in TreeRecords /\ TreeShape(tTree, below) /\ below[tTree.root] = 1 .. tTree.count
      /\ Cardinality(Vals(tTree)) = tTree.count /\ tTree.count \in Nat
  BY <1>3, RecordFields DEF SearchTree
<1>5. tTree.root \in below[tTree.root]
  BY <1>2, <1>4 DEF TreeShape, Shape
<1>6. Tree!nodeSize(tTree, tTree.root) = tTree.count
  <2>1. 1 \in Int /\ tTree.count \in Int /\ tTree.count \in Nat
    BY <1>4
  <2>2. Cardinality(below[tTree.root]) = tTree.count
    BY <1>4, <2>1, FS_Interval
  <2> QED BY <1>2, <1>3, <1>5, <2>2 DEF Tree!nodeSize, Sized, SizeRight
<1>7. tTree.count >= 1
  BY <1>4, <1>5
<1>8. k \in 1 .. tTree.count /\ k - 1 = (IF tTree.count < 3 THEN 0 ELSE 2)
  BY <1>4, <1>7 DEF Third!Place
<1> HIDE DEF k
<1>9. tResult' = Tree!Kth(tTree, "right", k)
  BY <1>2, <1>6 DEF k
<1>10. tResult' \in Vals(tTree) /\ Cardinality({m \in Vals(tTree) : m > tResult'}) = k - 1
  BY <1>2, <1>3, <1>8, <1>9, ThirdValue
<1>11. \A S : Third!Cardinality(S) = Cardinality(S)
  BY DEF Third!Cardinality, Cardinality
<1>12. /\ tResult' \in tSeen'
       /\ Cardinality({m \in tSeen' : m > tResult'}) = IF Cardinality(tSeen') < 3 THEN 0 ELSE 2
  BY <1>2, <1>3, <1>4, <1>8, <1>10
<1> QED BY <1>11, <1>12 DEF ThirdMaxIsRight, Third!ThirdMaxIsRight, Third!Above

\* The number that src/414.c ends with is the third largest of the distinct numbers of the
\* array, or the largest if there are fewer than three, for any array: the search by
\* sizes is right although the fixup has not kept the tree balanced.
THEOREM ThirdMaxCorrect == StructuresSpec => []ThirdMaxIsRight
<1>1. StructuresInit => ThirdAnswered
  <2> SUFFICES ASSUME StructuresInit PROVE ThirdAnswered
    OBVIOUS
  <2>1. Third!Init
    BY DEF StructuresInit
  <2>2. tPc = "idle"
    BY <2>1 DEF Third!Init
  <2> QED BY <2>1, <2>2, InitThirdInv DEF ThirdAnswered, ThirdMaxIsRight, Third!ThirdMaxIsRight
<1>2. ThirdAnswered /\ [StructuresNext]_structureVars => ThirdAnswered'
  <2> SUFFICES ASSUME ThirdAnswered, [StructuresNext]_structureVars PROVE ThirdAnswered'
    OBVIOUS
  <2>1. Third!Next \/ UNCHANGED tVars
    BY DEF StructuresNext, structureVars
  <2>2. [Third!Next]_(Third!vars)
    BY <2>1 DEF tVars, Third!vars
  <2>3. ThirdInv /\ ThirdInv'
    BY <2>2, NextThirdInv DEF ThirdAnswered
  <2>4. ThirdMaxIsRight'
    <3>1. CASE Third!Answer
      BY <2>3, <3>1, AnswerIsRight
    <3>2. CASE UNCHANGED tVars
      BY <3>2 DEF tVars, ThirdAnswered, ThirdMaxIsRight, Third!ThirdMaxIsRight, Third!Above
    <3>3. CASE Third!Next /\ ~Third!Answer
      <4>1. tPc' # "done"
        <5>1. CASE \E num \in Distinct : Third!insertValue(num)
          BY <5>1 DEF Third!insertValue
        <5>2. CASE Third!Descend \/ Third!Duplicate \/ Third!Attach \/ Third!Climb \/ Third!Climbed
          BY <5>2 DEF Third!Descend, Third!Duplicate, Third!Attach, Third!Climb, Third!Climbed
        <5>3. CASE Third!Recolour \/ Third!TurnParent \/ Third!TurnGrandparent
          BY <5>3 DEF Third!Recolour, Third!TurnParent, Third!TurnGrandparent, Third!Clash
        <5>4. CASE Third!Fixed
          BY <5>4 DEF Third!Fixed
        <5> QED BY <3>3, <5>1, <5>2, <5>3, <5>4 DEF Third!Next
      <4> QED BY <4>1 DEF ThirdMaxIsRight, Third!ThirdMaxIsRight
    <3> QED BY <2>1, <3>1, <3>2, <3>3
  <2> QED BY <2>3, <2>4 DEF ThirdAnswered
<1>3. ThirdAnswered => ThirdMaxIsRight
  BY DEF ThirdAnswered
<1> QED BY <1>1, <1>2, <1>3, PTL DEF StructuresSpec

-----------------------------------------------------------------------------
\* The median.  A sum over a set of numbers, as MapThenSumSet computes it, and how often a
\* number is the value of one of the nodes of A.
IsSum(f, times, S) ==
    f = [A \in SUBSET S |-> IF A = {} THEN 0
                            ELSE LET v == CHOOSE w \in A : TRUE IN times[v] + f[A \ {v}]]
Sum(times, S) == (CHOOSE f : IsSum(f, times, S))[S]
HowOften(val, A) == [v \in Numbers |-> Cardinality({n \in A : val[n] = v})]
Counted(val, A, S) == Cardinality({n \in A : val[n] \in S})

LEMMA CountedType ==
    ASSUME NEW val, NEW A \in SUBSET Tree!TreeNodes
    PROVE  /\ \A S : Counted(val, A, S) \in Nat
           /\ \A v \in Numbers : HowOften(val, A)[v] \in Nat
           /\ Counted(val, A, {}) = 0
<1>1. ASSUME NEW S PROVE Counted(val, A, S) \in Nat
  <2>1. {n \in A : val[n] \in S} \in SUBSET Tree!TreeNodes
    OBVIOUS
  <2> QED BY <2>1, NodeSets DEF Counted
<1>2. ASSUME NEW v \in Numbers PROVE HowOften(val, A)[v] \in Nat
  <2>1. {n \in A : val[n] = v} \in SUBSET Tree!TreeNodes
    OBVIOUS
  <2> QED BY <2>1, NodeSets DEF HowOften
<1>3. {n \in A : val[n] \in {}} = {}
  OBVIOUS
<1>4. Counted(val, A, {}) = 0
  BY <1>3, FS_EmptySet DEF Counted
<1> QED BY <1>1, <1>2, <1>4

LEMMA CountedOnce ==
    ASSUME NEW val, NEW A \in SUBSET Tree!TreeNodes, NEW S \in SUBSET Numbers, NEW v \in S
    PROVE  Counted(val, A, S) = HowOften(val, A)[v] + Counted(val, A, S \ {v})
<1> DEFINE B == {n \in A : val[n] \in S}
           C == {n \in A : val[n] = v}
           D == {n \in A : val[n] \in S \ {v}}
<1>1. B = C \cup D /\ C \cap D = {} /\ C \in SUBSET Tree!TreeNodes /\ D \in SUBSET Tree!TreeNodes
  OBVIOUS
<1>2. HowOften(val, A)[v] = Cardinality(C) /\ Counted(val, A, S) = Cardinality(B)
      /\ Counted(val, A, S \ {v}) = Cardinality(D)
  BY DEF HowOften, Counted
<1> HIDE DEF B, C, D
<1> QED BY <1>1, <1>2, NodeSets

LEMMA SumIs ==
    ASSUME NEW val, NEW A \in SUBSET Tree!TreeNodes, NEW S \in SUBSET Numbers, IsFiniteSet(S)
    PROVE  Sum(HowOften(val, A), S) = Counted(val, A, S)
<1>0. ASSUME NEW B \in SUBSET S, NEW v \in B
      PROVE  Counted(val, A, B) = HowOften(val, A)[v] + Counted(val, A, B \ {v})
  <2>1. v \in Numbers /\ B \in SUBSET Numbers
    OBVIOUS
  <2>2. Counted(val, A, B) \in Nat /\ Counted(val, A, B \ {v}) \in Nat /\ HowOften(val, A)[v] \in Nat
    BY <2>1, CountedType
  <2> QED BY <2>1, <2>2, CountedOnce
<1> DEFINE times == HowOften(val, A)
           g == [B \in SUBSET S |-> Counted(val, A, B)]
           f == CHOOSE h : IsSum(h, times, S)
<1>1. \A B \in SUBSET S : \A v \in B : Counted(val, A, B) = times[v] + Counted(val, A, B \ {v})
  <2> HIDE DEF f, g
  <2> QED BY <1>0
<1>2. Counted(val, A, {}) = 0
  BY CountedType
<1> HIDE DEF times
<1>3. IsSum(g, times, S)
  <2>1. ASSUME NEW B \in SUBSET S, B # {}
        PROVE  g[B] = LET v == CHOOSE w \in B : TRUE IN times[v] + g[B \ {v}]
    <3> DEFINE v == CHOOSE w \in B : TRUE
    <3>1. v \in B
      BY <2>1
    <3> HIDE DEF v
    <3>2. B \ {v} \in SUBSET S
      OBVIOUS
    <3>3. g[B] = times[v] + g[B \ {v}]
      <4>1. g[B] = Counted(val, A, B) /\ g[B \ {v}] = Counted(val, A, B \ {v})
        BY <3>2
      <4> HIDE DEF g
      <4> QED BY <1>1, <3>1, <4>1
    <3> QED BY <3>3 DEF v
  <2>2. {} \in SUBSET S /\ g[{}] = 0
    BY <1>2
  <2>3. g = [B \in SUBSET S |-> g[B]]
    OBVIOUS
  <2> HIDE DEF g
  <2> QED BY <2>1, <2>2, <2>3 DEF IsSum
<1>4. IsSum(f, times, S)
  <2> HIDE DEF g
  <2> QED BY <1>3
<1>5. Sum(times, S) = f[S]
  BY DEF Sum
<1> HIDE DEF f, g
<1>6. f[{}] = 0 /\ \A B \in SUBSET S : B # {} => \E v \in B : f[B] = times[v] + f[B \ {v}]
  <2>1. f[{}] = 0
    BY <1>4 DEF IsSum
  <2>2. ASSUME NEW B \in SUBSET S, B # {} PROVE \E v \in B : f[B] = times[v] + f[B \ {v}]
    <3> DEFINE v == CHOOSE w \in B : TRUE
    <3>1. v \in B
      BY <2>2
    <3>2. f[B] = times[v] + f[B \ {v}]
      BY <1>4, <2>2 DEF IsSum
    <3> HIDE DEF v
    <3> QED BY <3>1, <3>2
  <2> QED BY <2>1, <2>2
<1>7. \A B \in SUBSET S : IsFiniteSet(B) /\ Cardinality(B) \in Nat /\ Cardinality(B) <= Cardinality(S)
  BY FS_Subset, FS_CardinalityType
<1> DEFINE D == {d \in Nat : \A B \in SUBSET S : Cardinality(B) <= d => f[B] = Counted(val, A, B)}
<1>8. 0 \in D
  <2> SUFFICES ASSUME NEW B \in SUBSET S, Cardinality(B) <= 0 PROVE f[B] = Counted(val, A, B)
    OBVIOUS
  <2>1. Cardinality(B) = 0
    BY <1>7
  <2>2. B = {}
    BY <1>7, <2>1, FS_EmptySet
  <2> QED BY <1>2, <1>6, <2>2
<1>9. ASSUME NEW d \in Nat, d \in D PROVE d + 1 \in D
  <2> SUFFICES ASSUME NEW B \in SUBSET S, Cardinality(B) <= d + 1 PROVE f[B] = Counted(val, A, B)
    OBVIOUS
  <2> SUFFICES ASSUME B # {} PROVE f[B] = Counted(val, A, B)
    BY <1>2, <1>6
  <2>1. PICK v \in B : f[B] = times[v] + f[B \ {v}]
    BY <1>6
  <2>2. B \ {v} \in SUBSET S /\ Cardinality(B \ {v}) = Cardinality(B) - 1
    <3>1. IsFiniteSet(B)
      BY <1>7
    <3> QED BY <3>1, FS_RemoveElement
  <2>3. Cardinality(B \ {v}) <= d
    BY <1>7, <2>2
  <2>4. f[B \ {v}] = Counted(val, A, B \ {v})
    BY <1>9, <2>2, <2>3
  <2> QED BY <1>1, <2>1, <2>4
<1>10. Cardinality(S) \in Nat
  BY <1>7
<1>11. Cardinality(S) \in D
  <2> HIDE DEF D
  <2>1. \A d \in 0 .. Cardinality(S) - 1 : d \in D => d + 1 \in D
    BY <1>9
  <2>2. \A d \in 0 .. Cardinality(S) : d \in D
    BY <1>8, <1>10, <2>1, UpTo
  <2> QED BY <1>10, <2>2
<1> QED BY <1>5, <1>7, <1>11 DEF times

\* The place in the order is the place among the numbers added.
PlaceAmong(times, k, v) ==
    /\ Sum(times, {w \in Numbers : w <= v}) >= k
    /\ Sum(times, {w \in Numbers : w <= v}) - times[v] < k

LEMMA SumsBelow ==
    ASSUME IsFiniteSet(Numbers), NEW t \in TreeRecords, NEW A \in SUBSET Tree!TreeNodes,
           \A n \in A : t.val[n] \in Numbers, NEW v \in Numbers
    PROVE  /\ Sum(HowOften(t.val, A), {w \in Numbers : w <= v}) = Cardinality(NotBehind(t, A, "left", v))
           /\ Sum(HowOften(t.val, A), {w \in Numbers : w <= v}) - HowOften(t.val, A)[v]
                = Cardinality(Ahead(t, A, "left", v))
           /\ Cardinality(NotBehind(t, A, "left", v)) \in Nat /\ Cardinality(Ahead(t, A, "left", v)) \in Nat
<1> DEFINE S == {w \in Numbers : w <= v}
           u == Ahead(t, A, "left", v)
           w2 == NotBehind(t, A, "left", v)
           C == {n \in A : t.val[n] = v}
<1>1. v \in Int /\ \A n \in A : t.val[n] \in Int
  BY RecordFields, StructuresAssumption
<1>2. u = {n \in A : t.val[n] < v} /\ w2 = {n \in A : t.val[n] <= v}
  BY <1>1, LeftRight DEF Ahead, NotBehind, OnSide
<1>3. {n \in A : t.val[n] \in S} = w2
  BY <1>2
<1>4. w2 = u \cup C /\ u \cap C = {}
  BY <1>1, <1>2
<1>5. u \in SUBSET Tree!TreeNodes /\ C \in SUBSET Tree!TreeNodes /\ w2 \in SUBSET Tree!TreeNodes
  BY <1>2
<1>6. HowOften(t.val, A)[v] = Cardinality(C)
  BY DEF HowOften
<1>7. Sum(HowOften(t.val, A), S) = Cardinality(w2)
  <2>1. S \in SUBSET Numbers /\ IsFiniteSet(S)
    BY FS_Subset
  <2>2. Counted(t.val, A, S) = Cardinality(w2)
    BY <1>3 DEF Counted
  <2> HIDE DEF S, w2
  <2> QED BY <2>1, <2>2, SumIs
<1> HIDE DEF u, w2, C, S
<1>8. Cardinality(w2) = Cardinality(u) + Cardinality(C) /\ Cardinality(w2) \in Nat /\ Cardinality(u) \in Nat /\ Cardinality(C) \in Nat
  BY <1>4, <1>5, NodeSets
<1>9. Cardinality(w2) - Cardinality(C) = Cardinality(u)
  BY <1>8
<1>10. Sum(HowOften(t.val, A), S) - HowOften(t.val, A)[v] = Cardinality(u)
  BY <1>6, <1>7, <1>9
<1> QED BY <1>7, <1>8, <1>10 DEF S, u, w2

LEMMA KthAmong ==
    ASSUME IsFiniteSet(Numbers), NEW t \in TreeRecords, NEW A \in SUBSET Tree!TreeNodes,
           \A n \in A : t.val[n] \in Numbers, NEW k \in Int, NEW v, IsKth(t, A, "left", k, v)
    PROVE  v = CHOOSE u \in Numbers : PlaceAmong(HowOften(t.val, A), k, u)
<1> DEFINE times == HowOften(t.val, A)
<1>1. v \in Numbers
  BY DEF IsKth
<1>2. \A u \in Numbers : /\ PlaceAmong(times, k, u) <=> /\ Cardinality(NotBehind(t, A, "left", u)) >= k
                                                       /\ Cardinality(Ahead(t, A, "left", u)) < k
                         /\ Cardinality(NotBehind(t, A, "left", u)) \in Nat
                         /\ Cardinality(Ahead(t, A, "left", u)) \in Nat
  BY SumsBelow DEF PlaceAmong
<1>3. PlaceAmong(times, k, v)
  <2> HIDE DEF times
  <2> QED BY <1>1, <1>2 DEF IsKth
<1>4. ASSUME NEW u \in Numbers, NEW w \in Numbers, u < w
      PROVE  ~(PlaceAmong(times, k, u) /\ PlaceAmong(times, k, w))
  <2>1. NotBehind(t, A, "left", u) \subseteq Ahead(t, A, "left", w)
    <3>1. u \in Int /\ w \in Int /\ \A n \in A : t.val[n] \in Int
      BY RecordFields, StructuresAssumption
    <3> QED BY <1>4, <3>1, LeftRight DEF Ahead, NotBehind, OnSide
  <2>2. Ahead(t, A, "left", w) \in SUBSET Tree!TreeNodes
    BY DEF Ahead
  <2>3. Cardinality(NotBehind(t, A, "left", u)) <= Cardinality(Ahead(t, A, "left", w))
    BY <2>1, <2>2, NodeSets
  <2> HIDE DEF times
  <2> QED BY <1>2, <2>3
<1> HIDE DEF times
<1>5. \A u \in Numbers : PlaceAmong(times, k, u) => u = v
  <2>1. \A u \in Numbers : u \in Int
    BY StructuresAssumption
  <2> QED BY <1>1, <1>3, <1>4, <2>1
<1>6. v = CHOOSE u \in Numbers : PlaceAmong(times, k, u)
  BY <1>1, <1>3, <1>5
<1> QED BY <1>6 DEF times

\* What the finder holds for MedianStore: the nodes in the tree, which are all but the one
\* a search is under way for, and their values are numbers it was given.
Held(t, pc) == IF pc = "descend" THEN 1 .. t.count - 1 ELSE 1 .. t.count
MedianHolds == MedianInv /\ \A n \in 1 .. mTree.count : mTree.val[n] \in Numbers

LEMMA HeldFacts ==
    ASSUME NEW t, NEW pc, NEW x, NEW y, NEW z, NEW below, NEW black, MedianGood(t, pc, x, y, z, below, black)
    PROVE  /\ t \in TreeRecords /\ t.count \in Nat /\ TreeShape(t, below)
           /\ below[t.root] = Held(t, pc) /\ Held(t, pc) \in SUBSET Tree!TreeNodes
           /\ Median!TimesIn(t) = HowOften(t.val, Held(t, pc))
<1>1. t \in TreeRecords /\ t.count \in Nat /\ TreeShape(t, below)
  BY RecordFields DEF MedianGood, RedBlackTree, Counting
<1>2. below[t.root] = Held(t, pc)
  BY DEF MedianGood, Held
<1>3. Held(t, pc) \in SUBSET Tree!TreeNodes
  <2>1. \A n \in below[t.root] : n \in Tree!TreeNodes
    BY <1>1, ShapeFacts DEF TreeShape
  <2> QED BY <1>2, <2>1
<1>4. Median!Members(t) = Held(t, pc)
  BY <1>1, <1>2, MembersIs, MedianOperators
<1>5. \A S : Median!Cardinality(S) = Cardinality(S)
  BY DEF Median!Cardinality, Cardinality
<1>6. Median!TimesIn(t) = HowOften(t.val, Held(t, pc))
  BY <1>4, <1>5 DEF Median!TimesIn, HowOften
<1> QED BY <1>1, <1>2, <1>3, <1>6

LEMMA HowOftenAdds ==
    ASSUME NEW val, NEW A \in SUBSET Tree!TreeNodes, NEW z \in Tree!TreeNodes, z \notin A, val[z] \in Numbers
    PROVE  HowOften(val, A \cup {z}) = [HowOften(val, A) EXCEPT ![val[z]] = @ + 1]
<1>1. ASSUME NEW v \in Numbers
      PROVE  HowOften(val, A \cup {z})[v] = IF v = val[z] THEN HowOften(val, A)[v] + 1 ELSE HowOften(val, A)[v]
  <2> DEFINE B == {n \in A : val[n] = v}
             C == {n \in A \cup {z} : val[n] = v}
  <2>1. HowOften(val, A)[v] = Cardinality(B) /\ HowOften(val, A \cup {z})[v] = Cardinality(C)
    BY DEF HowOften
  <2>2. CASE v = val[z]
    <3>1. C = B \cup {z} /\ z \notin B /\ B \in SUBSET Tree!TreeNodes
      BY <2>2
    <3> HIDE DEF B, C
    <3> QED BY <2>1, <2>2, <3>1, NodeSets
  <2>3. CASE v # val[z]
    <3>1. C = B
      BY <2>3
    <3> QED BY <2>1, <2>3, <3>1
  <2> QED BY <2>2, <2>3
<1>2. HowOften(val, A \cup {z}) = [v \in Numbers |-> HowOften(val, A \cup {z})[v]]
      /\ HowOften(val, A) = [v \in Numbers |-> HowOften(val, A)[v]]
  BY DEF HowOften
<1> QED BY <1>1, <1>2

LEMMA HowOftenSame ==
    ASSUME NEW val, NEW val2, NEW A, \A n \in A : val[n] = val2[n]
    PROVE  HowOften(val, A) = HowOften(val2, A)
<1>1. \A v \in Numbers : {n \in A : val[n] = v} = {n \in A : val2[n] = v}
  OBVIOUS
<1> QED BY <1>1 DEF HowOften

\* The numbers held after a step.
StillHolds == \A n \in 1 .. mTree'.count : mTree'.val[n] \in Numbers
StoreSame == Median!TimesIn(mTree') = Median!TimesIn(mTree)

LEMMA TurnIsStutter ==
    ASSUME MedianHolds, MedianInv', SameNumbers, mPc = "descend" <=> mPc' = "descend"
    PROVE  StillHolds /\ StoreSame
<1>1. PICK below, black : MedianGood(mTree, mPc, mX, mY, mZ, below, black)
  BY DEF MedianInv, MedianHolds
<1>2. PICK below2, black2 : MedianGood(mTree', mPc', mX', mY', mZ', below2, black2)
  BY DEF MedianInv
<1>3. Median!TimesIn(mTree) = HowOften(mTree.val, Held(mTree, mPc))
  BY <1>1, HeldFacts
<1>4. Median!TimesIn(mTree') = HowOften(mTree'.val, Held(mTree', mPc'))
  BY <1>2, HeldFacts
<1>5. Held(mTree, mPc) = Held(mTree', mPc')
  BY DEF Held, SameNumbers
<1>6. StillHolds
  BY DEF StillHolds, SameNumbers, MedianHolds
<1> QED BY <1>3, <1>4, <1>5, <1>6 DEF StoreSame, SameNumbers

LEMMA AddIsStutter ==
    ASSUME MedianHolds, MedianInv', NEW num \in Numbers, Median!AddNum(num)
    PROVE  StillHolds /\ StoreSame
<1>1. PICK below, black : MedianGood(mTree, mPc, mX, mY, mZ, below, black)
  BY DEF MedianInv, MedianHolds
<1>2. PICK below2, black2 : MedianGood(mTree', mPc', mX', mY', mZ', below2, black2)
  BY DEF MedianInv
<1>3. /\ mPc = "idle" /\ mTree.count < MaxNodes /\ mTree' = Tree!newNode(mTree, num) /\ mPc' = "descend"
  BY MedianOperators DEF Median!AddNum
<1>4. /\ mTree \in TreeRecords /\ mTree.count \in Nat
      /\ Median!TimesIn(mTree) = HowOften(mTree.val, 1 .. mTree.count)
  BY <1>1, <1>3, HeldFacts DEF Held
<1>5. Median!TimesIn(mTree') = HowOften(mTree'.val, 1 .. mTree'.count - 1)
  BY <1>2, <1>3, HeldFacts DEF Held
<1>6. /\ mTree'.count = mTree.count + 1 /\ mTree'.val[mTree.count + 1] = num
      /\ \A n \in 1 .. mTree.count : mTree'.val[n] = mTree.val[n]
  <2>1. num \in Int /\ MaxNodes \in Nat
    BY StructuresAssumption
  <2>2. mTree' = [mTree EXCEPT !.count = mTree.count + 1, !.val[mTree.count + 1] = num,
                               !.size[mTree.count + 1] = 1, !.red = @ \cup {mTree.count + 1}]
    BY <1>3 DEF Tree!newNode
  <2>3. mTree'.count = mTree.count + 1 /\ mTree'.val = [mTree.val EXCEPT ![mTree.count + 1] = num]
    BY <1>4, <2>2 DEF TreeRecords
  <2>4. mTree.val \in [Tree!TreeNodes -> Int]
    BY <1>4, RecordFields
  <2>5. mTree.count + 1 \in Tree!TreeNodes /\ \A n \in 1 .. mTree.count : n \in Tree!TreeNodes /\ n # mTree.count + 1
    BY <1>3, <1>4, <2>1 DEF Tree!TreeNodes
  <2> QED BY <2>3, <2>4, <2>5
<1>7. HowOften(mTree'.val, 1 .. mTree.count) = HowOften(mTree.val, 1 .. mTree.count)
  BY <1>6, HowOftenSame
<1>8. mTree'.count - 1 = mTree.count
  BY <1>4, <1>6
<1>9. StoreSame
  BY <1>4, <1>5, <1>7, <1>8 DEF StoreSame
<1>10. StillHolds
  <2> SUFFICES ASSUME NEW n \in 1 .. mTree.count + 1 PROVE mTree'.val[n] \in Numbers
    BY <1>6 DEF StillHolds
  <2>1. n \in 1 .. mTree.count \/ n = mTree.count + 1
    BY <1>4
  <2> QED BY <1>6, <2>1 DEF MedianHolds
<1> QED BY <1>9, <1>10

LEMMA AttachAdds ==
    ASSUME MedianHolds, MedianInv', SameNumbers, Median!Attach
    PROVE  StillHolds /\ \E v \in Numbers : Median!Store!AddNum(v)
<1>1. PICK below, black : MedianGood(mTree, mPc, mX, mY, mZ, below, black)
  BY DEF MedianInv, MedianHolds
<1>2. PICK below2, black2 : MedianGood(mTree', mPc', mX', mY', mZ', below2, black2)
  BY DEF MedianInv
<1> DEFINE A == 1 .. mTree.count - 1
           z == mTree.count
           v == mTree.val[z]
<1>3. mPc = "descend" /\ mPc' = "fixup" /\ mAnswer' = Null
  BY DEF Median!Attach
<1>4. /\ Median!TimesIn(mTree) = HowOften(mTree.val, A) /\ A \in SUBSET Tree!TreeNodes
      /\ mTree \in TreeRecords /\ mTree.count \in Nat
  BY <1>1, <1>3, HeldFacts DEF Held
<1>5. Median!TimesIn(mTree') = HowOften(mTree.val, 1 .. mTree.count)
      /\ 1 .. mTree.count \in SUBSET Tree!TreeNodes
  <2>1. /\ Median!TimesIn(mTree') = HowOften(mTree'.val, Held(mTree', mPc'))
        /\ Held(mTree', mPc') \in SUBSET Tree!TreeNodes
    BY <1>2, HeldFacts
  <2>2. Held(mTree', mPc') = 1 .. mTree.count
    BY <1>3 DEF Held, SameNumbers
  <2> QED BY <2>1, <2>2 DEF SameNumbers
<1>6. z \in 1 .. mTree.count
  <2>1. z \in Tree!TreeNodes
    BY <1>1, <1>3 DEF MedianGood, Counting
  <2> QED BY <1>4, <2>1 DEF Tree!TreeNodes
<1>7. z \in Tree!TreeNodes /\ z \notin A /\ 1 .. mTree.count = A \cup {z} /\ v \in Numbers
  <2>1. v \in Numbers
    BY <1>6 DEF MedianHolds
  <2> QED BY <1>4, <1>5, <1>6, <2>1
<1> HIDE DEF A, z
<1>8. HowOften(mTree.val, A \cup {z}) = [HowOften(mTree.val, A) EXCEPT ![v] = @ + 1]
  BY <1>4, <1>7, HowOftenAdds
<1> HIDE DEF v
<1>9. Median!TimesIn(mTree') = [Median!TimesIn(mTree) EXCEPT ![v] = @ + 1]
  BY <1>4, <1>5, <1>7, <1>8
<1>10. Median!Store!AddNum(v)
  BY <1>3, <1>9 DEF Median!Store!AddNum
<1>11. StillHolds
  BY DEF StillHolds, SameNumbers, MedianHolds
<1> QED BY <1>7, <1>10, <1>11

LEMMA StoreOperators ==
    /\ Median!Store!Total = Sum(Median!TimesIn(mTree), Numbers)
    /\ \A k : Median!Store!At(k) = CHOOSE v \in Numbers : PlaceAmong(Median!TimesIn(mTree), k, v)
<1>1. Median!Store!Total = Sum(Median!TimesIn(mTree), Numbers)
  BY DEF Median!Store!Total, Median!Store!MapThenSumSet, Median!Store!MapThenFoldSet, Sum, IsSum
<1>2. \A v : Median!Store!UpTo(v) = Sum(Median!TimesIn(mTree), {w \in Numbers : w <= v})
  BY DEF Median!Store!UpTo, Median!Store!MapThenSumSet, Median!Store!MapThenFoldSet, Sum, IsSum
<1>3. \A k, v : PlaceAmong(Median!TimesIn(mTree), k, v)
                  <=> Median!Store!UpTo(v) >= k /\ Median!Store!UpTo(v) - Median!TimesIn(mTree)[v] < k
  BY <1>2 DEF PlaceAmong
<1>4. \A k : Median!Store!At(k) = CHOOSE v \in Numbers : Median!Store!UpTo(v) >= k
                                             /\ Median!Store!UpTo(v) - Median!TimesIn(mTree)[v] < k
  BY DEF Median!Store!At
<1> QED BY <1>1, <1>3, <1>4

LEMMA MedianIsRight ==
    ASSUME IsFiniteSet(Numbers), MedianHolds, Median!FindMedian
    PROVE  StillHolds /\ Median!Store!FindMedian
<1> DEFINE n == mTree.count
           A == 1 .. n
           low == Median!Middle(n)[1]
           high == Median!Middle(n)[2]
<1>1. PICK below, black : MedianGood(mTree, mPc, mX, mY, mZ, below, black)
  BY DEF MedianInv, MedianHolds
<1>2. /\ mPc = "idle" /\ mTree.root # Tree!Nil /\ mTree' = mTree
      /\ mAnswer' = LET middle == Median!Middle(Tree!nodeSize(mTree, mTree.root))
                    IN  Tree!Kth(mTree, "left", middle[1]) + Tree!Kth(mTree, "left", middle[2])
  BY MedianOperators, KthOperators DEF Median!FindMedian
<1>3. /\ mTree \in TreeRecords /\ n \in Nat /\ TreeShape(mTree, below) /\ below[mTree.root] = A
      /\ A \in SUBSET Tree!TreeNodes /\ Median!TimesIn(mTree) = HowOften(mTree.val, A)
  BY <1>1, <1>2, HeldFacts DEF Held
<1>4. Fresh(mTree) /\ Sorted(mTree, below) /\ Sized(mTree, below)
  BY <1>1, <1>2 DEF MedianGood, RedBlackTree
<1>5. SearchesTree(mTree, below)
  <2>1. \A m \in Tree!TreeNodes \ A : m > n
    BY <1>3 DEF Tree!TreeNodes
  <2> QED BY <1>3, <1>4, <2>1 DEF SearchesTree, Fresh
<1>6. Cardinality(A) = n
  <2>1. 1 \in Int /\ n \in Int /\ n \in Nat
    BY <1>3
  <2> HIDE DEF n
  <2>2. Cardinality(1 .. n) = n
    BY <2>1, FS_Interval
  <2> QED BY <2>2
<1>7. Tree!nodeSize(mTree, mTree.root) = n /\ n >= 1
  <2>1. mTree.root \in A
    BY <1>2, <1>3 DEF TreeShape, Shape
  <2>2. mTree.size[mTree.root] = n
    BY <1>3, <1>4, <1>6, <2>1 DEF Sized, SizeRight
  <2> QED BY <1>2, <1>3, <2>1, <2>2 DEF Tree!nodeSize
<1>8. \A m \in A : mTree.val[m] \in Numbers
  BY DEF MedianHolds
<1>9. ASSUME NEW k \in 1 .. n PROVE Tree!Kth(mTree, "left", k) = Median!Store!At(k)
  <2>1. k \in 1 .. Cardinality(below[mTree.root]) /\ k \in Int
    BY <1>3, <1>6
  <2> HIDE DEF A, n
  <2>2. IsKth(mTree, A, "left", k, Tree!Kth(mTree, "left", k))
    BY <1>3, <1>4, <1>5, <2>1, LeftRight, KthIsRight
  <2>3. Tree!Kth(mTree, "left", k) = CHOOSE u \in Numbers : PlaceAmong(HowOften(mTree.val, A), k, u)
    BY <1>3, <1>8, <2>1, <2>2, KthAmong
  <2> QED BY <1>3, <2>3, StoreOperators
<1>10. /\ low = (n + 1) \div 2 /\ high = n \div 2 + 1
       /\ low \in 1 .. n /\ high \in 1 .. n
  <2>1. n \in Nat /\ n >= 1
    BY <1>3, <1>7
  <2> HIDE DEF n
  <2>2. low = (IF n % 2 = 1 THEN n \div 2 + 1 ELSE n \div 2) /\ high = n \div 2 + 1
    BY DEF Median!Middle
  <2> HIDE DEF low, high
  <2>3. low = (n + 1) \div 2
    BY <2>1, <2>2
  <2>4. low \in 1 .. n /\ high \in 1 .. n
    BY <2>1, <2>2
  <2> QED BY <2>2, <2>3, <2>4
<1>11. Median!Store!Total = n
  <2>1. Counted(mTree.val, A, Numbers) = n
    <3>1. {m \in A : mTree.val[m] \in Numbers} = A
      BY <1>8
    <3> HIDE DEF A
    <3> QED BY <1>6, <3>1 DEF Counted
  <2> HIDE DEF A, n
  <2>2. Sum(HowOften(mTree.val, A), Numbers) = Counted(mTree.val, A, Numbers)
    BY <1>3, SumIs
  <2> QED BY <1>3, <2>1, <2>2, StoreOperators
<1>12. mAnswer' = Tree!Kth(mTree, "left", low) + Tree!Kth(mTree, "left", high)
  BY <1>2, <1>7
<1> HIDE DEF A, n, low, high
<1>13. mAnswer' = Median!Store!At((Median!Store!Total + 1) \div 2) + Median!Store!At(Median!Store!Total \div 2 + 1)
  <2>1. Tree!Kth(mTree, "left", low) = Median!Store!At(low) /\ Tree!Kth(mTree, "left", high) = Median!Store!At(high)
    BY <1>9, <1>10
  <2> QED BY <1>10, <1>11, <1>12, <2>1
<1>14. Median!TimesIn(mTree') = Median!TimesIn(mTree)
  BY <1>2
<1>15. Median!Store!Total > 0
  BY <1>3, <1>7, <1>11
<1>16. Median!Store!FindMedian
  BY <1>13, <1>14, <1>15 DEF Median!Store!FindMedian
<1>17. StillHolds
  BY <1>2 DEF StillHolds, MedianHolds
<1> QED BY <1>16, <1>17

LEMMA EmptyStore ==
    /\ Median!TimesIn(Tree!EmptyTree) = [v \in Numbers |-> 0]
    /\ \A n \in 1 .. Tree!EmptyTree.count : Tree!EmptyTree.val[n] \in Numbers
<1>1. PICK below, black : MedianGood(Tree!EmptyTree, "idle", 0, 0, 0, below, black)
  BY EmptyIsGood
<1>2. Tree!EmptyTree.count = 0
  BY EmptyTreeIs
<1>3. 1 .. Tree!EmptyTree.count = {}
  BY <1>2
<1>4. Median!TimesIn(Tree!EmptyTree) = HowOften(Tree!EmptyTree.val, {})
  BY <1>1, <1>3, HeldFacts DEF Held
<1>5. \A v \in Numbers : {n \in {} : Tree!EmptyTree.val[n] = v} = {}
  OBVIOUS
<1>6. HowOften(Tree!EmptyTree.val, {}) = [v \in Numbers |-> 0]
  BY <1>5, FS_EmptySet DEF HowOften
<1> QED BY <1>3, <1>4, <1>6

LEMMA MedianStep ==
    ASSUME IsFiniteSet(Numbers), MedianHolds, [Median!Next]_(Median!vars)
    PROVE  MedianHolds' /\ [Median!Store!Next]_(Median!Store!storeVars)
<1>1. MedianInv /\ MedianInv'
  BY NextMedianInv DEF MedianHolds
<1>2. MedianInv' /\ StillHolds => MedianHolds'
  BY DEF MedianHolds, StillHolds
<1>3. StoreSame /\ mAnswer' = mAnswer => [Median!Store!Next]_(Median!Store!storeVars)
  BY DEF StoreSame, Median!Store!storeVars
<1>4. CASE \E num \in Numbers : Median!AddNum(num)
  <2>1. PICK num \in Numbers : Median!AddNum(num)
    BY <1>4
  <2>2. mAnswer' = mAnswer
    BY <2>1 DEF Median!AddNum
  <2> QED BY <1>1, <1>2, <1>3, <2>1, <2>2, AddIsStutter
<1>5. CASE Median!Descend \/ Median!Recolour \/ Median!Restructure \/ Median!Fixed
  <2>1. SameNumbers
    BY <1>1, <1>5, DescendKeeps, RecolourKeeps, RestructureKeeps, FixedKeeps
  <2>2. mAnswer' = mAnswer /\ (mPc = "descend" <=> mPc' = "descend")
    BY <1>5 DEF Median!Descend, Median!Recolour, Median!Restructure, Median!Fixed
  <2> QED BY <1>1, <1>2, <1>3, <2>1, <2>2, TurnIsStutter
<1>6. CASE Median!Attach
  <2>1. SameNumbers
    BY <1>1, <1>6, AttachKeeps
  <2>2. StillHolds /\ Median!Store!Next
    BY <1>1, <1>6, <2>1, AttachAdds DEF Median!Store!Next
  <2> QED BY <1>1, <1>2, <2>2
<1>7. CASE Median!FindMedian
  <2>1. StillHolds /\ Median!Store!Next
    BY <1>7, MedianIsRight DEF Median!Store!Next
  <2> QED BY <1>1, <1>2, <2>1
<1>8. CASE Median!Free
  <2>1. mTree' = Tree!EmptyTree /\ mAnswer' = Null
    BY <1>8, MedianOperators DEF Median!Free
  <2>2. Median!TimesIn(mTree') = [v \in Numbers |-> 0] /\ StillHolds
    BY <2>1, EmptyStore DEF StillHolds
  <2>3. Median!Store!Next
    BY <2>1, <2>2 DEF Median!Store!Next, Median!Store!Free, Median!Store!Init
  <2> QED BY <1>1, <1>2, <2>2, <2>3
<1>9. CASE UNCHANGED Median!vars
  <2>1. mTree' = mTree /\ mAnswer' = mAnswer
    BY <1>9 DEF Median!vars
  <2>2. StoreSame /\ StillHolds
    BY <2>1 DEF StoreSame, StillHolds, MedianHolds
  <2> QED BY <1>1, <1>2, <1>3, <2>1, <2>2
<1> QED BY <1>4, <1>5, <1>6, <1>7, <1>8, <1>9 DEF Median!Next

\* The finder of src/295.c gives the median of all the numbers added so far, with their
\* repetitions, however the tree has been rotated on the way; a number counts once it
\* hangs in the tree.  The numbers are finitely many, as the values of an int are.
THEOREM MedianIsOfAllAdded == ASSUME IsFiniteSet(Numbers) PROVE StructuresSpec => ImplementsMedianStore
<1>1. StructuresInit => MedianHolds /\ Median!Store!Init
  <2> SUFFICES ASSUME StructuresInit PROVE MedianHolds /\ Median!Store!Init
    OBVIOUS
  <2>1. mTree = Tree!EmptyTree /\ mAnswer = Null /\ mPc = "idle"
    BY MedianOperators DEF StructuresInit, Median!Init
  <2>2. MedianInv
    BY <2>1, EmptyIsGood DEF MedianInv
  <2> QED BY <2>1, <2>2, EmptyStore DEF MedianHolds, Median!Store!Init
<1>2. MedianHolds /\ [StructuresNext]_structureVars => MedianHolds' /\ [Median!Store!Next]_(Median!Store!storeVars)
  <2> SUFFICES ASSUME MedianHolds, [StructuresNext]_structureVars
               PROVE  MedianHolds' /\ [Median!Store!Next]_(Median!Store!storeVars)
    OBVIOUS
  <2>1. Median!Next \/ UNCHANGED mVars
    BY DEF StructuresNext, structureVars
  <2>2. [Median!Next]_(Median!vars)
    BY <2>1 DEF mVars, Median!vars
  <2> QED BY <2>2, MedianStep
<1> QED BY <1>1, <1>2, PTL DEF StructuresSpec, ImplementsMedianStore, Median!ImplementsMedianStore, Median!Store!Spec

=============================================================================
