------------------------------ MODULE WalProofs ------------------------------
(***************************************************************************)
(* Proofs about Wal for any number of runs and any faults: the types, and, *)
(* for runs one after the other, that a recovery applies every transaction *)
(* that was reported and leaves its lines at the end of db.txt.            *)
(***************************************************************************)
EXTENDS Wal, SequenceTheorems, WellFoundedInduction, TLAPS

Texts == Tokens \ {NewLine}

-----------------------------------------------------------------------------
\* Loops.  What holds at 0 and goes on from each turn to the next holds to the end.
LEMMA UpTo ==
    ASSUME NEW m \in Nat, NEW S, 0 \in S, \A n \in 0 .. m - 1 : n \in S => n + 1 \in S
    PROVE  \A n \in 0 .. m : n \in S
<1> DEFINE Missing == {n \in 0 .. m : n \notin S}
<1> SUFFICES ASSUME Missing # {} PROVE FALSE
  OBVIOUS
<1>1. PICK n \in Missing : \A k \in Missing : ~(<<k, n>> \in OpToRel(<, Nat))
  <2>1. Missing \in SUBSET Nat
    OBVIOUS
  <2> QED BY <2>1, NatLessThanWellFounded, WFMin
<1>2. \A a, b \in Nat : a < b => <<a, b>> \in OpToRel(<, Nat)
  BY DEF OpToRel
<1>3. n \in 0 .. m /\ n \notin S /\ n # 0
  OBVIOUS
<1>4. n - 1 \in 0 .. m - 1 /\ n - 1 \in Nat /\ n - 1 < n /\ (n - 1) + 1 = n
  BY <1>3
<1>5. n - 1 \notin S /\ n - 1 \in 0 .. m
  BY <1>3, <1>4
<1>6. n - 1 \in Missing
  BY <1>5
<1>7. <<n - 1, n>> \in OpToRel(<, Nat)
  <2>1. n - 1 \in Nat /\ n \in Nat /\ n - 1 < n
    BY <1>4
  <2> QED BY <2>1 DEF OpToRel
<1> HIDE DEF Missing
<1> QED BY <1>1, <1>6, <1>7

\* A loop over a sequence has a state after each of its turns.
IsLoop(g, X, step, base, s) ==
    /\ g \in [0 .. Len(s) -> X]
    /\ g[0] = base
    /\ \A n \in 1 .. Len(s) : g[n] = step[g[n - 1]][s[n]]

LEMMA LoopExists ==
    ASSUME NEW X, NEW A, NEW step \in [X -> [A -> X]], NEW base \in X, NEW s \in Seq(A)
    PROVE  \E g : IsLoop(g, X, step, base, s)
<1> DEFINE Good(n, g) == /\ g \in [0 .. n -> X] /\ g[0] = base
                         /\ \A k \in 1 .. n : g[k] = step[g[k - 1]][s[k]]
           S == {n \in 0 .. Len(s) : \E g : Good(n, g)}
<1>1. /\ Len(s) \in Nat
      /\ \A n \in 1 .. Len(s) : s[n] \in A
  BY LenProperties, ElementOfSeq
<1>2. 0 \in S
  <2> DEFINE g == [n \in 0 .. 0 |-> base]
  <2>1. Good(0, g)
    OBVIOUS
  <2> HIDE DEF Good
  <2> QED BY <1>1, <2>1
<1>3. ASSUME NEW n \in 0 .. Len(s) - 1, n \in S PROVE n + 1 \in S
  <2>1. PICK g : Good(n, g)
    BY <1>3
  <2> DEFINE h == [k \in 0 .. n + 1 |-> IF k <= n THEN g[k] ELSE step[g[n]][s[n + 1]]]
  <2>2. n \in Nat /\ n + 1 \in 1 .. Len(s) /\ s[n + 1] \in A
    BY <1>1
  <2>3. g[n] \in X /\ step[g[n]][s[n + 1]] \in X
    BY <2>1, <2>2
  <2>4. h \in [0 .. n + 1 -> X] /\ h[0] = base
    BY <2>1, <2>2, <2>3
  <2>5. ASSUME NEW k \in 1 .. n + 1 PROVE h[k] = step[h[k - 1]][s[k]]
    <3>1. CASE k = n + 1
      <4>1. k - 1 = n /\ k \in 0 .. n + 1 /\ n \in 0 .. n + 1 /\ ~(k <= n) /\ n <= n
        BY <2>2, <3>1
      <4>2. h[k] = step[g[n]][s[n + 1]] /\ h[n] = g[n]
        BY <4>1
      <4> QED BY <3>1, <4>1, <4>2
    <3>2. CASE k # n + 1
      <4>1. k \in 1 .. n /\ k \in 0 .. n + 1 /\ k - 1 \in 0 .. n + 1 /\ k <= n /\ k - 1 <= n
        BY <2>2, <3>2
      <4>2. h[k] = g[k] /\ h[k - 1] = g[k - 1]
        BY <4>1
      <4> QED BY <2>1, <4>1, <4>2
    <3> QED BY <3>1, <3>2
  <2>6. Good(n + 1, h)
    BY <2>4, <2>5
  <2> HIDE DEF Good, h
  <2> QED BY <2>2, <2>6
<1> HIDE DEF S
<1>4. Len(s) \in S
  <2>1. \A n \in 0 .. Len(s) : n \in S
    BY <1>1, <1>2, <1>3, UpTo
  <2> QED BY <1>1, <2>1
<1>5. PICK g : Good(Len(s), g)
  BY <1>4 DEF S
<1> QED BY <1>5 DEF IsLoop

-----------------------------------------------------------------------------
\* Tokens.
LEMMA TokenFacts ==
    /\ NewLine \in Tokens /\ Begin \in Texts /\ Commit \in Texts
    /\ \A p \in Procs : Set(p) \in Texts /\ Set(p) # Begin /\ Set(p) # Commit /\ Set(p) \notin AllPieces
    /\ \A p, q \in Procs : Set(p) = Set(q) => p = q
    /\ Begin # Commit /\ Begin \notin AllPieces /\ Commit \notin AllPieces
    /\ AllPieces \subseteq Texts
    /\ \A x \in Texts : Pieces(x) \subseteq AllPieces
    /\ \A x \in Texts \ AllPieces : x = Begin \/ x = Commit \/ \E p \in Procs : x = Set(p)
    /\ Begin.front = "TRANSACTION" /\ Begin.word = "BEGIN"
    /\ Commit.front = "TRANSACTION" /\ Commit.word = "COMMIT"
    /\ \A p \in Procs : Set(p).front = "SET" /\ Set(p).word = ""
<1> USE DEF Text, NewLine, Begin, Commit, Set
<1>1. /\ Pieces(Begin) = {Text(front, "", NoProc) : front \in {"TRANSACTION", ""}}
      /\ Pieces(Commit) = {Text(front, "", NoProc) : front \in {"TRANSACTION", ""}}
      /\ \A p : Pieces(Set(p)) = {Text(front, "", NoProc) : front \in {"SET", ""}}
  BY DEF Pieces
<1>2. AllPieces = Pieces(Begin) \cup Pieces(Commit) \cup Pieces(Set(NoProc))
  BY DEF AllPieces
<1>3. AllPieces = {Text(front, "", NoProc) : front \in {"TRANSACTION", "SET", ""}}
  <2> DEFINE A == Text("TRANSACTION", "", NoProc)
             B == Text("SET", "", NoProc)
             C == Text("", "", NoProc)
  <2> HIDE DEF Begin, Commit, Set
  <2>1. {Text(front, "", NoProc) : front \in {"TRANSACTION", ""}} = {A, C}
    OBVIOUS
  <2>2. {Text(front, "", NoProc) : front \in {"SET", ""}} = {B, C}
    OBVIOUS
  <2>3. {Text(front, "", NoProc) : front \in {"TRANSACTION", "SET", ""}} = {A, B, C}
    OBVIOUS
  <2> HIDE DEF A, B, C, Text
  <2>4. Pieces(Begin) = {A, C} /\ Pieces(Commit) = {A, C} /\ Pieces(Set(NoProc)) = {B, C}
    BY <1>1, <2>1, <2>2
  <2> QED BY <1>2, <2>3, <2>4
<1>4. AllPieces \subseteq Texts
  <2>1. ASSUME NEW x \in AllPieces PROVE x.front # "newline" /\ x \in Tokens
    <3>1. PICK front \in {"TRANSACTION", "SET", ""} : x = Text(front, "", NoProc)
      BY <1>3
    <3> QED BY <3>1 DEF Tokens
  <2>2. NewLine.front = "newline"
    OBVIOUS
  <2> QED BY <2>1, <2>2 DEF Texts
<1>5. ASSUME NEW x \in Texts PROVE Pieces(x) \subseteq AllPieces
  <2>1. x.front \in {"TRANSACTION", "SET", ""}
    <3>1. CASE x \in AllPieces
      <4>1. PICK front \in {"TRANSACTION", "SET", ""} : x = Text(front, "", NoProc)
        BY <1>3, <3>1
      <4> QED BY <4>1
    <3>2. CASE x \notin AllPieces
      <4>1. x = Begin \/ x = Commit \/ \E p \in Procs : x = Set(p)
        BY <3>2 DEF Texts, Tokens
      <4>2. Begin.front = "TRANSACTION" /\ Commit.front = "TRANSACTION" /\ \A p \in Procs : Set(p).front = "SET"
        OBVIOUS
      <4> QED BY <4>1, <4>2
    <3> QED BY <3>1, <3>2
  <2> QED BY <1>3, <2>1 DEF Pieces
<1>6. \A p \in Procs : Set(p) \in Texts /\ Set(p) # Begin /\ Set(p) # Commit /\ Set(p) \notin AllPieces
  BY <1>3, WalAssumption DEF Texts, Tokens
<1>7. Begin # Commit /\ Begin \notin AllPieces /\ Commit \notin AllPieces
  BY <1>3
<1>8. NewLine \in Tokens /\ Begin \in Texts /\ Commit \in Texts
  BY DEF Texts, Tokens
<1>9. \A x \in Texts \ AllPieces : x = Begin \/ x = Commit \/ \E p \in Procs : x = Set(p)
  BY DEF Texts, Tokens
<1>10. \A p, q \in Procs : Set(p) = Set(q) => p = q
  OBVIOUS
<1> QED BY <1>4, <1>5, <1>6, <1>7, <1>8, <1>9, <1>10

-----------------------------------------------------------------------------
\* recover's two loops, turn by turn.
Line == Seq(Texts)
Read == [full : Seq(Line), rest : Line]
ScanState == [in_tx : BOOLEAN, out : Seq(Line \ {<<>>})]

LEMMA ReadingIs ==
    ASSUME NEW w \in Seq(Tokens)
    PROVE  /\ Reading(w) \in [0 .. Len(w) -> Read]
           /\ Reading(w)[0] = [full |-> <<>>, rest |-> <<>>]
           /\ \A n \in 1 .. Len(w) : Reading(w)[n] = NextToken(Reading(w)[n - 1], w[n])
<1> DEFINE step == [r \in Read |-> [t \in Tokens |-> NextToken(r, t)]]
           base == [full |-> <<>>, rest |-> <<>>]
<1>1. base \in Read
  BY DEF Read, Line
<1>2. ASSUME NEW r \in Read, NEW t \in Tokens PROVE NextToken(r, t) \in Read
  <2>1. CASE t = NewLine
    BY <2>1 DEF NextToken, Read, Line
  <2>2. CASE t # NewLine
    <3>1. t \in Texts
      BY <2>2 DEF Texts
    <3>2. Append(r.rest, t) \in Line
      BY <3>1 DEF Read, Line
    <3> QED BY <2>2, <3>2 DEF NextToken, Read
  <2> QED BY <2>1, <2>2
<1>3. step \in [Read -> [Tokens -> Read]]
  BY <1>2
<1>4. \A r \in Read, t \in Tokens : step[r][t] = NextToken(r, t)
  OBVIOUS
<1> HIDE DEF step, base
<1>5. PICK g : IsLoop(g, Read, step, base, w)
  BY <1>1, <1>3, LoopExists
<1>6. ASSUME NEW n \in 0 .. Len(w)
      PROVE  g[n] = IF n = 0 THEN base ELSE NextToken(g[n - 1], w[n])
  <2>1. CASE n = 0
    BY <1>5, <2>1 DEF IsLoop
  <2>2. CASE n # 0
    <3>1. n - 1 \in 0 .. Len(w) /\ n \in 1 .. Len(w)
      BY <2>2, LenProperties
    <3>2. w[n] \in Tokens /\ g[n - 1] \in Read
      BY <1>5, <3>1, ElementOfSeq DEF IsLoop
    <3>3. g[n] = step[g[n - 1]][w[n]]
      BY <1>5, <3>1 DEF IsLoop
    <3> QED BY <1>4, <2>2, <3>1, <3>2, <3>3
  <2> QED BY <2>1, <2>2
<1>7. g = [n \in 0 .. Len(w) |-> IF n = 0 THEN base ELSE NextToken(g[n - 1], w[n])]
  BY <1>5, <1>6 DEF IsLoop
<1> DEFINE Fits(f) == f = [n \in 0 .. Len(w) |-> IF n = 0 THEN base ELSE NextToken(f[n - 1], w[n])]
<1>8. Reading(w) = CHOOSE f : Fits(f)
  BY DEF Reading, base
<1>9. Fits(Reading(w))
  <2> HIDE DEF Fits
  <2>1. Fits(g)
    BY <1>7 DEF Fits
  <2> QED BY <1>8, <2>1
<1>10. Len(w) \in Nat
  BY LenProperties
<1> DEFINE r == Reading(w)
<1>11. r[0] = base
  BY <1>9, <1>10
<1>12. \A n \in 1 .. Len(w) : r[n] = NextToken(r[n - 1], w[n])
  BY <1>9, <1>10
<1>13. \A n \in 0 .. Len(w) : r[n] \in Read
  <2> DEFINE S == {n \in 0 .. Len(w) : r[n] \in Read}
  <2>1. 0 \in S
    BY <1>1, <1>10, <1>11
  <2>2. ASSUME NEW n \in 0 .. Len(w) - 1, n \in S PROVE n + 1 \in S
    <3>1. n + 1 \in 1 .. Len(w) /\ (n + 1) - 1 = n /\ n + 1 \in 0 .. Len(w)
      BY <1>10
    <3>2. w[n + 1] \in Tokens
      BY <3>1, ElementOfSeq
    <3> QED BY <1>2, <1>12, <2>2, <3>1, <3>2
  <2> HIDE DEF S
  <2>3. \A n \in 0 .. Len(w) : n \in S
    BY <1>10, <2>1, <2>2, UpTo
  <2> QED BY <2>3 DEF S
<1> QED BY <1>9, <1>11, <1>12, <1>13 DEF base

LEMMA ScanningIs ==
    ASSUME NEW L \in Seq(Line)
    PROVE  /\ Scanning(L) \in [0 .. Len(L) -> ScanState]
           /\ Scanning(L)[0] = [in_tx |-> FALSE, out |-> <<>>]
           /\ \A n \in 1 .. Len(L) : Scanning(L)[n] = Scan(Scanning(L)[n - 1], L[n])
<1> DEFINE step == [r \in ScanState |-> [l \in Line |-> Scan(r, l)]]
           base == [in_tx |-> FALSE, out |-> <<>>]
<1>1. base \in ScanState
  BY DEF ScanState
<1>2. ASSUME NEW r \in ScanState, NEW l \in Line PROVE Scan(r, l) \in ScanState
  <2>1. ASSUME StartsWith(l, "SET") PROVE Append(r.out, l) \in Seq(Line \ {<<>>})
    BY <2>1 DEF StartsWith, ScanState
  <2>2. [r EXCEPT !.in_tx = TRUE] \in ScanState /\ [r EXCEPT !.in_tx = FALSE] \in ScanState
    BY DEF ScanState
  <2>3. StartsWith(l, "SET") => [r EXCEPT !.out = Append(@, l)] \in ScanState
    BY <2>1 DEF ScanState
  <2> QED BY <2>2, <2>3 DEF Scan
<1>3. step \in [ScanState -> [Line -> ScanState]]
  BY <1>2
<1>4. \A r \in ScanState, l \in Line : step[r][l] = Scan(r, l)
  OBVIOUS
<1> HIDE DEF step, base
<1>5. PICK g : IsLoop(g, ScanState, step, base, L)
  BY <1>1, <1>3, LoopExists
<1>6. ASSUME NEW n \in 0 .. Len(L)
      PROVE  g[n] = IF n = 0 THEN base ELSE Scan(g[n - 1], L[n])
  <2>1. CASE n = 0
    BY <1>5, <2>1 DEF IsLoop
  <2>2. CASE n # 0
    <3>1. n - 1 \in 0 .. Len(L) /\ n \in 1 .. Len(L)
      BY <2>2, LenProperties
    <3>2. L[n] \in Line /\ g[n - 1] \in ScanState
      BY <1>5, <3>1, ElementOfSeq DEF IsLoop
    <3>3. g[n] = step[g[n - 1]][L[n]]
      BY <1>5, <3>1 DEF IsLoop
    <3> QED BY <1>4, <2>2, <3>1, <3>2, <3>3
  <2> QED BY <2>1, <2>2
<1>7. g = [n \in 0 .. Len(L) |-> IF n = 0 THEN base ELSE Scan(g[n - 1], L[n])]
  BY <1>5, <1>6 DEF IsLoop
<1> DEFINE Fits(f) == f = [n \in 0 .. Len(L) |-> IF n = 0 THEN base ELSE Scan(f[n - 1], L[n])]
<1>8. Scanning(L) = CHOOSE f : Fits(f)
  BY DEF Scanning, base
<1>9. Fits(Scanning(L))
  <2> HIDE DEF Fits
  <2>1. Fits(g)
    BY <1>7 DEF Fits
  <2> QED BY <1>8, <2>1
<1>10. Len(L) \in Nat
  BY LenProperties
<1> DEFINE r == Scanning(L)
<1>11. r[0] = base
  BY <1>9, <1>10
<1>12. \A n \in 1 .. Len(L) : r[n] = Scan(r[n - 1], L[n])
  BY <1>9, <1>10
<1>13. \A n \in 0 .. Len(L) : r[n] \in ScanState
  <2> DEFINE S == {n \in 0 .. Len(L) : r[n] \in ScanState}
  <2>1. 0 \in S
    BY <1>1, <1>10, <1>11
  <2>2. ASSUME NEW n \in 0 .. Len(L) - 1, n \in S PROVE n + 1 \in S
    <3>1. n + 1 \in 1 .. Len(L) /\ (n + 1) - 1 = n /\ n + 1 \in 0 .. Len(L)
      BY <1>10
    <3>2. L[n + 1] \in Line
      BY <3>1, ElementOfSeq
    <3> QED BY <1>2, <1>12, <2>2, <3>1, <3>2
  <2> HIDE DEF S
  <2>3. \A n \in 0 .. Len(L) : n \in S
    BY <1>10, <2>1, <2>2, UpTo
  <2> QED BY <2>3 DEF S
<1> QED BY <1>9, <1>11, <1>12, <1>13 DEF base

\* The loops have no memory but their state: what they have done after n turns
\* depends on the first n items alone.
LEMMA ReadPrefix ==
    ASSUME NEW v \in Seq(Tokens), NEW w \in Seq(Tokens), NEW m \in Nat,
           m <= Len(v), m <= Len(w), \A n \in 1 .. m : v[n] = w[n]
    PROVE  \A n \in 0 .. m : Reading(v)[n] = Reading(w)[n]
<1> DEFINE S == {n \in 0 .. m : Reading(v)[n] = Reading(w)[n]}
<1>1. Len(v) \in Nat /\ Len(w) \in Nat
  BY LenProperties
<1>2. 0 \in S
  BY ReadingIs
<1>3. ASSUME NEW n \in 0 .. m - 1, n \in S PROVE n + 1 \in S
  <2>1. /\ n + 1 \in 1 .. Len(v) /\ n + 1 \in 1 .. Len(w) /\ n + 1 \in 1 .. m
        /\ (n + 1) - 1 = n /\ n + 1 \in 0 .. m
    BY <1>1
  <2>2. Reading(v)[n + 1] = NextToken(Reading(v)[n], v[n + 1])
    BY <2>1, ReadingIs
  <2>3. Reading(w)[n + 1] = NextToken(Reading(w)[n], w[n + 1])
    BY <2>1, ReadingIs
  <2> QED BY <1>3, <2>1, <2>2, <2>3
<1> HIDE DEF S
<1>4. \A n \in 0 .. m : n \in S
  BY <1>2, <1>3, UpTo
<1> QED BY <1>4 DEF S

LEMMA ScanPrefix ==
    ASSUME NEW v \in Seq(Line), NEW w \in Seq(Line), NEW m \in Nat,
           m <= Len(v), m <= Len(w), \A n \in 1 .. m : v[n] = w[n]
    PROVE  \A n \in 0 .. m : Scanning(v)[n] = Scanning(w)[n]
<1> DEFINE S == {n \in 0 .. m : Scanning(v)[n] = Scanning(w)[n]}
<1>1. Len(v) \in Nat /\ Len(w) \in Nat
  BY LenProperties
<1>2. 0 \in S
  BY ScanningIs
<1>3. ASSUME NEW n \in 0 .. m - 1, n \in S PROVE n + 1 \in S
  <2>1. /\ n + 1 \in 1 .. Len(v) /\ n + 1 \in 1 .. Len(w) /\ n + 1 \in 1 .. m
        /\ (n + 1) - 1 = n /\ n + 1 \in 0 .. m
    BY <1>1
  <2>2. Scanning(v)[n + 1] = Scan(Scanning(v)[n], v[n + 1])
    BY <2>1, ScanningIs
  <2>3. Scanning(w)[n + 1] = Scan(Scanning(w)[n], w[n + 1])
    BY <2>1, ScanningIs
  <2> QED BY <1>3, <2>1, <2>2, <2>3
<1> HIDE DEF S
<1>4. \A n \in 0 .. m : n \in S
  BY <1>2, <1>3, UpTo
<1> QED BY <1>4 DEF S

\* One item more is one turn more.
ReadAll(w) == Reading(w)[Len(w)]
ScanAll(L) == Scanning(L)[Len(L)]

LEMMA ReadAppend ==
    ASSUME NEW w \in Seq(Tokens), NEW t \in Tokens
    PROVE  ReadAll(Append(w, t)) = NextToken(ReadAll(w), t)
<1>1. /\ Len(w) \in Nat /\ Append(w, t) \in Seq(Tokens) /\ Len(Append(w, t)) = Len(w) + 1
      /\ \A n \in 1 .. Len(w) : Append(w, t)[n] = w[n]
      /\ Append(w, t)[Len(w) + 1] = t
  BY LenProperties, AppendProperties
<1>2. Reading(Append(w, t))[Len(w)] = Reading(w)[Len(w)]
  <2> DEFINE v == Append(w, t)
  <2>1. v \in Seq(Tokens) /\ Len(w) <= Len(v) /\ Len(w) <= Len(w) /\ \A n \in 1 .. Len(w) : v[n] = w[n]
    BY <1>1
  <2> HIDE DEF v
  <2>2. \A n \in 0 .. Len(w) : Reading(v)[n] = Reading(w)[n]
    BY <1>1, <2>1, ReadPrefix
  <2> QED BY <1>1, <2>2 DEF v
<1>3. Len(w) + 1 \in 1 .. Len(Append(w, t)) /\ (Len(w) + 1) - 1 = Len(w)
  BY <1>1
<1> QED BY <1>1, <1>2, <1>3, ReadingIs DEF ReadAll

LEMMA ScanAppend ==
    ASSUME NEW L \in Seq(Line), NEW l \in Line
    PROVE  ScanAll(Append(L, l)) = Scan(ScanAll(L), l)
<1>1. /\ Len(L) \in Nat /\ Append(L, l) \in Seq(Line) /\ Len(Append(L, l)) = Len(L) + 1
      /\ \A n \in 1 .. Len(L) : Append(L, l)[n] = L[n]
      /\ Append(L, l)[Len(L) + 1] = l
  BY LenProperties, AppendProperties
<1>2. Scanning(Append(L, l))[Len(L)] = Scanning(L)[Len(L)]
  <2> DEFINE v == Append(L, l)
  <2>1. v \in Seq(Line) /\ Len(L) <= Len(v) /\ Len(L) <= Len(L) /\ \A n \in 1 .. Len(L) : v[n] = L[n]
    BY <1>1
  <2> HIDE DEF v
  <2>2. \A n \in 0 .. Len(L) : Scanning(v)[n] = Scanning(L)[n]
    BY <1>1, <2>1, ScanPrefix
  <2> QED BY <1>1, <2>2 DEF v
<1>3. Len(L) + 1 \in 1 .. Len(Append(L, l)) /\ (Len(L) + 1) - 1 = Len(L)
  BY <1>1
<1> QED BY <1>1, <1>2, <1>3, ScanningIs DEF ScanAll

LEMMA ConcatAppend ==
    \A a, b \in Seq(Texts), x \in Texts : Append(a \o b, x) = a \o Append(b, x)
<1> TAKE a, b \in Seq(Texts), x \in Texts
<1>1. a \o b \in Seq(Texts) /\ <<x>> \in Seq(Texts)
  BY ConcatProperties
<1>2. Append(a \o b, x) = (a \o b) \o <<x>> /\ Append(b, x) = b \o <<x>>
  BY <1>1, AppendIsConcat
<1> QED BY <1>1, <1>2, ConcatAssociative

\* A text that is written goes to the last line.
LEMMA ReadConcat ==
    ASSUME NEW w \in Seq(Tokens), NEW t \in Line
    PROVE  /\ w \o t \in Seq(Tokens)
           /\ ReadAll(w \o t) = [full |-> ReadAll(w).full, rest |-> ReadAll(w).rest \o t]
<1> DEFINE v == w \o t
           r == Reading(w)[Len(w)]
<1>1. t \in Seq(Tokens) /\ Len(w) \in Nat /\ Len(t) \in Nat
  BY LenProperties DEF Line, Texts
<1>2. /\ v \in Seq(Tokens) /\ Len(v) = Len(w) + Len(t)
      /\ \A n \in 1 .. Len(w) : v[n] = w[n]
      /\ \A n \in 1 .. Len(t) : v[Len(w) + n] = t[n]
  BY <1>1, ConcatProperties
<1>3. r \in Read
  BY <1>1, ReadingIs
<1> DEFINE S == {n \in 0 .. Len(t) : /\ Reading(v)[Len(w) + n].full = r.full
                                     /\ Reading(v)[Len(w) + n].rest = r.rest \o SubSeq(t, 1, n)}
<1> HIDE DEF v, r
<1>4. 0 \in S
  <2>1. Len(w) <= Len(v) /\ Len(w) <= Len(w)
    BY <1>1, <1>2
  <2>2. \A n \in 0 .. Len(w) : Reading(v)[n] = Reading(w)[n]
    BY <1>1, <1>2, <2>1, ReadPrefix
  <2>3. Reading(v)[Len(w) + 0] = r
    BY <1>1, <2>2 DEF r
  <2>4. r.rest \o SubSeq(t, 1, 0) = r.rest
    <3>1. SubSeq(t, 1, 0) = <<>>
      BY <1>1, SubSeqProperties
    <3> QED BY <1>3, <3>1 DEF Read, Line
  <2> QED BY <1>1, <2>3, <2>4
<1>5. ASSUME NEW n \in 0 .. Len(t) - 1, n \in S PROVE n + 1 \in S
  <2>1. /\ n \in Nat /\ n + 1 \in 1 .. Len(t) /\ n + 1 \in 0 .. Len(t) /\ n \in 0 .. Len(t)
        /\ Len(w) + (n + 1) \in 1 .. Len(v) /\ Len(w) + (n + 1) - 1 = Len(w) + n
        /\ Len(w) + n \in 0 .. Len(v)
    BY <1>1, <1>2
  <2>2. t[n + 1] \in Texts /\ v[Len(w) + (n + 1)] = t[n + 1]
    BY <1>2, <2>1, ElementOfSeq DEF Line
  <2>3. Reading(v)[Len(w) + (n + 1)] = NextToken(Reading(v)[Len(w) + n], t[n + 1])
    <3>1. \A k \in 1 .. Len(v) : Reading(v)[k] = NextToken(Reading(v)[k - 1], v[k])
      BY <1>2, ReadingIs
    <3> DEFINE k == Len(w) + (n + 1)
    <3>2. k \in 1 .. Len(v) /\ k - 1 = Len(w) + n /\ v[k] = t[n + 1]
      BY <2>1, <2>2
    <3> HIDE DEF k
    <3>3. Reading(v)[k] = NextToken(Reading(v)[Len(w) + n], t[n + 1])
      BY <3>1, <3>2
    <3> QED BY <3>3 DEF k
  <2>4. Reading(v)[Len(w) + n] \in Read
    BY <1>2, <2>1, ReadingIs
  <2>5. /\ Reading(v)[Len(w) + (n + 1)].full = r.full
        /\ Reading(v)[Len(w) + (n + 1)].rest = Append(r.rest \o SubSeq(t, 1, n), t[n + 1])
    BY <1>5, <2>2, <2>3, <2>4 DEF NextToken, Read, Texts
  <2>6. Append(r.rest \o SubSeq(t, 1, n), t[n + 1]) = r.rest \o SubSeq(t, 1, n + 1)
    <3>1. SubSeq(t, 1, n + 1) = Append(SubSeq(t, 1, n), t[n + 1])
      BY <2>1, <2>2 DEF Line
    <3>2. SubSeq(t, 1, n) \in Line /\ r.rest \in Line
      BY <1>3, <2>1 DEF Line, Read
    <3> DEFINE a == r.rest
               b == SubSeq(t, 1, n)
    <3>3. a \in Seq(Texts) /\ b \in Seq(Texts)
      BY <3>2 DEF Line
    <3> HIDE DEF a, b
    <3>4. Append(a \o b, t[n + 1]) = a \o Append(b, t[n + 1])
      BY <2>2, <3>3, ConcatAppend
    <3> QED BY <3>1, <3>4 DEF a, b
  <2> QED BY <2>1, <2>5, <2>6
<1> HIDE DEF S
<1>6. \A n \in 0 .. Len(t) : n \in S
  BY <1>1, <1>4, <1>5, UpTo
<1>7. Len(t) \in S
  BY <1>1, <1>6
<1>8. SubSeq(t, 1, Len(t)) = t
  BY DEF Line
<1>9. Reading(v)[Len(v)].full = r.full /\ Reading(v)[Len(v)].rest = r.rest \o t
  BY <1>2, <1>7, <1>8 DEF S
<1>10. Reading(v)[Len(v)] \in Read
  BY <1>1, <1>2, ReadingIs
<1> QED BY <1>2, <1>9, <1>10 DEF v, r, ReadAll, Read

\* What recover appends are lines with something on them.
LEMMA ReadAllType ==
    ASSUME NEW w \in Seq(Tokens)
    PROVE  ReadAll(w) \in Read
BY ReadingIs, LenProperties DEF ReadAll

LEMMA ScanAllType ==
    ASSUME NEW L \in Seq(Line)
    PROVE  ScanAll(L) \in ScanState
BY ScanningIs, LenProperties DEF ScanAll

LEMMA ReplayType ==
    ASSUME NEW w \in Seq(Tokens)
    PROVE  /\ Lines(w) \in Seq(Line)
           /\ Replay(w) = ScanAll(Lines(w)).out
           /\ Replay(w) \in Seq(Line \ {<<>>})
<1>1. Lines(w) \in Seq(Line)
  BY ReadAllType DEF Lines, ReadAll, Read
<1> QED BY <1>1, ScanAllType DEF Replay, ScanAll, ScanState

-----------------------------------------------------------------------------
\* The types.  synced never exceeds the file it is about, and a run that is
\* appending has a line to append.
TypeInv ==
    /\ file \in [Files -> Seq(Tokens)]
    /\ synced \in [Files -> Nat]
    /\ \A f \in Files : synced[f] <= Len(file[f])
    /\ command \in [Procs -> Commands \cup {"none"}]
    /\ todo \in [Procs -> Seq(Line \ {<<>>})]
    /\ stage \in [Procs -> Busy \cup {"idle", "done", "stopped"}]
    /\ \A p \in Procs : stage[p] \in Busy => todo[p] # <<>>
    /\ acked \in Seq(Procs)
    /\ ackedAtLoss \in Nat /\ ackedAtLoss <= Len(acked)

LEMMA TypeInvIsTypeOK == TypeInv => TypeOK
<1> SUFFICES ASSUME TypeInv PROVE TypeOK
  OBVIOUS
<1>1. \A f \in Files : synced[f] \in 0 .. Len(file[f])
  BY LenProperties DEF TypeInv
<1>2. \A p \in Procs : todo[p] \in Seq(Seq(Tokens \ {NewLine}) \ {<<>>})
  BY DEF TypeInv, Line, Texts
<1>3. ackedAtLoss \in 0 .. Len(acked)
  BY LenProperties DEF TypeInv
<1> QED BY <1>1, <1>2, <1>3 DEF TypeInv, TypeOK

\* A beginning of tokens is a part of them, with a piece of the next perhaps.
LEMMA BeginningsType ==
    ASSUME NEW w \in Seq(Tokens), NEW from \in Nat, NEW s \in Beginnings(w, from)
    PROVE  \E n \in Nat :
               /\ from <= n /\ n < Len(w)
               /\ \/ s = SubSeq(w, 1, n)
                  \/ \E piece \in AllPieces : s = Append(SubSeq(w, 1, n), piece)
<1>1. Len(w) \in Nat
  BY LenProperties
<1>2. CASE \E n \in from .. Len(w) - 1 : s = SubSeq(w, 1, n)
  BY <1>1, <1>2
<1>3. CASE \E n \in {m \in from + 1 .. Len(w) : w[m] # NewLine} :
               \E piece \in Pieces(w[n]) : s = Append(SubSeq(w, 1, n - 1), piece)
  <2>0. PICK n \in from + 1 .. Len(w) :
            /\ w[n] # NewLine
            /\ \E piece \in Pieces(w[n]) : s = Append(SubSeq(w, 1, n - 1), piece)
    BY <1>3
  <2>1. PICK piece \in Pieces(w[n]) : s = Append(SubSeq(w, 1, n - 1), piece)
    BY <2>0
  <2>2. n - 1 \in Nat /\ from <= n - 1 /\ n - 1 < Len(w) /\ n \in 1 .. Len(w)
    BY <1>1
  <2>3. w[n] \in Texts
    BY <1>1, <2>0, <2>2, ElementOfSeq DEF Texts
  <2>4. piece \in AllPieces
    BY <2>1, <2>3, TokenFacts
  <2> QED BY <2>1, <2>2, <2>4
<1> QED BY <1>2, <1>3 DEF Beginnings

\* What survives of a file starts with all that was synced; the rest is a part of
\* the file, the last text of it perhaps cut.
LEMMA SurvivorsType ==
    ASSUME TypeInv, NEW f \in Files, NEW s \in Survivors(f)
    PROVE  \E n \in Nat :
               /\ synced[f] <= n /\ n <= Len(file[f])
               /\ \/ s = SubSeq(file[f], 1, n)
                  \/ /\ n < Len(file[f])
                     /\ \E piece \in AllPieces : s = Append(SubSeq(file[f], 1, n), piece)
<1>1. /\ Len(file[f]) \in Nat /\ synced[f] \in Nat /\ file[f] \in Seq(Tokens)
      /\ synced[f] <= Len(file[f])
  BY LenProperties DEF TypeInv
<1>2. CASE s = file[f]
  BY <1>1, <1>2, SubSeqFull
<1>3. CASE s \in Beginnings(file[f], synced[f])
  <2>1. PICK n \in Nat : /\ synced[f] <= n /\ n < Len(file[f])
                         /\ \/ s = SubSeq(file[f], 1, n)
                            \/ \E piece \in AllPieces : s = Append(SubSeq(file[f], 1, n), piece)
    BY <1>1, <1>3, BeginningsType
  <2>2. n <= Len(file[f])
    BY <1>1, <2>1
  <2> QED BY <2>1, <2>2
<1> QED BY <1>2, <1>3 DEF Survivors

LEMMA PrefixFacts ==
    ASSUME NEW S, NEW w \in Seq(S), NEW n \in Nat, n <= Len(w)
    PROVE  /\ SubSeq(w, 1, n) \in Seq(S)
           /\ Len(SubSeq(w, 1, n)) = n
           /\ \A i \in 1 .. n : SubSeq(w, 1, n)[i] = w[i]
<1>1. Len(w) \in Nat
  BY LenProperties
<1>2. \A i \in 1 .. n : w[i] \in S
  BY <1>1, ElementOfSeq
<1>3. SubSeq(w, 1, n) = [i \in 1 .. n |-> w[i]]
  BY SubSeqRestrict, SubSeqProperties, <1>1
<1> QED BY <1>1, <1>2, SubSeqProperties

LEMMA BegunTokens ==
    ASSUME NEW w \in Seq(Tokens), NEW s \in Beginnings(w, 0)
    PROVE  /\ s \in Seq(Tokens)
           /\ Len(w) = 1 => s = <<>> \/ \E piece \in AllPieces : s = <<piece>>
<1>1. PICK n \in Nat : /\ n < Len(w)
                       /\ \/ s = SubSeq(w, 1, n)
                          \/ \E piece \in AllPieces : s = Append(SubSeq(w, 1, n), piece)
  BY BeginningsType
<1> DEFINE k == SubSeq(w, 1, n)
<1>2. k \in Seq(Tokens) /\ Len(k) = n
  BY <1>1, PrefixFacts, LenProperties
<1>3. AllPieces \subseteq Tokens
  BY TokenFacts DEF Texts
<1>4. s = k \/ \E piece \in AllPieces : s = Append(k, piece)
  BY <1>1
<1> HIDE DEF k
<1>5. s \in Seq(Tokens)
  BY <1>2, <1>3, <1>4, AppendProperties
<1>6. ASSUME Len(w) = 1 PROVE s = <<>> \/ \E piece \in AllPieces : s = <<piece>>
  <2>1. k = <<>>
    BY <1>1, <1>2, <1>6, EmptySeq
  <2> QED BY <1>4, <2>1
<1> QED BY <1>5, <1>6

\* Of a file as it survives: its type, and what is untouched.
Untouched(s, w, n) ==
    /\ s \in Seq(Tokens)
    /\ n \in Nat /\ n <= Len(s) /\ n <= Len(w) /\ Len(s) <= n + 1
    /\ \A i \in 1 .. n : s[i] = w[i]
    /\ Len(s) = n + 1 => s[n + 1] \in AllPieces /\ n < Len(w)

LEMMA SurvivorUntouched ==
    ASSUME TypeInv, NEW f \in Files, NEW s \in Survivors(f)
    PROVE  \E n \in Nat : synced[f] <= n /\ Untouched(s, file[f], n)
<1> DEFINE w == file[f]
<1>1. w \in Seq(Tokens) /\ Len(w) \in Nat
  BY LenProperties DEF TypeInv
<1>2. PICK n \in Nat : /\ synced[f] <= n /\ n <= Len(w)
                       /\ \/ s = SubSeq(w, 1, n)
                          \/ /\ n < Len(w)
                             /\ \E piece \in AllPieces : s = Append(SubSeq(w, 1, n), piece)
  BY SurvivorsType
<1> HIDE DEF w
<1> DEFINE k == SubSeq(w, 1, n)
<1>3. k \in Seq(Tokens) /\ Len(k) = n /\ \A i \in 1 .. n : k[i] = w[i]
  BY <1>1, <1>2, PrefixFacts
<1> HIDE DEF k
<1>4. ASSUME s = k PROVE Untouched(s, w, n)
  BY <1>2, <1>3, <1>4 DEF Untouched
<1>5. ASSUME n < Len(w) /\ \E piece \in AllPieces : s = Append(k, piece)
      PROVE  Untouched(s, w, n)
  <2>1. PICK piece \in AllPieces : s = Append(k, piece)
    BY <1>5
  <2>2. piece \in Tokens
    BY TokenFacts DEF Texts
  <2>3. /\ s \in Seq(Tokens) /\ Len(s) = n + 1 /\ s[n + 1] = piece
        /\ \A i \in 1 .. n : s[i] = k[i]
    BY <1>3, <2>1, <2>2, AppendProperties
  <2> QED BY <1>2, <1>3, <1>5, <2>3 DEF Untouched
<1>6. Untouched(s, w, n)
  BY <1>2, <1>4, <1>5 DEF k
<1> QED BY <1>2, <1>6 DEF w

\* Writing makes a file longer.
LEMMA LongerFile ==
    ASSUME TypeInv, NEW g \in Files, NEW t \in Seq(Tokens)
    PROVE  LET new == [file EXCEPT ![g] = @ \o t]
           IN  /\ new \in [Files -> Seq(Tokens)]
               /\ \A f \in Files : synced[f] <= Len(new[f])
<1> DEFINE new == [file EXCEPT ![g] = @ \o t]
<1>1. file[g] \in Seq(Tokens) /\ file[g] \o t \in Seq(Tokens) /\ Len(file[g] \o t) = Len(file[g]) + Len(t)
  BY ConcatProperties DEF TypeInv
<1>2. new[g] = file[g] \o t /\ new \in [Files -> Seq(Tokens)]
  BY <1>1 DEF TypeInv
<1>3. ASSUME NEW f \in Files PROVE synced[f] <= Len(new[f])
  <2>1. synced[f] \in Nat /\ Len(file[f]) \in Nat /\ Len(t) \in Nat /\ synced[f] <= Len(file[f])
    BY LenProperties DEF TypeInv
  <2>2. CASE f = g
    BY <1>1, <1>2, <2>1, <2>2
  <2>3. CASE f # g
    BY <2>1, <2>3 DEF TypeInv
  <2> QED BY <2>2, <2>3
<1> QED BY <1>2, <1>3

LEMMA TargetFile == \A p : Target(p) \in Files
BY DEF Target, Files

LEMMA AppendedType ==
    ASSUME TypeInv, NEW p \in Procs, stage[p] \in Busy, Appended(p)
    PROVE  /\ todo' \in [Procs -> Seq(Line \ {<<>>})]
           /\ stage' \in [Procs -> Busy \cup {"idle", "done", "stopped"}]
           /\ \A q \in Procs : stage'[q] \in Busy => todo'[q] # <<>>
           /\ acked' \in Seq(Procs) /\ Len(acked) <= Len(acked')
<1>1. todo[p] \in Seq(Line \ {<<>>}) /\ todo[p] # <<>>
  BY DEF TypeInv
<1>2. /\ Tail(todo[p]) \in Seq(Line \ {<<>>})
      /\ Len(Tail(todo[p])) = Len(todo[p]) - 1
      /\ Len(todo[p]) \in Nat
  BY <1>1, HeadTailProperties, LenProperties
<1>3. /\ todo' = [todo EXCEPT ![p] = Tail(todo[p])]
      /\ stage' = [stage EXCEPT ![p] = IF Len(todo[p]) = 1 THEN "done" ELSE "text"]
      /\ acked' = acked \/ acked' = Append(acked, p)
  BY DEF Appended
<1>4. todo' \in [Procs -> Seq(Line \ {<<>>})]
  BY <1>2, <1>3 DEF TypeInv
<1>5. stage' \in [Procs -> Busy \cup {"idle", "done", "stopped"}]
  BY <1>3 DEF TypeInv, Busy
<1>6. ASSUME NEW q \in Procs, stage'[q] \in Busy PROVE todo'[q] # <<>>
  <2>1. CASE q = p
    <3>1. Len(todo[p]) # 1
      BY <1>3, <1>6, <2>1 DEF TypeInv, Busy
    <3>2. todo'[p] = Tail(todo[p])
      BY <1>3 DEF TypeInv
    <3>3. Len(Tail(todo[p])) # 0
      BY <1>2, <3>1
    <3> QED BY <2>1, <3>2, <3>3, EmptySeq
  <2>2. CASE q # p
    BY <1>3, <1>6, <2>2 DEF TypeInv
  <2> QED BY <2>1, <2>2
<1>7. acked' \in Seq(Procs) /\ Len(acked) <= Len(acked')
  <2>1. acked \in Seq(Procs) /\ Len(acked) \in Nat
    BY LenProperties DEF TypeInv
  <2> QED BY <1>3, <2>1, AppendProperties
<1> QED BY <1>4, <1>5, <1>6, <1>7

LEMMA TypeInit == Init => TypeInv
<1> SUFFICES ASSUME Init PROVE TypeInv
  OBVIOUS
<1>1. /\ file \in [Files -> Seq(Tokens)] /\ synced \in [Files -> Nat]
      /\ \A f \in Files : synced[f] <= Len(file[f])
  BY DEF Init
<1>2. /\ command \in [Procs -> Commands \cup {"none"}]
      /\ todo \in [Procs -> Seq(Line \ {<<>>})]
      /\ stage \in [Procs -> Busy \cup {"idle", "done", "stopped"}]
      /\ \A p \in Procs : stage[p] \notin Busy
  BY DEF Init, Busy
<1>3. acked \in Seq(Procs) /\ ackedAtLoss \in Nat /\ ackedAtLoss <= Len(acked)
  BY DEF Init
<1> QED BY <1>1, <1>2, <1>3 DEF TypeInv

LEMMA TypeStart ==
    ASSUME TypeInv, NEW p \in Procs,
           NEW cmd \in Commands, NEW lines \in Seq(Line \ {<<>>}),
           command' = [command EXCEPT ![p] = cmd], todo' = [todo EXCEPT ![p] = lines],
           stage' = [stage EXCEPT ![p] = IF lines = <<>> THEN "done" ELSE "text"],
           UNCHANGED <<file, synced, history>>
    PROVE  TypeInv'
<1>1. /\ command' \in [Procs -> Commands \cup {"none"}]
      /\ todo' \in [Procs -> Seq(Line \ {<<>>})]
  BY DEF TypeInv
<1>2. stage' \in [Procs -> Busy \cup {"idle", "done", "stopped"}]
  BY DEF TypeInv, Busy
<1>3. ASSUME NEW q \in Procs, stage'[q] \in Busy PROVE todo'[q] # <<>>
  BY <1>3 DEF TypeInv, Busy
<1>4. file' = file /\ synced' = synced /\ acked' = acked /\ ackedAtLoss' = ackedAtLoss
  BY DEF history
<1> QED BY <1>1, <1>2, <1>3, <1>4 DEF TypeInv

LEMMA ScriptType ==
    \A p \in Procs : /\ << <<Begin>>, <<Set(p)>>, <<Commit>> >> \in Seq(Line \ {<<>>})
                     /\ << <<Begin>>, <<Set(p)>>, <<Commit>> >> # <<>>
<1> TAKE p \in Procs
<1>1. \A x \in Texts : <<x>> \in Line \ {<<>>}
  BY DEF Line
<1>2. Begin \in Texts /\ Set(p) \in Texts /\ Commit \in Texts
  BY TokenFacts
<1>3. \A a, b, c \in Line \ {<<>>} : <<a, b, c>> \in Seq(Line \ {<<>>}) /\ <<a, b, c>> # <<>>
  OBVIOUS
<1> QED BY <1>1, <1>2, <1>3

LEMMA TypeNext == TypeInv /\ [Next]_vars => TypeInv'
<1> SUFFICES ASSUME TypeInv, [Next]_vars PROVE TypeInv'
  OBVIOUS
<1>1. ASSUME NEW p \in Procs, NEW cmd \in WriteCommands, StartWrite(p, cmd) PROVE TypeInv'
  <2> DEFINE lines == << <<Begin>>, <<Set(p)>>, <<Commit>> >>
  <2>1. lines \in Seq(Line \ {<<>>}) /\ lines # <<>>
    BY ScriptType
  <2>2. /\ command' = [command EXCEPT ![p] = cmd] /\ todo' = [todo EXCEPT ![p] = lines]
        /\ stage' = [stage EXCEPT ![p] = IF lines = <<>> THEN "done" ELSE "text"]
        /\ UNCHANGED <<file, synced, history>>
    BY <1>1, <2>1 DEF StartWrite
  <2>3. cmd \in Commands
    BY DEF Commands
  <2> HIDE DEF lines
  <2> QED BY <2>1, <2>2, <2>3, TypeStart
<1>2. ASSUME NEW p \in Procs, StartRecover(p) PROVE TypeInv'
  <2> DEFINE lines == Replay(file["wal"])
  <2>1. lines \in Seq(Line \ {<<>>})
    BY ReplayType DEF TypeInv, Files
  <2>2. /\ command' = [command EXCEPT ![p] = "recover"] /\ todo' = [todo EXCEPT ![p] = lines]
        /\ stage' = [stage EXCEPT ![p] = IF lines = <<>> THEN "done" ELSE "text"]
        /\ UNCHANGED <<file, synced, history>>
    BY <1>2 DEF StartRecover
  <2>3. "recover" \in Commands
    BY DEF Commands
  <2> HIDE DEF lines
  <2> QED BY <2>1, <2>2, <2>3, TypeStart
<1>3. ASSUME NEW p \in Procs, WriteText(p) PROVE TypeInv'
  <2>1. todo[p] \in Seq(Line \ {<<>>}) /\ todo[p] # <<>>
    BY <1>3 DEF TypeInv, WriteText, Busy
  <2>2. Head(todo[p]) \in Seq(Tokens)
    BY <2>1, HeadTailProperties DEF Line, Texts
  <2>3. file' \in [Files -> Seq(Tokens)] /\ \A f \in Files : synced[f] <= Len(file'[f])
    BY <1>3, <2>2, LongerFile, TargetFile DEF WriteText
  <2>4. /\ stage' \in [Procs -> Busy \cup {"idle", "done", "stopped"}]
        /\ \A q \in Procs : stage'[q] \in Busy => todo[q] # <<>>
    BY <1>3 DEF WriteText, TypeInv, Busy
  <2> QED BY <1>3, <2>3, <2>4 DEF WriteText, TypeInv, history
<1>4. ASSUME NEW p \in Procs, WriteNewline(p) PROVE TypeInv'
  <2>1. file' \in [Files -> Seq(Tokens)] /\ \A f \in Files : synced[f] <= Len(file'[f])
    <3>0. NewLine \in Tokens
      BY TokenFacts
    <3>1. file[Target(p)] \in Seq(Tokens) /\ <<NewLine>> \in Seq(Tokens)
      BY <3>0, TargetFile DEF TypeInv
    <3>2. Append(file[Target(p)], NewLine) = file[Target(p)] \o <<NewLine>>
      BY <3>0, <3>1, AppendIsConcat
    <3>3. file' = [file EXCEPT ![Target(p)] = @ \o <<NewLine>>]
      BY <1>4, <3>2 DEF WriteNewline
    <3> QED BY <3>1, <3>3, LongerFile, TargetFile
  <2>2. /\ todo' \in [Procs -> Seq(Line \ {<<>>})]
        /\ stage' \in [Procs -> Busy \cup {"idle", "done", "stopped"}]
        /\ \A q \in Procs : stage'[q] \in Busy => todo'[q] # <<>>
        /\ acked' \in Seq(Procs) /\ Len(acked) <= Len(acked')
    <3>1. CASE Syncs(p)
      <4>1. stage' = [stage EXCEPT ![p] = "sync"] /\ todo' = todo /\ acked' = acked
        BY <1>4, <3>1 DEF WriteNewline
      <4>2. Len(acked) \in Nat
        BY LenProperties DEF TypeInv
      <4> QED BY <1>4, <4>1, <4>2 DEF WriteNewline, TypeInv, Busy
    <3>2. CASE ~Syncs(p)
      BY <1>4, <3>2, AppendedType DEF WriteNewline, Busy
    <3> QED BY <3>1, <3>2
  <2>3. ackedAtLoss \in Nat /\ ackedAtLoss <= Len(acked')
    BY <2>2, LenProperties DEF TypeInv
  <2> QED BY <1>4, <2>1, <2>2, <2>3 DEF WriteNewline, TypeInv
<1>5. ASSUME NEW p \in Procs, Sync(p) PROVE TypeInv'
  <2>1. /\ todo' \in [Procs -> Seq(Line \ {<<>>})]
        /\ stage' \in [Procs -> Busy \cup {"idle", "done", "stopped"}]
        /\ \A q \in Procs : stage'[q] \in Busy => todo'[q] # <<>>
        /\ acked' \in Seq(Procs) /\ Len(acked) <= Len(acked')
    BY <1>5, AppendedType DEF Sync, Busy
  <2>2. ackedAtLoss \in Nat /\ ackedAtLoss <= Len(acked')
    BY <2>1, LenProperties DEF TypeInv
  <2>3. synced' \in [Files -> Nat] /\ \A f \in Files : synced'[f] <= Len(file[f])
    <3>1. \A f \in Files : Len(file[f]) \in Nat
      BY LenProperties DEF TypeInv
    <3>2. synced' = [synced EXCEPT ![Target(p)] = Len(file[Target(p)])]
      BY <1>5 DEF Sync
    <3> QED BY <3>1, <3>2, TargetFile DEF TypeInv
  <2> QED BY <1>5, <2>1, <2>2, <2>3 DEF Sync, TypeInv
<1>6. ASSUME NEW p \in Procs, ShortWrite(p) PROVE TypeInv'
  <2>1. file' \in [Files -> Seq(Tokens)] /\ \A f \in Files : synced[f] <= Len(file'[f])
    <3>1. CASE file' = file
      BY <3>1 DEF TypeInv
    <3>2. CASE stage[p] = "text" /\ \E begun \in Beginnings(Head(todo[p]), 0) :
                   file' = [file EXCEPT ![Target(p)] = @ \o begun]
      <4>1. PICK begun \in Beginnings(Head(todo[p]), 0) : file' = [file EXCEPT ![Target(p)] = @ \o begun]
        BY <3>2
      <4>2. Head(todo[p]) \in Seq(Tokens)
        BY <3>2, HeadTailProperties DEF TypeInv, Busy, Line, Texts
      <4>3. begun \in Seq(Tokens)
        BY <4>2, BegunTokens
      <4> QED BY <4>1, <4>3, LongerFile, TargetFile
    <3> QED BY <1>6, <3>1, <3>2 DEF ShortWrite
  <2>2. /\ stage' \in [Procs -> Busy \cup {"idle", "done", "stopped"}]
        /\ \A q \in Procs : stage'[q] \in Busy => todo[q] # <<>>
    BY <1>6 DEF ShortWrite, TypeInv, Busy
  <2> QED BY <1>6, <2>1, <2>2 DEF ShortWrite, TypeInv, history
<1>7. ASSUME NEW p \in Procs, Kill(p) PROVE TypeInv'
  BY <1>7 DEF Kill, TypeInv, Busy, history
<1>8. CASE PowerLoss
  <2>1. PICK wal \in Survivors("wal"), db \in Survivors("db") :
            file' = [f \in Files |-> IF f = "wal" THEN wal ELSE db]
    BY <1>8 DEF PowerLoss
  <2>2. wal \in Seq(Tokens) /\ db \in Seq(Tokens)
    BY SurvivorUntouched DEF Untouched, Files
  <2>3. file' \in [Files -> Seq(Tokens)]
    BY <2>1, <2>2
  <2>4. synced' = [f \in Files |-> Len(file'[f])]
    BY <1>8 DEF PowerLoss
  <2>5. synced' \in [Files -> Nat] /\ \A f \in Files : synced'[f] <= Len(file'[f])
    BY <2>3, <2>4, LenProperties
  <2>6. ackedAtLoss' \in Nat /\ ackedAtLoss' <= Len(acked') /\ acked' = acked
    BY <1>8, LenProperties DEF PowerLoss, TypeInv
  <2>7. /\ stage' \in [Procs -> Busy \cup {"idle", "done", "stopped"}]
        /\ \A q \in Procs : stage'[q] \notin Busy
    BY <1>8 DEF PowerLoss, TypeInv, Busy
  <2>8. command' = command /\ todo' = todo
    BY <1>8 DEF PowerLoss
  <2> QED BY <2>3, <2>5, <2>6, <2>7, <2>8 DEF TypeInv
<1>9. CASE UNCHANGED vars
  BY <1>9 DEF vars, TypeInv
<1> QED BY <1>1, <1>2, <1>3, <1>4, <1>5, <1>6, <1>7, <1>8, <1>9 DEF Next

LEMMA TypeAlways == Spec => []TypeInv
<1>1. Init => TypeInv
  BY TypeInit
<1>2. TypeInv /\ [Next]_vars => TypeInv'
  BY TypeNext
<1> QED BY <1>1, <1>2, PTL DEF Spec

\* A file is made of lines and pieces of lines, what is synced is in it, and a
\* run that is appending has a line to append: whatever runs at the same time
\* and whatever goes wrong.
THEOREM TypeCorrect == Spec => []TypeOK
BY TypeAlways, TypeInvIsTypeOK, PTL

-----------------------------------------------------------------------------
\* What a recovery makes of a log without pieces in which each SET follows a
\* BEGIN line.  Fed(w, n) is the state of recover's loop after the lines that
\* end among the first n tokens.
Fed(w, n) == ScanAll(Reading(w)[n].full)

Framed(w) ==
    \A n \in 1 .. Len(w) : \A p \in Procs :
        w[n] = Set(p) => n >= 3 /\ w[n - 1] = NewLine /\ w[n - 2] = Begin

Starts(long, short) ==
    Len(short) <= Len(long) /\ \A i \in 1 .. Len(short) : long[i] = short[i]

LEMMA FedStep ==
    ASSUME NEW w \in Seq(Tokens), NEW n \in 1 .. Len(w)
    PROVE  /\ n - 1 \in 0 .. Len(w) /\ n \in 0 .. Len(w)
           /\ Reading(w)[n - 1] \in Read /\ Reading(w)[n] \in Read
           /\ Fed(w, n - 1) \in ScanState /\ Fed(w, n) \in ScanState
           /\ w[n] = NewLine => /\ Reading(w)[n].rest = <<>>
                                /\ Fed(w, n) = Scan(Fed(w, n - 1), Reading(w)[n - 1].rest)
           /\ w[n] # NewLine => /\ Reading(w)[n].rest = Append(Reading(w)[n - 1].rest, w[n])
                                /\ Fed(w, n) = Fed(w, n - 1)
<1> DEFINE r == Reading(w)[n - 1]
           q == Reading(w)[n]
<1>1. Len(w) \in Nat /\ n - 1 \in 0 .. Len(w) /\ n \in 0 .. Len(w)
  BY LenProperties
<1>2. r \in Read /\ q \in Read /\ q = NextToken(r, w[n])
  BY <1>1, ReadingIs
<1> HIDE DEF r, q
<1>3. r.full \in Seq(Line) /\ q.full \in Seq(Line) /\ r.rest \in Line
  BY <1>2 DEF Read
<1>4. ScanAll(r.full) \in ScanState /\ ScanAll(q.full) \in ScanState
  BY <1>3, ScanAllType
<1>5. ASSUME w[n] = NewLine
      PROVE  q.rest = <<>> /\ ScanAll(q.full) = Scan(ScanAll(r.full), r.rest)
  <2>1. q.rest = <<>> /\ q.full = Append(r.full, r.rest)
    BY <1>2, <1>5 DEF NextToken
  <2> QED BY <1>3, <2>1, ScanAppend
<1>6. ASSUME w[n] # NewLine
      PROVE  q.rest = Append(r.rest, w[n]) /\ q.full = r.full
  BY <1>2, <1>6 DEF NextToken, Read
<1> QED BY <1>1, <1>2, <1>4, <1>5, <1>6 DEF r, q, Fed

LEMMA FedType ==
    ASSUME NEW w \in Seq(Tokens), NEW n \in 0 .. Len(w)
    PROVE  Fed(w, n) \in ScanState /\ Fed(w, n).out \in Seq(Line \ {<<>>}) /\ Len(Fed(w, n).out) \in Nat
<1>1. Reading(w)[n].full \in Seq(Line)
  BY ReadingIs DEF Read
<1>2. Fed(w, n) \in ScanState
  BY <1>1, ScanAllType DEF Fed
<1> QED BY <1>2, LenProperties DEF ScanState

\* A turn of the loop adds a line to the output or leaves it alone.
LEMMA ScanStarts ==
    ASSUME NEW s \in ScanState, NEW l \in Line
    PROVE  Starts(Scan(s, l).out, s.out)
<1>1. s.out \in Seq(Line) /\ Len(s.out) \in Nat
  BY LenProperties DEF ScanState
<1>2. Scan(s, l).out = s.out \/ Scan(s, l).out = Append(s.out, l)
  BY DEF Scan, ScanState
<1>3. Starts(s.out, s.out)
  BY <1>1 DEF Starts
<1>4. Starts(Append(s.out, l), s.out)
  BY <1>1, AppendProperties DEF Starts
<1> QED BY <1>2, <1>3, <1>4

LEMMA OutGrows ==
    ASSUME NEW w \in Seq(Tokens), NEW n \in 0 .. Len(w), NEW m \in 0 .. n
    PROVE  Starts(Fed(w, n).out, Fed(w, m).out)
<1> DEFINE S == {k \in 0 .. Len(w) : \A j \in 0 .. k : Starts(Fed(w, k).out, Fed(w, j).out)}
<1>1. Len(w) \in Nat
  BY LenProperties
<1>2. ASSUME NEW k \in 0 .. Len(w) PROVE Starts(Fed(w, k).out, Fed(w, k).out)
  BY FedType DEF Starts
<1>3. 0 \in S
  BY <1>1, <1>2
<1>4. ASSUME NEW k \in 0 .. Len(w) - 1, k \in S PROVE k + 1 \in S
  <2>1. k + 1 \in 1 .. Len(w) /\ (k + 1) - 1 = k /\ k + 1 \in 0 .. Len(w) /\ k \in 0 .. Len(w)
    BY <1>1
  <2>2. Starts(Fed(w, k + 1).out, Fed(w, k).out)
    <3>1. Reading(w)[k].rest \in Line /\ Fed(w, k) \in ScanState
      BY <2>1, ReadingIs, FedType DEF Read
    <3>2. Fed(w, k + 1) = Fed(w, k) \/ Fed(w, k + 1) = Scan(Fed(w, k), Reading(w)[k].rest)
      BY <2>1, FedStep
    <3> QED BY <1>2, <2>1, <3>1, <3>2, ScanStarts
  <2>3. ASSUME NEW j \in 0 .. k + 1 PROVE Starts(Fed(w, k + 1).out, Fed(w, j).out)
    <3>1. CASE j = k + 1
      BY <1>2, <2>1, <3>1
    <3>2. CASE j # k + 1
      <4>1. j \in 0 .. k /\ j \in 0 .. Len(w)
        BY <2>1, <3>2
      <4>2. Starts(Fed(w, k).out, Fed(w, j).out)
        BY <1>4, <4>1
      <4>3. Len(Fed(w, j).out) \in Nat /\ Len(Fed(w, k).out) \in Nat /\ Len(Fed(w, k + 1).out) \in Nat
        BY <2>1, <4>1, FedType
      <4> QED BY <2>2, <4>2, <4>3 DEF Starts
    <3> QED BY <3>1, <3>2
  <2> QED BY <2>1, <2>3
<1> HIDE DEF S
<1>5. \A k \in 0 .. Len(w) : k \in S
  BY <1>1, <1>3, <1>4, UpTo
<1> QED BY <1>5 DEF S

\* The last line may lack its newline; it is handed to the loop all the same.
LEMMA ReplayStarts ==
    ASSUME NEW w \in Seq(Tokens)
    PROVE  Starts(Replay(w), Fed(w, Len(w)).out)
<1> DEFINE r == ReadAll(w)
<1>1. r \in Read /\ Len(w) \in Nat
  BY ReadAllType, LenProperties
<1>2. r.full \in Seq(Line) /\ r.rest \in Line
  BY <1>1 DEF Read
<1>3. Lines(w) = r.full \/ Lines(w) = Append(r.full, r.rest)
  BY DEF Lines, ReadAll
<1>4. Fed(w, Len(w)) = ScanAll(r.full)
  BY DEF Fed, ReadAll
<1> HIDE DEF r
<1>5. ScanAll(r.full) \in ScanState /\ ScanAll(Append(r.full, r.rest)) = Scan(ScanAll(r.full), r.rest)
  BY <1>2, ScanAllType, ScanAppend
<1>6. Replay(w) = ScanAll(Lines(w)).out
  BY ReplayType
<1>7. CASE Lines(w) = r.full
  BY <1>4, <1>5, <1>6, <1>7, LenProperties DEF Starts, ScanState
<1>8. CASE Lines(w) = Append(r.full, r.rest)
  BY <1>2, <1>4, <1>5, <1>6, <1>8, ScanStarts
<1> QED BY <1>3, <1>7, <1>8

\* Without pieces, every BEGIN is seen and no SET is outside a transaction.
LEMMA FramedInTx ==
    ASSUME NEW w \in Seq(Tokens), Framed(w), \A n \in 1 .. Len(w) : w[n] \notin AllPieces,
           NEW n \in 0 .. Len(w)
    PROVE  /\ n > 0 /\ w[n] # NewLine => Reading(w)[n].rest # <<>>
           /\ Reading(w)[n].rest # <<>> /\ Reading(w)[n].rest[1].front = "SET" => Fed(w, n).in_tx
           /\ n >= 2 /\ w[n] = NewLine /\ w[n - 1] = Begin => Fed(w, n).in_tx
<1> DEFINE rest(k) == Reading(w)[k].rest
           Good(k) == /\ rest(k) \in Seq(Texts \ AllPieces)
                      /\ k > 0 /\ w[k] # NewLine => rest(k) # <<>> /\ rest(k)[Len(rest(k))] = w[k]
                      /\ k = 0 \/ w[k] = NewLine => rest(k) = <<>>
                      /\ rest(k) # <<>> /\ rest(k)[1].front = "SET" => Fed(w, k).in_tx
                      /\ k >= 2 /\ w[k] = NewLine /\ w[k - 1] = Begin => Fed(w, k).in_tx
           S == {k \in 0 .. Len(w) : Good(k)}
<1>1. Len(w) \in Nat
  BY LenProperties
<1>2. 0 \in S
  <2>1. rest(0) = <<>>
    BY ReadingIs
  <2>2. Good(0)
    BY <2>1
  <2> HIDE DEF Good
  <2> QED BY <1>1, <2>2
<1>3. ASSUME NEW k \in 0 .. Len(w) - 1, k \in S PROVE k + 1 \in S
  <2> DEFINE l == rest(k)
             t == w[k + 1]
  <2>1. k + 1 \in 1 .. Len(w) /\ (k + 1) - 1 = k /\ k + 1 \in 0 .. Len(w) /\ k \in 0 .. Len(w)
    BY <1>1
  <2>2. Good(k)
    BY <1>3
  <2>3. t \in Tokens /\ t \notin AllPieces
    BY <2>1, ElementOfSeq
  <2>4. l \in Seq(Texts \ AllPieces) /\ Len(l) \in Nat
    BY <2>2, LenProperties
  <2>5. Fed(w, k) \in ScanState /\ Fed(w, k + 1) \in ScanState
    BY <2>1, FedType
  <2>6. CASE t = NewLine
    <3>1. rest(k + 1) = <<>> /\ Fed(w, k + 1) = Scan(Fed(w, k), l)
      BY <2>1, <2>6, FedStep
    <3>2. ASSUME k + 1 >= 2, w[k] = Begin PROVE Fed(w, k + 1).in_tx
      <4>1. Begin # NewLine /\ Begin.word = "BEGIN"
        BY TokenFacts DEF Texts
      <4>2. l # <<>> /\ l[Len(l)] = Begin
        BY <2>1, <2>2, <3>2, <4>1
      <4>3. Len(l) \in 1 .. Len(l) /\ 1 \in 1 .. Len(l)
        BY <2>4, <4>2
      <4>4. Mentions(l, "BEGIN")
        BY <2>4, <4>1, <4>2, <4>3 DEF Mentions
      <4>5. l[1] = Begin \/ l[1] = Commit \/ \E p \in Procs : l[1] = Set(p)
        <5>1. l[1] \in Texts \ AllPieces
          BY <2>4, <4>3, ElementOfSeq
        <5>2. \A x \in Texts \ AllPieces : x = Begin \/ x = Commit \/ \E p \in Procs : x = Set(p)
          BY TokenFacts
        <5> QED BY <5>1, <5>2
      <4>6. l[1].front \in {"TRANSACTION", "SET"}
        BY <4>5, TokenFacts
      <4>7. CASE l[1].front = "TRANSACTION"
        BY <2>5, <3>1, <4>2, <4>4, <4>7 DEF Scan, StartsWith, ScanState
      <4>8. CASE l[1].front = "SET"
        <5>1. Fed(w, k).in_tx
          BY <2>2, <4>2, <4>8
        <5> QED BY <2>5, <3>1, <4>8, <5>1 DEF Scan, StartsWith, ScanState
      <4> QED BY <4>6, <4>7, <4>8
    <3>3. Good(k + 1)
      BY <2>1, <2>6, <3>1, <3>2
    <3> HIDE DEF Good
    <3> QED BY <2>1, <3>3
  <2>7. CASE t # NewLine
    <3>1. rest(k + 1) = Append(l, t) /\ Fed(w, k + 1) = Fed(w, k)
      BY <2>1, <2>7, FedStep
    <3>2. t \in Texts \ AllPieces
      BY <2>3, <2>7 DEF Texts
    <3>3. /\ rest(k + 1) \in Seq(Texts \ AllPieces) /\ rest(k + 1) # <<>>
          /\ Len(rest(k + 1)) = Len(l) + 1
          /\ rest(k + 1)[Len(l) + 1] = t
          /\ \A i \in 1 .. Len(l) : rest(k + 1)[i] = l[i]
      <4> DEFINE Whole == Texts \ AllPieces
                 new == rest(k + 1)
      <4>1. l \in Seq(Whole) /\ t \in Whole /\ new = Append(l, t)
        BY <2>4, <3>1, <3>2
      <4> HIDE DEF Whole, l, t, new
      <4>2. /\ new \in Seq(Whole) /\ new # <<>> /\ Len(new) = Len(l) + 1 /\ new[Len(l) + 1] = t
            /\ \A i \in 1 .. Len(l) : new[i] = l[i]
        BY <4>1, AppendProperties
      <4> QED BY <4>2 DEF Whole, new
    <3>4. ASSUME rest(k + 1)[1].front = "SET" PROVE Fed(w, k).in_tx
      <4>1. CASE l = <<>>
        <5>1. Len(l) = 0
          BY <4>1
        <5>2. rest(k + 1)[1] = t
          BY <3>3, <5>1
        <5>3. PICK p \in Procs : t = Set(p)
          BY <3>2, <3>4, <5>2, TokenFacts
        <5>4. k + 1 >= 3 /\ w[(k + 1) - 1] = NewLine /\ w[(k + 1) - 2] = Begin
          BY <2>1, <5>3 DEF Framed
        <5>5. k >= 2 /\ w[k] = NewLine /\ w[k - 1] = Begin
          BY <2>1, <5>4
        <5> QED BY <2>2, <5>5
      <4>2. CASE l # <<>>
        <5>1. 1 \in 1 .. Len(l)
          BY <2>4, <4>2
        <5>2. l[1].front = "SET"
          BY <3>3, <3>4, <5>1
        <5> QED BY <2>2, <4>2, <5>2
      <4> QED BY <4>1, <4>2
    <3>5. Good(k + 1)
      <4>1. rest(k + 1) \in Seq(Texts \ AllPieces) /\ rest(k + 1) # <<>>
        BY <3>3
      <4>2. rest(k + 1)[Len(rest(k + 1))] = w[k + 1]
        BY <3>3
      <4>3. w[k + 1] # NewLine /\ k + 1 # 0
        BY <2>1, <2>7
      <4>4. rest(k + 1)[1].front = "SET" => Fed(w, k + 1).in_tx
        BY <3>1, <3>4
      <4> QED BY <4>1, <4>2, <4>3, <4>4
    <3> HIDE DEF Good
    <3> QED BY <2>1, <3>5
  <2> QED BY <2>6, <2>7
<1> HIDE DEF S
<1>4. n \in S
  BY <1>1, <1>2, <1>3, UpTo
<1> QED BY <1>4 DEF S

\* A SET line of a framed log is handed to append_file.
LEMMA SetLineReplayed ==
    ASSUME NEW w \in Seq(Tokens), Framed(w), \A n \in 1 .. Len(w) : w[n] \notin AllPieces,
           NEW n \in 1 .. Len(w) - 1, NEW p \in Procs, w[n] = Set(p), w[n + 1] = NewLine
    PROVE  Fed(w, n + 1).out = Append(Fed(w, n).out, <<Set(p)>>)
<1>1. /\ Len(w) \in Nat /\ n \in 1 .. Len(w) /\ n + 1 \in 1 .. Len(w) /\ (n + 1) - 1 = n
      /\ n \in 0 .. Len(w) /\ n - 1 \in 1 .. Len(w) /\ n >= 3
  BY LenProperties DEF Framed
<1>2. w[n - 1] = NewLine /\ Set(p) # NewLine /\ Set(p).front = "SET" /\ Set(p).word = ""
  BY <1>1, TokenFacts DEF Framed, Texts
<1>3. Reading(w)[n - 1].rest = <<>>
  BY <1>1, <1>2, FedStep
<1>4. Reading(w)[n].rest = Append(<<>>, Set(p))
  BY <1>1, <1>2, <1>3, FedStep
<1>5. Reading(w)[n].rest = <<Set(p)>>
  BY <1>4
<1>6. Fed(w, n).in_tx
  <2>1. Reading(w)[n].rest # <<>> /\ Reading(w)[n].rest[1] = Set(p)
    BY <1>5
  <2>2. \A k \in 0 .. Len(w) :
            Reading(w)[k].rest # <<>> /\ Reading(w)[k].rest[1].front = "SET" => Fed(w, k).in_tx
    BY FramedInTx
  <2> QED BY <1>1, <1>2, <2>1, <2>2
<1>7. Fed(w, n + 1) = Scan(Fed(w, n), <<Set(p)>>)
  BY ZenonT(20), <1>1, <1>5, FedStep
<1>8. StartsWith(<<Set(p)>>, "SET") /\ ~StartsWith(<<Set(p)>>, "TRANSACTION")
  BY <1>2 DEF StartsWith
<1>9. Fed(w, n) \in ScanState
  BY <1>1, FedType
<1> QED BY <1>6, <1>7, <1>8, <1>9 DEF Scan, ScanState

SetLines(w, D, who, pos) ==
    /\ \A n \in D : /\ pos[n] \in 1 .. Len(w) - 1
                    /\ w[pos[n]] = Set(who[n]) /\ w[pos[n] + 1] = NewLine
    /\ \A n, m \in D : n < m => pos[n] < pos[m]

ComeOut(lines, D, who) ==
    \E at \in [D -> DOMAIN lines] :
        /\ \A n \in D : lines[at[n]] = <<Set(who[n])>>
        /\ \A n, m \in D : n < m => at[n] < at[m]

\* Hence SET lines in increasing positions of the log come out in that order.
LEMMA SetLinesInOrder ==
    ASSUME NEW w \in Seq(Tokens), Framed(w), \A n \in 1 .. Len(w) : w[n] \notin AllPieces,
           NEW D \in SUBSET Nat, NEW who \in [D -> Procs], NEW pos \in [D -> Nat],
           SetLines(w, D, who, pos)
    PROVE  ComeOut(Replay(w), D, who)
<1> DEFINE out(k) == Fed(w, k).out
           at == [n \in D |-> Len(out(pos[n] + 1))]
<1>1. Len(w) \in Nat /\ Replay(w) \in Seq(Line \ {<<>>}) /\ Len(Replay(w)) \in Nat
  BY LenProperties, ReplayType
<1>2. ASSUME NEW n \in D
      PROVE  /\ pos[n] \in 0 .. Len(w) /\ pos[n] + 1 \in 0 .. Len(w)
             /\ Len(out(pos[n])) \in Nat /\ Len(out(pos[n] + 1)) = Len(out(pos[n])) + 1
             /\ out(pos[n] + 1)[Len(out(pos[n])) + 1] = <<Set(who[n])>>
  <2>1. pos[n] \in 1 .. Len(w) - 1 /\ w[pos[n]] = Set(who[n]) /\ w[pos[n] + 1] = NewLine
    BY DEF SetLines
  <2>2. pos[n] \in 0 .. Len(w) /\ pos[n] + 1 \in 0 .. Len(w)
    BY <1>1, <2>1
  <2>3. out(pos[n] + 1) = Append(out(pos[n]), <<Set(who[n])>>)
    BY SMTT(20), <2>1, SetLineReplayed
  <2>4. out(pos[n]) \in Seq(Line) /\ Len(out(pos[n])) \in Nat
    BY <2>2, FedType
  <2>5. <<Set(who[n])>> \in Line
    <3>1. Set(who[n]) \in Texts
      BY TokenFacts
    <3> QED BY <3>1 DEF Line
  <2> QED BY <2>2, <2>3, <2>4, <2>5, AppendProperties
<1>3. ASSUME NEW n \in D
      PROVE  at[n] \in DOMAIN Replay(w) /\ Replay(w)[at[n]] = <<Set(who[n])>>
  <2>1. Starts(out(Len(w)), out(pos[n] + 1)) /\ Starts(Replay(w), out(Len(w)))
    <3>1. pos[n] + 1 \in 0 .. Len(w) /\ Len(w) \in 0 .. Len(w)
      BY <1>1, <1>2
    <3> QED BY <3>1, OutGrows, ReplayStarts
  <2>2. Len(out(Len(w))) \in Nat
    BY <1>1, FedType
  <2>3. at[n] = Len(out(pos[n])) + 1 /\ at[n] \in 1 .. Len(out(pos[n] + 1))
    BY <1>2
  <2>4. at[n] \in 1 .. Len(out(Len(w))) /\ out(Len(w))[at[n]] = out(pos[n] + 1)[at[n]]
    <3>1. Len(out(pos[n] + 1)) \in Nat
      BY <1>2
    <3> HIDE DEF out, at
    <3> QED BY <2>1, <2>2, <2>3, <3>1 DEF Starts
  <2>5. at[n] \in 1 .. Len(Replay(w)) /\ Replay(w)[at[n]] = out(Len(w))[at[n]]
    BY <1>1, <2>1, <2>2, <2>4 DEF Starts
  <2> QED BY <1>1, <1>2, <2>3, <2>4, <2>5, LenProperties
<1>4. ASSUME NEW n \in D, NEW m \in D, n < m PROVE at[n] < at[m]
  <2>1. pos[n] < pos[m] /\ pos[n] \in Nat /\ pos[m] \in Nat
    BY <1>4 DEF SetLines
  <2>2. pos[n] + 1 \in 0 .. pos[m] /\ pos[m] \in 0 .. Len(w)
    BY <1>2, <2>1
  <2>3. Len(out(pos[n] + 1)) <= Len(out(pos[m]))
    BY <2>2, OutGrows DEF Starts
  <2>4. Len(out(pos[n] + 1)) \in Nat /\ Len(out(pos[m])) \in Nat /\ Len(out(pos[m] + 1)) = Len(out(pos[m])) + 1
    BY <1>2
  <2> HIDE DEF out
  <2> QED BY <2>3, <2>4
<1>5. at \in [D -> DOMAIN Replay(w)]
  BY <1>3
<1> HIDE DEF at
<1> QED BY <1>3, <1>4, <1>5 DEF ComeOut

-----------------------------------------------------------------------------
\* Runs that do not overlap.  A writer's lines are at the end of the log as far
\* as it has come with them, so that its SET is framed, and each transaction that
\* was reported and still has to be honoured has its SET line in the log, in the
\* order of the reports and on disk if it was reported with "(fsync)".
Script(p) == <<Begin, NewLine, Set(p), NewLine, Commit, NewLine>>
Left(p, k) == IF k = 0 THEN << <<Begin>>, <<Set(p)>>, <<Commit>> >>
              ELSE IF k = 1 THEN << <<Set(p)>>, <<Commit>> >> ELSE << <<Commit>> >>
Halfway(s) == IF s = "text" THEN 0 ELSE IF s = "newline" THEN 1 ELSE 2
EndsWith(w, s, m) == m <= Len(w) /\ \A i \in 1 .. m : w[Len(w) - m + i] = s[i]

Writing(p) == stage[p] \in Busy /\ command[p] \in WriteCommands

Placed(w, s, a, D, forced) ==
    \E pos \in [D -> Nat] :
        /\ \A n \in D : /\ pos[n] \in 1 .. Len(w) - 1
                        /\ w[pos[n]] = Set(a[n]) /\ w[pos[n] + 1] = NewLine
                        /\ a[n] \in forced => pos[n] + 1 <= s
        /\ \A n, m \in D : n < m => pos[n] < pos[m]

Forced == {p \in Procs : Syncs(p)}

Alone == \A p, q \in Procs : stage[p] \in Busy /\ stage[q] \in Busy => p = q
ScriptInv ==
    \A p \in Procs : Writing(p) =>
        \E k \in 0 .. 2 : /\ todo[p] = Left(p, k)
                          /\ EndsWith(file["wal"], Script(p), 2 * k + Halfway(stage[p]))
Started == \A p \in Procs : stage[p] \in Busy => command[p] \in Commands
AckedDone == \A n \in DOMAIN acked : stage[acked[n]] = "done" /\ command[acked[n]] \in WriteCommands
LogInv ==
    /\ Alone
    /\ Started
    /\ ScriptInv
    /\ Framed(file["wal"])
    /\ AckedDone
    /\ Placed(file["wal"], synced["wal"], acked, Promised, Forced)

LEMMA EndsWithNext ==
    ASSUME NEW X, NEW w \in Seq(X), NEW s, NEW m \in Nat, EndsWith(w, s, m), s[m + 1] \in X
    PROVE  EndsWith(Append(w, s[m + 1]), s, m + 1)
<1> DEFINE v == Append(w, s[m + 1])
<1>1. /\ Len(w) \in Nat /\ Len(v) = Len(w) + 1 /\ v[Len(w) + 1] = s[m + 1]
      /\ \A i \in 1 .. Len(w) : v[i] = w[i]
  BY AppendProperties, LenProperties
<1> HIDE DEF v
<1>2. ASSUME NEW i \in 1 .. m + 1 PROVE v[Len(v) - (m + 1) + i] = s[i]
  <2>1. CASE i = m + 1
    <3>1. Len(v) - (m + 1) + i = Len(w) + 1
      BY <1>1, <2>1
    <3> QED BY <1>1, <2>1, <3>1
  <2>2. CASE i # m + 1
    <3>1. i \in 1 .. m /\ m <= Len(w)
      BY <2>2 DEF EndsWith
    <3>2. Len(v) - (m + 1) + i = Len(w) - m + i /\ Len(w) - m + i \in 1 .. Len(w)
      BY <1>1, <3>1
    <3>3. w[Len(w) - m + i] = s[i]
      BY <3>1 DEF EndsWith
    <3>4. v[Len(w) - m + i] = w[Len(w) - m + i]
      BY <1>1, <3>2
    <3> QED BY <3>2, <3>3, <3>4
  <2> QED BY <2>1, <2>2
<1>3. m + 1 <= Len(v)
  BY <1>1 DEF EndsWith
<1> QED BY <1>2, <1>3 DEF EndsWith, v

LEMMA FramedAppend ==
    ASSUME NEW w \in Seq(Tokens), Framed(w), NEW t \in Tokens,
           \A p \in Procs : t = Set(p) => Len(w) >= 2 /\ w[Len(w)] = NewLine /\ w[Len(w) - 1] = Begin
    PROVE  Framed(Append(w, t))
<1> DEFINE v == Append(w, t)
<1>1. /\ Len(w) \in Nat /\ Len(v) = Len(w) + 1 /\ v[Len(w) + 1] = t
      /\ \A i \in 1 .. Len(w) : v[i] = w[i]
  BY AppendProperties, LenProperties
<1> HIDE DEF v
<1>2. ASSUME NEW n \in 1 .. Len(v), NEW p \in Procs, v[n] = Set(p)
      PROVE  n >= 3 /\ v[n - 1] = NewLine /\ v[n - 2] = Begin
  <2>1. CASE n = Len(w) + 1
    <3>1. Len(w) >= 2 /\ w[Len(w)] = NewLine /\ w[Len(w) - 1] = Begin
      BY <1>1, <1>2, <2>1
    <3>2. n >= 3 /\ n - 1 = Len(w) /\ n - 2 = Len(w) - 1 /\ n - 1 \in 1 .. Len(w) /\ n - 2 \in 1 .. Len(w)
      BY <1>1, <2>1, <3>1
    <3> QED BY <1>1, <3>1, <3>2
  <2>2. CASE n # Len(w) + 1
    <3>1. n \in 1 .. Len(w) /\ w[n] = Set(p)
      BY <1>1, <1>2, <2>2
    <3>2. n >= 3 /\ w[n - 1] = NewLine /\ w[n - 2] = Begin
      BY <3>1 DEF Framed
    <3>3. n - 1 \in 1 .. Len(w) /\ n - 2 \in 1 .. Len(w)
      BY <1>1, <3>1, <3>2
    <3> QED BY <1>1, <3>2, <3>3
  <2> QED BY <2>1, <2>2
<1> QED BY <1>2 DEF Framed, v

LEMMA FramedCut ==
    ASSUME NEW w \in Seq(Tokens), Framed(w), NEW s, NEW m, Untouched(s, w, m)
    PROVE  Framed(s)
<1>1. /\ Len(w) \in Nat /\ Len(s) \in Nat /\ m \in Nat /\ m <= Len(w) /\ Len(s) <= m + 1 /\ m <= Len(s)
      /\ \A i \in 1 .. m : s[i] = w[i]
      /\ Len(s) = m + 1 => s[m + 1] \in AllPieces
  BY LenProperties DEF Untouched
<1> SUFFICES ASSUME NEW n \in 1 .. Len(s), NEW p \in Procs, s[n] = Set(p)
             PROVE  n >= 3 /\ s[n - 1] = NewLine /\ s[n - 2] = Begin
  BY DEF Framed
<1>2. Set(p) \notin AllPieces
  BY TokenFacts
<1>3. n \in 1 .. m
  BY <1>1, <1>2
<1>4. n \in 1 .. Len(w) /\ w[n] = Set(p)
  BY <1>1, <1>3
<1>5. n >= 3 /\ w[n - 1] = NewLine /\ w[n - 2] = Begin
  BY <1>4 DEF Framed
<1>6. n - 1 \in 1 .. m /\ n - 2 \in 1 .. m
  BY <1>1, <1>3, <1>5
<1> QED BY <1>1, <1>5, <1>6

\* The reports that count keep their places while the log grows, and the fsynced
\* ones when it is cut.
LEMMA PlacedKept ==
    ASSUME NEW w \in Seq(Tokens), NEW v \in Seq(Tokens), Starts(v, w),
           NEW s \in Nat, NEW t \in Nat, s <= t,
           NEW a, NEW D, NEW forced, NEW less, \A n \in D : a[n] \in less => a[n] \in forced,
           Placed(w, s, a, D, forced)
    PROVE  Placed(v, t, a, D, less)
<1>1. PICK pos \in [D -> Nat] :
          /\ \A n \in D : /\ pos[n] \in 1 .. Len(w) - 1
                          /\ w[pos[n]] = Set(a[n]) /\ w[pos[n] + 1] = NewLine
                          /\ a[n] \in forced => pos[n] + 1 <= s
          /\ \A n, m \in D : n < m => pos[n] < pos[m]
  BY DEF Placed
<1>2. ASSUME NEW n \in D
      PROVE  /\ pos[n] \in 1 .. Len(v) - 1
             /\ v[pos[n]] = Set(a[n]) /\ v[pos[n] + 1] = NewLine
             /\ a[n] \in less => pos[n] + 1 <= t
  <2>1. Len(w) \in Nat /\ Len(v) \in Nat /\ Len(w) <= Len(v) /\ \A i \in 1 .. Len(w) : v[i] = w[i]
    BY LenProperties DEF Starts
  <2>2. pos[n] \in 1 .. Len(w) - 1 /\ w[pos[n]] = Set(a[n]) /\ w[pos[n] + 1] = NewLine
    BY <1>1
  <2>3. pos[n] \in 1 .. Len(w) /\ pos[n] + 1 \in 1 .. Len(w) /\ pos[n] \in 1 .. Len(v) - 1 /\ pos[n] \in Nat
    BY <2>1, <2>2
  <2>4. a[n] \in less => pos[n] + 1 <= t
    <3>1. a[n] \in less => pos[n] + 1 <= s
      BY <1>1
    <3> QED BY <2>3, <3>1
  <2> QED BY <2>1, <2>2, <2>3, <2>4
<1> QED BY <1>1, <1>2 DEF Placed

LEMMA PlacedCut ==
    ASSUME NEW w \in Seq(Tokens), NEW v, NEW m, Untouched(v, w, m),
           NEW s \in Nat, NEW t \in Nat, s <= m, m <= t,
           NEW a, NEW D, NEW E \in SUBSET D, NEW forced, \A n \in E : a[n] \in forced,
           Placed(w, s, a, D, forced)
    PROVE  Placed(v, t, a, E, forced)
<1>1. PICK pos \in [D -> Nat] :
          /\ \A n \in D : /\ pos[n] \in 1 .. Len(w) - 1
                          /\ w[pos[n]] = Set(a[n]) /\ w[pos[n] + 1] = NewLine
                          /\ a[n] \in forced => pos[n] + 1 <= s
          /\ \A n, k \in D : n < k => pos[n] < pos[k]
  BY DEF Placed
<1> DEFINE place == [n \in E |-> pos[n]]
<1>2. ASSUME NEW n \in E
      PROVE  /\ pos[n] \in 1 .. Len(v) - 1
             /\ v[pos[n]] = Set(a[n]) /\ v[pos[n] + 1] = NewLine
             /\ pos[n] + 1 <= t
  <2>1. /\ m \in Nat /\ Len(w) \in Nat /\ Len(v) \in Nat /\ m <= Len(v) /\ m <= Len(w)
        /\ \A i \in 1 .. m : v[i] = w[i]
    BY LenProperties DEF Untouched
  <2>2. pos[n] \in 1 .. Len(w) - 1 /\ w[pos[n]] = Set(a[n]) /\ w[pos[n] + 1] = NewLine /\ pos[n] + 1 <= s
    BY <1>1
  <2>3. pos[n] \in 1 .. m /\ pos[n] + 1 \in 1 .. m /\ pos[n] \in 1 .. Len(v) - 1 /\ pos[n] + 1 <= t
    BY <2>1, <2>2
  <2> QED BY <2>1, <2>2, <2>3
<1>3. place \in [E -> Nat] /\ \A n \in E : place[n] = pos[n]
  BY <1>1
<1>4. \A n, k \in E : n < k => place[n] < place[k]
  BY <1>1, <1>3
<1> HIDE DEF place
<1>5. \A n \in E : /\ place[n] \in 1 .. Len(v) - 1
                   /\ v[place[n]] = Set(a[n]) /\ v[place[n] + 1] = NewLine
                   /\ a[n] \in forced => place[n] + 1 <= t
  BY <1>2, <1>3
<1> QED BY <1>3, <1>4, <1>5 DEF Placed

\* A transaction that is reported is the last one in the log.
LEMMA PlacedNext ==
    ASSUME NEW w \in Seq(Tokens), NEW s \in Nat, NEW a \in Seq(Procs), NEW p \in Procs,
           NEW D \in SUBSET (1 .. Len(a)), NEW forced,
           \A n \in 1 .. Len(a) : a[n] # p,
           EndsWith(w, Script(p), 6), p \in forced => s = Len(w),
           Placed(w, s, a, D, forced)
    PROVE  Placed(w, s, Append(a, p), D \cup {Len(a) + 1}, forced)
<1> DEFINE b == Append(a, p)
           new == Len(a) + 1
           E == D \cup {new}
           last == Len(w) - 3
<1>1. PICK pos \in [D -> Nat] :
          /\ \A n \in D : /\ pos[n] \in 1 .. Len(w) - 1
                          /\ w[pos[n]] = Set(a[n]) /\ w[pos[n] + 1] = NewLine
                          /\ a[n] \in forced => pos[n] + 1 <= s
          /\ \A n, m \in D : n < m => pos[n] < pos[m]
  BY DEF Placed
<1>2. /\ Len(a) \in Nat /\ b[new] = p /\ \A n \in 1 .. Len(a) : b[n] = a[n]
  BY LenProperties, AppendProperties
<1>3. /\ Len(w) \in Nat /\ 6 <= Len(w) /\ last \in Nat /\ last \in 1 .. Len(w) - 1
      /\ w[last] = Set(p) /\ w[last + 1] = NewLine
      /\ w[Len(w) - 1] = Commit /\ w[Len(w)] = NewLine
  <2>1. Len(w) \in Nat /\ 6 <= Len(w)
    BY LenProperties DEF EndsWith
  <2>2. \A i \in 1 .. 6 : w[Len(w) - 6 + i] = Script(p)[i]
    BY DEF EndsWith
  <2>3. /\ w[Len(w) - 6 + 3] = Script(p)[3] /\ w[Len(w) - 6 + 4] = Script(p)[4]
        /\ w[Len(w) - 6 + 5] = Script(p)[5] /\ w[Len(w) - 6 + 6] = Script(p)[6]
    BY <2>2
  <2>4. /\ Len(w) - 6 + 3 = last /\ Len(w) - 6 + 4 = last + 1
        /\ Len(w) - 6 + 5 = Len(w) - 1 /\ Len(w) - 6 + 6 = Len(w)
    BY <2>1
  <2>5. Script(p)[3] = Set(p) /\ Script(p)[4] = NewLine /\ Script(p)[5] = Commit /\ Script(p)[6] = NewLine
    BY DEF Script
  <2>6. last \in Nat /\ last \in 1 .. Len(w) - 1
    BY <2>1
  <2> HIDE DEF last
  <2> QED BY <2>1, <2>3, <2>4, <2>5, <2>6
<1>4. ASSUME NEW n \in D PROVE pos[n] < last
  <2>1. pos[n] \in 1 .. Len(w) - 1 /\ w[pos[n]] = Set(a[n]) /\ a[n] \in Procs /\ a[n] # p
    BY <1>1, ElementOfSeq
  <2>2. Set(a[n]) # Set(p) /\ Set(a[n]) # NewLine /\ Set(a[n]) # Commit
    BY <2>1, TokenFacts DEF Texts
  <2>3. pos[n] # last /\ pos[n] # last + 1 /\ pos[n] # Len(w) - 1
    BY <1>3, <2>1, <2>2
  <2> QED BY <1>3, <2>1, <2>3
<1> DEFINE place == [n \in E |-> IF n = new THEN last ELSE pos[n]]
<1>5. new \notin D /\ new \in E
  BY <1>2
<1>6. place[new] = last /\ \A n \in D : place[n] = pos[n]
  BY <1>5
<1>7. place \in [E -> Nat]
  BY <1>1, <1>3
<1> HIDE DEF place, b, last, new
<1>8. ASSUME NEW n \in E
      PROVE  /\ place[n] \in 1 .. Len(w) - 1
             /\ w[place[n]] = Set(b[n]) /\ w[place[n] + 1] = NewLine
             /\ b[n] \in forced => place[n] + 1 <= s
  <2>1. CASE n = new
    <3>1. p \in forced => last + 1 <= s
      BY <1>3 DEF last
    <3> QED BY <1>2, <1>3, <1>6, <2>1, <3>1
  <2>2. CASE n \in D
    BY <1>1, <1>2, <1>6, <2>2
  <2> QED BY <2>1, <2>2
<1>9. ASSUME NEW n \in E, NEW m \in E, n < m PROVE place[n] < place[m]
  <2>1. CASE n \in D /\ m \in D
    BY <1>1, <1>6, <1>9, <2>1
  <2>2. CASE n \in D /\ m = new
    BY <1>4, <1>6, <2>2
  <2>3. CASE n = new
    BY <1>2, <1>9, <2>3 DEF new
  <2> QED BY <2>1, <2>2, <2>3
<1>10. Placed(w, s, b, E, forced)
  <2> HIDE DEF E
  <2> QED BY <1>7, <1>8, <1>9 DEF Placed
<1> QED BY <1>10 DEF b, new

LEMMA LogFacts ==
    ASSUME TypeInv
    PROVE  /\ file["wal"] \in Seq(Tokens) /\ synced["wal"] \in Nat /\ synced["wal"] <= Len(file["wal"])
           /\ Len(file["wal"]) \in Nat /\ Len(acked) \in Nat /\ DOMAIN acked = 1 .. Len(acked)
           /\ \A n \in DOMAIN acked : acked[n] \in Procs
           /\ Promised \in SUBSET (1 .. Len(acked))
<1>1. /\ file["wal"] \in Seq(Tokens) /\ synced["wal"] \in Nat /\ synced["wal"] <= Len(file["wal"])
      /\ acked \in Seq(Procs)
  BY DEF TypeInv, Files
<1> QED BY <1>1, LenProperties, ElementOfSeq DEF Promised

LEMMA LeftFacts ==
    ASSUME NEW p \in Procs, NEW k \in 0 .. 2
    PROVE  /\ Head(Left(p, k)) = <<Script(p)[2 * k + 1]>> /\ Script(p)[2 * k + 1] \in Texts
           /\ Script(p)[2 * k + 2] = NewLine
           /\ Len(Left(p, k)) = 3 - k
           /\ k < 2 => Tail(Left(p, k)) = Left(p, k + 1)
           /\ Script(p)[2 * k + 1] = Begin \/ Script(p)[2 * k + 1] = Commit \/ k = 1
<1>1. Begin \in Texts /\ Set(p) \in Texts /\ Commit \in Texts
  BY TokenFacts
<1>2. CASE k = 0
  <2>1. 2 * k + 1 = 1 /\ 2 * k + 2 = 2 /\ k + 1 = 1
    BY <1>2
  <2> QED BY <1>1, <1>2, <2>1 DEF Left, Script
<1>3. CASE k = 1
  <2>1. 2 * k + 1 = 3 /\ 2 * k + 2 = 4 /\ k + 1 = 2
    BY <1>3
  <2> QED BY <1>1, <1>3, <2>1 DEF Left, Script
<1>4. CASE k = 2
  <2>1. 2 * k + 1 = 5 /\ 2 * k + 2 = 6
    BY <1>4
  <2> QED BY <1>1, <1>4, <2>1 DEF Left, Script
<1> QED BY <1>2, <1>3, <1>4

\* The next state, from the values that it has.
LEMMA NextLogInv ==
    ASSUME Alone', Started', AckedDone',
           Framed(file'["wal"]),
           Placed(file'["wal"], synced'["wal"], acked', Promised', Forced'),
           \A p \in Procs : stage'[p] \in Busy /\ command'[p] \in WriteCommands =>
               \E k \in 0 .. 2 : /\ todo'[p] = Left(p, k)
                                 /\ EndsWith(file'["wal"], Script(p), 2 * k + Halfway(stage'[p]))
    PROVE  LogInv'
<1>1. ScriptInv'
  BY DEF ScriptInv, Writing, EndsWith, Halfway
<1> QED BY <1>1 DEF LogInv, Framed, Placed

\* A step of one run, by what it does to the log: p is the only one that writes,
\* before and after it.
LEMMA OneRun ==
    ASSUME TypeInv, LogInv, TypeInv', NEW p \in Procs,
           stage[p] \in Busy \/ (stage[p] = "idle" /\ \A q \in Procs : stage[q] \notin Busy),
           \A q \in Procs \ {p} : stage'[q] = stage[q] /\ command'[q] = command[q],
           Starts(file'["wal"], file["wal"]), synced["wal"] <= synced'["wal"]
    PROVE  /\ Alone'
           /\ \A q \in Procs : stage'[q] \in Busy => q = p
           /\ \A n \in 1 .. Len(acked) : /\ acked[n] \in Procs \ {p}
                                         /\ stage'[acked[n]] = "done" /\ command'[acked[n]] \in WriteCommands
           /\ UNCHANGED ackedAtLoss => \A n \in 1 .. Len(acked) :
                  n \in Promised <=> (n > ackedAtLoss' \/ acked[n] \in Forced')
           /\ Placed(file'["wal"], synced'["wal"], acked, Promised, Forced')
<1>1. \A q \in Procs : stage'[q] \in Busy => q = p
  BY DEF LogInv, Alone
<1>2. Alone'
  BY <1>1 DEF Alone
<1>3. ASSUME NEW n \in 1 .. Len(acked)
      PROVE  /\ acked[n] \in Procs \ {p}
             /\ stage'[acked[n]] = "done" /\ command'[acked[n]] = command[acked[n]]
             /\ command[acked[n]] \in WriteCommands
             /\ acked[n] \in Forced <=> acked[n] \in Forced'
  <2>1. acked[n] \in Procs /\ stage[acked[n]] = "done" /\ command[acked[n]] \in WriteCommands
    BY LogFacts DEF LogInv, AckedDone
  <2>2. acked[n] # p
    BY <2>1 DEF Busy
  <2> QED BY <2>1, <2>2 DEF Forced, Syncs
<1>4. UNCHANGED ackedAtLoss => \A n \in 1 .. Len(acked) :
          n \in Promised <=> (n > ackedAtLoss' \/ acked[n] \in Forced')
  BY <1>3, LogFacts DEF Promised, Forced
<1>5. Placed(file'["wal"], synced'["wal"], acked, Promised, Forced')
  <2>1. /\ file["wal"] \in Seq(Tokens) /\ file'["wal"] \in Seq(Tokens)
        /\ synced["wal"] \in Nat /\ synced'["wal"] \in Nat
    BY DEF TypeInv, Files
  <2>2. \A n \in Promised : acked[n] \in Forced' => acked[n] \in Forced
    BY <1>3, LogFacts
  <2>3. Placed(file["wal"], synced["wal"], acked, Promised, Forced)
    BY DEF LogInv
  <2> QED BY <2>1, <2>2, <2>3, PlacedKept
<1> QED BY <1>1, <1>2, <1>3, <1>4, <1>5

\* As long as nothing is reported.
LEMMA Unreported ==
    ASSUME TypeInv, LogInv, TypeInv', NEW p \in Procs,
           stage[p] \in Busy \/ (stage[p] = "idle" /\ \A q \in Procs : stage[q] \notin Busy),
           \A q \in Procs \ {p} : stage'[q] = stage[q] /\ command'[q] = command[q],
           Starts(file'["wal"], file["wal"]), synced["wal"] <= synced'["wal"],
           acked' = acked, ackedAtLoss' = ackedAtLoss,
           Framed(file'["wal"]),
           stage'[p] \in Busy => command'[p] \in Commands,
           stage'[p] \in Busy /\ command'[p] \in WriteCommands =>
               \E k \in 0 .. 2 : /\ todo'[p] = Left(p, k)
                                 /\ EndsWith(file'["wal"], Script(p), 2 * k + Halfway(stage'[p]))
    PROVE  LogInv'
<1>1. /\ Alone' /\ \A q \in Procs : stage'[q] \in Busy => q = p
      /\ \A n \in 1 .. Len(acked) : /\ acked[n] \in Procs \ {p}
                                    /\ stage'[acked[n]] = "done" /\ command'[acked[n]] \in WriteCommands
      /\ \A n \in 1 .. Len(acked) : n \in Promised <=> (n > ackedAtLoss' \/ acked[n] \in Forced')
      /\ Placed(file'["wal"], synced'["wal"], acked, Promised, Forced')
  BY OneRun
<1>2. AckedDone'
  BY <1>1, LogFacts DEF AckedDone
<1>3. Promised' = Promised
  <2>1. Promised' = {n \in 1 .. Len(acked) : n > ackedAtLoss' \/ acked[n] \in Forced'}
    BY <1>1, LogFacts DEF Promised, Forced
  <2>2. Promised \in SUBSET (1 .. Len(acked))
    BY LogFacts
  <2> QED BY <1>1, <2>1, <2>2
<1>4. Placed(file'["wal"], synced'["wal"], acked', Promised', Forced')
  BY <1>1, <1>3
<1>5. \A q \in Procs : stage'[q] \in Busy /\ command'[q] \in WriteCommands =>
          \E k \in 0 .. 2 : /\ todo'[q] = Left(q, k)
                            /\ EndsWith(file'["wal"], Script(q), 2 * k + Halfway(stage'[q]))
  BY <1>1
<1>6. Started'
  BY <1>1 DEF Started
<1> QED BY <1>1, <1>2, <1>4, <1>5, <1>6, NextLogInv

\* When a writer comes to its end.
LEMMA Reported ==
    ASSUME TypeInv, LogInv, TypeInv', NEW p \in Procs, stage[p] \in Busy,
           \A q \in Procs \ {p} : stage'[q] = stage[q],
           stage'[p] = "done", command[p] \in WriteCommands, command' = command,
           Starts(file'["wal"], file["wal"]), synced["wal"] <= synced'["wal"],
           acked' = Append(acked, p), ackedAtLoss' = ackedAtLoss,
           Framed(file'["wal"]), EndsWith(file'["wal"], Script(p), 6),
           Syncs(p) => synced'["wal"] = Len(file'["wal"])
    PROVE  LogInv'
<1>1. /\ Alone' /\ \A q \in Procs : stage'[q] \in Busy => q = p
      /\ \A n \in 1 .. Len(acked) : /\ acked[n] \in Procs \ {p}
                                    /\ stage'[acked[n]] = "done" /\ command'[acked[n]] \in WriteCommands
      /\ \A n \in 1 .. Len(acked) : n \in Promised <=> (n > ackedAtLoss' \/ acked[n] \in Forced')
      /\ Placed(file'["wal"], synced'["wal"], acked, Promised, Forced')
  BY OneRun
<1> DEFINE new == Len(acked) + 1
<1>2. /\ acked \in Seq(Procs) /\ Len(acked) \in Nat /\ Len(acked') = new /\ acked'[new] = p
      /\ DOMAIN acked' = 1 .. new
      /\ \A n \in 1 .. Len(acked) : acked'[n] = acked[n]
      /\ ackedAtLoss' \in Nat /\ new > ackedAtLoss'
  <2>1. acked \in Seq(Procs) /\ Len(acked) \in Nat /\ ackedAtLoss \in Nat /\ ackedAtLoss <= Len(acked)
    BY LenProperties DEF TypeInv
  <2>2. /\ acked' \in Seq(Procs) /\ Len(acked') = new /\ acked'[new] = p
        /\ \A n \in 1 .. Len(acked) : acked'[n] = acked[n]
    BY <2>1, AppendProperties
  <2> QED BY <2>1, <2>2, LenProperties
<1>3. AckedDone'
  <2>1. ASSUME NEW n \in DOMAIN acked'
        PROVE  stage'[acked'[n]] = "done" /\ command'[acked'[n]] \in WriteCommands
    <3>1. CASE n = new
      BY <1>2, <3>1
    <3>2. CASE n # new
      <4>1. n \in 1 .. Len(acked)
        BY <1>2, <3>2
      <4> QED BY <1>1, <1>2, <4>1
    <3> QED BY <3>1, <3>2
  <2> QED BY <2>1 DEF AckedDone
<1>4. Promised' = Promised \cup {new}
  <2>1. Promised' = {n \in DOMAIN acked' : n > ackedAtLoss' \/ Syncs(acked[n])'}
    BY DEF Promised
  <2>2. \A n \in 1 .. Len(acked) : Syncs(acked[n])' <=> acked[n] \in Forced'
    BY <1>1, <1>2 DEF Forced, Syncs
  <2>3. Promised \in SUBSET (1 .. Len(acked)) /\ new \notin 1 .. Len(acked)
    BY <1>2, LogFacts
  <2>4. \A n \in 1 .. new : n \in Promised' <=> n \in Promised \cup {new}
    <3> TAKE n \in 1 .. new
    <3>1. CASE n = new
      BY <1>2, <2>1, <3>1
    <3>2. CASE n # new
      <4>1. n \in 1 .. Len(acked)
        BY <1>2, <3>2
      <4> QED BY <1>1, <1>2, <2>1, <2>2, <3>2, <4>1
    <3> QED BY <3>1, <3>2
  <2>5. Promised' \subseteq 1 .. new /\ Promised \cup {new} \subseteq 1 .. new
    <3>1. Promised' \subseteq DOMAIN acked'
      BY <2>1
    <3>2. new \in 1 .. new /\ 1 .. Len(acked) \subseteq 1 .. new
      BY <1>2
    <3> QED BY <1>2, <2>3, <3>1, <3>2
  <2> HIDE DEF new
  <2> QED BY <2>4, <2>5
<1>5. Placed(file'["wal"], synced'["wal"], acked', Promised', Forced')
  <2>1. file'["wal"] \in Seq(Tokens) /\ synced'["wal"] \in Nat
    BY DEF TypeInv, Files
  <2>2. p \in Forced' => synced'["wal"] = Len(file'["wal"])
    BY DEF Forced, Syncs
  <2>3. \A n \in 1 .. Len(acked) : acked[n] # p
    BY <1>1
  <2>4. Promised \in SUBSET (1 .. Len(acked))
    BY LogFacts
  <2>5. Placed(file'["wal"], synced'["wal"], Append(acked, p), Promised \cup {Len(acked) + 1}, Forced')
    BY <1>1, <1>2, <2>1, <2>2, <2>3, <2>4, PlacedNext
  <2> QED BY <1>4, <2>5
<1>6. \A q \in Procs : stage'[q] \notin Busy
  BY <1>1 DEF Busy
<1>7. Started'
  BY <1>6 DEF Started
<1> QED BY <1>1, <1>3, <1>5, <1>6, <1>7, NextLogInv

LEMMA LogInit == Init => LogInv
<1> SUFFICES ASSUME Init PROVE LogInv
  OBVIOUS
<1>1. /\ file["wal"] = <<>> /\ acked = <<>> /\ \A p \in Procs : stage[p] \notin Busy
  BY DEF Init, Files, Busy
<1>2. Alone /\ Started /\ ScriptInv /\ AckedDone
  BY <1>1 DEF Alone, Started, ScriptInv, Writing, AckedDone
<1>3. Framed(file["wal"])
  BY <1>1 DEF Framed
<1>4. Placed(file["wal"], synced["wal"], acked, Promised, Forced)
  <2>1. Promised = {}
    BY <1>1 DEF Promised
  <2> DEFINE pos == [n \in {} |-> 0]
  <2>2. pos \in [{} -> Nat]
    OBVIOUS
  <2> QED BY <2>1, <2>2 DEF Placed
<1> QED BY <1>2, <1>3, <1>4 DEF LogInv

LEMMA StartsSelf == \A w \in Seq(Tokens) : Starts(w, w)
BY LenProperties DEF Starts

LEMMA StartsAppend == \A w \in Seq(Tokens), t \in Tokens : Starts(Append(w, t), w)
BY LenProperties, AppendProperties DEF Starts

\* Where a writer is in its script.
LEMMA WriterAt ==
    ASSUME TypeInv, LogInv, NEW p \in Procs, Writing(p)
    PROVE  \E k \in 0 .. 2 :
               /\ todo[p] = Left(p, k)
               /\ EndsWith(file["wal"], Script(p), 2 * k + Halfway(stage[p]))
               /\ Target(p) = "wal"
BY DEF LogInv, ScriptInv, Writing, Target, WriteCommands

LEMMA LogWriteText ==
    ASSUME TypeInv, LogInv, TypeInv', NEW p \in Procs, WriteText(p)
    PROVE  LogInv'
<1> DEFINE w == file["wal"]
<1>1. /\ stage[p] = "text" /\ stage[p] \in Busy
      /\ \A q \in Procs \ {p} : stage'[q] = stage[q] /\ command'[q] = command[q]
      /\ stage'[p] = "newline" /\ command' = command /\ command[p] \in Commands /\ todo' = todo
      /\ acked' = acked /\ ackedAtLoss' = ackedAtLoss /\ synced' = synced
  BY DEF WriteText, history, Busy, TypeInv, LogInv, Started
<1>2. w \in Seq(Tokens) /\ synced["wal"] \in Nat /\ Framed(w)
  BY LogFacts DEF LogInv
<1>3. CASE command[p] \in WriteCommands
  <2>1. Writing(p)
    BY <1>1, <1>3 DEF Writing
  <2>2. PICK k \in 0 .. 2 : /\ todo[p] = Left(p, k) /\ EndsWith(w, Script(p), 2 * k + Halfway(stage[p]))
                            /\ Target(p) = "wal"
    BY <2>1, WriterAt
  <2> DEFINE t == Script(p)[2 * k + 1]
  <2>3. Head(todo[p]) = <<t>> /\ t \in Texts /\ t \in Tokens /\ (t = Begin \/ t = Commit \/ k = 1)
    BY <2>2, LeftFacts DEF Texts
  <2>4. Append(w, t) = w \o <<t>>
    BY <1>2, <2>3, AppendIsConcat
  <2>5. file'["wal"] = Append(w, t)
    <3>1. file' = [file EXCEPT !["wal"] = file["wal"] \o <<t>>]
      BY <2>2, <2>3 DEF WriteText
    <3> QED BY <2>4, <3>1 DEF TypeInv, Files
  <2>6. EndsWith(w, Script(p), 2 * k) /\ 2 * k \in Nat
    BY <1>1, <2>2 DEF Halfway
  <2>7. EndsWith(file'["wal"], Script(p), 2 * k + 1)
    BY <1>2, <2>3, <2>5, <2>6, EndsWithNext
  <2>8. 2 * k + Halfway(stage'[p]) = 2 * k + 1
    BY <1>1 DEF Halfway
  <2>9. Framed(file'["wal"])
    <3>1. ASSUME NEW q \in Procs, t = Set(q)
          PROVE  Len(w) >= 2 /\ w[Len(w)] = NewLine /\ w[Len(w) - 1] = Begin
      <4>1. k = 1
        BY <2>3, <3>1, TokenFacts
      <4>2. EndsWith(w, Script(p), 2)
        BY <2>6, <4>1
      <4>3. Len(w) \in Nat /\ Len(w) >= 2 /\ w[Len(w) - 2 + 1] = Script(p)[1] /\ w[Len(w) - 2 + 2] = Script(p)[2]
        BY <1>2, <4>2, LenProperties DEF EndsWith
      <4>4. Len(w) - 2 + 1 = Len(w) - 1 /\ Len(w) - 2 + 2 = Len(w)
        BY <4>3
      <4>5. Script(p)[1] = Begin /\ Script(p)[2] = NewLine
        BY DEF Script
      <4> QED BY <4>3, <4>4, <4>5
    <3> QED BY <1>2, <2>3, <2>5, <3>1, FramedAppend
  <2>10. Starts(file'["wal"], w) /\ synced["wal"] <= synced'["wal"]
    BY <1>1, <1>2, <2>3, <2>5, StartsAppend
  <2>11. \E j \in 0 .. 2 : /\ todo'[p] = Left(p, j)
                           /\ EndsWith(file'["wal"], Script(p), 2 * j + Halfway(stage'[p]))
    BY <1>1, <2>2, <2>7, <2>8
  <2> HIDE DEF w, t
  <2> QED BY <1>1, <2>9, <2>10, <2>11, Unreported DEF w
<1>4. CASE command[p] \notin WriteCommands
  <2>1. Target(p) = "db"
    BY <1>1, <1>4 DEF Commands, Target
  <2>2. file'["wal"] = w
    BY <2>1 DEF WriteText, TypeInv, Files
  <2> HIDE DEF w
  <2>3. Starts(file'["wal"], w) /\ Framed(file'["wal"]) /\ synced["wal"] <= synced'["wal"]
    BY <1>1, <1>2, <2>2, StartsSelf
  <2> QED BY <1>1, <1>4, <2>3, Unreported DEF w
<1> QED BY <1>3, <1>4

\* append_file returns to a writer.
LEMMA LogAppended ==
    ASSUME TypeInv, LogInv, TypeInv', NEW p \in Procs, stage[p] \in Busy, command[p] \in WriteCommands,
           Appended(p), command' = command, ackedAtLoss' = ackedAtLoss,
           Starts(file'["wal"], file["wal"]), synced["wal"] <= synced'["wal"],
           Framed(file'["wal"]),
           Syncs(p) => synced'["wal"] = Len(file'["wal"]),
           NEW k \in 0 .. 2, todo[p] = Left(p, k), EndsWith(file'["wal"], Script(p), 2 * k + 2)
    PROVE  LogInv'
<1>1. /\ Len(todo[p]) = 3 - k
      /\ todo' = [todo EXCEPT ![p] = Tail(@)]
      /\ stage' = [stage EXCEPT ![p] = IF Len(todo[p]) = 1 THEN "done" ELSE "text"]
      /\ acked' = IF Len(todo[p]) = 1 THEN Append(acked, p) ELSE acked
  BY LeftFacts DEF Appended
<1>2. \A q \in Procs \ {p} : stage'[q] = stage[q] /\ command'[q] = command[q]
  BY <1>1 DEF TypeInv
<1>3. CASE k = 2
  <2>1. Len(todo[p]) = 1 /\ 2 * k + 2 = 6
    BY <1>1, <1>3
  <2>2. stage'[p] = "done" /\ acked' = Append(acked, p)
    BY <1>1, <2>1 DEF TypeInv
  <2>3. EndsWith(file'["wal"], Script(p), 6)
    BY <2>1
  <2> QED BY <1>2, <2>2, <2>3, Reported
<1>4. CASE k # 2
  <2>1. k < 2 /\ k + 1 \in 0 .. 2 /\ Len(todo[p]) # 1 /\ 2 * (k + 1) + 0 = 2 * k + 2
    BY <1>1, <1>4
  <2>2. stage'[p] = "text" /\ todo'[p] = Left(p, k + 1) /\ acked' = acked
    BY <1>1, <2>1, LeftFacts DEF TypeInv
  <2>3. EndsWith(file'["wal"], Script(p), 2 * (k + 1) + Halfway(stage'[p]))
    BY <2>1, <2>2 DEF Halfway
  <2>4. command'[p] \in Commands
    BY DEF Commands
  <2> QED BY <1>2, <2>1, <2>2, <2>3, <2>4, Unreported
<1> QED BY <1>3, <1>4

LEMMA LogWriteNewline ==
    ASSUME TypeInv, LogInv, TypeInv', NEW p \in Procs, WriteNewline(p)
    PROVE  LogInv'
<1> DEFINE w == file["wal"]
<1>1. /\ stage[p] = "newline" /\ stage[p] \in Busy /\ command' = command /\ command[p] \in Commands
      /\ synced' = synced /\ ackedAtLoss' = ackedAtLoss
  BY DEF WriteNewline, Busy, LogInv, Started
<1>2. w \in Seq(Tokens) /\ synced["wal"] \in Nat /\ Framed(w) /\ synced["wal"] <= synced'["wal"]
  BY <1>1, LogFacts DEF LogInv
<1>3. ASSUME Syncs(p)
      PROVE  /\ \A q \in Procs \ {p} : stage'[q] = stage[q] /\ command'[q] = command[q]
             /\ stage'[p] = "sync" /\ todo' = todo /\ acked' = acked
  BY <1>1, <1>3 DEF WriteNewline, TypeInv
<1>4. CASE command[p] \in WriteCommands
  <2>1. Writing(p)
    BY <1>1, <1>4 DEF Writing
  <2>2. PICK k \in 0 .. 2 : /\ todo[p] = Left(p, k) /\ EndsWith(w, Script(p), 2 * k + Halfway(stage[p]))
                            /\ Target(p) = "wal"
    BY <2>1, WriterAt
  <2>3. NewLine \in Tokens /\ Script(p)[2 * k + 2] = NewLine
    BY TokenFacts, LeftFacts
  <2>4. file'["wal"] = Append(w, NewLine)
    BY <2>2 DEF WriteNewline, TypeInv, Files
  <2>5. EndsWith(w, Script(p), 2 * k + 1) /\ 2 * k + 1 \in Nat /\ (2 * k + 1) + 1 = 2 * k + 2
    BY <1>1, <2>2 DEF Halfway
  <2>6. EndsWith(file'["wal"], Script(p), 2 * k + 2)
    <3> DEFINE m == 2 * k + 1
    <3>1. EndsWith(w, Script(p), m) /\ m \in Nat /\ Script(p)[m + 1] = NewLine /\ m + 1 = 2 * k + 2
      BY <2>3, <2>5
    <3> HIDE DEF m, w
    <3>2. EndsWith(Append(w, Script(p)[m + 1]), Script(p), m + 1)
      BY <1>2, <2>3, <3>1, EndsWithNext
    <3> QED BY <2>4, <3>1, <3>2
  <2>7. Framed(file'["wal"]) /\ Starts(file'["wal"], w)
    <3>1. \A q \in Procs : Set(q) # NewLine
      BY TokenFacts DEF Texts
    <3> QED BY <1>2, <2>3, <2>4, <3>1, FramedAppend, StartsAppend
  <2> HIDE DEF w
  <2>8. CASE Syncs(p)
    <3>1. EndsWith(file'["wal"], Script(p), 2 * k + Halfway(stage'[p])) /\ todo'[p] = Left(p, k)
      BY <1>3, <2>2, <2>6, <2>8 DEF Halfway
    <3> QED BY <1>1, <1>2, <1>3, <2>7, <2>8, <3>1, Unreported DEF w
  <2>9. CASE ~Syncs(p)
    <3>1. Appended(p)
      BY <2>9 DEF WriteNewline
    <3> QED BY <1>1, <1>2, <1>4, <2>2, <2>6, <2>7, <2>9, <3>1, LogAppended DEF w
  <2> QED BY <2>8, <2>9
<1>5. CASE command[p] \notin WriteCommands
  <2>1. Target(p) = "db" /\ Syncs(p)
    BY <1>1, <1>5 DEF Commands, Target, Syncs, WriteCommands
  <2>2. file'["wal"] = w
    BY <2>1 DEF WriteNewline, TypeInv, Files
  <2> HIDE DEF w
  <2>3. Starts(file'["wal"], w) /\ Framed(file'["wal"])
    BY <1>2, <2>2, StartsSelf
  <2> QED BY <1>1, <1>2, <1>3, <1>5, <2>1, <2>3, Unreported DEF w
<1> QED BY <1>4, <1>5

LEMMA LogSync ==
    ASSUME TypeInv, LogInv, TypeInv', NEW p \in Procs, Sync(p)
    PROVE  LogInv'
<1> DEFINE w == file["wal"]
<1>1. /\ stage[p] = "sync" /\ stage[p] \in Busy /\ command' = command /\ command[p] \in Commands
      /\ file' = file /\ ackedAtLoss' = ackedAtLoss /\ Appended(p)
      /\ synced' = [synced EXCEPT ![Target(p)] = Len(file[Target(p)])]
  BY DEF Sync, Busy, LogInv, Started
<1>2. /\ w \in Seq(Tokens) /\ synced["wal"] \in Nat /\ Framed(w) /\ synced["wal"] <= Len(w)
      /\ Len(w) \in Nat
  BY LogFacts DEF LogInv
<1>3. /\ Starts(file'["wal"], w) /\ Framed(file'["wal"]) /\ synced["wal"] <= synced'["wal"]
      /\ Target(p) = "wal" => synced'["wal"] = Len(file'["wal"])
  <2>1. synced'["wal"] = IF Target(p) = "wal" THEN Len(w) ELSE synced["wal"]
    BY <1>1 DEF TypeInv, Files
  <2> HIDE DEF w
  <2> QED BY <1>1, <1>2, <2>1, StartsSelf DEF w
<1>4. CASE command[p] \in WriteCommands
  <2>1. Writing(p)
    BY <1>1, <1>4 DEF Writing
  <2>2. PICK k \in 0 .. 2 : /\ todo[p] = Left(p, k) /\ EndsWith(w, Script(p), 2 * k + Halfway(stage[p]))
                            /\ Target(p) = "wal"
    BY <2>1, WriterAt
  <2>3. EndsWith(file'["wal"], Script(p), 2 * k + 2)
    BY <1>1, <2>2 DEF Halfway
  <2> QED BY <1>1, <1>3, <1>4, <2>2, <2>3, LogAppended
<1>5. CASE command[p] \notin WriteCommands
  <2>1. /\ acked' = acked
        /\ \A q \in Procs \ {p} : stage'[q] = stage[q] /\ command'[q] = command[q]
    BY <1>1, <1>5 DEF Appended, TypeInv
  <2> QED BY <1>1, <1>3, <1>5, <2>1, Unreported
<1> QED BY <1>4, <1>5

LEMMA LogStop ==
    ASSUME TypeInv, LogInv, TypeInv', NEW p \in Procs, ShortWrite(p) \/ Kill(p)
    PROVE  LogInv'
<1> DEFINE w == file["wal"]
<1>1. /\ stage[p] \in Busy /\ stage'[p] = "stopped" /\ stage'[p] \notin Busy
      /\ \A q \in Procs \ {p} : stage'[q] = stage[q] /\ command'[q] = command[q]
      /\ acked' = acked /\ ackedAtLoss' = ackedAtLoss /\ synced' = synced
  BY DEF ShortWrite, Kill, Busy, TypeInv, history
<1>2. w \in Seq(Tokens) /\ synced["wal"] \in Nat /\ Framed(w)
  BY LogFacts DEF LogInv
<1>3. Starts(file'["wal"], w) /\ Framed(file'["wal"])
  <2>1. CASE file'["wal"] = w
    BY <1>2, <2>1, StartsSelf
  <2>2. CASE stage[p] = "text" /\ \E begun \in Beginnings(Head(todo[p]), 0) :
                   file' = [file EXCEPT ![Target(p)] = @ \o begun]
    <3>1. PICK begun \in Beginnings(Head(todo[p]), 0) : file' = [file EXCEPT ![Target(p)] = @ \o begun]
      BY <2>2
    <3>2. CASE command[p] \notin WriteCommands
      <4>1. Target(p) = "db"
        BY <1>1, <3>2 DEF LogInv, Started, Commands, Target
      <4> QED BY <2>1, <3>1, <4>1 DEF TypeInv, Files
    <3>3. CASE command[p] \in WriteCommands
      <4>1. PICK k \in 0 .. 2 : todo[p] = Left(p, k) /\ Target(p) = "wal"
        BY <1>1, <3>3, WriterAt DEF Writing
      <4>2. Head(todo[p]) \in Seq(Tokens) /\ Len(Head(todo[p])) = 1
        <5> DEFINE t == Script(p)[2 * k + 1]
        <5>1. Head(todo[p]) = <<t>> /\ t \in Tokens
          BY <4>1, LeftFacts DEF Texts
        <5>2. \A u \in Tokens : <<u>> \in Seq(Tokens) /\ Len(<<u>>) = 1
          OBVIOUS
        <5> HIDE DEF t
        <5> QED BY <5>1, <5>2
      <4>3. begun = <<>> \/ \E piece \in AllPieces : begun = <<piece>>
        BY <4>2, BegunTokens
      <4>4. file'["wal"] = w \o begun
        BY <3>1, <4>1 DEF TypeInv, Files
      <4>5. CASE begun = <<>>
        <5>1. w \o <<>> = w
          BY <1>2, ConcatEmptySeq
        <5>2. file'["wal"] = w
          BY <4>4, <4>5, <5>1
        <5> QED BY <2>1, <5>2
      <4>6. CASE \E piece \in AllPieces : begun = <<piece>>
        <5>1. PICK piece \in AllPieces : begun = <<piece>>
          BY <4>6
        <5>2. piece \in Tokens /\ \A q \in Procs : Set(q) # piece
          <6>1. piece \in AllPieces
            OBVIOUS
          <6>2. AllPieces \subseteq Tokens /\ \A q \in Procs : Set(q) \notin AllPieces
            BY TokenFacts DEF Texts
          <6> QED BY <6>1, <6>2
        <5>3. file'["wal"] = Append(w, piece)
          BY <1>2, <4>4, <5>1, <5>2, AppendIsConcat
        <5> QED BY <1>2, <5>2, <5>3, FramedAppend, StartsAppend
      <4> QED BY <4>3, <4>5, <4>6
    <3> QED BY <3>2, <3>3
  <2> QED BY <2>1, <2>2 DEF ShortWrite, Kill
<1>4. synced["wal"] <= synced'["wal"]
  BY <1>1, <1>2
<1> HIDE DEF w
<1> QED BY <1>1, <1>3, <1>4, Unreported DEF w

LEMMA LogStart ==
    ASSUME TypeInv, LogInv, TypeInv', ~Concurrent, NEW p \in Procs,
           (\E cmd \in WriteCommands : StartWrite(p, cmd)) \/ StartRecover(p)
    PROVE  LogInv'
<1>1. /\ stage[p] = "idle" /\ \A q \in Procs : stage[q] \notin Busy
      /\ \A q \in Procs \ {p} : stage'[q] = stage[q] /\ command'[q] = command[q]
      /\ file' = file /\ synced' = synced /\ acked' = acked /\ ackedAtLoss' = ackedAtLoss
  BY DEF StartWrite, StartRecover, MayStart, TypeInv, history
<1>2. /\ Starts(file'["wal"], file["wal"]) /\ synced["wal"] <= synced'["wal"]
      /\ Framed(file'["wal"])
  BY <1>1, LogFacts, StartsSelf DEF LogInv
<1>3. command'[p] \in Commands
  BY DEF StartWrite, StartRecover, TypeInv, Commands
<1>4. ASSUME stage'[p] \in Busy, command'[p] \in WriteCommands
      PROVE  \E k \in 0 .. 2 : /\ todo'[p] = Left(p, k)
                               /\ EndsWith(file'["wal"], Script(p), 2 * k + Halfway(stage'[p]))
  <2>1. PICK cmd \in WriteCommands : StartWrite(p, cmd)
    BY <1>4 DEF StartRecover, TypeInv, WriteCommands
  <2>2. todo'[p] = Left(p, 0) /\ stage'[p] = "text"
    BY <2>1 DEF StartWrite, TypeInv, Left
  <2>3. 2 * 0 + Halfway(stage'[p]) = 0
    BY <2>2 DEF Halfway
  <2>4. EndsWith(file'["wal"], Script(p), 0)
    BY <1>1, LogFacts DEF EndsWith
  <2> QED BY <2>2, <2>3, <2>4
<1> QED BY <1>1, <1>2, <1>3, <1>4, Unreported

\* A power loss takes what is not synced, and the reports that rested on it.
LEMMA LogPowerLoss ==
    ASSUME TypeInv, LogInv, TypeInv', PowerLoss
    PROVE  LogInv'
<1> DEFINE w == file["wal"]
<1>1. /\ \A p \in Procs : stage'[p] = (IF stage[p] \in Busy THEN "stopped" ELSE stage[p])
      /\ command' = command /\ acked' = acked /\ ackedAtLoss' = Len(acked)
  BY DEF PowerLoss
<1>2. \A p \in Procs : stage'[p] \notin Busy
  BY <1>1 DEF Busy
<1>3. Alone' /\ Started'
  BY <1>2 DEF Alone, Started
<1>4. AckedDone'
  <2>1. \A n \in DOMAIN acked : /\ acked[n] \in Procs /\ stage[acked[n]] = "done"
                                /\ command[acked[n]] \in WriteCommands
    BY LogFacts DEF LogInv, AckedDone
  <2>2. "done" \notin Busy
    BY DEF Busy
  <2>3. \A n \in DOMAIN acked' : stage'[acked'[n]] = "done" /\ command'[acked'[n]] \in WriteCommands
    BY <1>1, <2>1, <2>2
  <2> QED BY <2>3 DEF AckedDone
<1>5. PICK wal \in Survivors("wal") :
          file'["wal"] = wal /\ synced'["wal"] = Len(wal)
  BY DEF PowerLoss, Files
<1>6. /\ w \in Seq(Tokens) /\ synced["wal"] \in Nat /\ Framed(w)
      /\ Placed(w, synced["wal"], acked, Promised, Forced)
      /\ Promised \in SUBSET (1 .. Len(acked)) /\ Len(acked) \in Nat /\ DOMAIN acked = 1 .. Len(acked)
      /\ \A n \in DOMAIN acked : acked[n] \in Procs
  BY LogFacts DEF LogInv
<1>7. PICK m \in Nat : synced["wal"] <= m /\ Untouched(wal, w, m)
  BY SurvivorUntouched DEF Files
<1>8. Framed(file'["wal"])
  BY <1>5, <1>6, <1>7, FramedCut
<1>9. Forced' = Forced
  BY <1>1 DEF Forced, Syncs
<1>10. Promised' \in SUBSET Promised /\ \A n \in Promised' : acked[n] \in Forced
  <2>1. Promised' = {n \in DOMAIN acked : n > Len(acked) \/ Syncs(acked[n])'}
    BY <1>1 DEF Promised
  <2>2. \A n \in DOMAIN acked : Syncs(acked[n])' <=> Syncs(acked[n])
    BY <1>1 DEF Syncs
  <2>3. \A n \in DOMAIN acked : ~(n > Len(acked))
    BY <1>6
  <2> QED BY <1>6, <2>1, <2>2, <2>3 DEF Promised, Forced
<1>11. Placed(file'["wal"], synced'["wal"], acked', Promised', Forced')
  <2>1. m <= Len(wal) /\ Len(wal) \in Nat
    BY <1>7, LenProperties DEF Untouched
  <2> HIDE DEF w
  <2>2. Placed(wal, Len(wal), acked, Promised', Forced)
    BY <1>6, <1>7, <1>10, <2>1, PlacedCut
  <2> QED BY <1>1, <1>5, <1>9, <2>2
<1> QED BY <1>2, <1>3, <1>4, <1>8, <1>11, NextLogInv

LEMMA LogNext ==
    ASSUME TypeInv, LogInv, TypeInv', ~Concurrent, [Next]_vars
    PROVE  LogInv'
<1>1. ASSUME NEW p \in Procs, (\E cmd \in WriteCommands : StartWrite(p, cmd)) \/ StartRecover(p) PROVE LogInv'
  BY <1>1, LogStart
<1>2. ASSUME NEW p \in Procs, WriteText(p) PROVE LogInv'
  BY <1>2, LogWriteText
<1>3. ASSUME NEW p \in Procs, WriteNewline(p) PROVE LogInv'
  BY <1>3, LogWriteNewline
<1>4. ASSUME NEW p \in Procs, Sync(p) PROVE LogInv'
  BY <1>4, LogSync
<1>5. ASSUME NEW p \in Procs, ShortWrite(p) \/ Kill(p) PROVE LogInv'
  BY <1>5, LogStop
<1>6. CASE PowerLoss
  BY <1>6, LogPowerLoss
<1>7. CASE UNCHANGED vars
  <2>1. UNCHANGED <<file, synced, command, todo, stage, acked, ackedAtLoss>>
    BY <1>7 DEF vars
  <2>2. Alone' /\ Started' /\ AckedDone'
    BY <2>1 DEF LogInv, Alone, Started, AckedDone
  <2>3. ScriptInv'
    BY <2>1 DEF LogInv, ScriptInv, Writing
  <2>4. Forced' = Forced /\ Promised' = Promised
    BY <2>1 DEF Forced, Promised, Syncs
  <2>5. Framed(file["wal"])' /\ Placed(file["wal"], synced["wal"], acked, Promised, Forced)'
    BY <2>1, <2>4 DEF LogInv
  <2> QED BY <2>2, <2>3, <2>5 DEF LogInv
<1> QED BY <1>1, <1>2, <1>3, <1>4, <1>5, <1>6, <1>7 DEF Next

LEMMA LogAlways == ASSUME ~Concurrent PROVE Spec => [](TypeInv /\ LogInv)
<1>1. Init => TypeInv /\ LogInv
  BY TypeInit, LogInit
<1>2. TypeInv /\ LogInv /\ [Next]_vars => TypeInv' /\ LogInv'
  BY TypeNext, LogNext
<1> QED BY <1>1, <1>2, PTL DEF Spec

LEMMA LogInvReplays == TypeInv /\ LogInv => AckedReplayed
<1> SUFFICES ASSUME TypeInv, LogInv, NoPieces
             PROVE  \E at \in [Promised -> DOMAIN Replay(file["wal"])] :
                        /\ \A n \in Promised : Replay(file["wal"])[at[n]] = <<Set(acked[n])>>
                        /\ \A n, m \in Promised : n < m => at[n] < at[m]
  BY DEF AckedReplayed
<1> DEFINE w == file["wal"]
           who == [n \in Promised |-> acked[n]]
<1>1. /\ w \in Seq(Tokens) /\ Framed(w) /\ Placed(w, synced["wal"], acked, Promised, Forced)
      /\ Promised \in SUBSET Nat /\ who \in [Promised -> Procs]
      /\ \A n \in Promised : who[n] = acked[n]
  BY LogFacts DEF LogInv
<1>2. \A n \in 1 .. Len(w) : w[n] \notin AllPieces
  BY <1>1, LenProperties DEF NoPieces
<1>3. PICK pos \in [Promised -> Nat] :
          /\ \A n \in Promised : /\ pos[n] \in 1 .. Len(w) - 1
                                 /\ w[pos[n]] = Set(acked[n]) /\ w[pos[n] + 1] = NewLine
          /\ \A n, m \in Promised : n < m => pos[n] < pos[m]
  BY <1>1 DEF Placed
<1>4. SetLines(w, Promised, who, pos)
  BY <1>1, <1>3 DEF SetLines
<1> HIDE DEF w, who
<1>5. ComeOut(Replay(w), Promised, who)
  BY <1>1, <1>2, <1>3, <1>4, SetLinesInOrder
<1> QED BY <1>1, <1>5 DEF w, ComeOut

\* "Transaction %d written to WAL" (line 39): for any number of runs that do not
\* overlap, killed, cut short or struck by power losses in any order, a recovery
\* applies every transaction that was reported, whole and in the order of the
\* reports, those without "(fsync)" until the next power loss.
THEOREM ReportsHonoured == ASSUME ~Concurrent PROVE Spec => []AckedReplayed
<1>1. Spec => [](TypeInv /\ LogInv)
  BY LogAlways
<1>2. TypeInv /\ LogInv => AckedReplayed
  BY LogInvReplays
<1> QED BY <1>1, <1>2, PTL

-----------------------------------------------------------------------------
\* db.txt.  Unless a recovery was stopped, db.txt is complete and on disk between
\* recoveries; a recovery that is under way has appended so many of the lines
\* that the log asks for, the last one perhaps without its newline.
Recovering(p) == stage[p] \in Busy /\ command[p] = "recover"

Progress(lines, read, left, at, d) ==
    /\ left = SubSeq(lines, d + 1, Len(lines))
    /\ EndsWith(read.full, lines, IF at = "sync" THEN d + 1 ELSE d)
    /\ read.rest = IF at = "newline" THEN lines[d + 1] ELSE <<>>

DbInv ==
    (\A q \in Procs : ~Broken(q)) =>
        /\ (\A q \in Procs : ~Recovering(q)) =>
               ReadAll(file["db"]).rest = <<>> /\ synced["db"] = Len(file["db"])
        /\ \A q \in Procs : Recovering(q) =>
               \E d \in 0 .. Len(Replay(file["wal"])) - 1 :
                   Progress(Replay(file["wal"]), ReadAll(file["db"]), todo[q], stage[q], d)

LEMMA DbFacts ==
    ASSUME TypeInv
    PROVE  /\ file["db"] \in Seq(Tokens) /\ file["wal"] \in Seq(Tokens)
           /\ ReadAll(file["db"]) \in Read /\ ReadAll(file["db"]).full \in Seq(Line)
           /\ ReadAll(file["db"]).rest \in Line
           /\ Replay(file["wal"]) \in Seq(Line \ {<<>>}) /\ Len(Replay(file["wal"])) \in Nat
           /\ \A n \in 1 .. Len(Replay(file["wal"])) : Replay(file["wal"])[n] \in Line \ {<<>>}
<1>1. file["db"] \in Seq(Tokens) /\ file["wal"] \in Seq(Tokens)
  BY DEF TypeInv, Files
<1>2. ReadAll(file["db"]) \in Read
  BY <1>1, ReadAllType
<1>3. Replay(file["wal"]) \in Seq(Line \ {<<>>})
  BY <1>1, ReplayType
<1> QED BY <1>1, <1>2, <1>3, LenProperties, ElementOfSeq DEF Read

LEMMA DbInit == Init => DbInv
<1> SUFFICES ASSUME Init PROVE DbInv
  OBVIOUS
<1>1. file["db"] = <<>> /\ synced["db"] = 0 /\ \A p \in Procs : ~Recovering(p)
  BY DEF Init, Files, Recovering, Busy
<1>2. ReadAll(<<>>).rest = <<>>
  <2>1. <<>> \in Seq(Tokens) /\ Len(<<>>) = 0
    OBVIOUS
  <2>2. Reading(<<>>)[0] = [full |-> <<>>, rest |-> <<>>]
    BY <2>1, ReadingIs
  <2> QED BY <2>1, <2>2 DEF ReadAll
<1> QED BY <1>1, <1>2 DEF DbInv

\* The other runs leave db.txt alone.
LEMMA DbQuiet ==
    ASSUME TypeInv, LogInv, DbInv, NEW p \in Procs,
           (stage[p] \in Busy /\ command[p] # "recover") \/ (stage[p] = "idle" /\ \A q \in Procs : stage[q] \notin Busy),
           \A q \in Procs \ {p} : stage'[q] = stage[q] /\ command'[q] = command[q],
           ~Recovering(p)',
           file'["db"] = file["db"], synced'["db"] = synced["db"]
    PROVE  DbInv'
<1>1. \A q \in Procs : ~Recovering(q)
  BY DEF LogInv, Alone, Recovering
<1>2. \A q \in Procs : ~Recovering(q)'
  BY <1>1 DEF Recovering
<1>3. (\A q \in Procs : ~Broken(q)') => \A q \in Procs : ~Broken(q)
  <2>1. ~Broken(p)
    BY DEF Broken, Busy
  <2> QED BY <2>1 DEF Broken
<1>4. (\A q \in Procs : ~Broken(q)) => ReadAll(file["db"]).rest = <<>> /\ synced["db"] = Len(file["db"])
  BY <1>1 DEF DbInv
<1>5. (\A q \in Procs : ~Broken(q)') => ReadAll(file'["db"]).rest = <<>> /\ synced'["db"] = Len(file'["db"])
  BY <1>3, <1>4
<1> QED BY <1>2, <1>5 DEF DbInv

LEMMA StillBroken ==
    ASSUME NEW p \in Procs, stage[p] # "stopped",
           \A q \in Procs \ {p} : stage'[q] = stage[q] /\ command'[q] = command[q]
    PROVE  (\A q \in Procs : ~Broken(q)') => \A q \in Procs : ~Broken(q)
BY DEF Broken

LEMMA RestOfLines ==
    ASSUME NEW X, NEW lines \in Seq(X), NEW d \in 0 .. Len(lines) - 1
    PROVE  LET left == SubSeq(lines, d + 1, Len(lines))
           IN  /\ Head(left) = lines[d + 1]
               /\ Tail(left) = SubSeq(lines, d + 2, Len(lines))
               /\ Len(left) = Len(lines) - d
<1>1. /\ Len(lines) \in Nat /\ d \in Nat /\ d + 1 \in 1 .. Len(lines) + 1 /\ Len(lines) \in d .. Len(lines)
      /\ d + 1 \in 1 .. Len(lines) /\ Len(lines) \in d + 1 .. Len(lines)
      /\ Len(lines) - (d + 1) + 1 = Len(lines) - d /\ (d + 1) + 1 = d + 2
  BY LenProperties
<1> QED BY <1>1, SubSeqProperties, HeadTailOfSubSeq

\* A step of a recovery that goes on.
LEMMA DbGoesOn ==
    ASSUME TypeInv, LogInv, NEW p \in Procs, stage[p] \in Busy,
           \A q \in Procs \ {p} : stage'[q] = stage[q] /\ command'[q] = command[q],
           stage'[p] \in Busy, command'[p] = "recover",
           NEW d \in 0 .. Len(Replay(file'["wal"])) - 1,
           Progress(Replay(file'["wal"]), ReadAll(file'["db"]), todo'[p], stage'[p], d)
    PROVE  DbInv'
<1>1. \A q \in Procs : Recovering(q)' => q = p
  BY DEF LogInv, Alone, Recovering
<1>2. Recovering(p)'
  BY DEF Recovering
<1>3. \A q \in Procs : Recovering(q)' =>
          \E e \in 0 .. Len(Replay(file'["wal"])) - 1 :
              Progress(Replay(file'["wal"]), ReadAll(file'["db"]), todo'[q], stage'[q], e)
  BY <1>1
<1> QED BY <1>2, <1>3 DEF DbInv

LEMMA RecoveringAt ==
    ASSUME TypeInv, DbInv, \A q \in Procs : ~Broken(q), NEW p \in Procs, Recovering(p)
    PROVE  /\ Target(p) = "db" /\ Syncs(p)
           /\ \E d \in 0 .. Len(Replay(file["wal"])) - 1 :
                  Progress(Replay(file["wal"]), ReadAll(file["db"]), todo[p], stage[p], d)
BY DEF DbInv, Recovering, Target, Syncs

LEMMA DbWriteText ==
    ASSUME TypeInv, LogInv, DbInv, NEW p \in Procs, WriteText(p)
    PROVE  DbInv'
<1>1. /\ stage[p] = "text" /\ stage[p] \in Busy /\ stage'[p] = "newline" /\ stage'[p] \in Busy
      /\ \A q \in Procs \ {p} : stage'[q] = stage[q] /\ command'[q] = command[q]
      /\ command' = command /\ todo' = todo /\ synced' = synced
  BY DEF WriteText, TypeInv, Busy
<1>2. CASE command[p] # "recover"
  <2>1. file'["db"] = file["db"]
    BY <1>2 DEF WriteText, Target, TypeInv, Files
  <2> QED BY <1>1, <1>2, <2>1, DbQuiet DEF Recovering
<1>3. CASE command[p] = "recover"
  <2> SUFFICES ASSUME \A q \in Procs : ~Broken(q)' PROVE DbInv'
    BY DEF DbInv
  <2>1. \A q \in Procs : ~Broken(q)
    BY <1>1, StillBroken
  <2> DEFINE R == Replay(file["wal"])
             r == ReadAll(file["db"])
  <2>2. Recovering(p)
    BY <1>1, <1>3 DEF Recovering
  <2>3. Target(p) = "db"
    BY <2>1, <2>2, RecoveringAt
  <2>4. PICK d \in 0 .. Len(R) - 1 : Progress(R, r, todo[p], stage[p], d)
    BY <2>1, <2>2, RecoveringAt
  <2>5. R \in Seq(Line \ {<<>>}) /\ Len(R) \in Nat /\ R[d + 1] \in Line /\ file["db"] \in Seq(Tokens) /\ r \in Read
    <3>1. d + 1 \in 1 .. Len(R)
      BY DbFacts
    <3> QED BY <3>1, DbFacts
  <2>6. todo[p] = SubSeq(R, d + 1, Len(R)) /\ EndsWith(r.full, R, d) /\ r.rest = <<>>
    BY <1>1, <2>4 DEF Progress
  <2>7. Head(todo[p]) = R[d + 1]
    <3> HIDE DEF R
    <3> QED BY <2>5, <2>6, RestOfLines
  <2>8. file'["db"] = file["db"] \o R[d + 1] /\ file'["wal"] = file["wal"]
    BY <2>3, <2>7 DEF WriteText, TypeInv, Files
  <2>9. ReadAll(file'["db"]) = [full |-> r.full, rest |-> r.rest \o R[d + 1]]
    BY <2>5, <2>8, ReadConcat
  <2>10. r.rest \o R[d + 1] = R[d + 1]
    BY <2>5, <2>6 DEF Line
  <2>11. Progress(Replay(file'["wal"]), ReadAll(file'["db"]), todo'[p], stage'[p], d)
    BY <1>1, <2>6, <2>8, <2>9, <2>10 DEF Progress
  <2>12. d \in 0 .. Len(Replay(file'["wal"])) - 1
    BY <2>8
  <2> QED BY <1>1, <1>3, <2>11, <2>12, DbGoesOn
<1> QED BY <1>2, <1>3

LEMMA DbWriteNewline ==
    ASSUME TypeInv, LogInv, DbInv, NEW p \in Procs, WriteNewline(p)
    PROVE  DbInv'
<1>1. /\ stage[p] = "newline" /\ stage[p] \in Busy
      /\ \A q \in Procs \ {p} : stage'[q] = stage[q] /\ command'[q] = command[q]
      /\ command' = command /\ synced' = synced
  BY DEF WriteNewline, Appended, TypeInv, Busy
<1>2. CASE command[p] # "recover"
  <2>1. file'["db"] = file["db"]
    BY <1>2 DEF WriteNewline, Target, TypeInv, Files
  <2> QED BY <1>1, <1>2, <2>1, DbQuiet DEF Recovering
<1>3. CASE command[p] = "recover"
  <2> SUFFICES ASSUME \A q \in Procs : ~Broken(q)' PROVE DbInv'
    BY DEF DbInv
  <2>1. \A q \in Procs : ~Broken(q)
    BY <1>1, StillBroken DEF Busy
  <2> DEFINE R == Replay(file["wal"])
             r == ReadAll(file["db"])
  <2>2. Recovering(p)
    BY <1>1, <1>3 DEF Recovering
  <2>3. Target(p) = "db" /\ Syncs(p)
    BY <2>1, <2>2, RecoveringAt
  <2>4. PICK d \in 0 .. Len(R) - 1 : Progress(R, r, todo[p], stage[p], d)
    BY <2>1, <2>2, RecoveringAt
  <2>5. /\ Len(R) \in Nat /\ R[d + 1] \in Line /\ d \in Nat /\ file["db"] \in Seq(Tokens)
        /\ r \in Read /\ r.full \in Seq(Line)
    <3>1. d + 1 \in 1 .. Len(R) /\ d \in Nat
      BY DbFacts
    <3> QED BY <3>1, DbFacts
  <2>6. todo[p] = SubSeq(R, d + 1, Len(R)) /\ EndsWith(r.full, R, d) /\ r.rest = R[d + 1]
    BY <1>1, <2>4 DEF Progress
  <2>7. /\ file'["db"] = Append(file["db"], NewLine) /\ file'["wal"] = file["wal"]
        /\ stage'[p] = "sync" /\ stage'[p] \in Busy /\ todo' = todo
    BY <2>3 DEF WriteNewline, TypeInv, Files, Busy
  <2>8. ReadAll(file'["db"]) = [full |-> Append(r.full, R[d + 1]), rest |-> <<>>]
    <3>1. ReadAll(file'["db"]) = NextToken(r, NewLine)
      BY <2>5, <2>7, TokenFacts, ReadAppend
    <3> QED BY <2>6, <3>1 DEF NextToken
  <2>9. EndsWith(Append(r.full, R[d + 1]), R, d + 1)
    <3> HIDE DEF R, r
    <3> QED BY <2>5, <2>6, EndsWithNext
  <2>10. Progress(Replay(file'["wal"]), ReadAll(file'["db"]), todo'[p], stage'[p], d)
    BY <2>6, <2>7, <2>8, <2>9 DEF Progress
  <2>11. d \in 0 .. Len(Replay(file'["wal"])) - 1
    BY <2>7
  <2> QED BY <1>1, <1>3, <2>7, <2>10, <2>11, DbGoesOn
<1> QED BY <1>2, <1>3

\* fsync comes back to a recovery: the lines appended so far end db.txt.
LEMMA DbSynced ==
    ASSUME TypeInv, LogInv, DbInv, NEW p \in Procs, Sync(p), command[p] = "recover",
           \A q \in Procs : ~Broken(q)
    PROVE  \E d \in 0 .. Len(Replay(file["wal"])) - 1 :
               /\ file' = file /\ synced'["db"] = Len(file'["db"])
               /\ ReadAll(file["db"]).rest = <<>>
               /\ EndsWith(ReadAll(file["db"]).full, Replay(file["wal"]), d + 1)
               /\ todo'[p] = SubSeq(Replay(file["wal"]), d + 2, Len(Replay(file["wal"])))
               /\ stage'[p] = IF d + 1 = Len(Replay(file["wal"])) THEN "done" ELSE "text"
<1> DEFINE R == Replay(file["wal"])
           r == ReadAll(file["db"])
<1>1. stage[p] = "sync" /\ Recovering(p)
  BY DEF Sync, Recovering, Busy
<1>2. Target(p) = "db" /\ \E d \in 0 .. Len(R) - 1 : Progress(R, r, todo[p], stage[p], d)
  BY <1>1, RecoveringAt
<1>3. PICK d \in 0 .. Len(R) - 1 : Progress(R, r, todo[p], stage[p], d)
  BY <1>2
<1>4. todo[p] = SubSeq(R, d + 1, Len(R)) /\ EndsWith(r.full, R, d + 1) /\ r.rest = <<>>
  BY <1>1, <1>3 DEF Progress
<1>5. R \in Seq(Line \ {<<>>}) /\ Len(R) \in Nat
  BY DbFacts
<1>6. /\ todo' = [todo EXCEPT ![p] = Tail(@)]
      /\ stage' = [stage EXCEPT ![p] = IF Len(todo[p]) = 1 THEN "done" ELSE "text"]
      /\ file' = file /\ synced' = [synced EXCEPT ![Target(p)] = Len(file[Target(p)])]
  BY DEF Sync, Appended
<1>7. synced'["db"] = Len(file'["db"])
  BY <1>2, <1>6 DEF TypeInv, Files
<1>8. Tail(todo[p]) = SubSeq(R, d + 2, Len(R)) /\ Len(todo[p]) = Len(R) - d
  <2> HIDE DEF R
  <2> QED BY <1>4, <1>5, RestOfLines
<1>9. todo'[p] = SubSeq(R, d + 2, Len(R))
  BY <1>6, <1>8 DEF TypeInv
<1>10. Len(todo[p]) = 1 <=> d + 1 = Len(R)
  <2> HIDE DEF R
  <2> QED BY <1>5, <1>8
<1>11. stage'[p] = IF d + 1 = Len(R) THEN "done" ELSE "text"
  BY <1>6, <1>10 DEF TypeInv
<1> QED BY <1>4, <1>6, <1>7, <1>9, <1>11

LEMMA DbSync ==
    ASSUME TypeInv, LogInv, DbInv, NEW p \in Procs, Sync(p)
    PROVE  DbInv'
<1>1. /\ stage[p] = "sync" /\ stage[p] \in Busy
      /\ \A q \in Procs \ {p} : stage'[q] = stage[q] /\ command'[q] = command[q]
      /\ command' = command /\ file' = file
  BY DEF Sync, Appended, TypeInv, Busy
<1>2. CASE command[p] # "recover"
  <2>1. synced'["db"] = synced["db"]
    BY <1>2 DEF Sync, Target, TypeInv, Files
  <2> QED BY <1>1, <1>2, <2>1, DbQuiet DEF Recovering
<1>3. CASE command[p] = "recover"
  <2> SUFFICES ASSUME \A q \in Procs : ~Broken(q)' PROVE DbInv'
    BY DEF DbInv
  <2>1. \A q \in Procs : ~Broken(q)
    BY <1>1, StillBroken DEF Busy
  <2> DEFINE R == Replay(file["wal"])
             r == ReadAll(file["db"])
  <2>2. PICK d \in 0 .. Len(R) - 1 :
               /\ synced'["db"] = Len(file'["db"]) /\ r.rest = <<>> /\ EndsWith(r.full, R, d + 1)
               /\ todo'[p] = SubSeq(R, d + 2, Len(R))
               /\ stage'[p] = IF d + 1 = Len(R) THEN "done" ELSE "text"
    BY <1>3, <2>1, DbSynced
  <2>3. CASE d + 1 = Len(R)
    <3>1. \A q \in Procs : ~Recovering(q)'
      <4>1. stage'[p] \notin Busy
        BY <2>2, <2>3 DEF Busy
      <4> QED BY <1>1, <4>1 DEF LogInv, Alone, Recovering
    <3>2. ReadAll(file'["db"]).rest = <<>>
      BY <1>1, <2>2
    <3> QED BY <2>2, <3>1, <3>2 DEF DbInv
  <2>4. CASE d + 1 # Len(R)
    <3>1. Len(R) \in Nat /\ d \in Nat
      BY DbFacts
    <3>2. d + 1 \in 0 .. Len(R) - 1 /\ (d + 1) + 1 = d + 2
      BY <2>4, <3>1
    <3>3. stage'[p] = "text" /\ stage'[p] \in Busy
      BY <2>2, <2>4 DEF Busy
    <3>4. Progress(R, r, todo'[p], stage'[p], d + 1)
      BY <2>2, <3>2, <3>3 DEF Progress
    <3>5. Progress(Replay(file'["wal"]), ReadAll(file'["db"]), todo'[p], stage'[p], d + 1)
      BY <1>1, <3>4
    <3>6. d + 1 \in 0 .. Len(Replay(file'["wal"])) - 1
      BY <1>1, <3>2
    <3> QED BY <1>1, <1>3, <3>3, <3>5, <3>6, DbGoesOn
  <2> QED BY <2>3, <2>4
<1> QED BY <1>2, <1>3

LEMMA DbStop ==
    ASSUME TypeInv, LogInv, DbInv, NEW p \in Procs, ShortWrite(p) \/ Kill(p)
    PROVE  DbInv'
<1>1. /\ stage[p] \in Busy /\ stage'[p] = "stopped" /\ stage'[p] \notin Busy
      /\ \A q \in Procs \ {p} : stage'[q] = stage[q] /\ command'[q] = command[q]
      /\ command' = command /\ synced' = synced
  BY DEF ShortWrite, Kill, Busy, TypeInv
<1>2. CASE command[p] # "recover"
  <2>1. file'["db"] = file["db"]
    BY <1>2 DEF ShortWrite, Kill, Target, TypeInv, Files
  <2> QED BY <1>1, <1>2, <2>1, DbQuiet DEF Recovering
<1>3. CASE command[p] = "recover"
  BY <1>1, <1>3 DEF DbInv, Broken
<1> QED BY <1>2, <1>3

LEMMA DbStart ==
    ASSUME TypeInv, LogInv, DbInv, ~Concurrent, NEW p \in Procs,
           (\E cmd \in WriteCommands : StartWrite(p, cmd)) \/ StartRecover(p)
    PROVE  DbInv'
<1>1. /\ stage[p] = "idle" /\ \A q \in Procs : stage[q] \notin Busy
      /\ \A q \in Procs \ {p} : stage'[q] = stage[q] /\ command'[q] = command[q]
      /\ file' = file /\ synced' = synced
  BY DEF StartWrite, StartRecover, MayStart, TypeInv
<1>2. CASE ~Recovering(p)'
  BY <1>1, <1>2, DbQuiet
<1>3. CASE Recovering(p)'
  <2> SUFFICES ASSUME \A q \in Procs : ~Broken(q)' PROVE DbInv'
    BY DEF DbInv
  <2>1. \A q \in Procs : ~Broken(q)
    BY <1>1, StillBroken
  <2> DEFINE R == Replay(file["wal"])
             r == ReadAll(file["db"])
  <2>2. r.rest = <<>>
    BY <1>1, <2>1 DEF DbInv, Recovering
  <2>3. StartRecover(p) /\ command'[p] = "recover" /\ stage'[p] \in Busy
    BY <1>3 DEF Recovering, StartWrite, TypeInv, WriteCommands
  <2>4. todo'[p] = R /\ R # <<>> /\ stage'[p] = "text"
    BY <2>3 DEF StartRecover, TypeInv, Busy
  <2>5. R \in Seq(Line \ {<<>>}) /\ Len(R) \in Nat /\ r.full \in Seq(Line)
    BY DbFacts
  <2> HIDE DEF R, r
  <2>6. 0 \in 0 .. Len(R) - 1
    BY <2>4, <2>5, EmptySeq
  <2>7. SubSeq(R, 0 + 1, Len(R)) = R
    BY <2>5, SubSeqFull
  <2>8. EndsWith(r.full, R, 0)
    BY <2>5, LenProperties DEF EndsWith
  <2>9. Progress(R, r, todo'[p], stage'[p], 0)
    BY <2>2, <2>4, <2>7, <2>8 DEF Progress
  <2>10. \A q \in Procs : Recovering(q)' => q = p
    BY <1>1 DEF Recovering
  <2>11. 0 \in 0 .. Len(Replay(file'["wal"])) - 1 /\ Progress(Replay(file'["wal"]), ReadAll(file'["db"]), todo'[p], stage'[p], 0)
    BY <1>1, <2>6, <2>9 DEF R, r
  <2> QED BY <1>3, <2>10, <2>11 DEF DbInv
<1> QED BY <1>2, <1>3

\* A power loss finds db.txt synced, or stops the recovery.
LEMMA DbPowerLoss ==
    ASSUME TypeInv, LogInv, DbInv, PowerLoss
    PROVE  DbInv'
<1> SUFFICES ASSUME \A q \in Procs : ~Broken(q)' PROVE DbInv'
  BY DEF DbInv
<1>1. /\ \A p \in Procs : stage'[p] = (IF stage[p] \in Busy THEN "stopped" ELSE stage[p])
      /\ command' = command
  BY DEF PowerLoss
<1>2. \A q \in Procs : ~Broken(q)
  BY <1>1 DEF Broken, Busy
<1>3. \A q \in Procs : ~Recovering(q)
  BY <1>1 DEF Recovering, Broken
<1>4. \A q \in Procs : ~Recovering(q)'
  BY <1>1 DEF Recovering, Busy
<1>5. ReadAll(file["db"]).rest = <<>> /\ synced["db"] = Len(file["db"])
  BY <1>2, <1>3 DEF DbInv
<1>6. PICK db \in Survivors("db") : file'["db"] = db /\ synced'["db"] = Len(db)
  BY DEF PowerLoss, Files
<1>7. PICK n \in Nat : /\ synced["db"] <= n /\ n <= Len(file["db"])
                       /\ \/ db = SubSeq(file["db"], 1, n)
                          \/ /\ n < Len(file["db"])
                             /\ \E piece \in AllPieces : db = Append(SubSeq(file["db"], 1, n), piece)
  BY SurvivorsType DEF Files
<1>8. file["db"] \in Seq(Tokens) /\ Len(file["db"]) \in Nat
  BY LenProperties DEF TypeInv, Files
<1>9. n = Len(file["db"])
  BY <1>5, <1>7, <1>8
<1>10. db = file["db"]
  <2>1. db = SubSeq(file["db"], 1, Len(file["db"]))
    BY <1>7, <1>8, <1>9
  <2> QED BY <1>8, <2>1, SubSeqFull
<1>11. ReadAll(file'["db"]).rest = <<>> /\ synced'["db"] = Len(file'["db"])
  BY <1>5, <1>6, <1>10
<1> QED BY <1>4, <1>11 DEF DbInv

LEMMA DbNext ==
    ASSUME TypeInv, LogInv, DbInv, ~Concurrent, [Next]_vars
    PROVE  DbInv'
<1>1. ASSUME NEW p \in Procs, (\E cmd \in WriteCommands : StartWrite(p, cmd)) \/ StartRecover(p) PROVE DbInv'
  BY <1>1, DbStart
<1>2. ASSUME NEW p \in Procs, WriteText(p) PROVE DbInv'
  BY <1>2, DbWriteText
<1>3. ASSUME NEW p \in Procs, WriteNewline(p) PROVE DbInv'
  BY <1>3, DbWriteNewline
<1>4. ASSUME NEW p \in Procs, Sync(p) PROVE DbInv'
  BY <1>4, DbSync
<1>5. ASSUME NEW p \in Procs, ShortWrite(p) \/ Kill(p) PROVE DbInv'
  BY <1>5, DbStop
<1>6. CASE PowerLoss
  BY <1>6, DbPowerLoss
<1>7. CASE UNCHANGED vars
  BY <1>7 DEF vars, DbInv, Broken, Recovering
<1> QED BY <1>1, <1>2, <1>3, <1>4, <1>5, <1>6, <1>7 DEF Next

\* A file that ends with all of the lines has them as a suffix.
LEMMA EndIsSuffix ==
    ASSUME NEW X, NEW w \in Seq(X), NEW s \in Seq(X), EndsWith(w, s, Len(s))
    PROVE  IsSuffix(s, w)
<1> DEFINE a == Reverse(s)
           b == Reverse(w)
<1>1. /\ Len(s) \in Nat /\ Len(w) \in Nat /\ Len(s) <= Len(w)
      /\ \A i \in 1 .. Len(s) : w[Len(w) - Len(s) + i] = s[i]
      /\ \A i \in 1 .. Len(w) : w[i] \in X
      /\ \A i \in 1 .. Len(s) : s[i] \in X
  BY LenProperties, ElementOfSeq DEF EndsWith
<1>2. /\ a \in Seq(X) /\ Len(a) = Len(s)
      /\ \A i \in 1 .. Len(s) : a[i] = s[(Len(s) - i) + 1]
  BY <1>1 DEF Reverse
<1>3. /\ b \in Seq(X) /\ Len(b) = Len(w)
      /\ \A i \in 1 .. Len(w) : b[i] = w[(Len(w) - i) + 1]
  BY <1>1 DEF Reverse
<1> HIDE DEF a, b
<1>4. ASSUME NEW i \in 1 .. Len(s) PROVE b[i] = a[i]
  <2>1. i \in 1 .. Len(w) /\ (Len(s) - i) + 1 \in 1 .. Len(s)
        /\ Len(w) - Len(s) + ((Len(s) - i) + 1) = (Len(w) - i) + 1
    BY <1>1
  <2>2. w[(Len(w) - i) + 1] = s[(Len(s) - i) + 1]
    BY <1>1, <2>1
  <2> QED BY <1>2, <1>3, <2>1, <2>2
<1>5. SubSeq(a, 1, Len(a)) = a
  BY <1>2, SubSeqFull
<1>6. SubSeq(b, 1, Len(a)) = a
  <2> DEFINE c == SubSeq(b, 1, Len(s))
  <2>1. c \in Seq(X) /\ Len(c) = Len(s) /\ \A i \in 1 .. Len(s) : c[i] = b[i]
    BY <1>1, <1>3, PrefixFacts
  <2> HIDE DEF c
  <2>2. c = a
    BY <1>2, <1>4, <2>1, SeqEqual
  <2> QED BY <1>2, <2>2 DEF c
<1>7. IsPrefix(a, b)
  BY <1>1, <1>2, <1>3, <1>5, <1>6 DEF IsPrefix
<1> QED BY <1>7 DEF IsSuffix, a, b

\* When a recovery comes to its end.
LEMMA DbStep ==
    ASSUME TypeInv, LogInv, DbInv, TypeInv', [Next]_vars,
           NEW p \in Procs, ~Recovered(p), Recovered(p)', \A q \in Procs : ~Broken(q)
    PROVE  IsSuffix(Replay(file'["wal"]), Lines(file'["db"]))
<1>1. stage[p] # "done" \/ command[p] # "recover"
  BY DEF Recovered
<1>2. stage'[p] = "done" /\ command'[p] = "recover"
  BY DEF Recovered
<1>3. Lines(file'["db"]) \in Seq(Line) /\ Replay(file'["wal"]) \in Seq(Line)
  <2>1. file'["db"] \in Seq(Tokens) /\ file'["wal"] \in Seq(Tokens)
    BY DEF TypeInv, Files
  <2>2. Replay(file'["wal"]) \in Seq(Line \ {<<>>})
    BY <2>1, ReplayType
  <2> QED BY <2>1, <2>2, ReplayType
<1>4. CASE StartRecover(p)
  <2>1. Replay(file'["wal"]) = <<>>
    BY <1>2, <1>4 DEF StartRecover, TypeInv
  <2>2. EndsWith(Lines(file'["db"]), <<>>, Len(<<>>))
    BY <1>3, LenProperties DEF EndsWith
  <2> QED BY <1>3, <2>1, <2>2, EndIsSuffix
<1>5. CASE Sync(p)
  <2>1. command[p] = "recover"
    BY <1>2, <1>5 DEF Sync
  <2> DEFINE R == Replay(file["wal"])
             r == ReadAll(file["db"])
  <2>2. PICK d \in 0 .. Len(R) - 1 :
               /\ file' = file /\ r.rest = <<>> /\ EndsWith(r.full, R, d + 1)
               /\ stage'[p] = IF d + 1 = Len(R) THEN "done" ELSE "text"
    BY <1>5, <2>1, DbSynced
  <2>3. d + 1 = Len(R)
    BY <1>2, <2>2
  <2>4. Lines(file'["db"]) = r.full
    BY <2>2 DEF Lines, ReadAll
  <2>5. EndsWith(Lines(file'["db"]), Replay(file'["wal"]), Len(Replay(file'["wal"])))
    BY <2>2, <2>3, <2>4
  <2> QED BY <1>3, <2>5, EndIsSuffix
<1>6. StartRecover(p) \/ Sync(p)
  <2>1. ASSUME NEW q \in Procs, NEW cmd \in WriteCommands, StartWrite(q, cmd) PROVE FALSE
    BY <1>1, <1>2, <2>1 DEF StartWrite, TypeInv, WriteCommands
  <2>2. ASSUME NEW q \in Procs, StartRecover(q) PROVE q = p
    BY <1>1, <1>2, <2>2 DEF StartRecover, TypeInv
  <2>3. ASSUME NEW q \in Procs, WriteText(q) PROVE FALSE
    BY <1>1, <1>2, <2>3 DEF WriteText, TypeInv
  <2>4. ASSUME NEW q \in Procs, WriteNewline(q) PROVE FALSE
    <3>1. command' = command /\ stage[p] # "done" /\ command[p] = "recover"
      BY <1>1, <1>2, <2>4 DEF WriteNewline
    <3>2. CASE q = p
      <4>1. stage'[p] = "sync"
        BY <2>4, <3>1, <3>2 DEF WriteNewline, Syncs, TypeInv
      <4> QED BY <1>2, <4>1
    <3>3. CASE q # p
      BY <1>2, <2>4, <3>1, <3>3 DEF WriteNewline, Appended, TypeInv
    <3> QED BY <3>2, <3>3
  <2>5. ASSUME NEW q \in Procs, Sync(q) PROVE q = p
    BY <1>1, <1>2, <2>5 DEF Sync, Appended, TypeInv
  <2>6. ASSUME NEW q \in Procs, ShortWrite(q) \/ Kill(q) PROVE FALSE
    BY <1>1, <1>2, <2>6 DEF ShortWrite, Kill, TypeInv
  <2>7. CASE PowerLoss
    BY <1>1, <1>2, <2>7 DEF PowerLoss
  <2>8. CASE UNCHANGED vars
    BY <1>1, <1>2, <2>8 DEF vars
  <2> QED BY <2>1, <2>2, <2>3, <2>4, <2>5, <2>6, <2>7, <2>8 DEF Next
<1> QED BY <1>4, <1>5, <1>6

\* "Recovery complete. DB updated." (line 65): for any number of runs that do not
\* overlap and whatever goes wrong, db.txt ends with the lines that the log asks
\* for when a recovery comes to its end, unless one was stopped before.
THEOREM DbComplete == ASSUME ~Concurrent PROVE Spec => DbUpdated
<1>1. Init => TypeInv /\ LogInv /\ DbInv
  BY TypeInit, LogInit, DbInit
<1>2. TypeInv /\ LogInv /\ DbInv /\ [Next]_vars => TypeInv' /\ LogInv' /\ DbInv'
  BY TypeNext, LogNext, DbNext
<1>3. TypeInv /\ LogInv /\ DbInv /\ TypeInv' /\ [Next]_vars
          => [\A p \in Procs : (~Recovered(p) /\ Recovered(p)' /\ ~\E q \in Procs : Broken(q))
                  => IsSuffix(Replay(file'["wal"]), Lines(file'["db"]))]_vars
  BY DbStep
<1> QED BY <1>1, <1>2, <1>3, PTL DEF Spec, DbUpdated
=============================================================================
