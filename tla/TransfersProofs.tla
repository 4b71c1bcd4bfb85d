--------------------------- MODULE TransfersProofs ---------------------------
(***************************************************************************)
(* Proofs about the programs that move files, for any number of files and  *)
(* blocks and any size of file and buffer: in the merge no buffer is in two*)
(* operations at once and what is written is what has been read, a result  *)
(* of a benchmark stands for blocks that were moved, and a copy that       *)
(* reports success has all of its source.                                  *)
(***************************************************************************)
EXTENDS MCTransfers, FiniteSetTheorems, SequenceTheorems, TLAPS

\* No two elements of a queue are of the same file.
Once(s) == \A n, m \in DOMAIN s : s[n].file = s[m].file => n = m

\* r is s without its element n; at says where the others were.
Without(r, s, n) ==
    \E at \in [DOMAIN r -> DOMAIN s \ {n}] :
        /\ \A m \in DOMAIN r : r[m] = s[at[m]]
        /\ \A m, k \in DOMAIN r : at[m] = at[k] => m = k

\* r is s with x behind it.
With(r, s, x) ==
    /\ \A n \in DOMAIN r : (n \in DOMAIN s /\ r[n] = s[n]) \/ (n \notin DOMAIN s /\ r[n] = x)
    /\ \A n \in DOMAIN s : n \in DOMAIN r /\ r[n] = s[n]
    /\ \E n \in DOMAIN r : r[n] = x
    /\ \A n, m \in DOMAIN r : n \notin DOMAIN s /\ m \notin DOMAIN s => n = m

LEMMA RemoveAtWithout ==
    ASSUME NEW S, NEW s \in Seq(S), NEW n \in DOMAIN s
    PROVE  RemoveAt(s, n) \in Seq(S) /\ Without(RemoveAt(s, n), s, n)
<1> DEFINE front == SubSeq(s, 1, n - 1)
           back == SubSeq(s, n + 1, Len(s))
           r == front \o back
           at == [m \in 1 .. Len(s) - 1 |-> IF m < n THEN m ELSE m + 1]
<1>1. /\ DOMAIN s = 1 .. Len(s) /\ Len(s) \in Nat /\ n \in 1 .. Len(s)
      /\ \A m \in 1 .. Len(s) : s[m] \in S
  BY LenProperties, ElementOfSeq
<1>2. /\ front \in Seq(S) /\ Len(front) = n - 1
      /\ \A m \in 1 .. n - 1 : front[m] = s[m]
  <2>1. \A m \in 1 .. n - 1 : s[m] \in S /\ 1 + m - 1 = m
    BY <1>1
  <2>2. /\ SubSeq(s, 1, n - 1) \in Seq(S)
        /\ Len(SubSeq(s, 1, n - 1)) = IF 1 <= n - 1 THEN (n - 1) - 1 + 1 ELSE 0
        /\ \A m \in 1 .. (n - 1) - 1 + 1 : SubSeq(s, 1, n - 1)[m] = s[1 + m - 1]
    BY <1>1, <2>1, SubSeqProperties
  <2> QED BY <1>1, <2>1, <2>2
<1>3. /\ back \in Seq(S) /\ Len(back) = Len(s) - n
      /\ \A m \in 1 .. Len(s) - n : back[m] = s[n + m]
  <2>1. \A m \in n + 1 .. Len(s) : s[m] \in S
    BY <1>1
  <2>2. /\ SubSeq(s, n + 1, Len(s)) \in Seq(S)
        /\ Len(SubSeq(s, n + 1, Len(s))) = IF n + 1 <= Len(s) THEN Len(s) - (n + 1) + 1 ELSE 0
        /\ \A m \in 1 .. Len(s) - (n + 1) + 1 : SubSeq(s, n + 1, Len(s))[m] = s[(n + 1) + m - 1]
    BY <1>1, <2>1, SubSeqProperties
  <2>3. \A m \in 1 .. Len(s) - n : (n + 1) + m - 1 = n + m
    BY <1>1
  <2> QED BY <1>1, <2>2, <2>3
<1> HIDE DEF front, back
<1>4. /\ r \in Seq(S) /\ Len(r) = Len(s) - 1
      /\ \A m \in 1 .. Len(s) - 1 :
             r[m] = IF m <= n - 1 THEN front[m] ELSE back[m - (n - 1)]
  <2>1. /\ front \o back \in Seq(S) /\ Len(front \o back) = Len(front) + Len(back)
        /\ \A m \in 1 .. Len(front) + Len(back) :
               (front \o back)[m] = IF m <= Len(front) THEN front[m] ELSE back[m - Len(front)]
    BY <1>2, <1>3, ConcatProperties
  <2>2. Len(front) + Len(back) = Len(s) - 1
    BY <1>1, <1>2, <1>3
  <2> QED BY <1>2, <2>1, <2>2
<1>5. DOMAIN r = 1 .. Len(s) - 1
  BY <1>4, LenProperties
<1> HIDE DEF r
<1>6. \A m \in DOMAIN r : at[m] \in DOMAIN s \ {n} /\ r[m] = s[at[m]]
  <2> SUFFICES ASSUME NEW m \in 1 .. Len(s) - 1
               PROVE  at[m] \in DOMAIN s \ {n} /\ r[m] = s[at[m]]
    BY <1>5
  <2>1. CASE m < n
    BY <1>1, <1>2, <1>4, <2>1
  <2>2. CASE ~(m < n)
    <3>1. m - (n - 1) \in 1 .. Len(s) - n /\ n + (m - (n - 1)) = m + 1 /\ ~(m <= n - 1)
      BY <1>1, <2>2
    <3>2. r[m] = s[m + 1]
      BY <1>3, <1>4, <3>1
    <3> QED BY <1>1, <2>2, <3>2
  <2> QED BY <2>1, <2>2
<1>7. at \in [DOMAIN r -> DOMAIN s \ {n}]
  BY <1>5, <1>6
<1>8. \A m, k \in DOMAIN r : at[m] = at[k] => m = k
  BY <1>1, <1>5
<1> HIDE DEF at
<1>9. Without(r, s, n)
  BY <1>6, <1>7, <1>8 DEF Without
<1> QED BY <1>4, <1>9 DEF r, front, back, RemoveAt

LEMMA TailWithout ==
    ASSUME NEW S, NEW s \in Seq(S), s # <<>>
    PROVE  /\ Tail(s) \in Seq(S) /\ 1 \in DOMAIN s /\ Head(s) = s[1]
           /\ Without(Tail(s), s, 1)
<1> DEFINE r == Tail(s)
           at == [m \in 1 .. Len(s) - 1 |-> m + 1]
<1>1. /\ DOMAIN s = 1 .. Len(s) /\ Len(s) \in Nat \ {0}
      /\ r \in Seq(S) /\ Len(r) = Len(s) - 1
      /\ \A m \in 1 .. Len(s) - 1 : r[m] = s[m + 1]
  BY LenProperties, EmptySeq, HeadTailProperties
<1>2. DOMAIN r = 1 .. Len(s) - 1
  BY <1>1, LenProperties
<1>3. Head(s) = s[1]
  BY <1>1
<1> HIDE DEF r
<1>4. at \in [DOMAIN r -> DOMAIN s \ {1}]
  BY <1>1, <1>2
<1>5. \A m \in DOMAIN r : r[m] = s[at[m]]
  BY <1>1, <1>2
<1>6. \A m, k \in DOMAIN r : at[m] = at[k] => m = k
  BY <1>1, <1>2
<1> HIDE DEF at
<1>7. Without(r, s, 1)
  BY <1>4, <1>5, <1>6 DEF Without
<1> QED BY <1>1, <1>3, <1>7 DEF r

LEMMA AppendWith ==
    ASSUME NEW S, NEW s \in Seq(S), NEW x \in S
    PROVE  Append(s, x) \in Seq(S) /\ With(Append(s, x), s, x)
<1> DEFINE r == Append(s, x)
<1>1. /\ r \in Seq(S) /\ Len(r) = Len(s) + 1
      /\ \A n \in 1 .. Len(s) : r[n] = s[n]
      /\ r[Len(s) + 1] = x
  BY AppendProperties
<1>2. /\ DOMAIN s = 1 .. Len(s) /\ DOMAIN r = 1 .. Len(s) + 1 /\ Len(s) \in Nat
  BY <1>1, LenProperties
<1> HIDE DEF r
<1>3. With(r, s, x)
  BY <1>1, <1>2 DEF With
<1> QED BY <1>1, <1>3 DEF r

LEMMA TailOfAppend ==
    ASSUME NEW S, NEW s \in Seq(S), s # <<>>, NEW x \in S
    PROVE  Tail(Append(s, x)) = Append(Tail(s), x)
<1> DEFINE l == Tail(Append(s, x))
           r == Append(Tail(s), x)
<1>1. /\ Len(s) \in Nat \ {0} /\ Append(s, x) \in Seq(S) /\ Append(s, x) # <<>>
      /\ Len(Append(s, x)) = Len(s) + 1
      /\ \A n \in 1 .. Len(s) : Append(s, x)[n] = s[n]
      /\ Append(s, x)[Len(s) + 1] = x
  BY LenProperties, EmptySeq, AppendProperties
<1>2. /\ Tail(s) \in Seq(S) /\ Len(Tail(s)) = Len(s) - 1
      /\ \A n \in 1 .. Len(s) - 1 : Tail(s)[n] = s[n + 1]
  BY HeadTailProperties
<1>3. /\ l \in Seq(S) /\ Len(l) = Len(s)
      /\ \A n \in 1 .. Len(s) : l[n] = Append(s, x)[n + 1]
  BY <1>1, HeadTailProperties
<1>4. /\ r \in Seq(S) /\ Len(r) = Len(s)
      /\ \A n \in 1 .. Len(s) - 1 : r[n] = Tail(s)[n]
      /\ r[Len(s)] = x
  BY <1>1, <1>2, AppendProperties
<1> HIDE DEF l, r
<1>5. \A n \in 1 .. Len(s) : l[n] = r[n]
  BY <1>1, <1>2, <1>3, <1>4
<1>6. l = r
  BY <1>3, <1>4, <1>5, SeqEqual
<1> QED BY <1>6 DEF l, r

LEMMA OnceWithout ==
    ASSUME NEW r, NEW s, NEW n \in DOMAIN s, Without(r, s, n), Once(s)
    PROVE  Once(r) /\ \A m \in DOMAIN r : r[m].file # s[n].file
  BY DEF Without, Once

LEMMA OnceWith ==
    ASSUME NEW r, NEW s, NEW x, With(r, s, x), Once(s), \A n \in DOMAIN s : s[n].file # x.file
    PROVE  Once(r)
<1> SUFFICES ASSUME NEW n \in DOMAIN r, NEW m \in DOMAIN r, r[n].file = r[m].file
             PROVE  n = m
  BY DEF Once
<1>1. CASE n \in DOMAIN s /\ m \in DOMAIN s
  BY <1>1 DEF With, Once
<1>2. CASE n \notin DOMAIN s /\ m \notin DOMAIN s
  BY <1>2 DEF With
<1>3. CASE (n \in DOMAIN s) # (m \in DOMAIN s)
  BY <1>3 DEF With
<1> QED BY <1>1, <1>2, <1>3

\* What holds of all elements of s holds of those that are left.
LEMMA LeftOver ==
    ASSUME NEW r, NEW s, NEW n, Without(r, s, n)
    PROVE  \A m \in DOMAIN r : \E k \in DOMAIN s : r[m] = s[k]
  BY DEF Without

-----------------------------------------------------------------------------
RequestType == [file : Files, op : Ops]
CompletionType == [file : Files, op : Ops, res : Results]
OutputType == [file : Files, what : {"data", "junk"}]

\* Before main has submitted anything, and for ever if an open fails.
PhaseInv == /\ pc \in {"open", "failed"} =>
                   requests = <<>> /\ cq = <<>> /\ output = <<>> /\ collected = <<>>
            /\ pc \in {"open", "collect", "seen"} => \A f \in Files : buf[f] # "freed"
            /\ pc = "seen" => cq # <<>> /\ i <= MAX_FILES

OneInv == /\ Once(requests) /\ Once(Untaken)
          /\ \A n \in DOMAIN requests, m \in DOMAIN Untaken : requests[n].file # Untaken[m].file

\* A write is called for when its buffer has been filled.
Filled(f) == buf[f] \in {"data", "freed"}
FilledInv == /\ \A n \in DOMAIN requests : requests[n].op = "write" => Filled(requests[n].file)
             /\ \A n \in DOMAIN Untaken : Untaken[n].res = "data" => Filled(Untaken[n].file)
             /\ pc \in {"collect", "seen"} => \A n \in DOMAIN output : output[n].what = "data"

\* While main has seen reads only, a file that is in the output is in no request any
\* more, and in no completion but that of its write.
ReadOf(seen, f) == \E n \in DOMAIN seen : seen[n] = Completion(Request(f, "read"), "data")
Written(seen, reqs, cqes, f) == /\ ReadOf(seen, f)
                                /\ \A n \in DOMAIN reqs : reqs[n].file # f
                                /\ \A n \in DOMAIN cqes : cqes[n].file = f => cqes[n].op = "write"
WrittenInv == OnlyReads =>
    /\ Once(output)
    /\ \A n \in DOMAIN output : Written(collected, requests, Untaken, output[n].file)
    /\ \A n \in DOMAIN requests :
           requests[n].op = "write" => ReadOf(collected, requests[n].file)

MInv == TypeOK /\ PhaseInv /\ OneInv /\ FilledInv /\ WrittenInv

LEMMA Elements ==
    ASSUME TypeOK, PhaseInv
    PROVE  /\ Untaken \in Seq(CompletionType)
           /\ \A n \in DOMAIN requests : requests[n] \in RequestType
           /\ \A n \in DOMAIN Untaken : Untaken[n] \in CompletionType
           /\ \A n \in DOMAIN output : output[n] \in OutputType
           /\ \A n \in DOMAIN collected : collected[n] \in CompletionType
<1>1. /\ requests \in Seq(RequestType) /\ output \in Seq(OutputType)
      /\ cq \in Seq(CompletionType) /\ collected \in Seq(CompletionType)
  BY DEF TypeOK, RequestType, CompletionType, OutputType
<1>3. Untaken \in Seq(CompletionType)
  <2>1. pc = "seen" => Tail(cq) \in Seq(CompletionType)
    BY <1>1, TailWithout DEF PhaseInv
  <2> QED BY <1>1, <2>1 DEF Untaken
<1>2. \A S, q : q \in Seq(S) => \A n \in DOMAIN q : q[n] \in S
  BY ElementOfSeq, LenProperties
<1> QED BY <1>1, <1>2, <1>3

LEMMA Empty == DOMAIN <<>> = {} /\ (\A S : <<>> \in Seq(S))
  OBVIOUS

LEMMA InitMInv == Init => MInv
<1> SUFFICES ASSUME Init PROVE MInv
  OBVIOUS
<1>1. TypeOK
  BY Empty, FileMergeAssumption DEF Init, TypeOK
<1>2. PhaseInv
  BY DEF Init, PhaseInv
<1>3. OneInv /\ FilledInv /\ WrittenInv
  BY Empty DEF Init, Untaken, OneInv, FilledInv, WrittenInv, Once
<1> QED BY <1>1, <1>2, <1>3 DEF MInv

\* Steps that leave the ring and the output alone.
LEMMA QuietMInv ==
    ASSUME MInv, TypeOK', PhaseInv', UNCHANGED <<requests, Untaken, output, collected>>,
           \A f \in Files : Filled(f) => Filled(f)',
           pc' \in {"collect", "seen"} => pc \in {"collect", "seen"}
    PROVE  MInv'
<1>1. OneInv'
  BY DEF MInv, OneInv
<1>2. FilledInv'
  <2>1. /\ \A n \in DOMAIN requests : requests[n].file \in Files
        /\ \A n \in DOMAIN Untaken : Untaken[n].file \in Files
    BY Elements DEF MInv, RequestType, CompletionType
  <2>2. \A n \in DOMAIN requests : requests[n].op = "write" => Filled(requests[n].file)
    BY DEF MInv, FilledInv
  <2>3. \A n \in DOMAIN Untaken : Untaken[n].res = "data" => Filled(Untaken[n].file)
    BY DEF MInv, FilledInv
  <2>4. \A n \in DOMAIN requests : requests[n].op = "write" => buf'[requests[n].file] \in {"data", "freed"}
    BY <2>1, <2>2 DEF Filled
  <2>5. \A n \in DOMAIN Untaken : Untaken[n].res = "data" => buf'[Untaken[n].file] \in {"data", "freed"}
    BY <2>1, <2>3 DEF Filled
  <2> QED BY <2>4, <2>5 DEF MInv, FilledInv, Filled
<1>3. WrittenInv'
  BY DEF MInv, WrittenInv, OnlyReads, Written, ReadOf
<1> QED BY <1>1, <1>2, <1>3 DEF MInv

LEMMA SubmitMInv == ASSUME MInv, Submit PROVE MInv'
<1>1. /\ pc = "open" /\ pc' = "collect" /\ i' = 1 /\ UNCHANGED <<cq, buf, output, collected>>
      /\ requests' = [f \in Files |-> Request(f, "read")]
  BY DEF Submit
<1>2. /\ cq = <<>> /\ output = <<>> /\ collected = <<>> /\ \A f \in Files : buf[f] # "freed"
      /\ Untaken' = <<>>
  BY <1>1 DEF MInv, PhaseInv, Untaken
<1>3. DOMAIN requests' = Files /\ \A f \in Files : requests'[f].file = f /\ requests'[f].op = "read"
  BY <1>1 DEF Request
<1>4. requests' \in Seq(RequestType)
  <2>1. requests' \in [1 .. MAX_FILES -> RequestType]
    BY <1>1 DEF Request, RequestType, Ops, Files
  <2> QED BY <2>1, SeqDef, FileMergeAssumption
<1>5. TypeOK'
  BY <1>1, <1>4, FileMergeAssumption DEF MInv, TypeOK, RequestType
<1>6. PhaseInv'
  BY <1>1, <1>2 DEF PhaseInv
<1>7. OneInv'
  BY <1>1, <1>2, <1>3, Empty DEF OneInv, Once
<1>8. FilledInv'
  BY <1>1, <1>2, <1>3, Empty DEF FilledInv
<1>9. WrittenInv'
  BY <1>1, <1>2, <1>3, Empty DEF WrittenInv, Once
<1> QED BY <1>5, <1>6, <1>7, <1>8, <1>9 DEF MInv

LEMMA CollectMInv == ASSUME MInv, Collect PROVE MInv'
<1> DEFINE c == Head(cq)
           x == Request(c.file, "write")
<1>1. /\ pc = "collect" /\ pc' = "seen" /\ i <= MAX_FILES /\ cq # <<>>
      /\ collected' = Append(collected, c) /\ UNCHANGED <<i, cq, buf, output>>
      /\ requests' = IF c.res = "data" THEN Append(requests, x) ELSE requests
  BY DEF Collect, CallsForWrite
<1>2. /\ requests \in Seq(RequestType) /\ cq \in Seq(CompletionType)
      /\ collected \in Seq(CompletionType)
      /\ Untaken = cq /\ Untaken' = Tail(cq)
  BY <1>1 DEF MInv, TypeOK, RequestType, CompletionType, Untaken
<1>3. /\ 1 \in DOMAIN Untaken /\ c = Untaken[1] /\ Without(Untaken', Untaken, 1)
  BY <1>1, <1>2, TailWithout
<1>4. c \in CompletionType /\ x \in RequestType /\ x.file = c.file /\ x.op = "write"
  <2>1. c \in CompletionType
    BY <1>3, Elements DEF MInv
  <2> HIDE DEF c
  <2> QED BY <2>1 DEF CompletionType, RequestType, Request, Ops
<1>5. collected' \in Seq(CompletionType) /\ With(collected', collected, c)
  BY <1>1, <1>2, <1>4, AppendWith
<1>6. requests' \in Seq(RequestType) /\ (c.res = "data" => With(requests', requests, x))
  BY <1>1, <1>2, <1>4, AppendWith
<1>7. c.res # "data" => requests' = requests
  BY <1>1
<1> HIDE DEF c, x
<1>8. \A n \in DOMAIN requests' : \/ n \in DOMAIN requests /\ requests'[n] = requests[n]
                                  \/ c.res = "data" /\ requests'[n] = x
  BY <1>6, <1>7 DEF With
<1>9. \A n \in DOMAIN Untaken' : Untaken'[n].file # c.file /\ \E k \in DOMAIN Untaken : Untaken'[n] = Untaken[k]
  BY <1>3, OnceWithout, LeftOver DEF MInv, OneInv
<1>10. \A n \in DOMAIN requests : requests[n].file # c.file
  BY <1>3 DEF MInv, OneInv
<1>11. TypeOK'
  BY <1>1, <1>5, <1>6 DEF MInv, TypeOK, RequestType, CompletionType
<1>12. PhaseInv'
  BY <1>1 DEF MInv, PhaseInv
<1>13. OneInv'
  <2>1. Once(Untaken')
    BY <1>3, OnceWithout DEF MInv, OneInv
  <2>2. Once(requests')
    <3>1. CASE c.res = "data"
      BY <1>4, <1>6, <1>10, <3>1, OnceWith DEF MInv, OneInv
    <3>2. CASE c.res # "data"
      BY <1>7, <3>2 DEF MInv, OneInv
    <3> QED BY <3>1, <3>2
  <2>3. ASSUME NEW n \in DOMAIN requests', NEW m \in DOMAIN Untaken'
        PROVE  requests'[n].file # Untaken'[m].file
    <3>1. CASE n \in DOMAIN requests /\ requests'[n] = requests[n]
      BY <1>9, <3>1 DEF MInv, OneInv
    <3>2. CASE requests'[n] = x
      BY <1>4, <1>9, <3>2
    <3> QED BY <1>8, <3>1, <3>2
  <2> QED BY <2>1, <2>2, <2>3 DEF OneInv
<1>14. FilledInv'
  <2>1. c.res = "data" => Filled(c.file)
    BY <1>3 DEF MInv, FilledInv
  <2>2. \A n \in DOMAIN requests' : requests'[n].op = "write" => Filled(requests'[n].file)
    BY <1>4, <1>8, <2>1 DEF MInv, FilledInv
  <2>3. \A n \in DOMAIN Untaken' : Untaken'[n].res = "data" => Filled(Untaken'[n].file)
    BY <1>9 DEF MInv, FilledInv
  <2> QED BY <1>1, <2>2, <2>3 DEF MInv, FilledInv, Filled
<1>15. WrittenInv'
  <2> SUFFICES ASSUME OnlyReads'
               PROVE  /\ Once(output')
                      /\ \A n \in DOMAIN output' : Written(collected', requests', Untaken', output'[n].file)
                      /\ \A n \in DOMAIN requests' :
                             requests'[n].op = "write" => ReadOf(collected', requests'[n].file)
    BY DEF WrittenInv
  <2>1. OnlyReads /\ c.op = "read"
    BY <1>5 DEF OnlyReads, With
  <2>2. \A f : ReadOf(collected, f) => ReadOf(collected', f)
    BY <1>5 DEF ReadOf, With
  <2>3. ASSUME NEW f, Written(collected, requests, Untaken, f)
        PROVE  Written(collected', requests', Untaken', f)
    <3>1. c.file # f
      BY <1>3, <2>1, <2>3 DEF Written
    <3> QED BY <1>4, <1>8, <1>9, <2>2, <2>3, <3>1 DEF Written
  <2>4. c.res = "data" => c = Completion(Request(c.file, "read"), "data")
    BY <1>4, <2>1 DEF CompletionType, Completion, Request
  <2>5. c.res = "data" => ReadOf(collected', c.file)
    BY <1>5, <2>4 DEF With, ReadOf
  <2>6. /\ Once(output) /\ output' = output
        /\ \A n \in DOMAIN output : Written(collected, requests, Untaken, output[n].file)
    BY <1>1, <2>1 DEF MInv, WrittenInv
  <2>7. ASSUME NEW n \in DOMAIN requests', requests'[n].op = "write"
        PROVE  ReadOf(collected', requests'[n].file)
    <3>1. CASE n \in DOMAIN requests /\ requests'[n] = requests[n]
      BY <2>1, <2>2, <2>7, <3>1 DEF MInv, WrittenInv
    <3>2. CASE c.res = "data" /\ requests'[n] = x
      BY <1>4, <2>5, <3>2
    <3> QED BY <1>8, <3>1, <3>2
  <2> QED BY <2>3, <2>6, <2>7
<1> QED BY <1>11, <1>12, <1>13, <1>14, <1>15 DEF MInv

-----------------------------------------------------------------------------
\* A request is taken from the ring, and perhaps completed.
LEMMA TakenInv ==
    ASSUME MInv, NEW n \in DOMAIN requests, requests' = RemoveAt(requests, n)
    PROVE  /\ requests' \in Seq(RequestType) /\ Once(requests')
           /\ \A m \in DOMAIN requests' : /\ requests'[m].file # requests[n].file
                                          /\ \E k \in DOMAIN requests : requests'[m] = requests[k]
<1>1. requests \in Seq(RequestType) /\ Once(requests)
  BY DEF MInv, TypeOK, OneInv, RequestType
<1>2. requests' \in Seq(RequestType) /\ Without(requests', requests, n)
  BY <1>1, RemoveAtWithout
<1> QED BY <1>1, <1>2, OnceWithout, LeftOver

LEMMA CompleteInv ==
    ASSUME MInv, NEW n \in DOMAIN requests, NEW res \in Results, Complete(n, res), pc' = pc
    PROVE  /\ cq' \in Seq(CompletionType) /\ cq' # <<>>
           /\ \A m \in DOMAIN Untaken' :
                  \/ m \in DOMAIN Untaken /\ Untaken'[m] = Untaken[m]
                  \/ Untaken'[m] = Completion(requests[n], res)
           /\ OneInv'
<1> DEFINE c == Completion(requests[n], res)
<1>1. requests' = RemoveAt(requests, n) /\ cq' = Append(cq, c)
  BY DEF Complete
<1>2. c \in CompletionType /\ c.file = requests[n].file
  <2>1. requests[n] \in RequestType
    BY Elements DEF MInv
  <2> QED BY <2>1 DEF RequestType, CompletionType, Completion
<1> HIDE DEF c
<1>3. cq' \in Seq(CompletionType) /\ cq' # <<>> /\ With(Untaken', Untaken, c)
  <2>1. cq \in Seq(CompletionType) /\ Untaken \in Seq(CompletionType)
    BY Elements DEF MInv, TypeOK, CompletionType
  <2>2. cq' \in Seq(CompletionType) /\ With(Append(Untaken, c), Untaken, c)
    BY <1>1, <1>2, <2>1, AppendWith
  <2>3. cq' # <<>>
    BY <1>1, <1>2, <2>1, AppendProperties, EmptySeq
  <2>4. Untaken' = Append(Untaken, c)
    <3>1. pc = "seen" => Tail(Append(cq, c)) = Append(Tail(cq), c)
      BY <1>2, <2>1, TailOfAppend DEF MInv, PhaseInv
    <3> QED BY <1>1, <3>1 DEF Untaken
  <2> QED BY <2>2, <2>3, <2>4
<1>4. \A m \in DOMAIN Untaken' : (m \in DOMAIN Untaken /\ Untaken'[m] = Untaken[m]) \/ Untaken'[m] = c
  BY <1>3 DEF With
<1>5. Once(Untaken')
  <2>1. \A m \in DOMAIN Untaken : Untaken[m].file # c.file
    BY <1>2 DEF MInv, OneInv
  <2> QED BY <1>3, <2>1, OnceWith DEF MInv, OneInv
<1>6. /\ Once(requests')
      /\ \A m \in DOMAIN requests' : /\ requests'[m].file # requests[n].file
                                     /\ \E k \in DOMAIN requests : requests'[m] = requests[k]
  BY <1>1, TakenInv
<1>7. ASSUME NEW m \in DOMAIN requests', NEW k \in DOMAIN Untaken'
      PROVE  requests'[m].file # Untaken'[k].file
  <2>1. CASE k \in DOMAIN Untaken /\ Untaken'[k] = Untaken[k]
    BY <1>6, <2>1 DEF MInv, OneInv
  <2>2. CASE Untaken'[k] = c
    BY <1>2, <1>6, <2>2
  <2> QED BY <1>4, <2>1, <2>2
<1>8. OneInv'
  BY <1>5, <1>6, <1>7 DEF OneInv
<1> QED BY <1>3, <1>4, <1>8 DEF c

\* What the kernel does to the buffers.
LEMMA FilledStep ==
    ASSUME MInv, NEW n \in DOMAIN requests, NEW res \in Results, Complete(n, res), pc' = pc,
           \A f \in Files : Filled(f) => buf'[f] \in {"data", "freed"},
           res = "data" => buf'[requests[n].file] \in {"data", "freed"},
           pc \in {"collect", "seen"} => \A m \in DOMAIN output' : output'[m].what = "data"
    PROVE  FilledInv'
<1>1. /\ \A m \in DOMAIN requests : requests[m].file \in Files
      /\ \A m \in DOMAIN Untaken : Untaken[m].file \in Files
  BY Elements DEF MInv, RequestType, CompletionType
<1>2. \A m \in DOMAIN requests' : \E k \in DOMAIN requests : requests'[m] = requests[k]
  BY TakenInv DEF Complete
<1>3. \A m \in DOMAIN requests' :
          requests'[m].op = "write" => buf'[requests'[m].file] \in {"data", "freed"}
  BY <1>1, <1>2 DEF MInv, FilledInv
<1>4. ASSUME NEW m \in DOMAIN Untaken', Untaken'[m].res = "data"
      PROVE  buf'[Untaken'[m].file] \in {"data", "freed"}
  <2>1. CASE m \in DOMAIN Untaken /\ Untaken'[m] = Untaken[m]
    BY <1>1, <1>4, <2>1 DEF MInv, FilledInv
  <2>2. CASE Untaken'[m] = Completion(requests[n], res)
    BY <1>4, <2>2 DEF Completion
  <2> QED BY <2>1, <2>2, CompleteInv
<1> QED BY <1>3, <1>4 DEF FilledInv, Filled

\* A completion that writes nothing.
LEMMA WrittenStep ==
    ASSUME MInv, NEW n \in DOMAIN requests, NEW res \in Results, Complete(n, res),
           UNCHANGED <<pc, output, collected>>
    PROVE  WrittenInv'
<1> SUFFICES ASSUME OnlyReads
             PROVE  /\ Once(output)
                    /\ \A m \in DOMAIN output : Written(collected, requests', Untaken', output[m].file)
                    /\ \A m \in DOMAIN requests' :
                           requests'[m].op = "write" => ReadOf(collected, requests'[m].file)
  BY DEF WrittenInv, OnlyReads
<1>1. /\ Once(output)
      /\ \A m \in DOMAIN output : Written(collected, requests, Untaken, output[m].file)
      /\ \A m \in DOMAIN requests : requests[m].op = "write" => ReadOf(collected, requests[m].file)
  BY DEF MInv, WrittenInv
<1>2. \A m \in DOMAIN requests' : \E k \in DOMAIN requests : requests'[m] = requests[k]
  BY TakenInv DEF Complete
<1>3. ASSUME NEW f, Written(collected, requests, Untaken, f)
      PROVE  Written(collected, requests', Untaken', f)
  <2>1. requests[n].file # f
    BY <1>3 DEF Written
  <2>2. \A m \in DOMAIN Untaken' : (m \in DOMAIN Untaken /\ Untaken'[m] = Untaken[m]) \/ Untaken'[m].file # f
    BY <2>1, CompleteInv DEF Completion
  <2> QED BY <1>2, <1>3, <2>2 DEF Written
<1> QED BY <1>1, <1>2, <1>3

LEMMA ReadMInv == ASSUME MInv, NEW n \in DOMAIN requests, Read(n) PROVE MInv'
<1>1. PICK res \in {"data", "empty"} :
          /\ Complete(n, res)
          /\ \/ res = "data" /\ buf' = [buf EXCEPT ![requests[n].file] = "data"]
             \/ res = "empty" /\ buf' = buf
          /\ UNCHANGED <<pc, i, output, collected>>
  BY DEF Read
<1>2. requests[n].file \in Files /\ res \in Results /\ buf \in [Files -> {"none", "blank", "data", "freed"}]
  BY <1>1, Elements DEF MInv, TypeOK, RequestType, Results
<1>3. /\ buf' \in [Files -> {"none", "blank", "data", "freed"}]
      /\ \A f \in Files : /\ Filled(f) => buf'[f] \in {"data", "freed"}
                          /\ buf[f] # "freed" => buf'[f] # "freed"
      /\ res = "data" => buf'[requests[n].file] \in {"data", "freed"}
  BY <1>1, <1>2 DEF Filled
<1>4. requests' \in Seq(RequestType) /\ cq' \in Seq(CompletionType) /\ cq' # <<>> /\ OneInv'
  BY <1>1, <1>2, TakenInv, CompleteInv DEF Complete
<1>5. TypeOK'
  BY <1>1, <1>3, <1>4 DEF MInv, TypeOK, RequestType, CompletionType
<1>6. PhaseInv'
  <2>1. DOMAIN requests # {} /\ pc \notin {"open", "failed"}
    BY Empty DEF MInv, PhaseInv
  <2> QED BY <1>1, <1>3, <1>4, <2>1 DEF MInv, PhaseInv
<1>7. FilledInv'
  BY <1>1, <1>2, <1>3, FilledStep DEF MInv, FilledInv
<1>8. WrittenInv'
  BY <1>1, <1>2, WrittenStep
<1> QED BY <1>4, <1>5, <1>6, <1>7, <1>8 DEF MInv

LEMMA FailMInv == ASSUME MInv, NEW n \in DOMAIN requests, Fail(n) PROVE MInv'
<1>1. /\ Complete(n, "error") /\ "error" \in Results
      /\ UNCHANGED <<pc, i, buf, output, collected>>
  BY DEF Fail, Results
<1>2. requests' \in Seq(RequestType) /\ cq' \in Seq(CompletionType) /\ cq' # <<>> /\ OneInv'
  BY <1>1, TakenInv, CompleteInv DEF Complete
<1>3. TypeOK'
  BY <1>1, <1>2 DEF MInv, TypeOK, RequestType, CompletionType
<1>4. PhaseInv'
  <2>1. DOMAIN requests # {} /\ pc \notin {"open", "failed"}
    BY Empty DEF MInv, PhaseInv
  <2> QED BY <1>1, <1>2, <2>1 DEF MInv, PhaseInv
<1>5. FilledInv'
  BY <1>1, FilledStep DEF MInv, FilledInv, Filled
<1>6. WrittenInv'
  BY <1>1, WrittenStep
<1> QED BY <1>2, <1>3, <1>4, <1>5, <1>6 DEF MInv

\* The file that is written was not in the output as long as main has seen reads only,
\* since it was in a request.
LEMMA WriteMInv == ASSUME MInv, NEW n \in DOMAIN requests, Write(n) PROVE MInv'
<1> DEFINE f == requests[n].file
<1>1. /\ requests[n].op = "write" /\ Complete(n, "data") /\ "data" \in Results
      /\ UNCHANGED <<pc, i, buf, collected>>
  BY DEF Write, Results
<1>2. PICK what \in Contents(f) : output' = Append(output, [file |-> f, what |-> what])
  BY DEF Write
<1>3. f \in Files /\ buf[f] \in {"data", "freed"}
  BY <1>1, Elements DEF MInv, RequestType, FilledInv, Filled
<1>4. what \in {"data", "junk"} /\ (pc \in {"collect", "seen"} => what = "data")
  BY <1>2, <1>3 DEF Contents, MInv, PhaseInv
<1> DEFINE o == [file |-> f, what |-> what]
<1>5. o \in OutputType /\ o.file = f /\ o.what = what
  BY <1>3, <1>4 DEF OutputType
<1> HIDE DEF o
<1>6. output' \in Seq(OutputType) /\ With(output', output, o)
  BY <1>2, <1>5, AppendWith DEF MInv, TypeOK, OutputType, o
<1>7. /\ requests' \in Seq(RequestType) /\ cq' \in Seq(CompletionType) /\ cq' # <<>> /\ OneInv'
      /\ \A m \in DOMAIN requests' : /\ requests'[m].file # f
                                     /\ \E k \in DOMAIN requests : requests'[m] = requests[k]
      /\ \A m \in DOMAIN Untaken' : (m \in DOMAIN Untaken /\ Untaken'[m] = Untaken[m]) \/ Untaken'[m] = Completion(requests[n], "data")
  BY <1>1, TakenInv, CompleteInv DEF Complete
<1>8. TypeOK'
  BY <1>1, <1>6, <1>7 DEF MInv, TypeOK, RequestType, CompletionType, OutputType
<1>9. PhaseInv'
  <2>1. DOMAIN requests # {} /\ pc \notin {"open", "failed"}
    BY Empty DEF MInv, PhaseInv
  <2> QED BY <1>1, <1>7, <2>1 DEF MInv, PhaseInv
<1>10. FilledInv'
  <2>1. pc \in {"collect", "seen"} => \A m \in DOMAIN output' : output'[m].what = "data"
    BY <1>4, <1>5, <1>6 DEF With, MInv, FilledInv
  <2> QED BY <1>1, <1>3, <2>1, FilledStep DEF Filled
<1>11. WrittenInv'
  <2> SUFFICES ASSUME OnlyReads
               PROVE  /\ Once(output')
                      /\ \A m \in DOMAIN output' : Written(collected, requests', Untaken', output'[m].file)
                      /\ \A m \in DOMAIN requests' :
                             requests'[m].op = "write" => ReadOf(collected, requests'[m].file)
    BY <1>1 DEF WrittenInv, OnlyReads
  <2>1. /\ Once(output)
        /\ \A m \in DOMAIN output : Written(collected, requests, Untaken, output[m].file)
        /\ \A m \in DOMAIN requests : requests[m].op = "write" => ReadOf(collected, requests[m].file)
    BY DEF MInv, WrittenInv
  <2>2. \A m \in DOMAIN output : output[m].file # f
    BY <2>1 DEF Written
  <2>3. Once(output')
    BY <1>5, <1>6, <2>1, <2>2, OnceWith
  <2>4. ASSUME NEW g, Written(collected, requests, Untaken, g), g # f
        PROVE  Written(collected, requests', Untaken', g)
    <3>1. \A m \in DOMAIN Untaken' : (m \in DOMAIN Untaken /\ Untaken'[m] = Untaken[m]) \/ Untaken'[m].file # g
      BY <1>7, <2>4 DEF Completion
    <3> QED BY <1>7, <2>4, <3>1 DEF Written
  <2>5. Written(collected, requests', Untaken', f)
    <3>1. \A m \in DOMAIN Untaken : Untaken[m].file # f
      BY DEF MInv, OneInv
    <3>2. \A m \in DOMAIN Untaken' : Untaken'[m].file = f => Untaken'[m].op = "write"
      BY <1>1, <1>7, <3>1 DEF Completion
    <3> QED BY <1>1, <1>7, <2>1, <3>2 DEF Written
  <2>6. \A m \in DOMAIN output' : Written(collected, requests', Untaken', output'[m].file)
    BY <1>5, <1>6, <2>1, <2>2, <2>4, <2>5 DEF With
  <2> QED BY <1>7, <2>1, <2>3, <2>6
<1> QED BY <1>7, <1>8, <1>9, <1>10, <1>11 DEF MInv

LEMMA CancelMInv == ASSUME MInv, NEW n \in DOMAIN requests, Cancel(n) PROVE MInv'
<1>1. /\ pc = "done" /\ requests' = RemoveAt(requests, n)
      /\ UNCHANGED <<pc, i, cq, buf, output, collected>> /\ UNCHANGED Untaken
  BY DEF Cancel, Untaken
<1>2. /\ requests' \in Seq(RequestType) /\ Once(requests')
      /\ \A m \in DOMAIN requests' : \E k \in DOMAIN requests : requests'[m] = requests[k]
  BY <1>1, TakenInv
<1>3. TypeOK' /\ PhaseInv'
  BY <1>1, <1>2 DEF MInv, TypeOK, PhaseInv, RequestType
<1>4. OneInv'
  BY <1>1, <1>2 DEF MInv, OneInv
<1>5. FilledInv'
  <2>1. \A m \in DOMAIN requests' : requests'[m].op = "write" => Filled(requests'[m].file)
    BY <1>2 DEF MInv, FilledInv
  <2> QED BY <1>1, <2>1 DEF MInv, FilledInv, Filled
<1>6. WrittenInv'
  <2>1. \A f : Written(collected, requests, Untaken, f) => Written(collected, requests', Untaken, f)
    BY <1>2 DEF Written
  <2> QED BY <1>1, <1>2, <2>1 DEF MInv, WrittenInv, OnlyReads
<1> QED BY <1>3, <1>4, <1>5, <1>6 DEF MInv

\* The steps of main that do not touch the ring.
LEMMA MainMInv ==
    ASSUME MInv, OpenInput \/ OpenFails \/ Seen \/ StartCleanup \/ FreeBuffer \/ Exit
    PROVE  MInv'
<1>1. i \in 1 .. MAX_FILES + 1 /\ buf \in [Files -> {"none", "blank", "data", "freed"}]
      /\ MAX_FILES \in Nat \ {0}
  BY FileMergeAssumption DEF MInv, TypeOK
<1>2. CASE OpenInput
  <2>1. /\ pc = "open" /\ pc' = pc /\ i \in Files /\ i' = i + 1
        /\ buf' = [buf EXCEPT ![i] = "blank"] /\ UNCHANGED <<requests, cq, output, collected>>
        /\ UNCHANGED Untaken
    BY <1>1, <1>2 DEF OpenInput, Files, Untaken
  <2>2. i' \in 1 .. MAX_FILES + 1
    BY <1>1, <2>1 DEF Files
  <2>3. TypeOK' /\ PhaseInv'
    BY <1>1, <2>1, <2>2 DEF MInv, TypeOK, PhaseInv
  <2>4. requests = <<>> /\ Untaken = <<>>
    BY <2>1 DEF MInv, PhaseInv, Untaken
  <2>5. OneInv' /\ FilledInv'
    BY <2>1, <2>4, Empty DEF OneInv, FilledInv, Once
  <2>6. WrittenInv'
    BY <2>1 DEF MInv, WrittenInv, OnlyReads
  <2> QED BY <2>3, <2>5, <2>6 DEF MInv
<1>3. CASE OpenFails
  <2>1. /\ pc = "open" /\ pc' = "failed"
        /\ UNCHANGED <<i, requests, cq, buf, output, collected>> /\ UNCHANGED Untaken
    BY <1>3 DEF OpenFails, Untaken
  <2>2. TypeOK' /\ PhaseInv' /\ \A f \in Files : Filled(f) => Filled(f)'
    BY <2>1 DEF MInv, TypeOK, PhaseInv, Filled
  <2> QED BY <2>1, <2>2, QuietMInv
<1>4. CASE StartCleanup
  <2>1. /\ pc = "collect" /\ pc' = "cleanup" /\ i' = 1
        /\ UNCHANGED <<requests, cq, buf, output, collected>> /\ UNCHANGED Untaken
    BY <1>4 DEF StartCleanup, Untaken
  <2>2. TypeOK' /\ PhaseInv' /\ \A f \in Files : Filled(f) => Filled(f)'
    BY <1>1, <2>1 DEF MInv, TypeOK, PhaseInv, Filled
  <2> QED BY <2>1, <2>2, QuietMInv
<1>5. CASE FreeBuffer
  <2>1. /\ pc = "cleanup" /\ pc' = pc /\ i \in Files /\ i' = i + 1
        /\ buf' = [buf EXCEPT ![i] = "freed"]
        /\ UNCHANGED <<requests, cq, output, collected>> /\ UNCHANGED Untaken
    BY <1>1, <1>5 DEF FreeBuffer, Files, Untaken
  <2>2. i' \in 1 .. MAX_FILES + 1
    BY <1>1, <2>1 DEF Files
  <2>3. TypeOK' /\ PhaseInv' /\ \A f \in Files : Filled(f) => Filled(f)'
    BY <1>1, <2>1, <2>2 DEF MInv, TypeOK, PhaseInv, Filled
  <2> QED BY <2>1, <2>3, QuietMInv
<1>6. CASE Exit
  <2>1. /\ pc = "cleanup" /\ pc' = "done"
        /\ UNCHANGED <<i, requests, cq, buf, output, collected>> /\ UNCHANGED Untaken
    BY <1>6 DEF Exit, Untaken
  <2>2. TypeOK' /\ PhaseInv' /\ \A f \in Files : Filled(f) => Filled(f)'
    BY <2>1 DEF MInv, TypeOK, PhaseInv, Filled
  <2> QED BY <2>1, <2>2, QuietMInv
<1>7. CASE Seen
  <2>1. /\ pc = "seen" /\ pc' = "collect" /\ i' = i + 1 /\ cq' = Tail(cq)
        /\ UNCHANGED <<requests, buf, output, collected>> /\ UNCHANGED Untaken
    BY <1>7 DEF Seen, Untaken
  <2>2. i' \in 1 .. MAX_FILES + 1
    BY <1>1, <2>1 DEF MInv, PhaseInv
  <2>3. cq' \in Seq(CompletionType)
    BY <2>1, TailWithout DEF MInv, TypeOK, PhaseInv, CompletionType
  <2>4. TypeOK' /\ PhaseInv' /\ \A f \in Files : Filled(f) => Filled(f)'
    BY <2>1, <2>2, <2>3 DEF MInv, TypeOK, PhaseInv, Filled, CompletionType
  <2> QED BY <2>1, <2>4, QuietMInv
<1> QED BY <1>2, <1>3, <1>4, <1>5, <1>6, <1>7

LEMMA NextMInv == MInv /\ [Next]_vars => MInv'
<1> SUFFICES ASSUME MInv, [Next]_vars PROVE MInv'
  OBVIOUS
<1>1. CASE Main
  BY <1>1, MainMInv, SubmitMInv, CollectMInv DEF Main
<1>2. CASE Kernel
  BY <1>2, ReadMInv, WriteMInv, FailMInv, CancelMInv DEF Kernel
<1>3. CASE UNCHANGED vars
  <2>1. UNCHANGED <<pc, i, requests, cq, buf, output, collected>> /\ UNCHANGED Untaken
    BY <1>3 DEF vars, Untaken
  <2>2. TypeOK' /\ PhaseInv' /\ \A f \in Files : Filled(f) => Filled(f)'
    BY <2>1 DEF MInv, TypeOK, PhaseInv, Filled
  <2> QED BY <2>1, <2>2, QuietMInv
<1> QED BY <1>1, <1>2, <1>3 DEF Next

-----------------------------------------------------------------------------
LEMMA OfOnce ==
    ASSUME NEW s, NEW f, Once(s)
    PROVE  Cardinality(Of(s, f)) = IF Of(s, f) = {} THEN 0 ELSE 1
<1>1. CASE Of(s, f) = {}
  BY <1>1, FS_EmptySet
<1>2. CASE Of(s, f) # {}
  <2>1. PICK n : Of(s, f) = {n}
    BY <1>2 DEF Of, Once
  <2> QED BY <1>2, <2>1, FS_Singleton
<1> QED BY <1>1, <1>2

\* Requests, completions and buffers keep their types.
THEOREM TypeCorrect == Spec => []TypeOK
<1>1. MInv => TypeOK
  BY DEF MInv
<1> QED BY <1>1, InitMInv, NextMInv, PTL DEF Spec

\* For any number of files and whatever fails, a buffer is in one operation at most.
THEOREM BuffersUsedOnce == Spec => []OneOperationPerBuffer
<1>1. MInv => OneOperationPerBuffer
  <2> SUFFICES ASSUME MInv, NEW f \in Files
               PROVE  Cardinality(Of(requests, f)) + Cardinality(Of(Untaken, f)) <= 1
    BY DEF OneOperationPerBuffer
  <2>1. Of(requests, f) = {} \/ Of(Untaken, f) = {}
    BY DEF MInv, OneInv, Of
  <2>2. Once(requests) /\ Once(Untaken)
    BY DEF MInv, OneInv
  <2> QED BY <2>1, <2>2, OfOnce
<1> QED BY <1>1, InitMInv, NextMInv, PTL DEF Spec

\* And what is written is what has been read, in the sense of WritesWhatWasRead.
THEOREM WritesAreOfReads == Spec => []WritesWhatWasRead
<1>1. MInv => WritesWhatWasRead
  <2> SUFFICES ASSUME MInv PROVE WritesWhatWasRead
    OBVIOUS
  <2>1. pc \in {"collect", "seen"} => \A n \in DOMAIN output : output[n].what = "data"
    BY DEF MInv, FilledInv
  <2>2. ASSUME OnlyReads, NEW f \in Files
        PROVE  /\ Cardinality(Of(output, f)) <= 1
               /\ Of(output, f) # {} =>
                      \E n \in DOMAIN collected :
                          collected[n] = Completion(Request(f, "read"), "data")
    <3>1. Once(output) /\ \A n \in DOMAIN output : ReadOf(collected, output[n].file)
      BY <2>2 DEF MInv, WrittenInv, Written
    <3>2. Cardinality(Of(output, f)) <= 1
      BY <3>1, OfOnce
    <3> QED BY <3>1, <3>2 DEF Of, ReadOf
  <2> QED BY <2>1, <2>2 DEF WritesWhatWasRead
<1> QED BY <1>1, InitMInv, NextMInv, PTL DEF Spec

-----------------------------------------------------------------------------
\* The asynchronous benchmark.
AsyncTypes ==
    /\ aPc \in {"submit", "spin", "done", "failed"}
    /\ aOp \in {"write", "read"}
    /\ aI \in 0 .. MaxBlocks
    /\ aState \in {"idle", "progress", "whole", "part", "error"}
    /\ aPc # "done" => aFile \in [Async!Blocks -> {"none", "part", "whole"}]
    /\ aGot \in [Async!Blocks -> {"nothing", "holed", "whole"}]

\* The control block belongs to the turn main is in, and the kernel works only
\* while main spins: a request is never filled in over one that is under way.
ControlBlock ==
    /\ aPc = "spin" => aOffset = aI /\ aI < MaxBlocks /\ aState # "idle"
    /\ aState = "progress" => aPc = "spin"
    /\ aPc = "done" => aOp = "read" /\ aI = MaxBlocks

\* What the block b has come to: the turns behind main are told by shorts, and the
\* turn main is in by the state of the control block.
WriteTurn(b) ==
    /\ aPc # "done" =>
           /\ aOp = "read" \/ b < aI =>
                  aFile[b] = IF <<"write", b>> \in aShorts THEN "part" ELSE "whole"
           /\ aPc = "spin" /\ aOp = "write" /\ b = aI /\ aState \in {"whole", "part"} =>
                  aFile[b] = aState
    /\ <<"write", b>> \in aShorts => aOp = "read" \/ b < aI
Brought(b) == IF <<"write", b>> \in aShorts THEN "holed" ELSE "whole"
ReadTurn(b) ==
    /\ aOp = "read" /\ b < aI =>
           aGot[b] = IF <<"read", b>> \in aShorts THEN "nothing" ELSE Brought(b)
    /\ aGot[b] # "nothing" =>
           /\ aOp = "read"
           /\ b < aI \/ (b = aI /\ aPc \in {"spin", "failed"} /\ aState = "whole")
           /\ b = MaxBlocks - 1 => <<"write", b>> \notin aShorts
    /\ aPc = "spin" /\ aOp = "read" /\ b = aI /\ aState = "whole" => aGot[b] = Brought(b)
    /\ <<"read", b>> \in aShorts => aOp = "read" /\ b < aI

AInv == AsyncTypes /\ ControlBlock /\ \A b \in Async!Blocks : WriteTurn(b) /\ ReadTurn(b)

LEMMA InitAInv == ASSUME Async!Init PROVE AInv
<1>1. /\ aFile \in [Async!Blocks -> {"none", "part", "whole"}]
      /\ aGot \in [Async!Blocks -> {"nothing", "holed", "whole"}]
      /\ \A b \in Async!Blocks : aGot[b] = "nothing"
  BY DEF Async!Init
<1>2. \A b \in Async!Blocks : b \in Nat
  BY DEF Async!Blocks
<1> QED BY <1>1, <1>2, TransfersAssumption
        DEF Async!Init, AInv, AsyncTypes, ControlBlock, WriteTurn, ReadTurn

LEMMA AsyncMainStep == ASSUME AInv, Async!Main PROVE AInv'
<1> USE TransfersAssumption DEF AInv
<1>1. /\ MaxBlocks \in Nat /\ aI \in 0 .. MaxBlocks
      /\ \A b \in Async!Blocks : b \in Nat /\ b < MaxBlocks
  BY DEF AsyncTypes, Async!Blocks
<1>2. CASE Async!Submit
  <2>1. /\ aPc = "submit" /\ aI < MaxBlocks
        /\ aOffset' = aI /\ aState' = "progress" /\ aPc' = "spin"
        /\ UNCHANGED <<aOp, aI, aFile, aGot, aShorts>>
    BY <1>2 DEF Async!Submit
  <2>2. AsyncTypes' /\ ControlBlock'
    BY <2>1 DEF AsyncTypes, ControlBlock
  <2>3. \A b \in Async!Blocks : WriteTurn(b)'
    BY <2>1 DEF WriteTurn
  <2>4. \A b \in Async!Blocks : ReadTurn(b)'
    BY <1>1, <2>1 DEF ReadTurn, Brought
  <2> QED BY <2>2, <2>3, <2>4
<1>3. CASE Async!SubmitFails
  <2>1. /\ aPc = "submit" /\ aPc' = "failed"
        /\ UNCHANGED <<aOp, aI, aState, aFile, aGot, aShorts>>
    BY <1>3 DEF Async!SubmitFails
  <2>2. AsyncTypes' /\ ControlBlock'
    BY <2>1 DEF AsyncTypes, ControlBlock
  <2>3. \A b \in Async!Blocks : WriteTurn(b)'
    BY <2>1 DEF WriteTurn
  <2>4. \A b \in Async!Blocks : ReadTurn(b)'
    BY <1>1, <2>1 DEF ReadTurn, Brought
  <2> QED BY <2>2, <2>3, <2>4
<1>4. CASE Async!Collect
  <2>1. /\ aPc = "spin" /\ aState # "progress" /\ aI < MaxBlocks
        /\ aPc' = (IF aState = "error" THEN "failed" ELSE "submit")
        /\ aI' = (IF aState = "error" THEN aI ELSE aI + 1)
        /\ aShorts' = (IF aState = "part" THEN aShorts \cup {<<aOp, aI>>} ELSE aShorts)
        /\ UNCHANGED <<aOp, aOffset, aState, aFile, aGot>>
    BY <1>4 DEF Async!Collect, Async!Completed, ControlBlock
  <2>2. AsyncTypes' /\ ControlBlock'
    BY <1>1, <2>1 DEF AsyncTypes, ControlBlock
  <2>3. aState \in {"idle", "whole", "part", "error"} /\ aOp \in {"write", "read"}
    BY <2>1 DEF AsyncTypes
  <2>4. aState # "idle"
    BY <2>1 DEF ControlBlock
  <2>5. ASSUME NEW b \in Async!Blocks PROVE WriteTurn(b)'
    <3>1. WriteTurn(b)
      OBVIOUS
    <3> QED BY <1>1, <2>1, <2>3, <2>4, <3>1 DEF WriteTurn
  <2>6. ASSUME NEW b \in Async!Blocks PROVE ReadTurn(b)'
    <3>1. ReadTurn(b)
      OBVIOUS
    <3>2. aGot[b] \in {"nothing", "holed", "whole"}
      BY DEF AsyncTypes
    <3> QED BY <1>1, <2>1, <2>3, <2>4, <3>1, <3>2 DEF ReadTurn, Brought
  <2> QED BY <2>2, <2>5, <2>6
<1>5. CASE Async!StartReading
  <2>1. /\ aPc = "submit" /\ aOp = "write" /\ aI = MaxBlocks
        /\ aOp' = "read" /\ aI' = 0
        /\ UNCHANGED <<aPc, aOffset, aState, aFile, aGot, aShorts>>
    BY <1>5 DEF Async!StartReading
  <2>2. AsyncTypes' /\ ControlBlock'
    BY <2>1 DEF AsyncTypes, ControlBlock
  <2>3. \A b \in Async!Blocks : WriteTurn(b)'
    BY <1>1, <2>1 DEF WriteTurn
  <2>4. ASSUME NEW b \in Async!Blocks PROVE ReadTurn(b)'
    <3>1. ReadTurn(b) /\ b \in Nat
      BY <1>1
    <3> QED BY <2>1, <3>1 DEF ReadTurn, Brought
  <2> QED BY <2>2, <2>3, <2>4
<1>6. CASE Async!Finish
  <2>1. /\ aPc = "submit" /\ aOp = "read" /\ aI = MaxBlocks /\ aPc' = "done"
        /\ UNCHANGED <<aOp, aI, aOffset, aState, aGot, aShorts>>
    BY <1>6 DEF Async!Finish
  <2>2. AsyncTypes' /\ ControlBlock'
    BY <2>1 DEF AsyncTypes, ControlBlock
  <2>3. \A b \in Async!Blocks : WriteTurn(b)'
    BY <2>1 DEF WriteTurn
  <2>4. \A b \in Async!Blocks : ReadTurn(b)'
    BY <1>1, <2>1 DEF ReadTurn, Brought
  <2> QED BY <2>2, <2>3, <2>4
<1> QED BY <1>2, <1>3, <1>4, <1>5, <1>6 DEF Async!Main

LEMMA AsyncKernelStep == ASSUME AInv, Async!Kernel PROVE AInv'
<1> USE TransfersAssumption DEF AInv
<1>1. /\ aState = "progress" /\ aPc = "spin" /\ aOffset = aI
      /\ aI \in Async!Blocks /\ aOp \in {"write", "read"}
      /\ aFile \in [Async!Blocks -> {"none", "part", "whole"}]
      /\ aGot \in [Async!Blocks -> {"nothing", "holed", "whole"}]
      /\ \A b \in Async!Blocks : b \in Nat /\ b < MaxBlocks
      /\ UNCHANGED <<aPc, aOp, aI, aOffset, aShorts>>
  BY DEF Async!Kernel, Async!Write, Async!Read, Async!Fail, AsyncTypes, ControlBlock, Async!Blocks
<1>2. aGot[aI] = "nothing" /\ <<aOp, aI>> \notin aShorts
  <2>1. WriteTurn(aI) /\ ReadTurn(aI) /\ aI \in Nat
    BY <1>1
  <2> QED BY <1>1, <2>1 DEF WriteTurn, ReadTurn
<1>3. CASE Async!Write
  <2>1. /\ aOp = "write" /\ aState' \in {"whole", "part"}
        /\ aFile' = [aFile EXCEPT ![aI] = aState'] /\ UNCHANGED aGot
    BY <1>1, <1>3 DEF Async!Write
  <2>2. aFile' \in [Async!Blocks -> {"none", "part", "whole"}]
    BY <1>1, <2>1
  <2>3. AsyncTypes' /\ ControlBlock'
    BY <1>1, <2>1, <2>2 DEF AsyncTypes, ControlBlock
  <2>4. \A b \in Async!Blocks : aFile'[b] = IF b = aI THEN aState' ELSE aFile[b]
    BY <1>1, <2>1
  <2>5. ASSUME NEW b \in Async!Blocks PROVE WriteTurn(b)' /\ ReadTurn(b)'
    <3>1. WriteTurn(b) /\ ReadTurn(b)
      OBVIOUS
    <3> QED BY <1>1, <1>2, <2>1, <2>4, <3>1 DEF WriteTurn, ReadTurn, Brought
  <2> QED BY <2>3, <2>5
<1>4. CASE Async!Read
  <2>1. /\ aOp = "read" /\ UNCHANGED aFile
        /\ \/ /\ Async!InFile(aI) /\ aState' = "whole"
              /\ aGot' = [aGot EXCEPT ![aI] = IF aFile[aI] = "whole" THEN "whole" ELSE "holed"]
           \/ aState' = "part" /\ UNCHANGED aGot
    BY <1>1, <1>4 DEF Async!Read
  <2>2. AsyncTypes' /\ ControlBlock'
    <3>1. aGot' \in [Async!Blocks -> {"nothing", "holed", "whole"}]
      BY <1>1, <2>1
    <3> QED BY <1>1, <2>1, <3>1 DEF AsyncTypes, ControlBlock
  \* A short block is read in full only if a later one is in the file.
  <2>3. Async!InFile(aI) /\ aI = MaxBlocks - 1 => aFile[aI] = "whole"
    BY <1>1 DEF Async!InFile
  <2>4. aFile[aI] = IF <<"write", aI>> \in aShorts THEN "part" ELSE "whole"
    <3>1. WriteTurn(aI)
      BY <1>1
    <3> QED BY <1>1, <2>1, <3>1 DEF WriteTurn
  <2>5. /\ \A b \in Async!Blocks : b # aI => aGot'[b] = aGot[b]
        /\ aState' = "whole" => aGot'[aI] = Brought(aI)
        /\ aState' = "whole" /\ aI = MaxBlocks - 1 => <<"write", aI>> \notin aShorts
        /\ aState' # "whole" => aGot'[aI] = "nothing"
    BY <1>1, <1>2, <2>1, <2>3, <2>4 DEF Brought
  <2>6. ASSUME NEW b \in Async!Blocks PROVE WriteTurn(b)' /\ ReadTurn(b)'
    <3>1. WriteTurn(b) /\ ReadTurn(b)
      OBVIOUS
    <3>2. WriteTurn(b)'
      BY <1>1, <2>1, <3>1 DEF WriteTurn
    <3>3. ReadTurn(b)'
      BY <1>1, <1>2, <2>1, <2>5, <3>1 DEF ReadTurn, Brought
    <3> QED BY <3>2, <3>3
  <2> QED BY <2>2, <2>6
<1>5. CASE Async!Fail
  <2>1. aState' = "error" /\ UNCHANGED <<aFile, aGot>>
    BY <1>5 DEF Async!Fail
  <2>2. AsyncTypes' /\ ControlBlock'
    BY <1>1, <2>1 DEF AsyncTypes, ControlBlock
  <2>3. ASSUME NEW b \in Async!Blocks PROVE WriteTurn(b)' /\ ReadTurn(b)'
    <3>1. WriteTurn(b) /\ ReadTurn(b)
      OBVIOUS
    <3> QED BY <1>1, <1>2, <2>1, <3>1 DEF WriteTurn, ReadTurn, Brought
  <2> QED BY <2>2, <2>3
<1> QED BY <1>3, <1>4, <1>5 DEF Async!Kernel

LEMMA NextAInv == ASSUME AInv, [Async!Next]_aVars PROVE AInv'
<1>1. CASE UNCHANGED aVars
  BY <1>1 DEF aVars, AInv, AsyncTypes, ControlBlock, WriteTurn, ReadTurn, Brought
<1> QED BY <1>1, AsyncMainStep, AsyncKernelStep DEF Async!Next

LEMMA BlocksFromInv == ASSUME AInv PROVE Async!BlocksInPlace
<1> USE DEF AInv
<1>1. \A b \in Async!Blocks : b \in Nat /\ b < MaxBlocks
  BY TransfersAssumption DEF Async!Blocks
<1>2. aPc = "done" =>
          \A b \in Async!Blocks :
              /\ aGot[b] = IF <<"read", b>> \in aShorts THEN "nothing"
                           ELSE IF <<"write", b>> \in aShorts THEN "holed" ELSE "whole"
              /\ b = MaxBlocks - 1 /\ <<"write", b>> \in aShorts => <<"read", b>> \in aShorts
  BY <1>1 DEF AsyncTypes, ControlBlock, ReadTurn, Brought
<1>3. aPc = "done" /\ <<"write", MaxBlocks - 1>> \in aShorts /\ MaxBlocks - 1 \in Async!Blocks =>
          <<"read", MaxBlocks - 1>> \in aShorts
  BY <1>2
<1>4. aPc = "spin" => aOffset = aI
  BY DEF ControlBlock
<1>5. aPc # "done" => \A b \in Async!Blocks : aOp = "read" \/ b < aI =>
          aFile[b] = IF <<"write", b>> \in aShorts THEN "part" ELSE "whole"
  BY DEF WriteTurn
<1> QED BY <1>2, <1>3, <1>4, <1>5 DEF Async!BlocksInPlace

-----------------------------------------------------------------------------
\* The direct and buffered benchmark.
DirectTypes ==
    /\ dPhase \in 1 .. 5
    /\ dOpened \in BOOLEAN
    /\ dI \in 0 .. MaxBlocks /\ dBlocks \in 0 .. MaxBlocks
    /\ dResults \in Seq(1 .. 4)

\* A write benchmark has written what the file has; when both are over, it is whole
\* exactly if the second one has its RESULT line.  Lines are of phases gone by.
DInv ==
    /\ DirectTypes
    /\ dOpened => IF dPhase \in {1, 2} THEN dBlocks = dI ELSE dPhase < 5 /\ dI <= dBlocks
    /\ dPhase > 2 => (Direct!Reported(2) <=> dBlocks = MaxBlocks)
    /\ Direct!Reported(3) \/ Direct!Reported(4) => Direct!Reported(2)
    /\ \A n \in DOMAIN dResults : dResults[n] < dPhase
    /\ \A m, n \in DOMAIN dResults : m < n => dResults[m] < dResults[n]

LEMMA InitDInv == ASSUME Direct!Init PROVE DInv
<1>1. dResults \in Seq(1 .. 4) /\ DOMAIN dResults = {}
  BY EmptySeq DEF Direct!Init
<1>2. dPhase = 1 /\ dOpened = FALSE /\ dI = 0 /\ dBlocks = 0
  BY DEF Direct!Init
<1>3. dOpened \in BOOLEAN
  BY <1>2
<1>4. DirectTypes
  BY <1>1, <1>2, <1>3, TransfersAssumption DEF DirectTypes
<1>5. \A p : ~Direct!Reported(p)
  BY <1>1 DEF Direct!Reported
<1> QED BY <1>1, <1>2, <1>4, <1>5 DEF DInv

LEMMA NextDInv == ASSUME DInv, [Direct!Next]_dVars PROVE DInv'
<1> USE TransfersAssumption DEF DInv
<1>1. CASE Direct!Open
  <2>1. /\ dPhase < 5 /\ ~dOpened /\ dOpened' = TRUE /\ dI' = 0
        /\ dBlocks' = (IF dPhase \in {1, 2} THEN 0 ELSE dBlocks)
        /\ UNCHANGED <<dPhase, dResults>>
    BY <1>1 DEF Direct!Open, Direct!Running, Direct!Truncates, Direct!Writes
  <2> QED BY <2>1 DEF DirectTypes, Direct!Reported
<1>2. CASE Direct!Fatal \/ UNCHANGED dVars
  BY <1>2 DEF Direct!Fatal, dVars, DirectTypes, Direct!Reported
<1>3. CASE Direct!WriteBlock
  <2>1. /\ dOpened /\ dPhase \in {1, 2} /\ dI < MaxBlocks
        /\ dBlocks' = (IF dI < dBlocks THEN dBlocks ELSE dI + 1)
        /\ dI' = dI + 1 /\ UNCHANGED <<dPhase, dOpened, dResults>>
    BY <1>3 DEF Direct!WriteBlock, Direct!Writes
  <2> QED BY <2>1 DEF DirectTypes, Direct!Reported
<1>4. CASE Direct!ReadBlock
  <2>1. /\ dOpened /\ dPhase \notin {1, 2} /\ dI < MaxBlocks /\ dI < dBlocks
        /\ dI' = dI + 1 /\ UNCHANGED <<dPhase, dOpened, dBlocks, dResults>>
    BY <1>4 DEF Direct!ReadBlock, Direct!Writes
  <2> QED BY <2>1 DEF DirectTypes, Direct!Reported
<1>5. \A p : Direct!Reported(p) => p < dPhase
  BY DEF Direct!Reported
<1>6. CASE Direct!ShortTransfer
  <2>1. /\ dPhase < 5 /\ dOpened /\ dI < MaxBlocks
        /\ dOpened' = FALSE /\ dPhase' = dPhase + 1 /\ UNCHANGED <<dI, dBlocks, dResults>>
    BY <1>6 DEF Direct!ShortTransfer, Direct!Running, Direct!Close
  <2>2. \A p : Direct!Reported(p)' <=> Direct!Reported(p)
    BY <2>1 DEF Direct!Reported
  <2>3. dPhase' > 2 => (Direct!Reported(2)' <=> dBlocks' = MaxBlocks)
    BY <1>5, <2>1, <2>2 DEF DirectTypes
  <2>4. \A n \in DOMAIN dResults : dResults[n] \in Int
    BY LenProperties, ElementOfSeq DEF DirectTypes
  <2>5. \A n \in DOMAIN dResults : dResults[n] < dPhase + 1
    BY <2>4 DEF DirectTypes
  <2>6. dOpened' \in BOOLEAN
    BY <2>1
  <2>7. DirectTypes'
    BY <2>1, <2>6 DEF DirectTypes
  <2> QED BY <2>1, <2>2, <2>3, <2>5, <2>7
<1>7. CASE Direct!Report
  <2>1. /\ dPhase < 5 /\ dOpened /\ dI = MaxBlocks
        /\ dResults' = Append(dResults, dPhase)
        /\ dOpened' = FALSE /\ dPhase' = dPhase + 1 /\ UNCHANGED <<dI, dBlocks>>
    BY <1>7 DEF Direct!Report, Direct!Running, Direct!Close
  <2>2. dPhase \in 1 .. 4
    BY <2>1 DEF DirectTypes
  <2>3. /\ dResults' \in Seq(1 .. 4) /\ Len(dResults') = Len(dResults) + 1
        /\ \A n \in 1 .. Len(dResults) : dResults'[n] = dResults[n]
        /\ dResults'[Len(dResults) + 1] = dPhase
    BY <2>1, <2>2, AppendProperties DEF DirectTypes
  <2>4. /\ Len(dResults) \in Nat /\ DOMAIN dResults = 1 .. Len(dResults)
        /\ DOMAIN dResults' = 1 .. Len(dResults) + 1
    BY <2>3, LenProperties DEF DirectTypes
  <2>5. \A p : Direct!Reported(p)' <=> Direct!Reported(p) \/ p = dPhase
    BY <2>3, <2>4 DEF Direct!Reported
  <2>6. /\ \A n \in DOMAIN dResults' : dResults'[n] < dPhase'
        /\ \A m, n \in DOMAIN dResults' : m < n => dResults'[m] < dResults'[n]
    BY SMTT(20), <2>1, <2>2, <2>3, <2>4
  <2>7. dPhase' > 2 => (Direct!Reported(2)' <=> dBlocks' = MaxBlocks)
    BY <2>1, <2>2, <2>5 DEF DirectTypes
  <2>8. Direct!Reported(3)' \/ Direct!Reported(4)' => Direct!Reported(2)'
    BY <1>5, <2>1, <2>2, <2>5 DEF DirectTypes
  <2>9. DirectTypes'
    <3>1. dPhase' \in 1 .. 5 /\ dI' = dI /\ dBlocks' = dBlocks
      BY <2>1, <2>2
    <3>2. dOpened' \in BOOLEAN
      BY <2>1
    <3> QED BY <2>3, <3>1, <3>2 DEF DirectTypes
  <2> QED BY <2>1, <2>6, <2>7, <2>8, <2>9
<1> QED BY <1>1, <1>2, <1>3, <1>4, <1>6, <1>7 DEF Direct!Next, Direct!Main

LEMMA ResultsFromInv == ASSUME DInv PROVE Direct!ResultsAreWhole
<1>1. Direct!Reported(2) => dBlocks = MaxBlocks
  BY DEF DInv, DirectTypes, Direct!Reported
<1> QED BY <1>1 DEF DInv, Direct!ResultsAreWhole

-----------------------------------------------------------------------------
\* The copy.  d is the first n bytes of s.
Begins(d, s, n) ==
    /\ d \in Seq(Int) /\ s \in Seq(Int)
    /\ Len(d) = n /\ n <= Len(s)
    /\ \A p \in 1 .. n : d[p] = s[p]

\* Between the calls the copy is what has been read, but for the buffer that is about
\* to be written.
CInv ==
    /\ cPc \in {"open", "read", "write", "overwrite", "ended"}
    /\ cSource \in Seq(Int)
    /\ cAt \in 0 .. Len(cSource) /\ cNread \in 0 .. cAt
    /\ cPc # "ended" => cStatus = -1
    /\ cPc = "open" => cAt = 0
    /\ cPc \in {"open", "read"} => Begins(cDest, cSource, cAt)
    /\ cPc = "write" => Begins(cDest, cSource, cAt - cNread)
    /\ cPc = "overwrite" => Begins(cDest, cSource, Len(cSource))
    /\ cPc = "ended" => Copy!CopyFaithful

LEMMA BeginsIsPrefix ==
    ASSUME NEW d, NEW s, NEW n \in Nat, Begins(d, s, n)
    PROVE  Copy!IsPrefix(d, s)
<1>1. /\ Len(d) = n /\ n <= Len(s) /\ Len(s) \in Nat
      /\ \A p \in 1 .. n : d[p] \in Int /\ s[p] \in Int /\ d[p] = s[p]
  BY LenProperties, ElementOfSeq DEF Begins
<1>2. /\ SubSeq(d, 1, n) \in Seq(Int) /\ SubSeq(s, 1, n) \in Seq(Int)
      /\ Len(SubSeq(d, 1, n)) = n /\ Len(SubSeq(s, 1, n)) = n
      /\ \A p \in 1 .. n : SubSeq(d, 1, n)[p] = d[p] /\ SubSeq(s, 1, n)[p] = s[p]
  <2>1. n - 1 + 1 = n /\ \A p \in 1 .. n : 1 + p - 1 = p
    OBVIOUS
  <2>2. /\ SubSeq(d, 1, n) \in Seq(Int) /\ Len(SubSeq(d, 1, n)) = (IF 1 <= n THEN n - 1 + 1 ELSE 0)
        /\ \A p \in 1 .. n - 1 + 1 : SubSeq(d, 1, n)[p] = d[1 + p - 1]
    BY <1>1, SubSeqProperties
  <2>3. /\ SubSeq(s, 1, n) \in Seq(Int) /\ Len(SubSeq(s, 1, n)) = (IF 1 <= n THEN n - 1 + 1 ELSE 0)
        /\ \A p \in 1 .. n - 1 + 1 : SubSeq(s, 1, n)[p] = s[1 + p - 1]
    BY <1>1, SubSeqProperties
  <2> QED BY <2>1, <2>2, <2>3
<1>3. SubSeq(d, 1, n) = SubSeq(s, 1, n)
  BY <1>1, <1>2, SeqEqual
<1> QED BY <1>1, <1>3 DEF Copy!IsPrefix

\* What a write appends is the next bytes of the source.
LEMMA WrittenBegins ==
    ASSUME NEW n \in Nat, cPc = "write", CInv, n <= cNread, Copy!Written(n)
    PROVE  Begins(cDest', cSource, cAt - cNread + n)
<1> DEFINE from == cAt - cNread
           piece == SubSeq(cSource, from + 1, from + n)
<1>1. /\ Begins(cDest, cSource, from) /\ from \in Nat /\ from + n <= Len(cSource)
      /\ Len(cSource) \in Nat /\ cSource \in Seq(Int) /\ cDest \in Seq(Int)
  BY LenProperties DEF CInv, Begins
<1> HIDE DEF from
<1>2. \A p \in from + 1 .. from + n : cSource[p] \in Int
  BY <1>1, ElementOfSeq
<1>3. /\ piece \in Seq(Int) /\ Len(piece) = n
      /\ \A p \in 1 .. n : piece[p] = cSource[from + p]
  <2>1. /\ piece \in Seq(Int)
        /\ Len(piece) = (IF from + 1 <= from + n THEN (from + n) - (from + 1) + 1 ELSE 0)
        /\ \A p \in 1 .. (from + n) - (from + 1) + 1 : piece[p] = cSource[(from + 1) + p - 1]
    BY <1>1, <1>2, SubSeqProperties
  <2>2. (from + n) - (from + 1) + 1 = n /\ \A p \in 1 .. n : (from + 1) + p - 1 = from + p
    BY <1>1
  <2> HIDE DEF piece
  <2> QED BY SMTT(20), <1>1, <2>1, <2>2
<1>4. cDest' = cDest \o piece
  BY DEF Copy!Written, from
<1> HIDE DEF piece
<1>5. /\ cDest' \in Seq(Int) /\ Len(cDest') = from + n
      /\ \A p \in 1 .. from + n : cDest'[p] = IF p <= from THEN cDest[p] ELSE piece[p - from]
  <2>1. Len(cDest) = from /\ cDest \in Seq(Int)
    BY <1>1 DEF Begins
  <2>2. /\ cDest \o piece \in Seq(Int) /\ Len(cDest \o piece) = Len(cDest) + Len(piece)
        /\ \A p \in 1 .. Len(cDest) + Len(piece) :
               (cDest \o piece)[p] = IF p <= Len(cDest) THEN cDest[p] ELSE piece[p - Len(cDest)]
    BY <1>3, <2>1, ConcatProperties
  <2> QED BY <1>3, <1>4, <2>1, <2>2
<1>6. \A p \in 1 .. from + n : cDest'[p] = cSource[p]
  BY <1>1, <1>3, <1>5 DEF Begins
<1> QED BY <1>1, <1>5, <1>6 DEF Begins, from

LEMMA InitCInv == ASSUME Copy!Init PROVE CInv
<1>1. PICK n \in 0 .. MaxSize : cSource = [p \in 1 .. n |-> p]
  BY DEF Copy!Init
<1>2. n \in Nat /\ cSource \in [1 .. n -> Int]
  BY <1>1, TransfersAssumption
<1>3. cSource \in Seq(Int)
  BY <1>2, SeqDef
<1>4. Len(cSource) \in Nat
  BY <1>3, LenProperties
<1> QED BY <1>3, <1>4, EmptySeq DEF Copy!Init, CInv, Begins

LEMMA NextCInv == ASSUME CInv, [Copy!Next]_cVars PROVE CInv'
<1>1. /\ Len(cSource) \in Nat /\ cSource \in Seq(Int)
      /\ cAt \in Nat /\ cNread \in Nat /\ cAt <= Len(cSource) /\ cNread <= cAt
  BY LenProperties DEF CInv
<1>2. CASE UNCHANGED cVars
  BY <1>2 DEF cVars, CInv, Begins, Copy!CopyFaithful
<1>3. CASE Copy!Open
  <2>1. /\ cPc = "open" /\ cPc' = "read"
        /\ cSource' = (IF cSame THEN <<>> ELSE cSource)
        /\ UNCHANGED <<cDest, cNread, cAt, cStatus>>
    BY <1>3 DEF Copy!Open
  <2>2. cAt = 0 /\ Begins(cDest, cSource, 0) /\ cStatus = -1
    BY <2>1 DEF CInv
  <2>3. cSource' \in Seq(Int) /\ Len(cSource') \in Nat
    BY <1>1, <2>1, EmptySeq
  <2>4. Begins(cDest', cSource', cAt')
    BY <2>1, <2>2, <2>3 DEF Begins
  <2> QED BY <1>1, <2>1, <2>2, <2>3, <2>4 DEF CInv
<1>4. CASE Copy!CallFails
  <2>1. /\ cPc \in {"open", "read", "overwrite"} /\ cPc' = "ended" /\ cStatus' \in {1, 255}
        /\ UNCHANGED <<cSource, cDest, cNread, cAt>>
    BY <1>4 DEF Copy!CallFails, Copy!End
  <2>2. Copy!IsPrefix(cDest, cSource)
    BY <1>1, <2>1, BeginsIsPrefix DEF CInv
  <2>3. Copy!CopyFaithful'
    BY <2>1, <2>2 DEF Copy!CopyFaithful, Copy!IsPrefix
  <2> QED BY <1>1, <2>1, <2>3 DEF CInv
<1>5. CASE Copy!Read
  <2>1. /\ cPc = "read" /\ cPc' = "write"
        /\ cNread' \in Nat /\ cAt' = cAt + cNread' /\ cAt' <= Len(cSource)
        /\ UNCHANGED <<cSource, cDest, cStatus>>
    BY <1>5, TransfersAssumption DEF Copy!Read
  <2>2. cAt' - cNread' = cAt /\ cNread' \in 0 .. cAt' /\ cAt' \in 0 .. Len(cSource)
    <3>1. \A a, n, l \in Nat : a + n <= l =>
              (a + n) - n = a /\ n \in 0 .. a + n /\ a + n \in 0 .. l
      OBVIOUS
    <3>2. cAt \in Nat /\ Len(cSource) \in Nat /\ cNread' \in Nat
      BY <1>1, <2>1
    <3>3. cAt' = cAt + cNread' /\ cAt + cNread' <= Len(cSource)
      BY <2>1
    <3> QED BY <3>1, <3>2, <3>3
  <2> QED BY <1>1, <2>1, <2>2 DEF CInv, Begins
<1>6. CASE Copy!EndOfFile
  <2>1. /\ cPc = "read" /\ cPc' = "overwrite" /\ cAt = Len(cSource) /\ cNread' = 0
        /\ UNCHANGED <<cSource, cDest, cAt, cStatus>>
    BY <1>6 DEF Copy!EndOfFile
  <2> QED BY <1>1, <2>1 DEF CInv, Begins
<1>7. CASE Copy!Write
  <2>1. /\ cPc = "write" /\ cPc' = "read" /\ Copy!Written(cNread)
        /\ UNCHANGED <<cSource, cNread, cAt, cStatus>>
    BY <1>7 DEF Copy!Write
  <2>2. Begins(cDest', cSource, cAt - cNread + cNread)
    BY <1>1, <2>1, WrittenBegins
  <2>3. cAt - cNread + cNread = cAt
    BY <1>1
  <2> QED BY <1>1, <2>1, <2>2, <2>3 DEF CInv, Begins
<1>8. CASE Copy!WriteFails
  <2>1. /\ cPc = "write" /\ cPc' = "ended" /\ cStatus' = 1
        /\ UNCHANGED <<cSource, cNread, cAt>>
    BY <1>8 DEF Copy!WriteFails, Copy!End
  <2>2. PICK nwrite \in 0 .. cNread - 1 : Copy!Written(nwrite)
    BY <1>8 DEF Copy!WriteFails
  <2>3. Begins(cDest', cSource, cAt - cNread + nwrite)
    BY <1>1, <2>1, <2>2, WrittenBegins
  <2>4. Copy!IsPrefix(cDest', cSource)
    BY <1>1, <2>3, BeginsIsPrefix
  <2>5. Copy!CopyFaithful'
    BY <2>1, <2>4 DEF Copy!CopyFaithful, Copy!IsPrefix
  <2> QED BY <1>1, <2>1, <2>5 DEF CInv
<1>9. CASE Copy!Overwrite
  <2> DEFINE n == IF Len(cDest) > 7 THEN Len(cDest) ELSE 7
             byte(p) == IF p = 7 THEN Copy!X ELSE IF p <= Len(cDest) THEN cDest[p] ELSE 0
  <2>1. /\ cPc = "overwrite" /\ cPc' = "ended" /\ cStatus' = 0
        /\ cDest' = [p \in 1 .. n |-> byte(p)]
        /\ UNCHANGED <<cSource, cNread, cAt>>
    BY <1>9 DEF Copy!Overwrite, Copy!End
  <2>2. /\ cDest \in Seq(Int) /\ Len(cDest) = Len(cSource)
        /\ \A p \in 1 .. Len(cSource) : cDest[p] = cSource[p] /\ cDest[p] \in Int
    BY <1>1, <2>1, ElementOfSeq DEF CInv, Begins
  <2>3. /\ n \in Nat /\ n >= Len(cSource) /\ n >= 7
    BY <1>1, <2>2
  <2>4. cDest' \in [1 .. n -> Int]
    BY <1>1, <2>1, <2>2, <2>3 DEF Copy!X
  <2>5. cDest' \in Seq(Int) /\ DOMAIN cDest' = 1 .. n
    BY <2>3, <2>4, SeqDef
  <2>6. Len(cDest') = n
    BY <2>3, <2>5, LenProperties
  <2>7. cDest'[7] = Copy!X /\ \A p \in 1 .. Len(cSource) : p = 7 \/ cDest'[p] = cSource[p]
    BY <1>1, <2>1, <2>2, <2>3
  <2>8. Copy!CopyFaithful'
    BY <2>1, <2>3, <2>6, <2>7 DEF Copy!CopyFaithful, Copy!X
  <2> HIDE DEF n, byte
  <2> QED BY <1>1, <2>1, <2>8 DEF CInv
<1>10. CASE Copy!OverwriteFails
  <2>1. /\ cPc = "overwrite" /\ cPc' = "ended" /\ cStatus' = 0
        /\ UNCHANGED <<cSource, cDest, cNread, cAt>>
    BY <1>10 DEF Copy!OverwriteFails, Copy!End
  <2>2. Begins(cDest, cSource, Len(cSource))
    BY <2>1 DEF CInv
  <2>3. Copy!IsPrefix(cDest, cSource)
    BY <1>1, <2>2, BeginsIsPrefix
  <2>4. Copy!CopyFaithful'
    BY <1>1, <2>1, <2>2, <2>3 DEF Begins, Copy!CopyFaithful, Copy!IsPrefix
  <2> QED BY <1>1, <2>1, <2>4 DEF CInv
<1> QED BY <1>2, <1>3, <1>4, <1>5, <1>6, <1>7, <1>8, <1>9, <1>10 DEF Copy!Next, Copy!Main

LEMMA CopyFromInv == ASSUME CInv PROVE Copy!CopyFaithful
<1>1. /\ Len(cSource) \in Nat /\ cAt \in Nat /\ cNread \in Nat /\ cAt - cNread \in Nat
  BY LenProperties DEF CInv
<1>2. CASE cPc # "ended"
  <2>1. Copy!IsPrefix(cDest, cSource)
    BY <1>1, <1>2, BeginsIsPrefix DEF CInv
  <2> QED BY <1>2, <2>1 DEF CInv, Copy!CopyFaithful
<1> QED BY <1>2 DEF CInv

-----------------------------------------------------------------------------
\* The four programs together, as the run checks them: a step is one of one program
\* or leaves each as it is.
AllInv == MInv /\ AInv /\ DInv /\ CInv

LEMMA InitAll == MCInit => AllInv
  BY InitMInv, InitAInv, InitDInv, InitCInv DEF MCInit, AllInv

LEMMA NextAll == AllInv /\ [MCNext]_allVars => AllInv'
<1> SUFFICES ASSUME AllInv, [MCNext]_allVars PROVE AllInv'
  OBVIOUS
<1>1. [Next]_vars /\ [Async!Next]_aVars /\ [Direct!Next]_dVars /\ [Copy!Next]_cVars
  <2>1. CASE MainStep
    BY <2>1 DEF MainStep, Next, Async!Next, Direct!Next, Copy!Next
  <2>2. CASE KernelStep
    BY <2>2 DEF KernelStep, Next, Async!Next, dVars, cVars
  <2>3. CASE UNCHANGED allVars
    BY <2>3 DEF allVars
  <2> QED BY <2>1, <2>2, <2>3 DEF MCNext
<1> QED BY <1>1, NextMInv, NextAInv, NextDInv, NextCInv DEF AllInv

\* For any number of blocks and whatever fails or comes back short: each block of the
\* asynchronous benchmark is written and read at its own place, and a RESULT line of a
\* read benchmark is about a whole file that the direct write has left.
THEOREM BlocksAreMoved == MCSpec => []BlocksMoved
<1>1. AllInv => BlocksMoved
  BY BlocksFromInv, ResultsFromInv DEF AllInv, BlocksMoved
<1> QED BY <1>1, InitAll, NextAll, PTL DEF MCSpec

\* For any file and buffer size: status 0 of the copy says that all of the source is
\* in it, and until the X is written it is a beginning of the source.
THEOREM CopyIsFaithful == MCSpec => []CopyFaithful
<1>1. AllInv => CopyFaithful
  BY CopyFromInv DEF AllInv, CopyFaithful
<1> QED BY <1>1, InitAll, NextAll, PTL DEF MCSpec

=============================================================================
