------------------------------ MODULE LabProofs -----------------------------
(***************************************************************************)
(* What the lab commands and the scan compute, whatever they are given:    *)
(* the HPACK decoder for blocks of any length, where as in H2CaptureProofs *)
(* the induction over a block takes the least representation that fails,   *)
(* the first word that a User-Agent says, what the critical rules ask, and *)
(* how a ranking of families decides whether a capture is in conflict.     *)
(***************************************************************************)
EXTENDS Lab, SequenceTheorems, FiniteSetTheorems, WellFoundedInduction, TLAPS

-----------------------------------------------------------------------------
(* Numbers                                                                 *)

\* A set of naturals has a least one.
LEMMA LeastNumber ==
  ASSUME NEW S \in SUBSET Nat, S # {}
  PROVE  \E m \in S : \A k \in S : m <= k
<1>1. PICK m \in S : \A k \in S : <<k, m>> \notin OpToRel(<, Nat)
  <2>1. IsWellFoundedOn(OpToRel(<, Nat), Nat)
    BY NatLessThanWellFounded
  <2> QED BY <2>1, WFMin
<1>2. \A k \in S : ~ (k < m)
  BY <1>1, Zenon DEF OpToRel
<1> QED BY <1>2

\* A set of naturals that is bounded has a greatest one.
LEMMA GreatestNumber ==
  ASSUME NEW n \in Nat, NEW S \in SUBSET (0..n), S # {}
  PROVE  Max(S) \in S
<1> DEFINE Bounds == {b \in Nat : \A k \in S : k <= b}
<1>1. PICK m \in Bounds : \A b \in Bounds : m <= b
  <2>1. n \in Bounds
    OBVIOUS
  <2> QED BY <2>1, LeastNumber
<1>2. m \in S
  <2>1. CASE m = 0
    <3>1. PICK k \in S : k <= m
      BY <1>1
    <3>2. k = m
      BY <2>1, <3>1
    <3> QED BY <3>2
  <2>2. CASE m # 0
    <3>1. m - 1 \in Nat /\ m - 1 \notin Bounds
      BY <1>1, <2>2
    <3>2. PICK k \in S : ~(k <= m - 1)
      BY <3>1
    <3> QED BY <1>1, <3>2
  <2> QED BY <2>1, <2>2
<1>3. \A k \in S : m >= k
  BY <1>1, <1>2
<1> QED BY <1>2, <1>3 DEF Max

-----------------------------------------------------------------------------
(* The table                                                               *)

\* An empty table has no size.
LEMMA SizeOfNone == TableSize(<<>>) = 0
<1> DEFINE IsSize(f) == f = [n \in 0..Len(<<>>) |-> IF n = 0 THEN 0 ELSE f[n - 1] + 32 + <<>>[n].len]
           size == CHOOSE f : IsSize(f)
<1>1. Len(<<>>) = 0
  BY EmptySeq
<1>2. \A n \in 0..Len(<<>>) : n = 0
  BY <1>1
<1>3. IsSize([n \in 0..Len(<<>>) |-> 0])
  BY <1>2
<1>4. IsSize(size)
  <2> HIDE DEF IsSize
  <2> QED BY <1>3
<1>5. TableSize(<<>>) = size[Len(<<>>)]
  BY Zenon DEF TableSize
<1>6. size[0] = 0
  <2> HIDE DEF size
  <2> QED BY <1>1, <1>4
<1> HIDE DEF size
<1> QED BY <1>1, <1>5, <1>6

\* What evict leaves are the newest entries, and they fit.
LEMMA EvictLeavesNewest ==
  ASSUME NEW S, NEW dyn \in Seq(S), NEW max \in Nat
  PROVE  \E k \in 0..Len(dyn) :
           /\ evict(dyn, max) = SubSeq(dyn, 1, k)
           /\ TableSize(evict(dyn, max)) <= max
<1> DEFINE Fitting == {k \in 0..Len(dyn) : TableSize(SubSeq(dyn, 1, k)) <= max}
<1>1. Len(dyn) \in Nat
  BY LenProperties
<1>2. SubSeq(dyn, 1, 0) = <<>>
  OBVIOUS
<1>3. 0 \in Fitting
  <2>1. TableSize(SubSeq(dyn, 1, 0)) <= max
    <3>1. TableSize(SubSeq(dyn, 1, 0)) = 0
      BY <1>2, SizeOfNone, Zenon
    <3> QED BY <3>1
  <2> QED BY <1>1, <2>1
<1>4. Max(Fitting) \in Fitting
  BY <1>1, <1>3, GreatestNumber
<1> QED BY <1>4 DEF evict

-----------------------------------------------------------------------------
(* The two loops as functions                                              *)

\* A field that is inserted becomes the newest.
Insert(ins, r) == IF r.rep = "incremental" THEN <<r>> \o ins ELSE ins

IsDecoders(reps, n, f) ==
  f = [i \in 0..n |-> IF i = 0 THEN NewDecoder ELSE DecodeRep(f[i - 1], reps[i])]
IsInsertions(reps, n, f) ==
  f = [i \in 0..n |-> IF i = 0 THEN <<>> ELSE Insert(f[i - 1], reps[i])]

\* Both loops can be run over any number of representations.
LEMMA LoopsExist ==
  ASSUME NEW reps, NEW n \in Nat
  PROVE  (\E f : IsDecoders(reps, n, f)) /\ (\E f : IsInsertions(reps, n, f))
<1> DEFINE Exist(k) == (\E f : IsDecoders(reps, k, f)) /\ (\E f : IsInsertions(reps, k, f))
           Bad == {k \in Nat : ~Exist(k)}
<1>1. ASSUME Bad # {} PROVE FALSE
  <2>1. PICK m \in Bad : \A k \in Bad : m <= k
    BY <1>1, LeastNumber
  <2>2. Exist(0)
    <3>1. IsDecoders(reps, 0, [i \in 0..0 |-> NewDecoder])
      BY DEF IsDecoders
    <3>2. IsInsertions(reps, 0, [i \in 0..0 |-> <<>>])
      BY DEF IsInsertions
    <3> QED BY <3>1, <3>2
  <2>3. m \in Nat /\ m - 1 \in Nat /\ Exist(m - 1)
    BY <2>1, <2>2
  <2>4. \E f : IsDecoders(reps, m, f)
    <3>1. PICK f : IsDecoders(reps, m - 1, f)
      BY <2>3
    <3> DEFINE g == [i \in 0..m |-> IF i = m THEN DecodeRep(f[m - 1], reps[m]) ELSE f[i]]
    <3>2. \A i \in 0..(m - 1) : f[i] = IF i = 0 THEN NewDecoder ELSE DecodeRep(f[i - 1], reps[i])
      BY <3>1 DEF IsDecoders
    <3>3. ASSUME NEW i \in 0..m
          PROVE  g[i] = IF i = 0 THEN NewDecoder ELSE DecodeRep(g[i - 1], reps[i])
      BY <2>3, <3>2
    <3>4. g = [i \in 0..m |-> IF i = 0 THEN NewDecoder ELSE DecodeRep(g[i - 1], reps[i])]
      BY <3>3
    <3> HIDE DEF g
    <3> QED BY <3>4 DEF IsDecoders
  <2>5. \E f : IsInsertions(reps, m, f)
    <3>1. PICK f : IsInsertions(reps, m - 1, f)
      BY <2>3
    <3> DEFINE g == [i \in 0..m |-> IF i = m THEN Insert(f[m - 1], reps[m]) ELSE f[i]]
    <3>2. \A i \in 0..(m - 1) : f[i] = IF i = 0 THEN <<>> ELSE Insert(f[i - 1], reps[i])
      BY <3>1 DEF IsInsertions
    <3>3. ASSUME NEW i \in 0..m
          PROVE  g[i] = IF i = 0 THEN <<>> ELSE Insert(g[i - 1], reps[i])
      BY <2>3, <3>2
    <3>4. g = [i \in 0..m |-> IF i = 0 THEN <<>> ELSE Insert(g[i - 1], reps[i])]
      BY <3>3
    <3> HIDE DEF g
    <3> QED BY <3>4 DEF IsInsertions
  <2> QED BY <2>1, <2>4, <2>5
<1> QED BY <1>1

\* The decoder after each representation.
LEMMA DecodersValue ==
  ASSUME NEW reps, Len(reps) \in Nat
  PROVE  IsDecoders(reps, Len(reps), Decoders(reps))
<1>1. Decoders(reps) = CHOOSE f : IsDecoders(reps, Len(reps), f)
  BY Zenon DEF Decoders, IsDecoders
<1> QED BY <1>1, LoopsExist, Zenon

\* The insertions after each representation.
LEMMA InsertionsValue ==
  ASSUME NEW reps, Len(reps) \in Nat
  PROVE  \E f : IsInsertions(reps, Len(reps), f) /\ Insertions(reps) = f[Len(reps)]
<1> DEFINE ins == CHOOSE f : IsInsertions(reps, Len(reps), f)
<1>1. Insertions(reps) = ins[Len(reps)]
  BY Zenon DEF Insertions, IsInsertions, Insert
<1>2. IsInsertions(reps, Len(reps), ins)
  BY LoopsExist, Zenon
<1> QED BY <1>1, <1>2

-----------------------------------------------------------------------------
(* What the decoder holds                                                  *)

\* A table whose size is bounded, and that has the newest of the insertions.
Newest(dyn, max, ins) ==
  /\ \E S : dyn \in Seq(S)
  /\ max \in Nat /\ TableSize(dyn) <= max
  /\ Len(dyn) <= Len(ins)
  /\ \A i \in 1..Len(dyn) : dyn[i].value = ins[i].value

\* A decoder that has not failed holds such a table.
Holds(d, ins) ==
  /\ d = [ok |-> d.ok, fields |-> d.fields, dyn |-> d.dyn, maxTableSize |-> d.maxTableSize]
  /\ d.ok \in BOOLEAN /\ (d.ok => Newest(d.dyn, d.maxTableSize, ins))

\* A decoder with such a table holds it.
LEMMA HoldsIf ==
  ASSUME NEW ok \in BOOLEAN, NEW fields, NEW dyn, NEW max, NEW ins, ok => Newest(dyn, max, ins)
  PROVE  Holds([ok |-> ok, fields |-> fields, dyn |-> dyn, maxTableSize |-> max], ins)
BY DEF Holds

\* evict keeps it so, whatever size it is given.
LEMMA EvictKeepsNewest ==
  ASSUME NEW S, NEW dyn \in Seq(S), NEW max \in Nat, NEW ins,
         Len(ins) \in Nat, Len(dyn) <= Len(ins),
         \A i \in 1..Len(dyn) : dyn[i].value = ins[i].value
  PROVE  Newest(evict(dyn, max), max, ins)
<1>1. PICK k \in 0..Len(dyn) : /\ evict(dyn, max) = SubSeq(dyn, 1, k)
                               /\ TableSize(evict(dyn, max)) <= max
  BY EvictLeavesNewest
<1>2. Len(dyn) \in Nat /\ k \in Nat /\ k <= Len(dyn)
  BY LenProperties
<1>3. \A i \in 1..k : dyn[i] \in S
  BY <1>2, ElementOfSeq
<1> DEFINE left == evict(dyn, max)
<1>4. left \in Seq(S) /\ Len(left) = k /\ \A i \in 1..k : left[i] = dyn[i]
  <2>1. /\ SubSeq(dyn, 1, k) \in Seq(S) /\ Len(SubSeq(dyn, 1, k)) = k
        /\ \A i \in 1..k : SubSeq(dyn, 1, k)[i] = dyn[i]
    BY <1>2, <1>3, SubSeqProperties
  <2> QED BY <1>1, <2>1
<1>5. TableSize(left) <= max
  BY <1>1
<1> HIDE DEF left
<1>6. Newest(left, max, ins)
  BY <1>2, <1>4, <1>5 DEF Newest
<1> QED BY <1>6 DEF left

\* A field in front of the table and in front of the insertions.
LEMMA AddKeepsNewest ==
  ASSUME NEW S, NEW dyn \in Seq(S), NEW T, NEW ins \in Seq(T), NEW r \in T, NEW hf,
         hf.value = r.value, Len(dyn) <= Len(ins),
         \A i \in 1..Len(dyn) : dyn[i].value = ins[i].value
  PROVE  /\ <<hf>> \o dyn \in Seq(S \cup {hf})
         /\ Len(<<hf>> \o dyn) <= Len(<<r>> \o ins) /\ Len(<<r>> \o ins) \in Nat
         /\ \A i \in 1..Len(<<hf>> \o dyn) : (<<hf>> \o dyn)[i].value = (<<r>> \o ins)[i].value
<1> DEFINE added == <<hf>> \o dyn
           more  == <<r>> \o ins
<1>1. /\ <<hf>> \in Seq(S \cup {hf}) /\ Len(<<hf>>) = 1 /\ <<hf>>[1] = hf
      /\ <<r>> \in Seq(T) /\ Len(<<r>>) = 1 /\ <<r>>[1] = r
      /\ dyn \in Seq(S \cup {hf}) /\ Len(dyn) \in Nat /\ Len(ins) \in Nat
  OBVIOUS
<1>2. /\ added \in Seq(S \cup {hf}) /\ Len(added) = 1 + Len(dyn)
      /\ \A i \in 1..Len(added) : added[i] = IF i <= 1 THEN <<hf>>[i] ELSE dyn[i - 1]
  BY <1>1, ConcatProperties
<1>3. /\ Len(more) = 1 + Len(ins)
      /\ \A i \in 1..Len(more) : more[i] = IF i <= 1 THEN <<r>>[i] ELSE ins[i - 1]
  BY <1>1, ConcatProperties
<1> HIDE DEF added, more
<1>4. ASSUME NEW i \in 1..Len(added) PROVE added[i].value = more[i].value
  <2>1. i \in 1..Len(more)
    BY <1>1, <1>2, <1>3
  <2>2. CASE i = 1
    BY <1>1, <1>2, <1>3, <2>1, <2>2
  <2>3. CASE i # 1
    <3>1. i - 1 \in 1..Len(dyn) /\ ~(i <= 1)
      BY <1>1, <1>2, <2>3
    <3>2. added[i] = dyn[i - 1] /\ more[i] = ins[i - 1]
      BY <1>2, <1>3, <2>1, <3>1
    <3> QED BY <3>1, <3>2
  <2> QED BY <2>2, <2>3
<1> QED BY <1>1, <1>2, <1>3, <1>4 DEF added, more

\* One representation keeps it so.
LEMMA RepKeepsNewest ==
  ASSUME NEW T, NEW ins \in Seq(T), NEW d, Holds(d, ins), NEW r \in T,
         r.rep \in {"indexed", "literal", "incremental", "size"},
         r.rep = "size" => r.max \in Nat
  PROVE  Holds(DecodeRep(d, r), Insert(ins, r)) /\ Insert(ins, r) \in Seq(T)
<1>1. PICK ok, fields, dyn, max :
        /\ d = [ok |-> ok, fields |-> fields, dyn |-> dyn, maxTableSize |-> max]
        /\ ok \in BOOLEAN /\ (ok => Newest(dyn, max, ins))
  BY DEF Holds
<1>2. Insert(ins, r) \in Seq(T)
  BY ConcatProperties DEF Insert
<1>3. CASE ~d.ok \/ ~RefersTo(d, r)
  <2>1. DecodeRep(d, r) = [ok |-> FALSE, fields |-> fields, dyn |-> dyn, maxTableSize |-> max]
    BY <1>1, <1>3 DEF DecodeRep
  <2> QED BY <1>2, <2>1 DEF Holds
<1>4. CASE d.ok /\ RefersTo(d, r)
  <2>1. /\ max \in Nat /\ TableSize(dyn) <= max /\ Len(dyn) <= Len(ins) /\ Len(ins) \in Nat
        /\ \A i \in 1..Len(dyn) : dyn[i].value = ins[i].value
    BY <1>1, <1>4, LenProperties DEF Newest
  <2>2. PICK S : dyn \in Seq(S)
    BY <1>1, <1>4 DEF Newest
  <2>3. CASE r.rep \in {"indexed", "literal"}
    <3>1. \E more : DecodeRep(d, r) = [ok |-> ok, fields |-> more, dyn |-> dyn, maxTableSize |-> max]
      BY <1>1, <1>4, <2>3 DEF DecodeRep
    <3> QED BY <1>1, <1>2, <2>3, <3>1 DEF Holds, Insert
  <2>4. CASE r.rep = "size"
    <3>1. DecodeRep(d, r) = [ok |-> ok, fields |-> fields, dyn |-> evict(dyn, r.max), maxTableSize |-> r.max]
      BY <1>1, <1>4, <2>4 DEF DecodeRep
    <3>2. Newest(evict(dyn, r.max), r.max, ins)
      BY <2>1, <2>2, <2>4, EvictKeepsNewest
    <3> QED BY <1>1, <1>2, <2>4, <3>1, <3>2 DEF Holds, Insert
  <2>5. CASE r.rep = "incremental"
    <3> DEFINE hf == literal(d, r)
               added == <<hf>> \o dyn
               more == <<r>> \o ins
    <3>1. hf.value = r.value
      BY DEF literal, Field
    <3>2. \E out : DecodeRep(d, r) = [ok |-> ok, fields |-> out, dyn |-> evict(added, max), maxTableSize |-> max]
      BY <1>1, <1>4, <2>5 DEF DecodeRep
    <3> HIDE DEF hf
    <3>3. /\ added \in Seq(S \cup {hf}) /\ Len(added) <= Len(more) /\ Len(more) \in Nat
          /\ \A i \in 1..Len(added) : added[i].value = more[i].value
      BY <2>1, <2>2, <3>1, AddKeepsNewest
    <3> HIDE DEF added, more
    <3>4. Newest(evict(added, max), max, more)
      BY <2>1, <3>3, EvictKeepsNewest
    <3>5. Insert(ins, r) = more
      BY <2>5 DEF Insert, more
    <3> QED BY <1>1, <1>2, <3>2, <3>4, <3>5 DEF Holds
  <2> QED BY <2>3, <2>4, <2>5
<1> QED BY <1>3, <1>4

\* Whatever a block is made of, its table has the newest fields that were
\* inserted and is no larger than the size last set (hpack.go: add, evict).
THEOREM DecodedTableIsNewest ==
  ASSUME NEW reps, IsBlock(reps), decode(reps).ok
  PROVE  Newest(decode(reps).dyn, decode(reps).maxTableSize, Insertions(reps))
<1> DEFINE T == Range(reps)
           n == Len(reps)
           D == Decoders(reps)
<1>1. /\ reps \in Seq(T) /\ n \in Nat /\ DOMAIN reps = 1..n
      /\ \A i \in 1..n : /\ reps[i] \in T
                         /\ reps[i].rep \in {"indexed", "literal", "incremental", "size"}
                         /\ reps[i].rep = "size" => reps[i].max \in Nat
  BY LenProperties, ElementOfSeq DEF IsBlock
<1>2. \A i \in 0..n : D[i] = IF i = 0 THEN NewDecoder ELSE DecodeRep(D[i - 1], reps[i])
  BY <1>1, DecodersValue DEF IsDecoders
<1>3. PICK ins : IsInsertions(reps, n, ins) /\ Insertions(reps) = ins[n]
  BY <1>1, InsertionsValue
<1>4. \A i \in 0..n : ins[i] = IF i = 0 THEN <<>> ELSE Insert(ins[i - 1], reps[i])
  BY <1>3 DEF IsInsertions
<1> DEFINE Bad == {i \in 0..n : ~(Holds(D[i], ins[i]) /\ ins[i] \in Seq(T))}
<1> HIDE DEF D, T, n
<1>5. ASSUME Bad # {} PROVE FALSE
  <2>1. PICK m \in Bad : \A k \in Bad : m <= k
    <3>1. Bad \in SUBSET Nat
      BY <1>1
    <3> HIDE DEF Bad
    <3> QED BY <1>5, <3>1, LeastNumber
  <2>2. m # 0
    <3>1. Len(<<>>) = 0 /\ <<>> \in Seq(T)
      BY EmptySeq
    <3>2. Newest(<<>>, 4096, <<>>)
      BY <3>1, SizeOfNone DEF Newest
    <3>3. D[0] = NewDecoder /\ ins[0] = <<>>
      BY <1>1, <1>2, <1>4
    <3>4. Holds(NewDecoder, <<>>)
      BY <3>2 DEF Holds, NewDecoder
    <3>5. Holds(D[0], ins[0]) /\ ins[0] \in Seq(T)
      BY <3>1, <3>3, <3>4
    <3> QED BY <2>1, <3>5
  <2>3. m \in 1..n /\ m - 1 \in 0..n /\ m - 1 \notin Bad
    BY <1>1, <2>1, <2>2
  <2>4. Holds(D[m - 1], ins[m - 1]) /\ ins[m - 1] \in Seq(T)
    BY <2>3
  <2>5. D[m] = DecodeRep(D[m - 1], reps[m]) /\ ins[m] = Insert(ins[m - 1], reps[m])
    BY <1>1, <1>2, <1>4, <2>3
  <2>6. Holds(D[m], ins[m]) /\ ins[m] \in Seq(T)
    BY <1>1, <2>3, <2>4, <2>5, RepKeepsNewest
  <2> QED BY <2>1, <2>6
<1>6. Holds(D[n], ins[n])
  BY <1>1, <1>5
<1>7. decode(reps) = D[n]
  BY DEF decode, D, n
<1> QED BY <1>3, <1>6, <1>7 DEF Holds

-----------------------------------------------------------------------------
(* User-Agents                                                             *)

\* What is first is said, and none before it.
LEMMA FirstIsSaid ==
  ASSUME NEW ua, NEW words, DOMAIN words \subseteq Nat, NEW k \in DOMAIN words, Says(ua, words[k])
  PROVE  \E m \in DOMAIN words : /\ FirstSaid(ua, words) = words[m] /\ Says(ua, words[m])
                                 /\ \A j \in DOMAIN words : j < m => ~Says(ua, words[j])
<1> DEFINE said == {i \in DOMAIN words : Says(ua, words[i])}
<1>1. k \in said /\ said \in SUBSET Nat
  OBVIOUS
<1>2. FirstSaid(ua, words) = words[Min(said)]
  BY <1>1 DEF FirstSaid
<1>3. Min(said) \in said /\ \A i \in said : Min(said) <= i
  <2> HIDE DEF said
  <2>1. PICK m \in said : \A i \in said : m <= i
    BY <1>1, LeastNumber
  <2> QED BY <2>1 DEF Min
<1> HIDE DEF said
<1>4. \A i \in DOMAIN words : i \in said <=> Says(ua, words[i])
  BY DEF said
<1>5. Min(said) \in DOMAIN words
  BY <1>3 DEF said
<1> QED BY <1>2, <1>3, <1>4, <1>5

\* The first of four words.
LEMMA FirstOfFour ==
  ASSUME NEW ua, NEW a, NEW b, NEW c, NEW d
  PROVE  FirstSaid(ua, <<a, b, c, d>>) =
           IF Says(ua, a) THEN a ELSE IF Says(ua, b) THEN b ELSE IF Says(ua, c) THEN c ELSE 
           IF Says(ua, d) THEN d ELSE ""
<1> DEFINE words == <<a, b, c, d>>
<1>1. DOMAIN words = 1..4 /\ words[1] = a /\ words[2] = b /\ words[3] = c /\ words[4] = d
  OBVIOUS
<1> HIDE DEF words
<1>2. ASSUME NEW k \in 1..4, Says(ua, words[k]), \A j \in 1..(k - 1) : ~Says(ua, words[j])
      PROVE  FirstSaid(ua, words) = words[k]
  <2>1. PICK m \in DOMAIN words : /\ FirstSaid(ua, words) = words[m] /\ Says(ua, words[m])
                                 /\ \A j \in DOMAIN words : j < m => ~Says(ua, words[j])
    BY <1>1, <1>2, FirstIsSaid
  <2>2. ~(k < m) /\ ~(m < k)
    BY <1>1, <1>2, <2>1
  <2> QED BY <1>1, <2>1, <2>2
<1>3. Says(ua, a) => FirstSaid(ua, words) = a
  BY <1>1, <1>2
<1>4. ~Says(ua, a) /\ Says(ua, b) => FirstSaid(ua, words) = b
  BY <1>1, <1>2
<1>5. ~Says(ua, a) /\ ~Says(ua, b) /\ Says(ua, c) => FirstSaid(ua, words) = c
  BY <1>1, <1>2
<1>6. ~Says(ua, a) /\ ~Says(ua, b) /\ ~Says(ua, c) /\ Says(ua, d) => FirstSaid(ua, words) = d
  BY <1>1, <1>2
<1>7. ~Says(ua, a) /\ ~Says(ua, b) /\ ~Says(ua, c) /\ ~Says(ua, d) => FirstSaid(ua, words) = ""
  <2>1. (\A k \in 1..4 : ~Says(ua, words[k])) => FirstSaid(ua, words) = ""
    BY <1>1 DEF FirstSaid
  <2>2. \A k \in 1..4 : k = 1 \/ k = 2 \/ k = 3 \/ k = 4
    OBVIOUS
  <2> QED BY <1>1, <2>1, <2>2
<1> QED BY <1>3, <1>4, <1>5, <1>6, <1>7 DEF words

\* The first of five words.
LEMMA FirstOfFive ==
  ASSUME NEW ua, NEW a, NEW b, NEW c, NEW d, NEW e
  PROVE  FirstSaid(ua, <<a, b, c, d, e>>) =
           IF Says(ua, a) THEN a ELSE IF Says(ua, b) THEN b ELSE IF Says(ua, c) THEN c ELSE 
           IF Says(ua, d) THEN d ELSE IF Says(ua, e) THEN e ELSE ""
<1> DEFINE words == <<a, b, c, d, e>>
<1>1. DOMAIN words = 1..5 /\ words[1] = a /\ words[2] = b /\ words[3] = c /\ words[4] = d /\ words[5] = e
  OBVIOUS
<1> HIDE DEF words
<1>2. ASSUME NEW k \in 1..5, Says(ua, words[k]), \A j \in 1..(k - 1) : ~Says(ua, words[j])
      PROVE  FirstSaid(ua, words) = words[k]
  <2>1. PICK m \in DOMAIN words : /\ FirstSaid(ua, words) = words[m] /\ Says(ua, words[m])
                                 /\ \A j \in DOMAIN words : j < m => ~Says(ua, words[j])
    BY <1>1, <1>2, FirstIsSaid
  <2>2. ~(k < m) /\ ~(m < k)
    BY <1>1, <1>2, <2>1
  <2> QED BY <1>1, <2>1, <2>2
<1>3. Says(ua, a) => FirstSaid(ua, words) = a
  BY <1>1, <1>2
<1>4. ~Says(ua, a) /\ Says(ua, b) => FirstSaid(ua, words) = b
  BY <1>1, <1>2
<1>5. ~Says(ua, a) /\ ~Says(ua, b) /\ Says(ua, c) => FirstSaid(ua, words) = c
  BY <1>1, <1>2
<1>6. ~Says(ua, a) /\ ~Says(ua, b) /\ ~Says(ua, c) /\ Says(ua, d) => FirstSaid(ua, words) = d
  BY <1>1, <1>2
<1>7. ~Says(ua, a) /\ ~Says(ua, b) /\ ~Says(ua, c) /\ ~Says(ua, d) /\ Says(ua, e) => FirstSaid(ua, words) = e
  BY <1>1, <1>2
<1>8. ~Says(ua, a) /\ ~Says(ua, b) /\ ~Says(ua, c) /\ ~Says(ua, d) /\ ~Says(ua, e) => FirstSaid(ua, words) = ""
  <2>1. (\A k \in 1..5 : ~Says(ua, words[k])) => FirstSaid(ua, words) = ""
    BY <1>1 DEF FirstSaid
  <2>2. \A k \in 1..5 : k = 1 \/ k = 2 \/ k = 3 \/ k = 4 \/ k = 5
    OBVIOUS
  <2> QED BY <1>1, <2>1, <2>2
<1> QED BY <1>3, <1>4, <1>5, <1>6, <1>7, <1>8 DEF words

\* The guess of a pattern is a part of the User-Agent.
LEMMA PatternIsPart ==
  ASSUME NEW ua, ua # {}, \A w \in ua : w = <<w[1], w[2]>>
  PROVE  guessPattern(ua) # {} /\ guessPattern(ua) \subseteq ua
<1> DEFINE products == <<"crios", "edg", "opr", "chrome", "firefox", "version">>
           product  == FirstSaid(ua, products)
<1>1. CASE product = ""
  BY <1>1 DEF guessPattern
<1>2. CASE product # ""
  <2>1. guessPattern(ua) = {<<product, VersionIn(ua, product)>>}
    BY <1>2 DEF guessPattern
  <2>2. Says(ua, product)
    <3>1. DOMAIN products \subseteq Nat
      OBVIOUS
    <3> HIDE DEF products
    <3>2. PICK k \in DOMAIN products : Says(ua, products[k])
      BY <1>2 DEF FirstSaid
    <3> QED BY <3>1, <3>2, FirstIsSaid
  <2> HIDE DEF product
  <2> DEFINE word == CHOOSE w \in ua : w[1] = product
  <2>3. word \in ua /\ word[1] = product
    BY <2>2 DEF Says
  <2>4. VersionIn(ua, product) = word[2]
    BY <2>2 DEF VersionIn
  <2> HIDE DEF word
  <2>5. <<product, VersionIn(ua, product)>> = word
    BY <2>3, <2>4
  <2> QED BY <2>1, <2>3, <2>5
<1> QED BY <1>1, <1>2

-----------------------------------------------------------------------------
(* The critical rules                                                      *)

\* A set of eight is finite.
LEMMA EightAreFinite ==
  ASSUME NEW a, NEW b, NEW c, NEW d, NEW e, NEW f, NEW g, NEW h
  PROVE  IsFiniteSet({a, b, c, d, e, f, g, h})
<1>1. \A x, y : IsFiniteSet({x, y})
  <2> TAKE x, y
  <2>1. IsFiniteSet({x}) /\ IsFiniteSet({y})
    BY FS_Singleton
  <2>2. IsFiniteSet({x} \cup {y})
    BY <2>1, FS_Union
  <2>3. {x} \cup {y} = {x, y}
    OBVIOUS
  <2> QED BY <2>2, <2>3
<1> DEFINE ab == {a, b}  cd == {c, d}  ef == {e, f}  gh == {g, h}
<1>2. {a, b, c, d, e, f, g, h} = (ab \cup cd) \cup (ef \cup gh)
  OBVIOUS
<1>3. IsFiniteSet(ab) /\ IsFiniteSet(cd) /\ IsFiniteSet(ef) /\ IsFiniteSet(gh)
  BY <1>1
<1> HIDE DEF ab, cd, ef, gh
<1>4. IsFiniteSet((ab \cup cd) \cup (ef \cup gh))
  BY <1>3, FS_Union
<1> QED BY <1>2, <1>4

\* So are the findings of a scan.
LEMMA EvaluateIsFinite ==
  ASSUME NEW p, NEW s
  PROVE  IsFiniteSet(Evaluate(p, s))
<1> DEFINE ua == {userAgentPatternRule(p, s), secCHUAVersionRule(p, s), secCHUAPlatformRule(p, s),
                  secCHUAMobileRule(p, s), userAgentPlatformConsistencyRule(p, s),
                  userAgentBrowserConsistencyRule(p, s), requiredHeadersRule(p, s), forbiddenHeadersRule(p, s)}
           tls == {headerOrderRule(p, s), acceptEncodingRule(p, s), acceptRule(p, s), acceptLanguageRule(p, s),
                   tlsALPNRule(p, s), tlsVersionRule(p, s), tlsPresetApproximationRule(p, s), http2SettingsRule(p, s)}
           js == {jsNavigatorPlatformRule(p, s), jsNavigatorVendorRule(p, s), jsNavigatorWebdriverRule(p, s),
                  jsWebGLRule(p, s), crossJSPlatformRule(p, s), crossLayerChromeRule(p, s),
                  crossLayerFirefoxRule(p, s), crossLayerSafariRule(p, s)}
<1>1. IsFiniteSet(ua) /\ IsFiniteSet(tls) /\ IsFiniteSet(js)
  BY EightAreFinite
<1>2. Evaluate(p, s) = ua \cup tls \cup js
  BY DEF Evaluate
<1> HIDE DEF ua, tls, js
<1> QED BY <1>1, <1>2, FS_Union

\* The findings that score.Compute counts as critical failures.
CriticalFailures(findings) == {f \in findings : f.severity = "critical" /\ ~f.skipped /\ ~f.passed}

\* Compute counts them: none of those it leaves out is critical.
LEMMA CountOfCriticals ==
  ASSUME NEW findings
  PROVE  Compute(findings).CriticalFails = Cardinality(CriticalFailures(findings))
<1> DEFINE counted == {f \in findings : ~f.skipped /\ ~(f.weight = 0 /\ f.severity = "info")}
           failed  == {f \in counted : ~f.passed}
<1>1. {f \in failed : f.severity = "critical"} = CriticalFailures(findings)
  BY DEF CriticalFailures
<1>2. Compute(findings).CriticalFails = Cardinality({f \in failed : f.severity = "critical"})
  BY DEF Compute
<1> QED BY <1>1, <1>2

\* The rules whose findings are critical.
CriticalRules(p, s) ==
  {userAgentPatternRule(p, s), userAgentPlatformConsistencyRule(p, s), userAgentBrowserConsistencyRule(p, s),
   forbiddenHeadersRule(p, s), jsNavigatorWebdriverRule(p, s), crossJSPlatformRule(p, s),
   crossLayerChromeRule(p, s), crossLayerFirefoxRule(p, s), crossLayerSafariRule(p, s)}

\* No other finding is critical, and one that is skipped has passed.
LEMMA CriticalsOf ==
  ASSUME NEW p, NEW s
  PROVE  /\ CriticalRules(p, s) \subseteq Evaluate(p, s)
         /\ \A f \in CriticalRules(p, s) : f.severity = "critical" /\ (f.passed \/ ~f.skipped)
         /\ \A f \in Evaluate(p, s) : f.severity = "critical" => f \in CriticalRules(p, s)
<1>1. CriticalRules(p, s) \subseteq Evaluate(p, s)
  BY DEF CriticalRules, Evaluate
<1> DEFINE Critical(f) == f.severity = "critical" /\ (f.passed \/ ~f.skipped)
<1>2. \A f \in CriticalRules(p, s) : Critical(f)
  <2>0. ASSUME NEW id, NEW weight, NEW applies, NEW passed
        PROVE  Critical(Finding(id, "critical", weight, applies, passed))
    BY DEF Finding
  <2> HIDE DEF Critical
  <2>1. Critical(userAgentPatternRule(p, s))
    BY <2>0 DEF userAgentPatternRule
  <2>2. Critical(userAgentPlatformConsistencyRule(p, s))
    BY <2>0 DEF userAgentPlatformConsistencyRule
  <2>3. Critical(userAgentBrowserConsistencyRule(p, s))
    BY <2>0 DEF userAgentBrowserConsistencyRule
  <2>4. Critical(forbiddenHeadersRule(p, s))
    BY <2>0 DEF forbiddenHeadersRule
  <2>5. Critical(jsNavigatorWebdriverRule(p, s))
    BY <2>0 DEF jsNavigatorWebdriverRule
  <2>6. Critical(crossJSPlatformRule(p, s))
    BY <2>0 DEF crossJSPlatformRule
  <2>7. Critical(crossLayerChromeRule(p, s))
    BY <2>0 DEF crossLayerChromeRule
  <2>8. Critical(crossLayerFirefoxRule(p, s))
    BY <2>0 DEF crossLayerFirefoxRule
  <2>9. Critical(crossLayerSafariRule(p, s))
    BY <2>0 DEF crossLayerSafariRule
  <2> QED BY <2>1, <2>2, <2>3, <2>4, <2>5, <2>6, <2>7, <2>8, <2>9 DEF CriticalRules
<1> HIDE DEF Critical
<1> DEFINE Plain(f) == f.severity # "critical"
<1>3. \A f \in Evaluate(p, s) : Plain(f) \/ f \in CriticalRules(p, s)
  <2>0. ASSUME NEW id, NEW severity, severity # "critical", NEW weight, NEW applies, NEW passed
        PROVE  Plain(Finding(id, severity, weight, applies, passed))
    BY <2>0 DEF Finding
  <2> HIDE DEF Plain
  <2>1. Plain(secCHUAPlatformRule(p, s)) /\ Plain(secCHUAMobileRule(p, s)) /\ Plain(requiredHeadersRule(p, s))
    BY <2>0 DEF secCHUAPlatformRule, secCHUAMobileRule, requiredHeadersRule
  <2>2. Plain(acceptEncodingRule(p, s)) /\ Plain(acceptRule(p, s)) /\ Plain(acceptLanguageRule(p, s))
    BY <2>0 DEF acceptEncodingRule, acceptRule, acceptLanguageRule
  <2>3. Plain(secCHUAVersionRule(p, s)) /\ Plain(headerOrderRule(p, s))
    BY <2>0 DEF secCHUAVersionRule, headerOrderRule
  <2>4. Plain(tlsALPNRule(p, s)) /\ Plain(tlsVersionRule(p, s)) /\ Plain(tlsPresetApproximationRule(p, s))
    BY <2>0 DEF tlsALPNRule, tlsVersionRule, tlsPresetApproximationRule
  <2>5. Plain(http2SettingsRule(p, s))
    BY <2>0 DEF http2SettingsRule
  <2>6. Plain(jsNavigatorPlatformRule(p, s)) /\ Plain(jsNavigatorVendorRule(p, s))
    BY <2>0 DEF jsNavigatorPlatformRule, jsNavigatorVendorRule
  <2>7. Plain(jsWebGLRule(p, s))
    BY <2>0 DEF jsWebGLRule
  <2> QED BY <2>1, <2>2, <2>3, <2>4, <2>5, <2>6, <2>7 DEF Evaluate, CriticalRules
<1> QED BY <1>1, <1>2, <1>3 DEF Critical

\* A scan has critical failures when one of these rules does not pass.
LEMMA CriticalFailsMean ==
  ASSUME NEW p, NEW s
  PROVE  /\ Run(p, s).result.CriticalFails > 0 <=> \E f \in CriticalRules(p, s) : ~f.passed
         /\ Run(p, s).result.CriticalFails = 0 <=> \A f \in CriticalRules(p, s) : f.passed
<1> DEFINE F == CriticalFailures(Evaluate(p, s))
<1>1. F = {f \in CriticalRules(p, s) : ~f.passed}
  BY CriticalsOf DEF CriticalFailures
<1>2. IsFiniteSet(F)
  BY EvaluateIsFinite, FS_Subset DEF CriticalFailures
<1>3. Cardinality(F) \in Nat /\ (Cardinality(F) = 0 <=> F = {})
  BY <1>2, FS_CardinalityType, FS_EmptySet
<1>4. Run(p, s).result.CriticalFails = Cardinality(F)
  BY CountOfCriticals DEF Run
<1> HIDE DEF F
<1> QED BY <1>1, <1>3, <1>4

\* The critical rules
MatchesPattern(p, s)    == matchUserAgent(p.pattern, s.ua, p.mode)
PlatformAgrees(p, s)    == s.hint # "" /\ s.ua # {} => platformConsistent(s.ua, s.hint)
BrandsAgree(p, s)       == s.brands # {} /\ s.ua # {} => browserConsistent(s.ua, s.brands, p.browser)
SendsNoForbidden(p, s)  == p.forbidden \cap DOMAIN s.headers = {}
WebdriverAgrees(p, s)   ==
  s.navigator.webdriver # "unset" /\ (p.navigator.webdriver # "unset" \/ s.navigator.webdriver = "true")
    => s.navigator.webdriver = p.navigator.webdriver
NavigatorAgrees(p, s)   ==
  s.navigator.there /\ s.navigator.platform # "" =>
    navigatorPlatformConsistent(s.navigator.platform, IF s.ua = {} THEN p.ua ELSE s.ua, s.hint, p.platform)
IsLikeChrome(p, s) ==
  p.browser \in {"chrome", "edge", "opera"} /\ s.tls.there =>
    IF Says(s.ua, "crios") \/ p.platform = "ios"
    THEN Says(s.ua, "crios") /\ (iosTLSPreset(p.preset) \/ iosTLSPreset(s.tls.preset))
    ELSE (\E w \in {"chrome", "edg", "opr"} : Says(s.ua, w)) /\ chromiumTLSPreset(PresetOf(p, s))
IsLikeFirefox(p, s) == p.browser = "firefox" => Says(s.ua, "firefox") /\ s.brands = {}
IsLikeSafari(p, s) ==
  p.browser = "safari" =>
    /\ Says(s.ua, "safari") /\ Says(s.ua, "version") /\ ~Says(s.ua, "chrome") /\ ~Says(s.ua, "crios")
    /\ s.tls.there => iosTLSPreset(PresetOf(p, s))

\* All of it: the snapshot has no critical failure against the profile.
Coherent(p, s) ==
  /\ MatchesPattern(p, s) /\ PlatformAgrees(p, s) /\ BrandsAgree(p, s) /\ SendsNoForbidden(p, s)
  /\ WebdriverAgrees(p, s) /\ NavigatorAgrees(p, s)
  /\ IsLikeChrome(p, s) /\ IsLikeFirefox(p, s) /\ IsLikeSafari(p, s)

\* A finding passes when its rule does not apply or is kept.
LEMMA FindingPasses ==
  ASSUME NEW id, NEW severity, NEW weight, NEW applies, NEW passed
  PROVE  Finding(id, severity, weight, applies, passed).passed <=> (applies => passed)
BY DEF Finding

\* Each rule passes when what it asks holds.
LEMMA CriticalRulesSay ==
  ASSUME NEW p, NEW s
  PROVE  (\A f \in CriticalRules(p, s) : f.passed) <=> Coherent(p, s)
<1>1. userAgentPatternRule(p, s).passed <=> MatchesPattern(p, s)
  <2> DEFINE applies == TRUE
             passes == matchUserAgent(p.pattern, s.ua, p.mode)
  <2>1. userAgentPatternRule(p, s) = Finding("ua.pattern", "critical", 15, applies, passes)
    BY DEF userAgentPatternRule
  <2>2. MatchesPattern(p, s) <=> (applies => passes)
    BY DEF MatchesPattern
  <2> HIDE DEF applies, passes
  <2> QED BY <2>1, <2>2, FindingPasses
<1>2. userAgentPlatformConsistencyRule(p, s).passed <=> PlatformAgrees(p, s)
  <2> DEFINE applies == s.hint # "" /\ s.ua # {}
             passes == platformConsistent(s.ua, s.hint)
  <2>1. userAgentPlatformConsistencyRule(p, s) = Finding("cross.ua_platform", "critical", 14, applies, passes)
    BY DEF userAgentPlatformConsistencyRule
  <2>2. PlatformAgrees(p, s) <=> (applies => passes)
    BY DEF PlatformAgrees
  <2> HIDE DEF applies, passes
  <2> QED BY <2>1, <2>2, FindingPasses
<1>3. userAgentBrowserConsistencyRule(p, s).passed <=> BrandsAgree(p, s)
  <2> DEFINE applies == s.brands # {} /\ s.ua # {}
             passes == browserConsistent(s.ua, s.brands, p.browser)
  <2>1. userAgentBrowserConsistencyRule(p, s) = Finding("cross.ua_browser", "critical", 14, applies, passes)
    BY DEF userAgentBrowserConsistencyRule
  <2>2. BrandsAgree(p, s) <=> (applies => passes)
    BY DEF BrandsAgree
  <2> HIDE DEF applies, passes
  <2> QED BY <2>1, <2>2, FindingPasses
<1>4. forbiddenHeadersRule(p, s).passed <=> SendsNoForbidden(p, s)
  BY DEF Finding, forbiddenHeadersRule, SendsNoForbidden
<1>5. jsNavigatorWebdriverRule(p, s).passed <=> WebdriverAgrees(p, s)
  BY FindingPasses DEF jsNavigatorWebdriverRule, WebdriverAgrees
<1>6. crossJSPlatformRule(p, s).passed <=> NavigatorAgrees(p, s)
  <2> DEFINE applies == s.navigator.there /\ s.navigator.platform # ""
             passes == navigatorPlatformConsistent(s.navigator.platform, IF s.ua = {} THEN p.ua ELSE s.ua,
                                                   s.hint, p.platform)
  <2>1. crossJSPlatformRule(p, s) = Finding("cross.js_ua_platform", "critical", 12, applies, passes)
    BY DEF crossJSPlatformRule
  <2>2. NavigatorAgrees(p, s) <=> (applies => passes)
    BY DEF NavigatorAgrees
  <2> HIDE DEF applies, passes
  <2> QED BY <2>1, <2>2, FindingPasses
<1>7. crossLayerChromeRule(p, s).passed <=> IsLikeChrome(p, s)
  BY DEF Finding, crossLayerChromeRule, IsLikeChrome
<1>8. crossLayerFirefoxRule(p, s).passed <=> IsLikeFirefox(p, s)
  BY FindingPasses DEF crossLayerFirefoxRule, IsLikeFirefox
<1>9. crossLayerSafariRule(p, s).passed <=> IsLikeSafari(p, s)
  BY FindingPasses DEF crossLayerSafariRule, IsLikeSafari
<1> QED BY <1>1, <1>2, <1>3, <1>4, <1>5, <1>6, <1>7, <1>8, <1>9 DEF CriticalRules, Coherent

\* The critical failures that a scan counts, in these terms.
LEMMA CoherentMeans ==
  ASSUME NEW p, NEW s
  PROVE  /\ Run(p, s).result.CriticalFails = 0 <=> Coherent(p, s)
         /\ Run(p, s).result.CriticalFails > 0 <=> ~Coherent(p, s)
BY CriticalRulesSay, CriticalFailsMean

-----------------------------------------------------------------------------
(* Requests                                                                *)

\* The headers of a request are those that ApplyProfileHeaders names and the
\* profile requires.
LEMMA RequestHeaders ==
  ASSUME NEW p, DOMAIN p.required \cap {"x-selenium", "x-webdriver"} = {}
  PROVE  {"x-selenium", "x-webdriver"} \cap DOMAIN ApplyProfileHeaders(p) = {}
<1>1. DOMAIN ApplyProfileHeaders(p) = Headers(p) \cup {r \in DOMAIN p.required : p.required[r] # ""}
  BY DEF ApplyProfileHeaders
<1>2. Headers(p) \subseteq {"user-agent", "sec-ch-ua", "sec-ch-ua-mobile", "sec-ch-ua-platform", "accept",
                           "accept-language", "accept-encoding", "upgrade-insecure-requests"}
  BY DEF Headers
<1> QED BY <1>1, <1>2

-----------------------------------------------------------------------------
(* Lists                                                                   *)

\* A list that has each member once, and what is kept of the first k of one.
Distinct(s) == \A i, j \in 1..Len(s) : s[i] = s[j] => i = j
Kept(vals, set, k) == {vals[i] : i \in {j \in 1..k : vals[j] \in set}}

\* What Only keeps, as a function of how much has been read.
IsFilter(vals, set, n, f) ==
  f = [k \in 0..n |-> IF k = 0 THEN <<>>
                      ELSE IF vals[k] \in set THEN Append(f[k - 1], vals[k]) ELSE f[k - 1]]

\* There is such a function for any length,
LEMMA FilterExists ==
  ASSUME NEW vals, NEW set, NEW n \in Nat
  PROVE  \E f : IsFilter(vals, set, n, f)
<1> DEFINE Exist(k) == \E f : IsFilter(vals, set, k, f)
           Bad == {k \in Nat : ~Exist(k)}
<1>1. ASSUME Bad # {} PROVE FALSE
  <2>1. PICK m \in Bad : \A k \in Bad : m <= k
    BY <1>1, LeastNumber
  <2>2. Exist(0)
    <3>1. IsFilter(vals, set, 0, [i \in 0..0 |-> <<>>])
      BY DEF IsFilter
    <3> QED BY <3>1
  <2>3. m \in Nat /\ m - 1 \in Nat /\ Exist(m - 1)
    BY <2>1, <2>2
  <2>4. PICK f : IsFilter(vals, set, m - 1, f)
    BY <2>3
  <2> DEFINE Next1(s, k) == IF vals[k] \in set THEN Append(s, vals[k]) ELSE s
             g == [i \in 0..m |-> IF i = m THEN Next1(f[m - 1], m) ELSE f[i]]
  <2>5. \A i \in 0..(m - 1) : f[i] = IF i = 0 THEN <<>> ELSE Next1(f[i - 1], i)
    BY <2>4 DEF IsFilter
  <2> HIDE DEF Next1
  <2>6. ASSUME NEW i \in 0..m
        PROVE  g[i] = IF i = 0 THEN <<>> ELSE Next1(g[i - 1], i)
    BY <2>1, <2>2, <2>3, <2>5
  <2>7. g = [i \in 0..m |-> IF i = 0 THEN <<>> ELSE Next1(g[i - 1], i)]
    BY <2>6
  <2> HIDE DEF g
  <2>8. IsFilter(vals, set, m, g)
    BY <2>7 DEF IsFilter, Next1
  <2> QED BY <2>1, <2>8
<1> QED BY <1>1

\* and Only is its last value.
LEMMA OnlyIs ==
  ASSUME NEW vals, NEW set, Len(vals) \in Nat
  PROVE  \E f : IsFilter(vals, set, Len(vals), f) /\ Only(vals, set) = f[Len(vals)]
<1> DEFINE f == CHOOSE f : IsFilter(vals, set, Len(vals), f)
<1>1. Only(vals, set) = f[Len(vals)]
  BY Zenon DEF Only, IsFilter
<1>2. IsFilter(vals, set, Len(vals), f)
  BY FilterExists, Zenon
<1> QED BY <1>1, <1>2

\* What has been kept of the first k of a list.
HoldsKept(S, vals, set, k, s) ==
  /\ s \in Seq(S)
  /\ {s[i] : i \in 1..Len(s)} = Kept(vals, set, k)
  /\ (\A i, j \in 1..k : vals[i] \in set /\ vals[i] = vals[j] => i = j) => Distinct(s)

\* At first nothing has been kept,
LEMMA KeepsNone ==
  ASSUME NEW S, NEW vals, NEW set
  PROVE  HoldsKept(S, vals, set, 0, <<>>)
<1>1. <<>> \in Seq(S) /\ Len(<<>>) = 0
  BY EmptySeq
<1> QED BY <1>1 DEF HoldsKept, Kept, Distinct

\* then the next one is if it is in the set,
LEMMA KeepsNext ==
  ASSUME NEW S, NEW vals \in Seq(S), NEW set, NEW k \in 1..Len(vals), NEW s, HoldsKept(S, vals, set, k - 1, s)
  PROVE  HoldsKept(S, vals, set, k, IF vals[k] \in set THEN Append(s, vals[k]) ELSE s)
<1>0. k \in Nat /\ k - 1 \in Nat /\ vals[k] \in S
  BY LenProperties
<1>1. CASE vals[k] \notin set
  <2>1. \A j : j \in 1..k /\ vals[j] \in set <=> j \in 1..(k - 1) /\ vals[j] \in set
    BY <1>0, <1>1
  <2>2. Kept(vals, set, k) = Kept(vals, set, k - 1)
    BY <2>1 DEF Kept
  <2>3. 1..(k - 1) \subseteq 1..k
    BY <1>0
  <2> QED BY <1>1, <2>2, <2>3 DEF HoldsKept
<1>2. CASE vals[k] \in set
  <2> DEFINE t == Append(s, vals[k])
             n == Len(s)
  <2>1. s \in Seq(S) /\ n \in Nat
    BY LenProperties DEF HoldsKept
  <2>2. /\ t \in Seq(S) /\ Len(t) = n + 1 /\ t[n + 1] = vals[k]
        /\ \A i \in 1..n : t[i] = s[i]
    BY <1>0, <2>1, AppendProperties
  <2>3. {s[i] : i \in 1..n} = Kept(vals, set, k - 1)
    BY DEF HoldsKept
  <2>4. Kept(vals, set, k) = Kept(vals, set, k - 1) \cup {vals[k]}
    <3>1. {j \in 1..k : vals[j] \in set} = {j \in 1..(k - 1) : vals[j] \in set} \cup {k}
      BY <1>0, <1>2
    <3> QED BY <3>1 DEF Kept
  <2> HIDE DEF t, n
  <2>5. {t[i] : i \in 1..Len(t)} = Kept(vals, set, k)
    <3>1. 1..(n + 1) = 1..n \cup {n + 1}
      BY <2>1
    <3>2. {t[i] : i \in 1..(n + 1)} = {t[i] : i \in 1..n} \cup {t[n + 1]}
      BY <3>1
    <3>3. {t[i] : i \in 1..n} = {s[i] : i \in 1..n}
      BY <2>2
    <3> QED BY <2>2, <2>3, <2>4, <3>2, <3>3
  <2>6. ASSUME \A i, j \in 1..k : vals[i] \in set /\ vals[i] = vals[j] => i = j
        PROVE  Distinct(t)
    <3>1. \A i, j \in 1..n : s[i] = s[j] => i = j
      <4>1. \A i, j \in 1..(k - 1) : vals[i] \in set /\ vals[i] = vals[j] => i = j
        BY <1>0, <2>6
      <4> QED BY <4>1 DEF HoldsKept, Distinct, n
    <3>2. \A i \in 1..n : s[i] # vals[k]
      <4> SUFFICES ASSUME NEW i \in 1..n, s[i] = vals[k]
                   PROVE  FALSE
        OBVIOUS
      <4>1. s[i] \in Kept(vals, set, k - 1)
        BY <2>3
      <4>2. PICK j \in 1..(k - 1) : vals[j] \in set /\ vals[j] = vals[k]
        BY <4>1 DEF Kept
      <4>3. j \in 1..k /\ k \in 1..k /\ j # k
        BY <1>0, <4>2
      <4> QED BY <2>6, <4>2, <4>3
    <3>3. ASSUME NEW i \in 1..(n + 1), NEW j \in 1..(n + 1), t[i] = t[j]
          PROVE  i = j
      <4>1. (i \in 1..n \/ i = n + 1) /\ (j \in 1..n \/ j = n + 1)
        BY <2>1
      <4> QED BY <2>2, <3>1, <3>2, <3>3, <4>1
    <3> QED BY <2>2, <3>3 DEF Distinct
  <2>7. HoldsKept(S, vals, set, k, t)
    BY <2>2, <2>5, <2>6 DEF HoldsKept
  <2> QED BY <1>2, <2>7 DEF t
<1> QED BY <1>1, <1>2

\* and so is all that Only is to keep.
LEMMA OnlyKeeps ==
  ASSUME NEW S, NEW vals \in Seq(S), NEW set
  PROVE  HoldsKept(S, vals, set, Len(vals), Only(vals, set))
<1> DEFINE n == Len(vals)
<1>0. n \in Nat
  BY LenProperties
<1>1. PICK f : IsFilter(vals, set, n, f) /\ Only(vals, set) = f[n]
  BY <1>0, OnlyIs
<1>2. \A k \in 0..n : f[k] = IF k = 0 THEN <<>>
                             ELSE IF vals[k] \in set THEN Append(f[k - 1], vals[k]) ELSE f[k - 1]
  BY <1>1 DEF IsFilter
<1> DEFINE Bad == {k \in 0..n : ~HoldsKept(S, vals, set, k, f[k])}
<1>3. ASSUME Bad # {} PROVE FALSE
  <2>0. Bad \in SUBSET Nat
    OBVIOUS
  <2>1. PICK m \in Bad : \A k \in Bad : m <= k
    BY <1>3, <2>0, LeastNumber
  <2>2. m # 0
    <3>1. f[0] = <<>>
      BY <1>0, <1>2
    <3>2. HoldsKept(S, vals, set, 0, f[0])
      BY <3>1, KeepsNone
    <3> QED BY <2>1, <3>2
  <2>3. m \in 1..n /\ m - 1 \in 0..n /\ m - 1 \notin Bad
    BY <1>0, <2>1, <2>2
  <2>4. HoldsKept(S, vals, set, m - 1, f[m - 1])
    BY <2>3
  <2>5. HoldsKept(S, vals, set, m, f[m])
    <3>1. f[m] = IF vals[m] \in set THEN Append(f[m - 1], vals[m]) ELSE f[m - 1]
      BY <1>2, <2>2, <2>3
    <3> QED BY <2>3, <2>4, <3>1, KeepsNext
  <2> QED BY <2>1, <2>5
<1> QED BY <1>0, <1>1, <1>3

\* The range of a list.
LEMMA RangeIs == \A S : \A s \in Seq(S) : DOMAIN s = 1..Len(s) /\ Len(s) \in Nat /\ ToSet(s) = {s[i] : i \in 1..Len(s)}
BY LenProperties DEF ToSet

\* What is left of a list that has each member once.
LEMMA OnlyOnce ==
  ASSUME NEW s \in Seq(Nat), NEW set, \A i, j \in 1..Len(s) : s[i] \in set /\ s[i] = s[j] => i = j
  PROVE  /\ Only(s, set) \in Seq(Nat) /\ Distinct(Only(s, set))
         /\ ToSet(Only(s, set)) = {s[i] : i \in {j \in 1..Len(s) : s[j] \in set}}
<1> DEFINE t == Only(s, set)
<1>1. HoldsKept(Nat, s, set, Len(s), t)
  BY OnlyKeeps
<1> HIDE DEF t
<1>2. t \in Seq(Nat) /\ Distinct(t) /\ {t[i] : i \in 1..Len(t)} = Kept(s, set, Len(s))
  BY <1>1 DEF HoldsKept
<1>3. ToSet(t) = {t[i] : i \in 1..Len(t)}
  BY <1>2, RangeIs
<1> QED BY <1>2, <1>3 DEF Kept, t

\* In a list that has each member once, a set of its members has as many places.
LEMMA PlacesCount ==
  ASSUME NEW s \in Seq(Nat), Distinct(s), NEW T \in SUBSET ToSet(s)
  PROVE  Cardinality({i \in DOMAIN s : s[i] \in T}) = Cardinality(T)
<1> DEFINE P == {i \in DOMAIN s : s[i] \in T}
           f == [i \in P |-> s[i]]
<1>1. DOMAIN s = 1..Len(s) /\ Len(s) \in Nat /\ ToSet(s) = {s[i] : i \in 1..Len(s)}
  BY RangeIs
<1>2. IsFiniteSet(P)
  <2>1. IsFiniteSet(1..Len(s))
    BY <1>1, FS_Interval
  <2> QED BY <1>1, <2>1, FS_Subset
<1>3. f \in Bijection(P, T)
  <2>1. f \in [P -> T]
    OBVIOUS
  <2>2. \A i, j \in P : f[i] = f[j] => i = j
    BY <1>1 DEF Distinct
  <2>3. \A t \in T : \E i \in P : f[i] = t
    BY <1>1
  <2> HIDE DEF P, f
  <2> QED BY <2>1, <2>2, <2>3 DEF Bijection, Injection, Surjection, IsInjective
<1>4. ExistsBijection(P, T)
  BY <1>3 DEF ExistsBijection
<1> HIDE DEF P
<1>5. Cardinality(P) = Cardinality(T)
  BY <1>2, <1>4, FS_Bijection
<1> QED BY <1>5 DEF P

\* The members that are not above one; of these depends,
NotAbove(T, v) == {x \in T : x <= v}

\* how long it is and how it is sorted.
LEMMA SortedIs ==
  ASSUME NEW s \in Seq(Nat), Distinct(s)
  PROVE  /\ Len(s) = Cardinality(ToSet(s))
         /\ Sorted(s) = [n \in 1..Cardinality(ToSet(s)) |->
                          Min({v \in ToSet(s) : n <= Cardinality(NotAbove(ToSet(s), v))})]
<1> DEFINE T == ToSet(s)
<1>1. DOMAIN s = 1..Len(s) /\ Len(s) \in Nat /\ \A i \in 1..Len(s) : s[i] \in T
  BY RangeIs
<1>2. Cardinality(T) = Len(s)
  <2>1. {i \in DOMAIN s : s[i] \in T} = 1..Len(s)
    BY <1>1
  <2>2. Cardinality(1..Len(s)) = Len(s)
    <3>1. \A n \in Nat : Cardinality(1..n) = n
      <4> SUFFICES ASSUME NEW n \in Nat PROVE Cardinality(1..n) = n
        OBVIOUS
      <4>1. 1 \in Int /\ n \in Int /\ (IF 1 > n THEN 0 ELSE n - 1 + 1) = n
        OBVIOUS
      <4>2. Cardinality(1..n) = IF 1 > n THEN 0 ELSE n - 1 + 1
        BY <4>1, FS_Interval
      <4> QED BY <4>1, <4>2
    <3> QED BY <1>1, <3>1
  <2>3. \A U \in SUBSET ToSet(s) : Cardinality({i \in DOMAIN s : s[i] \in U}) = Cardinality(U)
    BY PlacesCount
  <2>4. T \in SUBSET ToSet(s)
    OBVIOUS
  <2> HIDE DEF T
  <2> QED BY <2>1, <2>2, <2>3, <2>4
<1>3. ASSUME NEW v \in T
      PROVE  Cardinality({i \in DOMAIN s : s[i] <= v}) = Cardinality(NotAbove(T, v))
  <2>1. {i \in DOMAIN s : s[i] <= v} = {i \in DOMAIN s : s[i] \in NotAbove(T, v)}
    BY <1>1 DEF NotAbove
  <2>2. NotAbove(T, v) \in SUBSET T
    BY DEF NotAbove
  <2>3. Cardinality({i \in DOMAIN s : s[i] \in NotAbove(T, v)}) = Cardinality(NotAbove(T, v))
    BY <2>2, PlacesCount
  <2> HIDE DEF T
  <2> QED BY <2>1, <2>3
<1>4. Sorted(s) = [n \in DOMAIN s |-> Min({v \in T : n <= Cardinality({i \in DOMAIN s : s[i] <= v})})]
  BY DEF Sorted
<1> HIDE DEF T
<1>5. \A n \in DOMAIN s : {v \in T : n <= Cardinality({i \in DOMAIN s : s[i] <= v})}
                          = {v \in T : n <= Cardinality(NotAbove(T, v))}
  BY <1>3
<1>6. Sorted(s) = [n \in DOMAIN s |-> Min({v \in T : n <= Cardinality(NotAbove(T, v))})]
  BY <1>4, <1>5
<1> QED BY <1>1, <1>2, <1>6 DEF T

\* So lists of the same members are sorted alike.
LEMMA SortedSame ==
  ASSUME NEW a \in Seq(Nat), NEW b \in Seq(Nat), Distinct(a), Distinct(b), ToSet(a) = ToSet(b)
  PROVE  Sorted(a) = Sorted(b) /\ Len(a) = Len(b)
BY SortedIs

\* Of a list whose members other than GREASE are there once, the fingerprints
\* depend on which these are.
HasOnce(order) ==
  order \in Seq(Nat) /\ \A i, j \in 1..Len(order) : ~IsGREASE16(order[i]) /\ order[i] = order[j] => i = j
MembersOf(order) == {order[i] : i \in {j \in 1..Len(order) : ~IsGREASE16(order[j])}}

\* filterNonGREASE is the list of these.
LEMMA NonGREASEOnce ==
  ASSUME NEW order, HasOnce(order)
  PROVE  /\ filterNonGREASE(order) \in Seq(Nat) /\ Distinct(filterNonGREASE(order))
         /\ ToSet(filterNonGREASE(order)) = MembersOf(order)
<1> DEFINE set == {v \in ToSet(order) : ~IsGREASE16(v)}
<1>1. filterNonGREASE(order) = Only(order, set)
  BY DEF filterNonGREASE
<1>2. order \in Seq(Nat) /\ \A i \in 1..Len(order) : order[i] \in set <=> ~IsGREASE16(order[i])
  BY RangeIs DEF HasOnce
<1> HIDE DEF set
<1>3. \A i, j \in 1..Len(order) : order[i] \in set /\ order[i] = order[j] => i = j
  BY <1>2 DEF HasOnce
<1>4. {j \in 1..Len(order) : order[j] \in set} = {j \in 1..Len(order) : ~IsGREASE16(order[j])}
  BY <1>2
<1>5. /\ Only(order, set) \in Seq(Nat) /\ Distinct(Only(order, set))
      /\ ToSet(Only(order, set)) = {order[i] : i \in {j \in 1..Len(order) : order[j] \in set}}
  BY <1>2, <1>3, OnlyOnce
<1> QED BY <1>1, <1>4, <1>5 DEF MembersOf

\* What JA4 says of the extensions is the same for lists of the same members.
LEMMA ListedSame ==
  ASSUME NEW a, NEW b, HasOnce(a), HasOnce(b), MembersOf(a) = MembersOf(b)
  PROVE  /\ ja4ExtList(filterNonGREASE(a)) = ja4ExtList(filterNonGREASE(b))
         /\ Len(filterNonGREASE(a)) = Len(filterNonGREASE(b))
<1> DEFINE f == filterNonGREASE(a)
           g == filterNonGREASE(b)
           set == ToSet(f) \ {ExtServerName, ExtALPN}
<1>1. f \in Seq(Nat) /\ g \in Seq(Nat) /\ Distinct(f) /\ Distinct(g) /\ ToSet(f) = ToSet(g)
  BY NonGREASEOnce
<1>2. ja4ExtList(f) = Sorted(Only(f, set)) /\ ja4ExtList(g) = Sorted(Only(g, set))
  BY <1>1 DEF ja4ExtList
<1> HIDE DEF f, g, set
<1>3. Len(f) = Len(g)
  BY <1>1, SortedSame
<1>4. ASSUME NEW s \in Seq(Nat), Distinct(s)
      PROVE  /\ Only(s, set) \in Seq(Nat) /\ Distinct(Only(s, set))
             /\ ToSet(Only(s, set)) = ToSet(s) \cap set
  <2>1. \A i, j \in 1..Len(s) : s[i] \in set /\ s[i] = s[j] => i = j
    BY <1>4 DEF Distinct
  <2>2. {s[i] : i \in {j \in 1..Len(s) : s[j] \in set}} = ToSet(s) \cap set
    BY <1>4, RangeIs
  <2> QED BY <1>4, <2>1, <2>2, OnlyOnce
<1>5. Sorted(Only(f, set)) = Sorted(Only(g, set))
  BY <1>1, <1>4, SortedSame
<1> QED BY <1>2, <1>3, <1>5 DEF f, g

\* A function over the first numbers is a list.
LEMMA ListIs ==
  ASSUME NEW S, NEW n \in Nat, NEW f \in [1..n -> S]
  PROVE  f \in Seq(S) /\ Len(f) = n
<1>1. f \in Seq(S)
  BY SeqDef
<1>2. DOMAIN f = 1..n /\ DOMAIN f = 1..Len(f) /\ Len(f) \in Nat
  BY <1>1, LenProperties
<1> QED BY <1>1, <1>2

\* As many values as one exactly if all are the same.
LEMMA OneIfSame ==
  ASSUME NEW n \in Nat, n >= 1, NEW f, f = [i \in 1..n |-> f[i]]
  PROVE  Cardinality({f[i] : i \in 1..n}) = 1 <=> \A i \in 1..n : f[i] = f[1]
<1> DEFINE S == {f[i] : i \in 1..n}
<1>1. f \in Surjection(1..n, S)
  <2>1. f \in [1..n -> S]
    OBVIOUS
  <2>2. \A t \in S : \E i \in 1..n : f[i] = t
    OBVIOUS
  <2> HIDE DEF S
  <2> QED BY <2>1, <2>2 DEF Surjection
<1>2. IsFiniteSet(1..n)
  <2>1. 1 \in Int /\ n \in Int
    OBVIOUS
  <2> QED BY <2>1, FS_Interval
<1> HIDE DEF S
<1>3. IsFiniteSet(S)
  BY <1>1, <1>2, FS_Surjection
<1>4. Cardinality(S) = 1 <=> \E x : S = {x}
  BY <1>3, FS_Singleton
<1>5. (\E x : S = {x}) <=> \A i \in 1..n : f[i] = f[1]
  <2>1. 1 \in 1..n
    OBVIOUS
  <2>2. S = {f[i] : i \in 1..n}
    BY DEF S
  <2>3. ASSUME NEW x, S = {x}
        PROVE  \A i \in 1..n : f[i] = f[1]
    <3>1. \A i \in 1..n : f[i] \in S
      BY <2>2
    <3> QED BY <2>1, <2>3, <3>1
  <2>4. ASSUME \A i \in 1..n : f[i] = f[1]
        PROVE  S = {f[1]}
    <3>1. \A i \in 1..n : f[i] \in S
      BY <2>2
    <3>2. \A x \in S : \E i \in 1..n : x = f[i]
      BY <2>2
    <3> QED BY <2>1, <2>4, <3>1, <3>2
  <2> QED BY <2>3, <2>4
<1> QED BY <1>4, <1>5 DEF S

\* The report of lab permute,
LEMMA ReportSays ==
  ASSUME NEW hellos
  PROVE  /\ AnalyzeExtensionPermutation(hellos).UniqueJA3 = Cardinality({JA3Raw(hellos[i]) : i \in 1..Len(hellos)})
         /\ AnalyzeExtensionPermutation(hellos).SkeletonStable <=>
              \A i \in 1..Len(hellos) :
                filterNonGREASE(hellos[i].ExtensionOrder) = filterNonGREASE(hellos[1].ExtensionOrder)
BY DEF AnalyzeExtensionPermutation, extensionOrderSignature

-----------------------------------------------------------------------------
(* Rankings                                                                *)

\* What is above by the divisor or more has a greater quotient.
LEMMA DivLess ==
  ASSUME NEW a \in Int, NEW b \in Int, NEW w \in Nat, w > 0, a >= b + w
  PROVE  a \div w > b \div w
OBVIOUS

\* A quotient is a number, and grows with what is divided.
LEMMA DivMonotone ==
  ASSUME NEW a \in Int, NEW b \in Int, NEW w \in Nat, w > 0, a >= b
  PROVE  a \div w >= b \div w /\ a \div w \in Int
OBVIOUS

\* Three scores can be put in order, equal ones as they come.
LEMMA ThreeInOrder ==
  ASSUME NEW s \in [1..3 -> Int]
  PROVE  \E p \in [1..3 -> 1..3] : \A i, j \in 1..3 : i < j => s[p[i]] > s[p[j]] \/ (s[p[i]] = s[p[j]] /\ p[i] < p[j])
<1> DEFINE P(a, b, c) == [i \in 1..3 |-> IF i = 1 THEN a ELSE IF i = 2 THEN b ELSE c]
<1>1. \A a, b, c \in 1..3 : /\ P(a, b, c) \in [1..3 -> 1..3]
                            /\ P(a, b, c)[1] = a /\ P(a, b, c)[2] = b /\ P(a, b, c)[3] = c
  OBVIOUS
<1> HIDE DEF P
<1> DEFINE before(i, j) == s[i] > s[j] \/ (s[i] = s[j] /\ i < j)
<1>2. ASSUME NEW a \in 1..3, NEW b \in 1..3, NEW c \in 1..3, before(a, b), before(b, c), before(a, c)
      PROVE  \A i, j \in 1..3 : i < j => before(P(a, b, c)[i], P(a, b, c)[j])
  <2> SUFFICES ASSUME NEW i \in 1..3, NEW j \in 1..3, i < j
               PROVE  before(P(a, b, c)[i], P(a, b, c)[j])
    OBVIOUS
  <2>1. (i = 1 /\ j = 2) \/ (i = 1 /\ j = 3) \/ (i = 2 /\ j = 3)
    OBVIOUS
  <2> HIDE DEF before
  <2> QED BY <1>1, <1>2, <2>1
<1>3. \E a, b, c \in 1..3 : before(a, b) /\ before(b, c) /\ before(a, c)
  <2>1. s[1] \in Int /\ s[2] \in Int /\ s[3] \in Int
    OBVIOUS
  <2>2. \/ before(1, 2) /\ before(2, 3) /\ before(1, 3)
        \/ before(1, 3) /\ before(3, 2) /\ before(1, 2)
        \/ before(2, 1) /\ before(1, 3) /\ before(2, 3)
        \/ before(2, 3) /\ before(3, 1) /\ before(2, 1)
        \/ before(3, 1) /\ before(1, 2) /\ before(3, 2)
        \/ before(3, 2) /\ before(2, 1) /\ before(3, 1)
    BY <2>1
  <2> HIDE DEF before
  <2> QED BY <2>2
<1>4. PICK a \in 1..3, b \in 1..3, c \in 1..3 : before(a, b) /\ before(b, c) /\ before(a, c)
  BY <1>3
<1>5. \A i, j \in 1..3 : i < j => before(P(a, b, c)[i], P(a, b, c)[j])
  BY <1>2, <1>4
<1>6. P(a, b, c) \in [1..3 -> 1..3]
  BY <1>1
<1> QED BY <1>5, <1>6

\* Ranking puts the families in order of their scores.
LEMMA RankingSorts ==
  ASSUME NEW refs, NEW layers, \A i \in 1..3 : Families(refs, layers)[i].Score \in Int
  PROVE  \E p \in [1..3 -> 1..3] :
           /\ Ranking(refs, layers) = [i \in 1..3 |-> Families(refs, layers)[p[i]]]
           /\ \A i, j \in 1..3 : i < j => Families(refs, layers)[p[i]].Score >= Families(refs, layers)[p[j]].Score
           /\ \A k \in 1..3 : \E i \in 1..3 : p[i] = k
<1> DEFINE m == Families(refs, layers)
           Sorts(p) == \A i, j \in 1..3 :
                         i < j => m[p[i]].Score > m[p[j]].Score \/ (m[p[i]].Score = m[p[j]].Score /\ p[i] < p[j])
           order == CHOOSE p \in [1..3 -> 1..3] : Sorts(p)
<1>1. DOMAIN m = 1..3
  BY DEF Families
<1>2. Ranking(refs, layers) = [i \in 1..3 |-> m[order[i]]]
  BY <1>1 DEF Ranking
<1>3. \E p \in [1..3 -> 1..3] : Sorts(p)
  <2> DEFINE s == [i \in 1..3 |-> m[i].Score]
  <2>1. s \in [1..3 -> Int]
    OBVIOUS
  <2>2. PICK p \in [1..3 -> 1..3] :
          \A i, j \in 1..3 : i < j => s[p[i]] > s[p[j]] \/ (s[p[i]] = s[p[j]] /\ p[i] < p[j])
    BY <2>1, ThreeInOrder
  <2> HIDE DEF m
  <2> QED BY <2>2
<1>4. order \in [1..3 -> 1..3] /\ Sorts(order)
  <2> HIDE DEF Sorts
  <2> QED BY <1>3
<1>5. \A k \in 1..3 : \E i \in 1..3 : order[i] = k
  <2> HIDE DEF order, m
  <2>0. \A i \in 1..3 : m[i].Score \in Int
    BY DEF m
  <2>1. order[1] \in 1..3 /\ order[2] \in 1..3 /\ order[3] \in 1..3
    BY <1>4
  <2>2. order[1] # order[2] /\ order[1] # order[3] /\ order[2] # order[3]
    BY <1>4, <2>0, <2>1
  <2> QED BY <2>1, <2>2
<1> HIDE DEF order, m
<1>6. \A i, j \in 1..3 : i < j => m[order[i]].Score >= m[order[j]].Score
  <2>0. \A i \in 1..3 : m[i].Score \in Int
    BY DEF m
  <2> QED BY <1>4, <2>0
<1> QED BY <1>2, <1>4, <1>5, <1>6 DEF m

\* The greatest of a score.
Greatest(ranking, score) == Max({ranking[i][score] : i \in 1..3})

\* It is one of the three and none is above it.
LEMMA GreatestOfThree ==
  ASSUME NEW ranking, NEW score, \A i \in 1..3 : ranking[i][score] \in Int
  PROVE  /\ \E i \in 1..3 : Greatest(ranking, score) = ranking[i][score]
         /\ \A i \in 1..3 : Greatest(ranking, score) >= ranking[i][score]
<1> DEFINE a == ranking[1][score]
           b == ranking[2][score]
           c == ranking[3][score]
<1>1. a \in Int /\ b \in Int /\ c \in Int
  OBVIOUS
<1>2. Greatest(ranking, score) = Max({a, b, c})
  <2>1. {ranking[i][score] : i \in 1..3} = {a, b, c}
    OBVIOUS
  <2> QED BY <2>1 DEF Greatest
<1>3. \A i \in 1..3 : ranking[i][score] \in {a, b, c}
  OBVIOUS
<1>4. \A x \in {a, b, c} : \E i \in 1..3 : x = ranking[i][score]
  OBVIOUS
<1> HIDE DEF a, b, c
<1>5. \E x \in {a, b, c} : \A y \in {a, b, c} : x >= y
  BY <1>1
<1>6. Max({a, b, c}) \in {a, b, c} /\ \A y \in {a, b, c} : Max({a, b, c}) >= y
  BY <1>5 DEF Max
<1> QED BY <1>2, <1>3, <1>4, <1>6

\* The best by a score, and that BestBy finds the first of them.
BestIn(ranking, score) ==
  {i \in 1..3 : ranking[i][score] > 0 /\ \A j \in 1..3 : ranking[j][score] <= ranking[i][score]}

\* BestBy names the first of these that it finds.
LEMMA BestIsFirst ==
  ASSUME NEW ranking, DOMAIN ranking = 1..3, NEW score, BestIn(ranking, score) # {}
  PROVE  \E k \in BestIn(ranking, score) :
           /\ BestBy(ranking, score) = ranking[k].Family
           /\ \A i \in BestIn(ranking, score) : k <= i
<1> DEFINE best == BestIn(ranking, score)
<1>1. BestBy(ranking, score) = IF best = {} THEN "" ELSE ranking[Min(best)].Family
  BY DEF BestBy, BestIn
<1>2. best \in SUBSET Nat
  BY DEF BestIn
<1> HIDE DEF best
<1>3. best # {}
  BY DEF best
<1>4. \E k \in best : \A i \in best : k <= i
  BY <1>2, <1>3, LeastNumber
<1>5. Min(best) \in best /\ \A i \in best : Min(best) <= i
  BY <1>4 DEF Min
<1> QED BY <1>1, <1>3, <1>5 DEF best

\* And nobody when there is none.
LEMMA NoneIsBest ==
  ASSUME NEW ranking, DOMAIN ranking = 1..3, NEW score, BestIn(ranking, score) = {}
  PROVE  BestBy(ranking, score) = ""
BY DEF BestBy, BestIn

\* A ranking of three families whose scores are numbers.
IsRanking(r) ==
  /\ DOMAIN r = 1..3
  /\ \A i \in 1..3 : r[i].HelloScore \in Int /\ r[i].H2Score \in Int /\ r[i].H2Score <= Full

\* The best hello of a ranking,
LEMMA GreatestHello ==
  ASSUME NEW r, IsRanking(r)
  PROVE  /\ \E i \in 1..3 : Greatest(r, "HelloScore") = r[i].HelloScore
         /\ \A i \in 1..3 : Greatest(r, "HelloScore") >= r[i].HelloScore
<1>1. \A i \in 1..3 : r[i]["HelloScore"] \in Int
  BY DEF IsRanking
<1> QED BY <1>1, GreatestOfThree

\* and the best flight.
LEMMA GreatestH2 ==
  ASSUME NEW r, IsRanking(r)
  PROVE  /\ \E i \in 1..3 : Greatest(r, "H2Score") = r[i].H2Score
         /\ \A i \in 1..3 : Greatest(r, "H2Score") >= r[i].H2Score
<1>1. \A i \in 1..3 : r[i]["H2Score"] \in Int
  BY DEF IsRanking
<1> QED BY <1>1, GreatestOfThree

\* The families of an engine that lead by hello, those that are in the order of
\* their hellos, and those whose flight fits in full.
Leads(r, own) == \E i \in own : \A j \in (1..3) \ own : r[i].HelloScore > r[j].HelloScore
InHelloOrder(r, own) == \A i, j \in own : i < j => r[j].HelloScore <= r[i].HelloScore
FlightFits(r, own) == \A i \in 1..3 : r[i].H2Score = Full <=> i \in own
IsSure(r, own) == \E i \in own : r[i].HelloScore > Full \div 2
AreApart(r, own) ==
  /\ \A j \in 1..3 : r[j].Family # ""
  /\ \A j \in own, l \in (1..3) \ own : r[j].Family # r[l].Family

\* A conflict in terms of the best of each.
LEMMA ConflictIs ==
  ASSUME NEW layers, NEW r, DOMAIN r = 1..3
  PROVE  fingerprintConflicts(layers, r) =
           /\ layers.h2.ok
           /\ BestBy(r, "HelloScore") # "" /\ BestBy(r, "H2Score") # "" /\ BestBy(r, "HelloScore") # BestBy(r, "H2Score")
           /\ Certain(Greatest(r, "H2Score"), Greatest(r, "HelloScore"))
BY DEF fingerprintConflicts, Greatest

\* The best by the flight, when it fits the families of one engine or none.
LEMMA BestFlights ==
  ASSUME NEW r, IsRanking(r), NEW own \in SUBSET (1..3),
         \A i \in 1..3 : r[i].H2Score = Full <=> i \in own,
         own # {}
  PROVE  BestIn(r, "H2Score") = own
<1>1. PICK o \in own : r[o].H2Score = Full
  OBVIOUS
<1>2. ASSUME NEW i \in own
      PROVE  i \in BestIn(r, "H2Score")
  <2>1. i \in 1..3 /\ r[i].H2Score = Full
    OBVIOUS
  <2>2. \A j \in 1..3 : r[j].H2Score <= r[i].H2Score
    BY <2>1 DEF IsRanking
  <2>3. r[i].H2Score > 0
    BY <2>1 DEF Full
  <2> QED BY <2>1, <2>2, <2>3 DEF BestIn
<1>3. ASSUME NEW i \in BestIn(r, "H2Score")
      PROVE  i \in own
  <2>1. i \in 1..3 /\ r[o].H2Score <= r[i].H2Score
    BY DEF BestIn
  <2>2. r[i].H2Score = Full
    BY <1>1, <2>1 DEF IsRanking, Full
  <2> QED BY <2>1, <2>2
<1> QED BY <1>2, <1>3

\* If the best flight fits in full, a family's does.
LEMMA SomeFlightFits ==
  ASSUME NEW r, IsRanking(r), Greatest(r, "H2Score") >= Full
  PROVE  \E i \in 1..3 : r[i].H2Score = Full
<1> DEFINE g == Greatest(r, "H2Score")
<1>1. PICK i \in 1..3 : g = r[i].H2Score
  BY GreatestH2
<1>2. g >= Full
  OBVIOUS
<1>3. r[i].H2Score <= Full /\ r[i].H2Score \in Int
  BY DEF IsRanking
<1> HIDE DEF g
<1> QED BY <1>1, <1>2, <1>3 DEF Full

\* The best by hello are of the families that lead by it.
LEMMA BestHellos ==
  ASSUME NEW r, IsRanking(r), NEW own \in SUBSET (1..3),
         \E i \in own : \A j \in (1..3) \ own : r[i].HelloScore > r[j].HelloScore
  PROVE  BestIn(r, "HelloScore") \subseteq own
<1>1. PICK i \in own : \A j \in (1..3) \ own : r[i].HelloScore > r[j].HelloScore
  OBVIOUS
<1> SUFFICES ASSUME NEW j \in (1..3) \ own, j \in BestIn(r, "HelloScore")
             PROVE  FALSE
  BY DEF BestIn
<1>2. r[i].HelloScore <= r[j].HelloScore
  BY DEF BestIn
<1>3. r[i].HelloScore > r[j].HelloScore
  BY <1>1
<1> QED BY <1>2, <1>3 DEF IsRanking

\* Whoever is not below a best one is one.
LEMMA BestToo ==
  ASSUME NEW r, NEW n \in BestIn(r, "HelloScore"), NEW k \in 1..3,
         \A j \in 1..3 : r[j].HelloScore \in Int, r[n].HelloScore <= r[k].HelloScore
  PROVE  k \in BestIn(r, "HelloScore")
<1>1. n \in 1..3 /\ r[n].HelloScore > 0 /\ \A j \in 1..3 : r[j].HelloScore <= r[n].HelloScore
  BY DEF BestIn
<1>2. r[k].HelloScore > 0 /\ \A j \in 1..3 : r[j].HelloScore <= r[k].HelloScore
  BY <1>1
<1> QED BY <1>2 DEF BestIn

\* No conflict when the flight fits no family.
LEMMA NoConflictWithoutFlight ==
  ASSUME NEW layers, NEW r, IsRanking(r), \A i \in 1..3 : r[i].H2Score < Full
  PROVE  ~fingerprintConflicts(layers, r)
<1>1. \A i \in 1..3 : r[i].H2Score # Full
  BY DEF IsRanking, Full
<1>2. ~(Greatest(r, "H2Score") >= Full)
  BY <1>1, SomeFlightFits
<1> QED BY <1>2, ConflictIs DEF Certain, IsRanking

\* Nor when it fits the families of one engine, and the best by hello is first
\* among these.
LEMMA NoConflictInEngine ==
  ASSUME NEW layers, NEW r, IsRanking(r), NEW own \in SUBSET (1..3), own # {},
         Leads(r, own), InHelloOrder(r, own), FlightFits(r, own)
  PROVE  ~fingerprintConflicts(layers, r)
<1>1. CASE BestBy(r, "HelloScore") = ""
  BY <1>1, ConflictIs DEF IsRanking
<1>2. CASE BestBy(r, "HelloScore") # ""
  <2>3. BestIn(r, "H2Score") = own
    BY BestFlights DEF FlightFits
  <2>4. DOMAIN r = 1..3
    BY DEF IsRanking
  <2>5. PICK k \in own : BestBy(r, "H2Score") = r[k].Family /\ \A i \in own : k <= i
    BY <2>3, <2>4, BestIsFirst
  <2>6. BestIn(r, "HelloScore") # {}
    BY <1>2, <2>4, NoneIsBest
  <2>7. PICK n \in BestIn(r, "HelloScore") :
          BestBy(r, "HelloScore") = r[n].Family /\ \A i \in BestIn(r, "HelloScore") : n <= i
    BY <2>4, <2>6, BestIsFirst
  <2>8. n \in own
    BY BestHellos DEF Leads
  <2>9. k \in 1..3 /\ n \in 1..3 /\ k <= n
    BY <2>5, <2>8
  <2>10. \A j \in 1..3 : r[j].HelloScore \in Int
    BY DEF IsRanking
  <2>11. r[n].HelloScore <= r[k].HelloScore
    <3>1. CASE k = n
      BY <3>1, <2>9, <2>10
    <3>2. CASE k < n
      BY <3>2, <2>8 DEF InHelloOrder
    <3> QED BY <2>9, <3>1, <3>2
  <2>12. k \in BestIn(r, "HelloScore")
    BY <2>7, <2>9, <2>10, <2>11, BestToo
  <2>13. k = n
    BY <2>7, <2>9, <2>12
  <2> QED BY <2>4, <2>5, <2>7, <2>13, ConflictIs
<1> QED BY <1>1, <1>2

\* A conflict, when the hello fits one engine and the flight another.
LEMMA ConflictFound ==
  ASSUME NEW layers, NEW r, IsRanking(r), NEW own \in SUBSET (1..3), layers.h2.ok,
         Leads(r, own), IsSure(r, own), FlightFits(r, (1..3) \ own), own # 1..3, AreApart(r, own)
  PROVE  fingerprintConflicts(layers, r)
<1> DEFINE other == (1..3) \ own
           g == Greatest(r, "H2Score")
           h == Greatest(r, "HelloScore")
<1>1. DOMAIN r = 1..3
  BY DEF IsRanking
<1>2. h \in Int /\ h > Full \div 2
  <2>1. PICK i \in own : r[i].HelloScore > Full \div 2
    BY DEF IsSure
  <2>2. h >= r[i].HelloScore /\ r[i].HelloScore \in Int
    BY GreatestHello DEF IsRanking
  <2>3. PICK m \in 1..3 : h = r[m].HelloScore
    BY GreatestHello
  <2>4. h \in Int
    BY <2>3 DEF IsRanking
  <2> HIDE DEF h
  <2> QED BY <2>1, <2>2, <2>4 DEF Full
<1>3. g \in Int /\ g >= Full
  <2>1. PICK i \in other : r[i].H2Score = Full
    BY DEF FlightFits
  <2>2. g >= r[i].H2Score
    BY GreatestH2
  <2>3. PICK m \in 1..3 : g = r[m].H2Score
    BY GreatestH2
  <2>4. g \in Int
    BY <2>3 DEF IsRanking
  <2> HIDE DEF g
  <2> QED BY <2>1, <2>2, <2>4 DEF Full
<1>4. Certain(g, h)
  <2> HIDE DEF g, h
  <2> QED BY <1>2, <1>3 DEF Certain, Full
<1>5. BestIn(r, "H2Score") = other /\ other # {}
  BY BestFlights DEF FlightFits
<1>6. BestIn(r, "HelloScore") \subseteq own
  BY BestHellos DEF Leads
<1>7. BestIn(r, "HelloScore") # {}
  <2>1. PICK m \in 1..3 : h = r[m].HelloScore
    BY GreatestHello
  <2>2. \A j \in 1..3 : r[j].HelloScore <= h
    BY GreatestHello DEF IsRanking
  <2> HIDE DEF h
  <2>3. h > 0
    BY <1>2 DEF Full
  <2> QED BY <2>1, <2>2, <2>3 DEF BestIn
<1>8. PICK k \in BestIn(r, "H2Score") : BestBy(r, "H2Score") = r[k].Family
  BY <1>1, <1>5, BestIsFirst
<1>9. PICK n \in BestIn(r, "HelloScore") : BestBy(r, "HelloScore") = r[n].Family
  BY <1>1, <1>7, BestIsFirst
<1>10. k \in other /\ n \in own
  BY <1>5, <1>6
<1> QED BY <1>1, <1>4, <1>8, <1>9, <1>10, ConflictIs DEF AreApart

\* Nor without a hello.
LEMMA NoHelloNoConflict ==
  ASSUME NEW layers, NEW r, IsRanking(r), \A i \in 1..3 : r[i].HelloScore = 0
  PROVE  ~fingerprintConflicts(layers, r)
<1>1. DOMAIN r = 1..3
  BY DEF IsRanking
<1>2. BestIn(r, "HelloScore") = {}
  BY DEF BestIn
<1>3. BestBy(r, "HelloScore") = ""
  BY <1>1, <1>2, NoneIsBest
<1> QED BY <1>1, <1>3, ConflictIs

\* The scores of a family, when what is there of the layers is there of its
\* fixtures.
Weight(layers, l) == IF layers[l].ok THEN LayerWeight[l] ELSE 0
ScoreOf(refs, family, layers, l) == IF layers[l].ok THEN LayerScore(l, refs[family][l], layers[l]) ELSE 0
AllWeights(layers) == Weight(layers, "hello") + Weight(layers, "h2") + Weight(layers, "h3") + Weight(layers, "quic")
WeightedSum(refs, family, layers) ==
  Weight(layers, "hello") * ScoreOf(refs, family, layers, "hello")
  + Weight(layers, "h2") * ScoreOf(refs, family, layers, "h2")
  + Weight(layers, "h3") * ScoreOf(refs, family, layers, "h3")
  + Weight(layers, "quic") * ScoreOf(refs, family, layers, "quic")

\* What scoreFamily makes of them.
LEMMA FamilyScore ==
  ASSUME NEW refs, NEW family, NEW layers, \A l \in Layers : layers[l].ok => refs[family][l].ok
  PROVE  LET m == scoreFamily(refs, family, layers)
         IN /\ m.Family = family
            /\ m.HelloScore = ScoreOf(refs, family, layers, "hello")
            /\ m.H2Score = ScoreOf(refs, family, layers, "h2")
            /\ m.Score = IF AllWeights(layers) = 0 THEN 0
                         ELSE WeightedSum(refs, family, layers) \div AllWeights(layers)
<1> DEFINE scored == Scored(refs, family, layers)
           score == [l \in Layers |-> IF l \in scored THEN LayerScore(l, refs[family][l], layers[l]) ELSE 0]
           weight == [l \in Layers |-> IF l \in scored THEN LayerWeight[l] ELSE 0]
<1>1. \A l \in Layers : score[l] = ScoreOf(refs, family, layers, l) /\ weight[l] = Weight(layers, l)
  BY DEF Scored, ScoreOf, Weight
<1>2. /\ scoreFamily(refs, family, layers).Family = family
      /\ scoreFamily(refs, family, layers).HelloScore = score.hello
      /\ scoreFamily(refs, family, layers).H2Score = score.h2
      /\ scoreFamily(refs, family, layers).Score =
           IF OverLayers(weight) = 0 THEN 0
           ELSE OverLayers([l \in Layers |-> weight[l] * score[l]]) \div OverLayers(weight)
  BY Zenon DEF scoreFamily
<1> HIDE DEF score, weight
<1>3. OverLayers(weight) = AllWeights(layers)
  BY <1>1 DEF OverLayers, AllWeights, Layers
<1>4. OverLayers([l \in Layers |-> weight[l] * score[l]]) = WeightedSum(refs, family, layers)
  BY <1>1 DEF OverLayers, WeightedSum, Layers
<1>5. score.hello = ScoreOf(refs, family, layers, "hello") /\ score.h2 = ScoreOf(refs, family, layers, "h2")
  BY <1>1 DEF Layers
<1> QED BY <1>2, <1>3, <1>4, <1>5

\* What FingerprintCapture answers.
LEMMA CaptureSays ==
  ASSUME NEW refs, NEW b
  PROVE  LET rep    == FingerprintCapture(refs, b)
             layers == LayersOf(b)
         IN /\ rep # Nothing
            /\ ~rep.err =>
                 /\ b.hello # Missing => layers["hello"].ok
                 /\ rep.Best = Ranking(refs, layers)[1].Family
                 /\ rep.Conflict = fingerprintConflicts(layers, Ranking(refs, layers))
<1> DEFINE layers == LayersOf(b)
           bad == (b.hello # Missing /\ ~layers.hello.ok) \/ (\A l \in Layers : ~layers[l].ok)
<1>1. FingerprintCapture(refs, b) =
        IF bad THEN [err |-> TRUE]
        ELSE [err |-> FALSE, Best |-> Ranking(refs, layers)[1].Family,
              Conflict |-> fingerprintConflicts(layers, Ranking(refs, layers))]
  BY DEF FingerprintCapture
<1> HIDE DEF bad
<1>2. CASE bad
  <2>1. FingerprintCapture(refs, b).err = TRUE
    BY <1>1, <1>2
  <2> QED BY <1>1, <1>2, <2>1 DEF Nothing
<1>3. CASE ~bad
  BY <1>1, <1>3 DEF Nothing, bad
<1> QED BY <1>2, <1>3

\* There is always a report.
LEMMA CaptureIsThere == \A refs, b : FingerprintCapture(refs, b) # Nothing
BY CaptureSays

\* LayersOf parses each layer by itself.
LEMMA LayersAre == \A b : \A l \in Layers : LayersOf(b)[l] = Parsed(l, b[l])
<1> SUFFICES ASSUME NEW b, NEW l \in Layers
             PROVE  LayersOf(b)[l] = Parsed(l, b[l])
  OBVIOUS
<1>1. CASE l = "hello"
  BY <1>1 DEF LayersOf, Parsed
<1>2. CASE l = "h2"
  BY <1>2 DEF LayersOf, Parsed
<1>3. CASE l = "h3"
  BY <1>3 DEF LayersOf, Parsed
<1>4. CASE l = "quic"
  BY <1>4 DEF LayersOf, Parsed
<1> QED BY <1>1, <1>2, <1>3, <1>4 DEF Layers

\* A layer that is missing does not parse.
LEMMA MissingIsNothing == \A l \in Layers : Parsed(l, Missing) = Nothing /\ Nothing.ok = FALSE
BY DEF Parsed, HelloLayer, H2Layer, H3Layer, QuicLayer, Nothing, Layers

\* The parts of an answer.
LEMMA AnswerHas ==
  ASSUME NEW a, NEW b
  PROVE  Answer([of |-> a, report |-> b]).out.of = a /\ Answer([of |-> a, report |-> b]).out.report = b
BY DEF Answer
=============================================================================
