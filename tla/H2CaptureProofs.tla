-------------------------- MODULE H2CaptureProofs --------------------------
(***************************************************************************)
(* H2Capture for streams of any length.  What truncateThroughControlFlight *)
(* keeps is defined by a recursion over the items, so that its properties  *)
(* need induction: it is done here by taking the least item at which they  *)
(* fail.                                                                   *)
(***************************************************************************)
EXTENDS H2Capture, SequenceTheorems, FiniteSetTheorems, WellFoundedInduction, TLAPS

-----------------------------------------------------------------------------
(* The loop of truncateThroughControlFlight as a function                  *)

\* A set of naturals has a least one.
LEMMA LeastNat ==
  ASSUME NEW S \in SUBSET Nat, S # {}
  PROVE  \E m \in S : \A k \in S : m <= k
<1>1. PICK m \in S : \A k \in S : <<k, m>> \notin OpToRel(<, Nat)
  <2>1. IsWellFoundedOn(OpToRel(<, Nat), Nat)
    BY NatLessThanWellFounded
  <2> QED BY <2>1, WFMin
<1>2. \A k \in S : ~ (k < m)
  BY <1>1, Zenon DEF OpToRel
<1> QED BY <1>2

\* What one turn after the other computes, as an equation.
IsScan(items, n, f) ==
  f = [i \in 1..n |-> IF i = 1 THEN ScanStart ELSE Scan(f[i - 1], items[i])]

\* One turn more.
LEMMA OneTurnMore ==
  ASSUME NEW items, NEW n \in Nat, NEW f, IsScan(items, n, f)
  PROVE  \E g : IsScan(items, n + 1, g)
<1> DEFINE next == IF n + 1 = 1 THEN ScanStart ELSE Scan(f[n], items[n + 1])
           g == [i \in 1..(n + 1) |-> IF i = n + 1 THEN next ELSE f[i]]
<1>1. \A i \in 1..n : f[i] = IF i = 1 THEN ScanStart ELSE Scan(f[i - 1], items[i])
  BY DEF IsScan
<1>2. ASSUME NEW i \in 1..(n + 1)
      PROVE  g[i] = IF i = 1 THEN ScanStart ELSE Scan(g[i - 1], items[i])
  <2>1. CASE i = n + 1
    BY <2>1
  <2>2. CASE i # n + 1
    BY <1>1, <2>2
  <2> QED BY <2>1, <2>2
<1>3. g = [i \in 1..(n + 1) |-> IF i = 1 THEN ScanStart ELSE Scan(g[i - 1], items[i])]
  BY <1>2
<1> HIDE DEF g
<1> QED BY <1>3 DEF IsScan

\* The loop can be run over any number of items.
LEMMA ScanExists ==
  ASSUME NEW items, NEW n \in Nat
  PROVE  \E f : IsScan(items, n, f)
<1> DEFINE Bad == {k \in Nat : ~ \E f : IsScan(items, k, f)}
<1>1. ASSUME Bad # {} PROVE FALSE
  <2>1. PICK m \in Bad : \A k \in Bad : m <= k
    BY <1>1, LeastNat
  <2>2. m # 0
    <3>1. IsScan(items, 0, [i \in 1..0 |-> ScanStart])
      BY DEF IsScan
    <3> QED BY <2>1, <3>1
  <2>3. m - 1 \in Nat /\ m - 1 \notin Bad
    BY <2>1, <2>2
  <2>4. PICK f : IsScan(items, m - 1, f)
    BY <2>3
  <2>5. \E g : IsScan(items, (m - 1) + 1, g)
    BY <2>3, <2>4, OneTurnMore
  <2> QED BY <2>1, <2>5
<1> QED BY <1>1

\* Scans is what its definition says.
LEMMA ScansValue ==
  ASSUME NEW S, NEW items \in Seq(S)
  PROVE  /\ DOMAIN Scans(items) = 1..Len(items)
         /\ \A i \in 1..Len(items) :
              Scans(items)[i] = IF i = 1 THEN ScanStart ELSE Scan(Scans(items)[i - 1], items[i])
<1>1. DOMAIN items = 1..Len(items) /\ Len(items) \in Nat
  BY LenProperties
<1>2. Scans(items) =
        CHOOSE f : f = [i \in 1..Len(items) |-> IF i = 1 THEN ScanStart ELSE Scan(f[i - 1], items[i])]
  BY <1>1, Zenon DEF Scans
<1>3. Scans(items) = CHOOSE f : IsScan(items, Len(items), f)
  BY <1>2, Zenon DEF IsScan
<1>4. IsScan(items, Len(items), Scans(items))
  BY <1>1, <1>3, ScanExists, Zenon
<1> QED BY <1>1, <1>4 DEF IsScan
-----------------------------------------------------------------------------
(* What the loop has found after each item                                 *)

Header(f) == f.type \in {"HEADERS", "CONTINUATION"}
Settled(f) == f.type \in {"SETTINGS", "ACK", "HEADERS"}

\* The items where the flight is over, and those after which it may be cut.
Ends(s, j) == s[j].type \in {"DATA", "HEADERS"} /\ \E k \in 2..(j - 1) : s[k].end
Cut(s, j) ==
  \/ s[j].type \in {"DATA", "HEADERS", "SETTINGS", "ACK", "CONTINUATION"}
  \/ s[j].type = "CONTROL" /\ \E k \in 2..(j - 1) : Settled(s[k])

\* Framed, one item after the other.
LEMMA FramedItems ==
  ASSUME NEW s \in Seq(Frames \cup {Preface})
  PROVE  Framed(s) <=>
           /\ Len(s) \in Nat /\ Len(s) >= 1 /\ s[1] = Preface
           /\ \A i \in 2..Len(s) :
                /\ s[i] \in Frames
                /\ (s[i].type = "CONTINUATION") = (Header(s[i - 1]) /\ ~s[i - 1].end)
<1>1. Len(s) \in Nat /\ (s # <<>> <=> Len(s) >= 1)
  BY EmptySeq, LenProperties
<1>2. ASSUME NEW i \in 2..Len(s)
      PROVE  InBlock(SubSeq(s, 1, i - 1)) = (Header(s[i - 1]) /\ ~s[i - 1].end)
  <2>1. /\ SubSeq(s, 1, i - 1) # <<>> /\ Len(SubSeq(s, 1, i - 1)) = i - 1
        /\ SubSeq(s, 1, i - 1)[i - 1] = s[i - 1]
    BY <1>1, SubSeqProperties
  <2> QED BY <2>1 DEF InBlock, Last, Header
<1> QED BY <1>1, <1>2 DEF Framed

\* What a frame may be.
LEMMA FrameParts ==
  /\ \A f \in Frames : /\ f.end \in BOOLEAN /\ (f.end => Header(f))
                       /\ f.type \in {"DATA", "SETTINGS", "ACK", "PING", "CONTROL",
                                      "HEADERS", "CONTINUATION"}
  /\ Preface.type = "PREFACE" /\ Preface.end = FALSE
BY DEF Frames, Preface, Header

\* What is known after item i, while the flight is not over: at, open, saw and
\* ended are what they are named for, and there is one request.
Going(s, i, scan) ==
  /\ scan.at = i /\ \A j \in 2..i : ~Ends(s, j)
  /\ scan.ended = \E k \in 2..i : s[k].end
  /\ scan.open = (Header(s[i]) /\ ~s[i].end)
  /\ scan.saw = \E k \in 2..i : Settled(s[k])
  /\ \A j \in 2..i : s[j].type = "HEADERS" => scan.open \/ scan.ended

\* What is known of the item kept.
Keeping(s, i, keep) ==
  /\ keep \in 1..i /\ (keep > 1 => Cut(s, keep))
  /\ \A j \in 2..i : Ends(s, j) => keep < j
  /\ \A j \in 2..i : Cut(s, j) => j <= keep \/ \E k \in 2..j : Ends(s, k)
  /\ \A j, k \in 2..keep : s[j].type = "HEADERS" /\ s[k].type = "HEADERS" => j = k

ScanInv(s, i, scan) ==
  /\ scan \in [over : BOOLEAN, at : Nat, keep : Nat, saw : BOOLEAN, open : BOOLEAN, ended : BOOLEAN]
  /\ IF scan.over THEN \E j \in 2..i : Ends(s, j) ELSE Going(s, i, scan)
  /\ Keeping(s, i, scan.keep)

\* One turn of the loop.
LEMMA ScanTurn ==
  ASSUME NEW s \in Seq(Frames \cup {Preface}), Framed(s), NEW i \in 2..Len(s),
         NEW scan, ScanInv(s, i - 1, scan)
  PROVE  ScanInv(s, i, Scan(scan, s[i]))
<1> DEFINE next == Scan(scan, s[i])
           R == [over : BOOLEAN, at : Nat, keep : Nat, saw : BOOLEAN, open : BOOLEAN, ended : BOOLEAN]
<1>1. /\ Len(s) \in Nat /\ i \in Nat /\ s[i] \in Frames /\ scan \in R
      /\ (s[i].type = "CONTINUATION") = (Header(s[i - 1]) /\ ~s[i - 1].end)
  BY FramedItems DEF ScanInv
<1>2. /\ s[i].end \in BOOLEAN /\ (s[i].end => Header(s[i]))
      /\ s[i].type \in {"DATA", "SETTINGS", "ACK", "PING", "CONTROL", "HEADERS", "CONTINUATION"}
  BY <1>1, FrameParts
<1>3. CASE scan.over
  <2>1. next = scan
    BY <1>1, <1>3 DEF Scan
  <2>2. \E j \in 2..(i - 1) : Ends(s, j)
    BY <1>3 DEF ScanInv
  <2>3. Keeping(s, i, scan.keep)
    BY <1>1, <2>2 DEF ScanInv, Keeping
  <2> QED BY <1>1, <1>3, <2>1, <2>2, <2>3 DEF ScanInv
<1>4. CASE ~scan.over /\ EndsFlight(scan, s[i])
  <2>1. next = [scan EXCEPT !.over = TRUE]
    BY <1>4 DEF Scan
  <2>2. Ends(s, i)
    BY <1>1, <1>4 DEF ScanInv, Going, EndsFlight, Ends
  <2>3. next \in R /\ next.over /\ next.keep = scan.keep
    BY <1>1, <2>1
  <2>4. Keeping(s, i, next.keep)
    BY <1>1, <2>2, <2>3 DEF ScanInv, Keeping
  <2> QED BY <1>1, <2>2, <2>3, <2>4 DEF ScanInv
<1>5. CASE ~scan.over /\ ~EndsFlight(scan, s[i])
  <2> DEFINE block == s[i].type = "HEADERS" \/ (s[i].type = "CONTINUATION" /\ scan.open)
             keep  == IF Keeps(scan, s[i]) THEN scan.at + 1 ELSE scan.keep
             saw   == scan.saw \/ Settled(s[i])
             open  == IF block THEN ~s[i].end ELSE scan.open
             ended == scan.ended \/ (block /\ s[i].end)
  <2>1. /\ next = [over |-> FALSE, at |-> scan.at + 1, keep |-> keep, saw |-> saw, open |-> open,
                   ended |-> ended]
        /\ Going(s, i - 1, scan) /\ Keeping(s, i - 1, scan.keep)
    BY <1>5 DEF Scan, ScanInv, Settled
  <2>2. /\ scan.at = i - 1 /\ scan.keep \in Nat /\ scan.saw \in BOOLEAN
        /\ scan.open \in BOOLEAN /\ scan.ended \in BOOLEAN
    BY <1>1, <2>1 DEF Going
  <2>3. (s[i].type = "CONTINUATION" => scan.open) /\ (scan.open => s[i].type = "CONTINUATION")
    BY <1>1, <2>1 DEF Going
  <2>4. /\ keep \in Nat /\ saw \in BOOLEAN
        /\ open \in BOOLEAN /\ (open <=> Header(s[i]) /\ ~s[i].end)
        /\ ended \in BOOLEAN /\ (ended <=> scan.ended \/ s[i].end)
    <3>1. keep \in Nat
      BY <1>1, <2>2
    <3>2. saw \in BOOLEAN /\ ended \in BOOLEAN
      BY Zenon
    <3>3. open \in BOOLEAN
      BY <1>2, <2>2
    <3>4. open <=> Header(s[i]) /\ ~s[i].end
      BY <1>2, <2>2, <2>3 DEF Header
    <3>5. ended <=> scan.ended \/ s[i].end
      BY <1>2, <2>2, <2>3 DEF Header
    <3> QED BY <3>1, <3>2, <3>3, <3>4, <3>5
  <2>5. ~Ends(s, i)
    BY <1>1, <1>5, <2>1 DEF Going, EndsFlight, Ends
  <2>6. keep = IF Cut(s, i) THEN i ELSE scan.keep
    <3>1. Keeps(scan, s[i]) <=> Cut(s, i)
      BY <1>1, <1>2, <2>1, <2>3 DEF Going, Keeps, Cut
    <3> QED BY <1>1, <2>2, <3>1
  <2>7. /\ next \in R /\ ~next.over /\ next.at = i
        /\ next.keep = keep /\ next.saw = saw /\ next.open = open /\ next.ended = ended
    <3> HIDE DEF next, keep, saw, open, ended
    <3>1. scan.at + 1 \in Nat /\ scan.at + 1 = i
      BY <1>1, <2>2
    <3> QED BY <2>1, <2>4, <3>1
  <2>8. Going(s, i, next)
    <3>1. next.ended = \E k \in 2..i : s[k].end
      <4>1. (\E k \in 2..i : s[k].end) <=> (\E k \in 2..(i - 1) : s[k].end) \/ s[i].end
        BY <1>1
      <4>2. scan.ended <=> \E k \in 2..(i - 1) : s[k].end
        BY <2>1 DEF Going
      <4> HIDE DEF next, ended
      <4> QED BY <2>4, <2>7, <4>1, <4>2, Zenon
    <3>2. next.open = (Header(s[i]) /\ ~s[i].end)
      <4> HIDE DEF next, open
      <4> QED BY <2>4, <2>7, Zenon
    <3>3. next.saw = \E k \in 2..i : Settled(s[k])
      <4>1. (\E k \in 2..i : Settled(s[k])) <=> (\E k \in 2..(i - 1) : Settled(s[k])) \/ Settled(s[i])
        BY <1>1
      <4>2. scan.saw <=> \E k \in 2..(i - 1) : Settled(s[k])
        BY <2>1 DEF Going
      <4>3. saw <=> scan.saw \/ Settled(s[i])
        OBVIOUS
      <4> HIDE DEF next, saw
      <4> QED BY <2>4, <2>7, <4>1, <4>2, <4>3, Zenon
    <3>4. \A j \in 2..i : s[j].type = "HEADERS" => next.open \/ next.ended
      <4>1. s[i].type = "HEADERS" => open \/ ended
        <5> HIDE DEF open, ended
        <5> QED BY <1>2, <2>4 DEF Header
      <4>2. scan.open \/ scan.ended => open \/ ended
        <5> HIDE DEF open, ended
        <5> QED BY <1>2, <2>3, <2>4 DEF Header
      <4>3. \A j \in 2..(i - 1) : s[j].type = "HEADERS" => scan.open \/ scan.ended
        BY <2>1 DEF Going
      <4>4. \A j \in 2..i : j = i \/ j \in 2..(i - 1)
        BY <1>1
      <4> HIDE DEF next, open, ended
      <4> QED BY <2>7, <4>1, <4>2, <4>3, <4>4, Zenon
    <3>5. \A j \in 2..i : ~Ends(s, j)
      BY <1>1, <2>1, <2>5 DEF Going
    <3> HIDE DEF next
    <3> QED BY <2>7, <3>1, <3>2, <3>3, <3>4, <3>5 DEF Going
  <2>9. Keeping(s, i, next.keep)
    <3> HIDE DEF next, keep
    <3>1. next.keep \in 1..i /\ (next.keep > 1 => Cut(s, next.keep))
      BY <1>1, <2>1, <2>6, <2>7 DEF Keeping
    <3>2. \A j \in 2..i : ~Ends(s, j)
      BY <2>8 DEF Going
    <3>3. \A j \in 2..i : Cut(s, j) => j <= next.keep
      BY <1>1, <2>1, <2>6, <2>7, <3>2 DEF Keeping
    <3>4. \A j, k \in 2..i : s[j].type = "HEADERS" /\ s[k].type = "HEADERS" => j = k
      <4>1. ASSUME NEW j \in 2..(i - 1), s[j].type = "HEADERS" PROVE s[i].type # "HEADERS"
        BY <1>1, <1>5, <2>1, <2>3, <4>1 DEF Going, EndsFlight
      <4>2. \A j \in 2..(i - 1) : s[j].type = "HEADERS" => j \in 2..scan.keep
        BY <1>1, <2>1, <3>2 DEF Keeping, Cut
      <4>3. \A j, k \in 2..(i - 1) : s[j].type = "HEADERS" /\ s[k].type = "HEADERS" => j = k
        BY <2>1, <4>2 DEF Keeping
      <4> QED BY <1>1, <4>1, <4>3
    <3>5. \A j \in 2..next.keep : j \in 2..i
      BY <1>1, <3>1
    <3>6. \A j, k \in 2..next.keep : s[j].type = "HEADERS" /\ s[k].type = "HEADERS" => j = k
      BY <3>4, <3>5, Zenon
    <3> QED BY <3>1, <3>2, <3>3, <3>6, Zenon DEF Keeping
  <2>10. ScanInv(s, i, next)
    <3> HIDE DEF next
    <3> QED BY <2>7, <2>8, <2>9 DEF ScanInv
  <2> QED BY <2>10
<1> QED BY <1>3, <1>4, <1>5

\* The loop, from the preface to the last item.
LEMMA ScanAll ==
  ASSUME NEW s \in Seq(Frames \cup {Preface}), Framed(s), NEW i \in 1..Len(s)
  PROVE  ScanInv(s, i, Scans(s)[i])
<1> DEFINE Bad == {k \in Nat : k \in 1..Len(s) /\ ~ScanInv(s, k, Scans(s)[k])}
<1>1. Len(s) \in Nat /\ Len(s) >= 1
  BY FramedItems
<1>2. \A k \in 1..Len(s) :
        Scans(s)[k] = IF k = 1 THEN ScanStart ELSE Scan(Scans(s)[k - 1], s[k])
  BY ScansValue
<1>3. ScanInv(s, 1, ScanStart)
  <2>1. s[1] = Preface
    BY FramedItems
  <2>2. /\ ScanStart \in [over : BOOLEAN, at : Nat, keep : Nat, saw : BOOLEAN, open : BOOLEAN, ended : BOOLEAN]
        /\ ~ScanStart.over /\ ScanStart.at = 1 /\ ScanStart.keep = 1
        /\ ScanStart.saw = FALSE /\ ScanStart.open = FALSE /\ ScanStart.ended = FALSE
    BY DEF ScanStart
  <2>3. Header(s[1]) = FALSE
    BY <2>1, FrameParts DEF Header
  <2>4. Going(s, 1, ScanStart)
    <3>1. \A k : k \notin 2..1
      OBVIOUS
    <3>2. ScanStart.ended = (\E k \in 2..1 : s[k].end) /\ ScanStart.saw = (\E k \in 2..1 : Settled(s[k]))
      BY <2>2, <3>1, Zenon
    <3>3. ScanStart.open = (Header(s[1]) /\ ~s[1].end)
      BY <2>2, <2>3, Zenon
    <3> QED BY <2>2, <3>1, <3>2, <3>3, Zenon DEF Going
  <2>5. Keeping(s, 1, ScanStart.keep)
    BY <2>2 DEF Keeping
  <2> QED BY <2>2, <2>4, <2>5 DEF ScanInv
<1>4. ASSUME Bad # {} PROVE FALSE
  <2>1. PICK m \in Bad : \A k \in Bad : m <= k
    BY <1>4, LeastNat
  <2>2. m \in 2..Len(s)
    BY <1>2, <1>3, <2>1
  <2>3. m - 1 \in Nat /\ m - 1 \in 1..Len(s) /\ m - 1 \notin Bad
    BY <1>1, <2>1, <2>2
  <2>4. ScanInv(s, m - 1, Scans(s)[m - 1])
    BY <2>3
  <2>5. ScanInv(s, m, Scan(Scans(s)[m - 1], s[m]))
    BY <2>2, <2>4, ScanTurn
  <2> QED BY <1>2, <2>1, <2>2, <2>5
<1>5. i \in Nat /\ i \notin Bad
  BY <1>1, <1>4
<1> QED BY <1>5

\* What truncateThroughControlFlight keeps, said without the loop: up to the
\* last item where it may be cut, and none where the flight is over.
LEMMA KeptItems ==
  ASSUME NEW s \in Seq(Frames \cup {Preface}), Framed(s)
  PROVE  Keeping(s, Len(s), Kept(s))
<1>1. Len(s) \in 1..Len(s)
  BY FramedItems
<1>2. Keeping(s, Len(s), Scans(s)[Len(s)].keep)
  BY <1>1, ScanAll DEF ScanInv
<1> QED BY <1>2 DEF Kept

-----------------------------------------------------------------------------
(* Buffers as beginnings of a stream                                       *)

Items == Frames \cup {Preface}

\* The whole items of a buffer.
LEMMA WholeParts ==
  ASSUME NEW s \in Seq(Items), NEW n \in 0..2 * Len(s)
  PROVE  /\ Whole(s, n) \in Seq(Items) /\ Len(Whole(s, n)) = n \div 2
         /\ n \div 2 \in 0..Len(s) /\ \A i \in 1..(n \div 2) : Whole(s, n)[i] = s[i]
<1>1. Len(s) \in Nat /\ n \div 2 \in 0..Len(s)
  BY LenProperties
<1> QED BY <1>1, SubSeqProperties DEF Whole

\* A buffer with the preface in it is framed like the stream.
LEMMA WholeFramed ==
  ASSUME NEW s \in Seq(Items), NEW n \in 0..2 * Len(s), Framed(s), n \div 2 >= 1
  PROVE  Framed(Whole(s, n))
<1> DEFINE w == Whole(s, n)
           m == n \div 2
<1>1. /\ w \in Seq(Items) /\ Len(w) = m /\ m \in Nat /\ m <= Len(s) /\ Len(s) \in Nat
      /\ \A i \in 1..m : w[i] = s[i]
  BY WholeParts, LenProperties
<1>2. m >= 1
  OBVIOUS
<1> HIDE DEF w, m
<1>3. /\ s[1] = Preface
      /\ \A i \in 2..Len(s) :
           /\ s[i] \in Frames
           /\ (s[i].type = "CONTINUATION") = (Header(s[i - 1]) /\ ~s[i - 1].end)
  BY FramedItems DEF Items
<1>4. /\ w[1] = Preface
      /\ \A i \in 2..Len(w) :
           /\ w[i] \in Frames
           /\ (w[i].type = "CONTINUATION") = (Header(w[i - 1]) /\ ~w[i - 1].end)
  <2>1. ASSUME NEW i \in 2..Len(w) PROVE w[i] = s[i] /\ w[i - 1] = s[i - 1] /\ i \in 2..Len(s)
    BY <1>1
  <2>2. w[1] = s[1]
    BY <1>1, <1>2
  <2> QED BY <1>3, <2>1, <2>2
<1>5. Framed(w)
  BY <1>1, <1>2, <1>4, FramedItems DEF Items
<1> QED BY <1>5 DEF w

\* A frame that keeps to the framing can be put on a stream.
LEMMA AppendFramed ==
  ASSUME NEW s \in Seq(Items), NEW f \in Frames, Framed(s),
         (f.type = "CONTINUATION") = InBlock(s)
  PROVE  Framed(Append(s, f))
<1> DEFINE t == Append(s, f)
<1>1. /\ t \in Seq(Items) /\ Len(t) = Len(s) + 1 /\ Len(s) \in Nat /\ t[Len(s) + 1] = f
      /\ \A i \in 1..Len(s) : t[i] = s[i]
  BY AppendProperties, LenProperties DEF Items
<1> HIDE DEF t
<1>2. /\ s[1] = Preface /\ Len(s) >= 1 /\ s # <<>>
      /\ \A i \in 2..Len(s) :
           /\ s[i] \in Frames
           /\ (s[i].type = "CONTINUATION") = (Header(s[i - 1]) /\ ~s[i - 1].end)
  BY FramedItems DEF Items, Framed
<1>3. InBlock(s) = (Header(s[Len(s)]) /\ ~s[Len(s)].end)
  BY <1>2 DEF InBlock, Last, Header
<1>4. ASSUME NEW i \in 2..Len(t)
      PROVE  /\ t[i] \in Frames
             /\ (t[i].type = "CONTINUATION") = (Header(t[i - 1]) /\ ~t[i - 1].end)
  <2>1. CASE i = Len(s) + 1
    <3>1. t[i] = f /\ t[i - 1] = s[Len(s)]
      BY <1>1, <1>2, <2>1
    <3> QED BY <1>3, <3>1
  <2>2. CASE i # Len(s) + 1
    <3>1. t[i] = s[i] /\ t[i - 1] = s[i - 1] /\ i \in 2..Len(s)
      BY <1>1, <2>2
    <3> QED BY <1>2, <3>1
  <2> QED BY <2>1, <2>2
<1>5. t[1] = Preface /\ Len(t) \in Nat /\ Len(t) >= 1
  BY <1>1, <1>2
<1>6. Framed(t)
  BY <1>1, <1>4, <1>5, FramedItems DEF Items
<1> QED BY <1>6 DEF t

\* What arrives later does not change a buffer.
LEMMA AppendWhole ==
  ASSUME NEW s \in Seq(Items), NEW f \in Items, NEW n \in 0..2 * Len(s)
  PROVE  Whole(Append(s, f), n) = Whole(s, n)
<1>1. /\ Append(s, f) \in Seq(Items) /\ Len(Append(s, f)) = Len(s) + 1 /\ Len(s) \in Nat
      /\ \A i \in 1..Len(s) : Append(s, f)[i] = s[i]
  BY AppendProperties, LenProperties
<1>2. n \in 0..2 * Len(Append(s, f))
  BY <1>1
<1>3. /\ Whole(Append(s, f), n) \in Seq(Items) /\ Len(Whole(Append(s, f), n)) = n \div 2
      /\ \A i \in 1..(n \div 2) : Whole(Append(s, f), n)[i] = Append(s, f)[i]
  BY <1>1, <1>2, WholeParts
<1>4. /\ Whole(s, n) \in Seq(Items) /\ Len(Whole(s, n)) = n \div 2
      /\ n \div 2 \in 0..Len(s) /\ \A i \in 1..(n \div 2) : Whole(s, n)[i] = s[i]
  BY WholeParts
<1> QED BY <1>1, <1>3, <1>4, SeqEqual

\* tryParseClientSettings finds the first SETTINGS, in the client's direction.
LEMMA SettingsFound ==
  ASSUME NEW s \in Seq(Items)
  PROVE  /\ s = <<>> \/ s[1] # Preface => ClientSettings(s) = 0
         /\ Framed(s) =>
              \/ ClientSettings(s) = 0 /\ \A i \in 1..Len(s) : s[i].type # "SETTINGS"
              \/ /\ ClientSettings(s) \in 2..Len(s) /\ s[ClientSettings(s)].type = "SETTINGS"
                 /\ \A i \in 1..Len(s) : s[i].type = "SETTINGS" => ClientSettings(s) <= i
<1> DEFINE found == {i \in DOMAIN s : s[i].type = "SETTINGS"}
<1>1. DOMAIN s = 1..Len(s) /\ Len(s) \in Nat
  BY LenProperties
<1>2. s = <<>> \/ s[1] # Preface => ClientSettings(s) = 0
  BY DEF ClientSettings
<1>3. ASSUME Framed(s), found = {}
      PROVE  ClientSettings(s) = 0 /\ \A i \in 1..Len(s) : s[i].type # "SETTINGS"
  BY <1>1, <1>3 DEF ClientSettings
<1>4. ASSUME Framed(s), found # {}
      PROVE  /\ ClientSettings(s) \in 2..Len(s) /\ s[ClientSettings(s)].type = "SETTINGS"
             /\ \A i \in 1..Len(s) : s[i].type = "SETTINGS" => ClientSettings(s) <= i
  <2>1. s # <<>> /\ s[1] = Preface
    BY <1>4 DEF Framed
  <2>2. \E i \in found : \A j \in found : i <= j
    <3>1. found \in SUBSET Nat
      BY <1>1
    <3> HIDE DEF found
    <3> QED BY <1>4, <3>1, LeastNat
  <2>3. ClientSettings(s) = CHOOSE i \in found : \A j \in found : i <= j
    BY <1>4, <2>1 DEF ClientSettings
  <2>4. ClientSettings(s) \in found /\ \A j \in found : ClientSettings(s) <= j
    BY <2>2, <2>3
  <2>5. s[1].type # "SETTINGS"
    BY <2>1, FrameParts
  <2> QED BY <1>1, <2>4, <2>5
<1> QED BY <1>2, <1>3, <1>4

\* The SETTINGS found are found again when more has arrived.
LEMMA SettingsStay ==
  ASSUME NEW s \in Seq(Items), NEW t \in Seq(Items), Framed(s), Framed(t),
         Len(s) <= Len(t), \A i \in 1..Len(s) : t[i] = s[i], ClientSettings(s) # 0
  PROVE  ClientSettings(t) = ClientSettings(s)
<1> DEFINE a == ClientSettings(s)
           b == ClientSettings(t)
<1>1. Len(s) \in Nat /\ Len(t) \in Nat
  BY LenProperties
<1>2. /\ a \in 2..Len(s) /\ s[a].type = "SETTINGS"
      /\ \A i \in 1..Len(s) : s[i].type = "SETTINGS" => a <= i
  BY SettingsFound
<1>3. t[a].type = "SETTINGS" /\ a \in 1..Len(t)
  BY <1>1, <1>2
<1>4. /\ b \in 2..Len(t) /\ t[b].type = "SETTINGS"
      /\ \A i \in 1..Len(t) : t[i].type = "SETTINGS" => b <= i
  BY <1>3, SettingsFound
<1>5. b <= a
  BY <1>3, <1>4
<1>6. b \in 1..Len(s) /\ s[b].type = "SETTINGS"
  BY <1>1, <1>2, <1>4, <1>5
<1>7. a <= b
  BY <1>2, <1>6
<1> HIDE DEF a, b
<1>8. a = b
  BY <1>1, <1>2, <1>4, <1>5, <1>7
<1> QED BY <1>8 DEF a, b

\* The flight of a longer buffer is longer, and the same once it is over.
LEMMA KeptGrows ==
  ASSUME NEW s \in Seq(Items), NEW t \in Seq(Items), Framed(s), Framed(t),
         Len(s) <= Len(t), \A i \in 1..Len(s) : t[i] = s[i]
  PROVE  Kept(s) <= Kept(t) /\ ((\E j \in 2..Len(s) : Ends(s, j)) => Kept(t) = Kept(s))
<1> DEFINE a == Kept(s)
           b == Kept(t)
<1>1. Len(s) \in Nat /\ Len(t) \in Nat
  BY LenProperties
<1>2. Keeping(s, Len(s), a) /\ Keeping(t, Len(t), b)
  BY KeptItems DEF Items
<1> HIDE DEF a, b
<1>3. a \in 1..Len(s) /\ b \in 1..Len(t)
  BY <1>2 DEF Keeping
<1>4. \A j \in 2..Len(s) : (Ends(s, j) <=> Ends(t, j)) /\ (Cut(s, j) <=> Cut(t, j))
  <2> SUFFICES ASSUME NEW j \in 2..Len(s)
               PROVE  (Ends(s, j) <=> Ends(t, j)) /\ (Cut(s, j) <=> Cut(t, j))
    OBVIOUS
  <2>1. t[j] = s[j] /\ \A k \in 2..(j - 1) : t[k] = s[k]
    BY <1>1
  <2> QED BY <2>1 DEF Ends, Cut
<1>5. a <= b
  <2>1. CASE a = 1
    BY <1>1, <1>3, <2>1
  <2>2. CASE a > 1
    <3>1. a \in 2..Len(s) /\ Cut(t, a) /\ a \in 2..Len(t)
      BY <1>1, <1>2, <1>3, <1>4, <2>2 DEF Keeping
    <3>2. ASSUME NEW k \in 2..a PROVE ~Ends(t, k)
      <4>1. k \in 2..Len(s) /\ k <= a
        BY <1>1, <1>3
      <4>2. Ends(s, k) => a < k
        BY <1>2, <4>1 DEF Keeping
      <4> QED BY <1>3, <1>4, <4>1, <4>2
    <3> QED BY <1>2, <3>1, <3>2 DEF Keeping
  <2> QED BY <1>3, <2>1, <2>2
<1>6. ASSUME NEW j \in 2..Len(s), Ends(s, j)
      PROVE  b <= a
  <2>1. b < j /\ b \in 1..Len(s)
    BY <1>1, <1>2, <1>3, <1>4, <1>6 DEF Keeping
  <2>2. CASE b = 1
    BY <1>3, <2>2
  <2>3. CASE b > 1
    <3>1. b \in 2..Len(s) /\ Cut(s, b)
      BY <1>1, <1>2, <1>3, <1>4, <2>1, <2>3 DEF Keeping
    <3>2. ASSUME NEW k \in 2..b PROVE ~Ends(s, k)
      <4>1. k \in 2..Len(s) /\ k \in 2..Len(t) /\ k <= b
        BY <1>1, <2>1
      <4>2. Ends(t, k) => b < k
        BY <1>2, <4>1 DEF Keeping
      <4> QED BY <1>3, <1>4, <4>1, <4>2
    <3> QED BY <1>2, <3>1, <3>2 DEF Keeping
  <2> QED BY <1>3, <2>2, <2>3
<1>7. (\E j \in 2..Len(s) : Ends(s, j)) => b = a
  BY <1>1, <1>3, <1>5, <1>6
<1> QED BY <1>5, <1>7 DEF a, b

\* A flight with SETTINGS in it is cut after some frame: the case of the code
\* in which nothing is kept but the preface does not arise.
LEMMA SettingsKeep ==
  ASSUME NEW s \in Seq(Items), Framed(s), ClientSettings(s) # 0
  PROVE  Kept(s) \in 2..Len(s)
<1> DEFINE r == ClientSettings(s)
           Over == {k \in Nat : k \in 2..Len(s) /\ Ends(s, k)}
<1>1. Len(s) \in Nat /\ Keeping(s, Len(s), Kept(s)) /\ Kept(s) \in 1..Len(s)
  BY LenProperties, KeptItems DEF Items, Keeping
<1>2. r \in 2..Len(s) /\ s[r].type = "SETTINGS"
  BY SettingsFound
<1>3. \E j \in 2..Len(s) : Cut(s, j) /\ \A k \in 2..j : ~Ends(s, k)
  <2>1. CASE Over = {}
    <3>1. Cut(s, r) /\ \A k \in 2..r : k \in Nat /\ k \in 2..Len(s)
      BY <1>1, <1>2 DEF Cut
    <3> QED BY <1>2, <2>1, <3>1
  <2>2. CASE Over # {}
    <3>1. PICK m \in Over : \A k \in Over : m <= k
      <4>1. Over \in SUBSET Nat
        OBVIOUS
      <4> HIDE DEF Over
      <4> QED BY <2>2, <4>1, LeastNat
    <3>2. PICK j \in 2..(m - 1) : s[j].end
      BY <3>1 DEF Ends
    <3>3. j \in 2..Len(s) /\ j < m /\ m \in Nat
      BY <1>1, <3>1, <3>2
    <3>4. Cut(s, j)
      <4>1. s[j] \in Frames
        BY <3>3, FramedItems DEF Items
      <4>2. Header(s[j])
        BY <3>2, <4>1, FrameParts
      <4> QED BY <4>2 DEF Header, Cut
    <3>5. ASSUME NEW k \in 2..j PROVE ~Ends(s, k)
      <4>1. k \in Nat /\ k \in 2..Len(s) /\ ~(m <= k)
        BY <1>1, <3>3
      <4> QED BY <3>1, <4>1
    <3> QED BY <3>3, <3>4, <3>5
  <2> QED BY <2>1, <2>2
<1>4. PICK j \in 2..Len(s) : Cut(s, j) /\ \A k \in 2..j : ~Ends(s, k)
  BY <1>3
<1>5. j <= Kept(s)
  BY <1>1, <1>4 DEF Keeping
<1> QED BY <1>1, <1>5

\* So what is kept is a whole number of items.
LEMMA TruncateKept ==
  ASSUME NEW s \in Seq(Items), Framed(s), NEW n \in 0..2 * Len(s),
         ClientSettings(Whole(s, n)) # 0
  PROVE  /\ Framed(Whole(s, n)) /\ Kept(Whole(s, n)) \in 2..(n \div 2)
         /\ Truncate(s, n) = 2 * Kept(Whole(s, n))
<1>1. /\ Whole(s, n) \in Seq(Items) /\ Len(Whole(s, n)) = n \div 2
      /\ n \div 2 \in 0..Len(s) /\ Len(s) \in Nat
  BY WholeParts, LenProperties
<1>2. n \div 2 >= 1
  <2>1. Whole(s, n) # <<>>
    BY <1>1, SettingsFound
  <2>2. Len(Whole(s, n)) # 0
    BY <1>1, <2>1, EmptySeq
  <2> QED BY <1>1, <2>2
<1>3. Framed(Whole(s, n))
  BY <1>2, WholeFramed
<1>4. Kept(Whole(s, n)) \in 2..(n \div 2)
  BY <1>1, <1>3, SettingsKeep
<1>5. ~(n < 2) /\ Kept(Whole(s, n)) # 1
  BY <1>1, <1>2, <1>4
<1> QED BY <1>3, <1>4, <1>5 DEF Truncate

-----------------------------------------------------------------------------
(* The invariant                                                           *)

\* There are two directions.
LEMMA TwoDirections ==
  /\ ClientDir \in Dirs /\ Answers \in Dirs /\ Answers # ClientDir
  /\ \A d \in Dirs : d = ClientDir \/ d = Answers
BY ClientDirType DEF Dirs, Answers

\* What TypeOK says of the streams.
LEMMA StreamTypes ==
  ASSUME TypeOK, NEW d \in Dirs
  PROVE  /\ stream[d] \in Seq(Items) /\ got[d] \in 0..2 * Len(stream[d])
         /\ Len(stream[d]) \in Nat
BY LenProperties DEF TypeOK, Items

\* The preface, and nothing received.
LEMMA H2Init == Init => TypeOK /\ CaptureInv
<1> SUFFICES ASSUME Init PROVE TypeOK /\ CaptureInv
  OBVIOUS
<1>1. /\ <<>> \in Seq(Items) /\ <<Preface>> \in Seq(Items)
      /\ Len(<<Preface>>) = 1 /\ <<Preface>>[1] = Preface
  BY DEF Items
<1>2. stream[ClientDir] = <<Preface>> /\ stream[Answers] = <<>> /\ got[ClientDir] = 0
  BY TwoDirections DEF Init
<1>3. Framed(Client)
  <2>1. \A i : i \notin 2..1
    OBVIOUS
  <2>2. Client # <<>> /\ Client[1] = Preface /\ Len(Client) = 1
    BY <1>1, <1>2 DEF Client
  <2> QED BY <2>1, <2>2 DEF Framed
<1>4. Whole(Client, 0) = <<>>
  <2>1. Client \in Seq(Items) /\ 0 \in 0..2 * Len(Client) /\ 0 \div 2 = 0
    BY <1>1, <1>2 DEF Client
  <2>2. Whole(Client, 0) \in Seq(Items) /\ Len(Whole(Client, 0)) = 0
    BY <2>1, WholeParts
  <2> QED BY <2>2, EmptySeq
<1>5. ClientSettings(<<>>) = 0
  BY DEF ClientSettings
<1>6. \A d \in Dirs : Len(stream[d]) \in Nat
  BY <1>1, <1>2, TwoDirections
<1>7. TypeOK
  <2>1. stream \in [Dirs -> Seq(Items)]
    BY <1>1 DEF Init
  <2>2. got = [d \in Dirs |-> 0] /\ obs = 0 /\ rawFrom = "read" /\ raw = [dir |-> "read", len |-> 0]
    BY DEF Init
  <2>3. "read" \in Dirs
    BY DEF Dirs
  <2>4. obs \in 0..MaxItems /\ \A d \in Dirs : got[d] <= 2 * Len(stream[d])
    BY <1>6, <2>2, BoundsType
  <2>5. raw \in [dir : Dirs, len : Nat] /\ raw.len <= got[raw.dir]
    BY <2>2, <2>3
  <2> QED BY <2>1, <2>2, <2>3, <2>4, <2>5 DEF TypeOK, Items
<1>8. CaptureInv
  <2>1. obs = 0 /\ raw.len = 0
    BY DEF Init
  <2>2. Len(Client) <= MaxItems
    BY <1>1, <1>2, BoundsType DEF Client
  <2>3. \A i \in DOMAIN stream[Answers] : stream[Answers][i] = ServerSettings
    BY <1>2
  <2> QED BY <1>2, <1>3, <1>4, <1>5, <2>1, <2>2, <2>3 DEF CaptureInv
<1> QED BY <1>7, <1>8

\* A peer puts a frame on its direction: what was received stays as it is.
LEMMA PutStep ==
  ASSUME TypeOK, CaptureInv, NEW d \in Dirs, Put(d)
  PROVE  TypeOK' /\ CaptureInv'
<1>1. PICK f \in IF d = ClientDir THEN Frames ELSE {ServerSettings} :
        /\ (f.type = "CONTINUATION") = InBlock(stream[d])
        /\ stream' = [stream EXCEPT ![d] = Append(stream[d], f)]
  BY DEF Put
<1>2. /\ UNCHANGED <<got, obs, rawFrom, raw>>
      /\ Len(stream[d]) < (IF d = ClientDir THEN MaxItems ELSE MaxAnswer)
  BY DEF Put
<1>3. f \in Frames /\ f \in Items
  <2>1. ServerSettings \in Frames
    BY DEF Frames, ServerSettings
  <2> QED BY <1>1, <2>1 DEF Items
<1>4. /\ stream[d] \in Seq(Items) /\ stream \in [Dirs -> Seq(Items)]
      /\ Append(stream[d], f) \in Seq(Items) /\ Len(Append(stream[d], f)) = Len(stream[d]) + 1
      /\ Len(stream[d]) \in Nat
  <2>1. stream[d] \in Seq(Items) /\ stream \in [Dirs -> Seq(Items)] /\ Len(stream[d]) \in Nat
    BY StreamTypes DEF TypeOK, Items
  <2> QED BY <1>3, <2>1, AppendProperties
<1>5. /\ stream'[d] = Append(stream[d], f) /\ \A e \in Dirs : e # d => stream'[e] = stream[e]
      /\ stream' \in [Dirs -> Seq(Items)]
  BY <1>1, <1>4
<1>6. TypeOK'
  <2>1. ASSUME NEW e \in Dirs PROVE got'[e] <= 2 * Len(stream'[e])
    <3>1. got[e] \in 0..2 * Len(stream[e])
      BY StreamTypes
    <3>2. Len(stream'[e]) >= Len(stream[e]) /\ Len(stream[e]) \in Nat /\ Len(stream'[e]) \in Nat
      <4>1. Len(stream[e]) \in Nat
        BY StreamTypes
      <4>2. stream'[e] = stream[e] \/ (e = d /\ stream'[e] = Append(stream[d], f))
        BY <1>5
      <4>3. Len(stream'[e]) = Len(stream[e]) \/ Len(stream'[e]) = Len(stream[e]) + 1
        BY <1>4, <4>2
      <4> QED BY <4>1, <4>3
    <3> QED BY <1>2, <3>1, <3>2
  <2> QED BY <1>2, <1>5, <2>1 DEF TypeOK, Items
<1>7. CASE d = ClientDir
  <2>1. Framed(Client') /\ Len(Client') <= MaxItems
    BY <1>1, <1>2, <1>3, <1>4, <1>5, <1>7, AppendFramed, BoundsType DEF CaptureInv, Client
  <2>2. Whole(Client', got'[ClientDir]) = Whole(Client, got[ClientDir])
    BY <1>2, <1>3, <1>5, <1>7, AppendWhole, StreamTypes DEF Client
  <2>3. stream'[Answers] = stream[Answers]
    BY <1>5, <1>7, TwoDirections
  <2> QED BY <1>2, <1>6, <2>1, <2>2, <2>3 DEF CaptureInv
<1>8. CASE d = Answers
  <2>1. Client' = Client
    BY <1>5, <1>8, TwoDirections DEF Client
  <2>2. f = ServerSettings
    BY <1>1, <1>8, TwoDirections
  <2>3. \A i \in DOMAIN stream'[Answers] : stream'[Answers][i] = ServerSettings
    <3>1. /\ DOMAIN Append(stream[d], f) = 1..(Len(stream[d]) + 1)
          /\ DOMAIN stream[d] = 1..Len(stream[d])
          /\ Append(stream[d], f)[Len(stream[d]) + 1] = f
          /\ \A i \in 1..Len(stream[d]) : Append(stream[d], f)[i] = stream[d][i]
      BY <1>3, <1>4, AppendProperties, LenProperties
    <3>2. \A i \in DOMAIN stream[d] : stream[d][i] = ServerSettings
      BY <1>8 DEF CaptureInv
    <3> QED BY <1>4, <1>5, <1>8, <2>2, <3>1, <3>2
  <2> QED BY <1>2, <1>6, <2>1, <2>3 DEF CaptureInv
<1> QED BY <1>6, <1>7, <1>8, TwoDirections

\* What a Read or a Write of the other direction leaves alone: everything.
LEMMA AnswersCaptured ==
  ASSUME TypeOK, CaptureInv, Capture(Answers)
  PROVE  /\ UNCHANGED <<stream, obs, rawFrom, raw>> /\ got'[ClientDir] = got[ClientDir]
         /\ got' \in [Dirs -> Nat] /\ \A d \in Dirs : got'[d] \in got[d]..2 * Len(stream[d])
<1>1. /\ Answers \in Dirs /\ ClientDir # Answers
      /\ stream[Answers] \in Seq(Items) /\ Len(stream[Answers]) \in Nat
      /\ got[Answers] \in 0..2 * Len(stream[Answers])
  BY TwoDirections, StreamTypes
<1>2. PICK k \in 1..(2 * Len(stream[Answers]) - got[Answers]) :
        LET n     == got[Answers] + k
            found == IF obs = 0 THEN ClientSettings(Whole(stream[Answers], n)) ELSE obs
        IN /\ got' = [got EXCEPT ![Answers] = n]
           /\ obs' = found
           /\ rawFrom' = IF obs = 0 /\ found # 0 THEN Answers ELSE rawFrom
           /\ raw' = IF found # 0 /\ Refreshes(Answers, rawFrom')
                     THEN [dir |-> Answers, len |-> Truncate(stream[Answers], n)] ELSE raw
           /\ UNCHANGED stream
  BY DEF Capture
<1> DEFINE n == got[Answers] + k
<1>3. n \in 0..2 * Len(stream[Answers])
  BY <1>1
<1>4. ClientSettings(Whole(stream[Answers], n)) = 0
  <2> DEFINE w == Whole(stream[Answers], n)
  <2>1. /\ w \in Seq(Items) /\ Len(w) = n \div 2 /\ n \div 2 \in 0..Len(stream[Answers])
        /\ \A i \in 1..(n \div 2) : w[i] = stream[Answers][i]
    BY <1>1, <1>3, WholeParts
  <2>2. ASSUME w # <<>> PROVE w[1] # Preface
    <3>1. Len(w) # 0
      BY <2>1, <2>2, EmptySeq
    <3>2. 1 \in 1..(n \div 2) /\ 1 \in 1..Len(stream[Answers])
      BY <1>1, <2>1, <3>1
    <3>3. w[1] = ServerSettings
      BY <1>1, <2>1, <3>2, LenProperties DEF CaptureInv
    <3> QED BY <3>3 DEF ServerSettings, Preface
  <2> HIDE DEF w
  <2>3. ClientSettings(w) = 0
    BY <2>1, <2>2, SettingsFound
  <2> QED BY <2>3 DEF w
<1>5. obs' = obs /\ rawFrom' = rawFrom /\ stream' = stream
  BY <1>2, <1>4
<1>6. raw' = raw
  <2>1. obs # 0 => rawFrom = ClientDir
    BY DEF CaptureInv
  <2>2. raw' = IF obs' # 0 /\ Refreshes(Answers, rawFrom')
               THEN [dir |-> Answers, len |-> Truncate(stream[Answers], n)] ELSE raw
    BY <1>2
  <2> QED BY <1>1, <1>5, <2>1, <2>2 DEF Refreshes
<1>7. got' = [got EXCEPT ![Answers] = n]
  BY <1>2
<1>8. ASSUME NEW d \in Dirs PROVE got[d] \in Nat /\ got[d] <= 2 * Len(stream[d]) /\ Len(stream[d]) \in Nat
  BY StreamTypes
<1>9. got \in [Dirs -> Nat] /\ n \in Nat /\ n >= got[Answers]
  BY <1>1, <1>3 DEF TypeOK
<1> HIDE DEF n
<1>10. /\ got' \in [Dirs -> Nat] /\ got'[ClientDir] = got[ClientDir]
       /\ \A d \in Dirs : got'[d] \in got[d]..2 * Len(stream[d])
  BY <1>1, <1>3, <1>7, <1>8, <1>9
<1> QED BY <1>5, <1>6, <1>10

\* A Read or a Write of the client's direction: the SETTINGS may be found now,
\* and from then on the flight is cut from all that was received.
LEMMA ClientCaptured ==
  ASSUME TypeOK, CaptureInv, Capture(ClientDir)
  PROVE  /\ stream' = stream /\ got' \in [Dirs -> Nat] /\ got'[Answers] = got[Answers]
         /\ got'[ClientDir] \in got[ClientDir]..2 * Len(Client)
         /\ obs' = ClientSettings(Whole(Client, got'[ClientDir]))
         /\ IF obs' = 0 THEN UNCHANGED <<rawFrom, raw>>
            ELSE /\ rawFrom' = ClientDir
                 /\ raw' = [dir |-> ClientDir, len |-> 2 * Kept(Whole(Client, got'[ClientDir]))]
                 /\ Kept(Whole(Client, got'[ClientDir])) \in 2..(got'[ClientDir] \div 2)
<1>1. /\ ClientDir \in Dirs /\ Answers \in Dirs /\ Answers # ClientDir
      /\ Client \in Seq(Items) /\ Len(Client) \in Nat /\ got[ClientDir] \in 0..2 * Len(Client)
      /\ got \in [Dirs -> Nat] /\ Framed(Client)
  BY TwoDirections, StreamTypes DEF Client, TypeOK, CaptureInv
<1>2. PICK k \in 1..(2 * Len(Client) - got[ClientDir]) :
        LET n     == got[ClientDir] + k
            found == IF obs = 0 THEN ClientSettings(Whole(Client, n)) ELSE obs
        IN /\ got' = [got EXCEPT ![ClientDir] = n]
           /\ obs' = found
           /\ rawFrom' = IF obs = 0 /\ found # 0 THEN ClientDir ELSE rawFrom
           /\ raw' = IF found # 0 /\ Refreshes(ClientDir, rawFrom')
                     THEN [dir |-> ClientDir, len |-> Truncate(Client, n)] ELSE raw
           /\ UNCHANGED stream
  BY DEF Capture, Client
<1> DEFINE n == got[ClientDir] + k
           old == Whole(Client, got[ClientDir])
           new == Whole(Client, n)
<1>3. n \in 0..2 * Len(Client) /\ n \in Nat /\ got[ClientDir] <= n
  BY <1>1
<1>4. /\ stream' = stream /\ got' = [got EXCEPT ![ClientDir] = n]
      /\ obs' = IF obs = 0 THEN ClientSettings(new) ELSE obs
      /\ rawFrom' = IF obs = 0 /\ obs' # 0 THEN ClientDir ELSE rawFrom
      /\ raw' = IF obs' # 0 /\ rawFrom' = ClientDir
                THEN [dir |-> ClientDir, len |-> Truncate(Client, n)] ELSE raw
  BY <1>2, Zenon DEF Refreshes
<1>5. obs # 0 => ClientSettings(new) = obs
  <2> SUFFICES ASSUME obs # 0 PROVE ClientSettings(new) = obs
    OBVIOUS
  <2>1. ClientSettings(old) = obs
    BY DEF CaptureInv
  <2>2. Framed(old)
    BY <1>1, <2>1, TruncateKept
  <2>3. /\ old \in Seq(Items) /\ Len(old) = got[ClientDir] \div 2
        /\ \A i \in 1..(got[ClientDir] \div 2) : old[i] = Client[i]
        /\ new \in Seq(Items) /\ Len(new) = n \div 2
        /\ \A i \in 1..(n \div 2) : new[i] = Client[i]
    BY <1>1, <1>3, WholeParts
  <2>4. got[ClientDir] \div 2 <= n \div 2 /\ got[ClientDir] \div 2 \in Nat /\ n \div 2 \in Nat
    BY <1>1, <1>3
  <2>5. n \div 2 >= 1
    <3>1. old # <<>>
      BY <2>2 DEF Framed
    <3>2. Len(old) # 0
      BY <2>3, <3>1, EmptySeq
    <3> HIDE DEF n, old
    <3> QED BY <2>3, <2>4, <3>2
  <2>6. Framed(new)
    BY <1>1, <1>3, <2>5, WholeFramed
  <2> HIDE DEF n, old, new
  <2>7. Len(old) <= Len(new) /\ \A i \in 1..Len(old) : new[i] = old[i]
    BY <2>3, <2>4
  <2> QED BY <2>1, <2>2, <2>3, <2>6, <2>7, SettingsStay
<1>6. obs' = ClientSettings(new)
  BY <1>4, <1>5
<1>7. got'[ClientDir] = n /\ got' \in [Dirs -> Nat] /\ got'[Answers] = got[Answers]
  <2> HIDE DEF n
  <2> QED BY <1>1, <1>3, <1>4
<1>8. obs # 0 => rawFrom = ClientDir
  BY DEF CaptureInv
<1>9. obs' # 0 => rawFrom' = ClientDir
  BY <1>4, <1>8
<1>10. obs' # 0 => Kept(new) \in 2..(n \div 2) /\ Truncate(Client, n) = 2 * Kept(new)
  BY <1>1, <1>3, <1>6, TruncateKept
<1>11. obs' = 0 => rawFrom' = rawFrom /\ raw' = raw
  BY <1>4
<1>12. obs' # 0 => raw' = [dir |-> ClientDir, len |-> 2 * Kept(new)]
  BY <1>4, <1>9, <1>10
<1>13. n \in got[ClientDir]..2 * Len(Client)
  BY <1>1, <1>3
<1> HIDE DEF n
<1> QED BY <1>4, <1>6, <1>7, <1>9, <1>10, <1>11, <1>12, <1>13

\* Every Read and Write keeps the invariant.
LEMMA CaptureStep ==
  ASSUME TypeOK, CaptureInv, NEW d \in Dirs, Capture(d)
  PROVE  TypeOK' /\ CaptureInv'
<1>1. \A e \in Dirs : /\ got[e] \in Nat /\ got[e] <= 2 * Len(stream[e]) /\ Len(stream[e]) \in Nat
  BY StreamTypes
<1>2. /\ ClientDir \in Dirs /\ Answers \in Dirs /\ Answers # ClientDir
      /\ \A e \in Dirs : e = ClientDir \/ e = Answers
  BY TwoDirections
<1>3. CASE d = Answers
  <2>1. /\ UNCHANGED <<stream, obs, rawFrom, raw>> /\ got'[ClientDir] = got[ClientDir]
        /\ got' \in [Dirs -> Nat] /\ \A e \in Dirs : got'[e] \in got[e]..2 * Len(stream[e])
    BY <1>3, AnswersCaptured
  <2>2. CaptureInv'
    BY <2>1 DEF CaptureInv, Client
  <2>3. raw'.len <= got'[raw'.dir]
    <3>1. raw \in [dir : Dirs, len : Nat] /\ raw.len <= got[raw.dir]
      BY DEF TypeOK
    <3>2. raw.dir \in Dirs /\ raw.len \in Nat
      BY <3>1
    <3> QED BY <1>1, <2>1, <3>1, <3>2
  <2>4. \A e \in Dirs : got'[e] <= 2 * Len(stream'[e])
    BY <1>1, <2>1
  <2> QED BY <2>1, <2>2, <2>3, <2>4 DEF TypeOK
<1>4. CASE d = ClientDir
  <2> DEFINE n == got'[ClientDir]
             new == Whole(Client, n)
  <2>1. /\ stream' = stream /\ got' \in [Dirs -> Nat] /\ got'[Answers] = got[Answers]
        /\ n \in got[ClientDir]..2 * Len(Client)
        /\ obs' = ClientSettings(new)
        /\ IF obs' = 0 THEN UNCHANGED <<rawFrom, raw>>
           ELSE /\ rawFrom' = ClientDir /\ raw' = [dir |-> ClientDir, len |-> 2 * Kept(new)]
                /\ Kept(new) \in 2..(n \div 2)
    BY <1>4, ClientCaptured
  <2>2. Client' = Client
    BY <2>1 DEF Client
  <2>3. obs' = 0 => obs = 0
    <3>1. CASE obs = 0
      BY <3>1
    <3>2. CASE obs # 0
      BY <1>4, <3>2 DEF Capture
    <3> QED BY <3>1, <3>2
  <2>4. CaptureInv'
    BY <2>1, <2>2, <2>3 DEF CaptureInv
  <2>5. /\ Len(Client) \in Nat /\ Client \in Seq(Items) /\ Len(Client) <= MaxItems
        /\ got[ClientDir] \in Nat /\ Framed(Client) /\ n \in Nat /\ n <= 2 * Len(Client)
        /\ n >= got[ClientDir]
    BY <1>1, <1>2, <2>1, StreamTypes DEF Client, CaptureInv
  <2>6. obs' \in 0..MaxItems
    <3>1. CASE obs' = 0
      BY <3>1, BoundsType
    <3>2. CASE obs' # 0
      <4>1. n \in 0..2 * Len(Client)
        BY <2>5
      <4>2. /\ new \in Seq(Items) /\ Len(new) = n \div 2 /\ n \div 2 \in 0..Len(Client)
            /\ Framed(new)
        BY <2>1, <2>5, <3>2, <4>1, WholeParts, TruncateKept
      <4>3. obs' \in 2..Len(new)
        <5> HIDE DEF new
        <5> QED BY <2>1, <3>2, <4>2, SettingsFound
      <4> HIDE DEF n, new
      <4> QED BY <2>5, <4>2, <4>3, BoundsType
    <3> QED BY <3>1, <3>2
  <2>7. rawFrom' \in Dirs /\ raw' \in [dir : Dirs, len : Nat] /\ raw'.len <= got'[raw'.dir]
    <3>1. CASE obs' = 0
      <4>1. rawFrom \in Dirs /\ raw \in [dir : Dirs, len : Nat] /\ raw.len <= got[raw.dir]
        BY DEF TypeOK
      <4>2. raw' = raw /\ rawFrom' = rawFrom /\ raw.dir \in Dirs /\ raw.len \in Nat
        BY <2>1, <3>1, <4>1
      <4>3. got[raw.dir] <= got'[raw.dir] /\ got'[raw.dir] \in Nat
        <5>1. CASE raw.dir = ClientDir
          BY <2>5, <5>1
        <5>2. CASE raw.dir = Answers
          BY <1>1, <1>2, <2>1, <5>2
        <5> QED BY <1>2, <4>2, <5>1, <5>2
      <4> QED BY <1>1, <4>1, <4>2, <4>3
    <3>2. CASE obs' # 0
      <4>1. rawFrom' = ClientDir /\ raw' = [dir |-> ClientDir, len |-> 2 * Kept(new)]
            /\ Kept(new) \in 2..(n \div 2)
        BY <2>1, <3>2
      <4>2. 2 * Kept(new) \in Nat /\ 2 * Kept(new) <= n
        <5> HIDE DEF n, new
        <5> QED BY <2>5, <4>1
      <4> HIDE DEF new
      <4>3. raw'.dir = ClientDir /\ raw'.len = 2 * Kept(new)
        BY <4>1
      <4> QED BY <1>2, <4>1, <4>2, <4>3
    <3> QED BY <3>1, <3>2
  <2>8. \A e \in Dirs : got'[e] <= 2 * Len(stream'[e])
    BY <1>1, <1>2, <2>1, <2>5 DEF Client
  <2>9. stream' \in [Dirs -> Seq(Frames \cup {Preface})]
    BY <2>1 DEF TypeOK
  <2> QED BY <2>1, <2>4, <2>6, <2>7, <2>8, <2>9 DEF TypeOK
<1> QED BY <1>2, <1>3, <1>4

\* Every step keeps the types and the invariant.
LEMMA H2Step == TypeOK /\ CaptureInv /\ [Next]_vars => TypeOK' /\ CaptureInv'
<1>1. TypeOK /\ CaptureInv /\ UNCHANGED vars => TypeOK' /\ CaptureInv'
  BY DEF TypeOK, CaptureInv, vars, Client
<1> QED BY <1>1, PutStep, CaptureStep DEF Next

\* The types and the invariant hold at all times.
LEMMA H2Invariant == Spec => [](TypeOK /\ CaptureInv)
BY H2Init, H2Step, PTL DEF Spec

\* Every variable keeps its type: what is kept is a part of what was received.
THEOREM H2TypeCorrect == Spec => []TypeOK
BY H2Invariant, PTL

-----------------------------------------------------------------------------
(* The properties                                                          *)

\* What the flight is, when there is one.
LEMMA FlightFacts ==
  ASSUME TypeOK, CaptureInv, obs # 0
  PROVE  LET n == got[ClientDir] \div 2
             w == Whole(Client, got[ClientDir])
         IN /\ n \in 1..Len(Client) /\ Len(Client) \in Nat
            /\ w \in Seq(Items) /\ Framed(w) /\ Len(w) = n /\ \A i \in 1..n : w[i] = Client[i]
            /\ obs = ClientSettings(w) /\ obs \in 2..n /\ w[obs].type = "SETTINGS"
            /\ Kept(w) \in 2..n /\ Keeping(w, n, Kept(w))
            /\ raw = [dir |-> ClientDir, len |-> 2 * Kept(w)]
<1> DEFINE n == got[ClientDir] \div 2
           w == Whole(Client, got[ClientDir])
<1>1. /\ Client \in Seq(Items) /\ Len(Client) \in Nat /\ got[ClientDir] \in 0..2 * Len(Client)
      /\ Framed(Client)
  BY TwoDirections, StreamTypes DEF Client, CaptureInv
<1>2. obs = ClientSettings(w) /\ raw = [dir |-> ClientDir, len |-> 2 * Kept(w)]
  BY DEF CaptureInv
<1>3. /\ w \in Seq(Items) /\ Len(w) = n /\ n \in 0..Len(Client) /\ \A i \in 1..n : w[i] = Client[i]
  BY <1>1, WholeParts
<1>4. Framed(w) /\ Kept(w) \in 2..n
  BY <1>1, <1>2, TruncateKept
<1> HIDE DEF n, w
<1>5. obs \in 2..n /\ w[obs].type = "SETTINGS"
  BY <1>2, <1>3, <1>4, SettingsFound
<1>6. Keeping(w, n, Kept(w))
  BY <1>3, <1>4, KeptItems DEF Items
<1>7. n \in 1..Len(Client)
  BY <1>1, <1>3, <1>5
<1> QED BY <1>1, <1>2, <1>3, <1>4, <1>5, <1>6, <1>7 DEF n, w

\* The flight kept is the client's and ends at the end of a frame, wherever
\* Reads and Writes cut the streams, and if the other side speaks first.
THEOREM FlightIsClientsHolds == Spec => []FlightIsClients
<1>1. ASSUME TypeOK, CaptureInv PROVE FlightIsClients
  <2>1. CASE obs = 0
    BY <1>1, <2>1 DEF CaptureInv, FlightIsClients
  <2>2. CASE obs # 0
    <3>1. PICK k \in Nat : raw = [dir |-> ClientDir, len |-> 2 * k]
      BY <1>1, <2>2, FlightFacts
    <3>2. raw.dir = ClientDir /\ raw.len = 2 * k /\ (2 * k) % 2 = 0
      BY <3>1
    <3> QED BY <2>2, <3>2 DEF FlightIsClients
  <2> QED BY <2>1, <2>2
<1> QED BY <1>1, H2Invariant, PTL

\* A CONTINUATION follows a HEADERS.
LEMMA HeadersFirst ==
  ASSUME NEW s \in Seq(Items), Framed(s), NEW i \in 2..Len(s), s[i].type = "CONTINUATION"
  PROVE  \E h \in 2..(i - 1) : s[h].type = "HEADERS"
<1> DEFINE More == {k \in Nat : k \in 2..i /\ s[k].type = "CONTINUATION"}
<1>1. /\ Len(s) \in Nat /\ s[1] = Preface
      /\ \A k \in 2..Len(s) : (s[k].type = "CONTINUATION") = (Header(s[k - 1]) /\ ~s[k - 1].end)
  BY FramedItems DEF Items
<1>2. PICK m \in More : \A k \in More : m <= k
  <2>1. More \in SUBSET Nat /\ i \in More
    BY <1>1
  <2> HIDE DEF More
  <2> QED BY <2>1, LeastNat
<1>3. Header(s[m - 1]) /\ m - 1 \in 1..(i - 1) /\ m - 1 \notin More
  BY <1>1, <1>2
<1>4. m - 1 # 1
  BY <1>1, <1>3, FrameParts DEF Header
<1>5. m - 1 \in 2..(i - 1) /\ s[m - 1].type # "CONTINUATION"
  BY <1>1, <1>3, <1>4
<1> QED BY <1>3, <1>5 DEF Header

\* All that the flight could hold is in it, if it starts with SETTINGS: before
\* a PRIORITY_UPDATE or WINDOW_UPDATE there are SETTINGS or headers, or after it.
LEMMA KeptHoldsAll ==
  ASSUME NEW s \in Seq(Items), Framed(s), NEW r \in 2..Len(s), s[r].type = "SETTINGS",
         NEW i \in 2..Len(s), s[i].type # "PING", \A k \in 2..i : ~Ends(s, k)
  PROVE  i <= Kept(s)
<1> DEFINE Over == {k \in Nat : k \in 2..Len(s) /\ Ends(s, k)}
<1>1. Len(s) \in Nat /\ Keeping(s, Len(s), Kept(s)) /\ Kept(s) \in 1..Len(s)
  BY LenProperties, KeptItems DEF Items, Keeping
<1>2. \A j \in 2..Len(s) : s[j] \in Frames
  BY FramedItems DEF Items
<1>3. CASE Cut(s, i)
  BY <1>1, <1>3 DEF Keeping
<1>4. CASE ~Cut(s, i)
  <2>1. s[i].type = "CONTROL" /\ \A k \in 2..(i - 1) : ~Settled(s[k])
    BY <1>2, <1>4, FrameParts DEF Cut
  <2>2. \E j \in 2..Len(s) : i <= j /\ Cut(s, j) /\ \A k \in 2..j : ~Ends(s, k)
    <3>1. CASE Over = {}
      <4>1. ~(r <= i - 1) /\ Cut(s, r)
        BY <2>1 DEF Settled, Cut
      <4>2. i <= r
        BY <4>1
      <4>3. \A k \in 2..r : k \in Nat /\ k \in 2..Len(s)
        BY <1>1
      <4>4. \A k \in 2..r : ~Ends(s, k)
        BY <3>1, <4>3
      <4> QED BY <4>1, <4>2, <4>4
    <3>2. CASE Over # {}
      <4>1. PICK m \in Over : \A k \in Over : m <= k
        <5>1. Over \in SUBSET Nat
          OBVIOUS
        <5> HIDE DEF Over
        <5> QED BY <3>2, <5>1, LeastNat
      <4>2. PICK j \in 2..(m - 1) : s[j].end
        BY <4>1 DEF Ends
      <4>3. j \in 2..Len(s) /\ j < m /\ m \in Nat /\ Header(s[j])
        <5>1. j \in 2..Len(s) /\ j < m /\ m \in Nat
          BY <1>1, <4>1, <4>2
        <5> QED BY <1>2, <4>2, <5>1, FrameParts
      <4>4. ~(j < i)
        <5>1. CASE s[j].type = "HEADERS"
          BY <2>1, <4>3, <5>1 DEF Settled
        <5>2. CASE s[j].type = "CONTINUATION"
          <6>1. PICK h \in 2..(j - 1) : s[h].type = "HEADERS"
            BY <4>3, <5>2, HeadersFirst
          <6> QED BY <2>1, <4>3, <6>1 DEF Settled
        <5> QED BY <4>3, <5>1, <5>2 DEF Header
      <4>5. i <= j
        BY <4>3, <4>4
      <4>6. Cut(s, j)
        BY <4>3 DEF Header, Cut
      <4>7. ASSUME NEW k \in 2..j PROVE ~Ends(s, k)
        <5>1. k \in Nat /\ k \in 2..Len(s) /\ ~(m <= k)
          BY <1>1, <4>3
        <5> QED BY <4>1, <5>1
      <4> QED BY <4>3, <4>5, <4>6, <4>7
    <3> QED BY <3>1, <3>2
  <2>3. PICK j \in 2..Len(s) : i <= j /\ Cut(s, j) /\ \A k \in 2..j : ~Ends(s, k)
    BY <2>2
  <2>4. j <= Kept(s)
    BY <1>1, <2>3 DEF Keeping
  <2> QED BY <1>1, <2>3, <2>4
<1> QED BY <1>3, <1>4

\* The flight is over in the buffer where it is over in the stream.
LEMMA StopsAre ==
  ASSUME NEW n \in Nat, n = got[ClientDir] \div 2, NEW w, \A i \in 1..n : w[i] = Client[i]
  PROVE  Stops = {i \in 2..n : Ends(w, i)}
<1>1. ASSUME NEW i \in 2..n PROVE i \in Stops <=> Ends(w, i)
  <2>1. w[i] = Client[i] /\ \A k \in 2..(i - 1) : w[k] = Client[k] /\ k \in 2..n
    OBVIOUS
  <2>2. (\E j \in BlockEnds : j < i) <=> \E k \in 2..(i - 1) : w[k].end
    <3>1. ASSUME NEW j \in BlockEnds, j < i PROVE \E k \in 2..(i - 1) : w[k].end
      <4>1. j \in 2..n /\ Client[j].end
        BY DEF BlockEnds
      <4>2. j \in 2..(i - 1)
        BY <3>1, <4>1
      <4> QED BY <2>1, <4>1, <4>2
    <3>2. ASSUME NEW k \in 2..(i - 1), w[k].end PROVE k \in BlockEnds /\ k < i
      BY <2>1, <3>2 DEF BlockEnds
    <3> QED BY <3>1, <3>2
  <2> QED BY <2>1, <2>2 DEF Stops, Ends
<1>2. \A i \in Stops : i \in 2..n
  BY DEF Stops
<1> QED BY <1>1, <1>2

\* The flight holds all that came before the first body or the next request,
\* but for a PING at its end, for streams of any length in any pieces.
THEOREM FlightIsCompleteHolds == Spec => []FlightIsComplete
<1>1. ASSUME TypeOK, CaptureInv, obs # 0 PROVE FlightIsComplete
  <2> DEFINE n == got[ClientDir] \div 2
             w == Whole(Client, got[ClientDir])
  <2>1. /\ n \in Nat /\ w \in Seq(Items) /\ Framed(w) /\ Len(w) = n
        /\ \A i \in 1..n : w[i] = Client[i]
        /\ obs \in 2..n /\ w[obs].type = "SETTINGS"
        /\ Kept(w) \in 2..n /\ Keeping(w, n, Kept(w)) /\ raw.len \div 2 = Kept(w)
    <3>1. /\ n \in 1..Len(Client) /\ Len(Client) \in Nat
          /\ w \in Seq(Items) /\ Framed(w) /\ Len(w) = n /\ \A i \in 1..n : w[i] = Client[i]
          /\ obs \in 2..n /\ w[obs].type = "SETTINGS"
          /\ Kept(w) \in 2..n /\ Keeping(w, n, Kept(w))
          /\ raw = [dir |-> ClientDir, len |-> 2 * Kept(w)]
      BY <1>1, FlightFacts
    <3> HIDE DEF n, w
    <3>2. n \in Nat /\ raw.len = 2 * Kept(w) /\ Kept(w) \in Nat
      BY <3>1
    <3>3. (2 * Kept(w)) \div 2 = Kept(w)
      BY <3>2
    <3> QED BY <3>1, <3>2, <3>3
  <2>2. Stops = {i \in 2..n : Ends(w, i)}
    BY <2>1, StopsAre
  <2>3. InFlight = {i \in 2..n : \A j \in Stops : i < j}
    BY DEF InFlight
  <2> HIDE DEF n, w
  <2>4. ASSUME NEW i \in InFlight, Client[i].type # "PING" PROVE i <= Kept(w)
    <3>1. i \in 2..n /\ \A j \in 2..n : Ends(w, j) => i < j
      BY <2>2, <2>3
    <3>2. \A k \in 2..i : ~Ends(w, k)
      BY <2>1, <3>1
    <3>3. w[i].type # "PING"
      BY <2>1, <2>4, <3>1
    <3> QED BY <2>1, <3>1, <3>2, <3>3, KeptHoldsAll
  <2>5. \A i \in Stops : Kept(w) < i
    BY <2>1, <2>2 DEF Keeping
  <2>6. Client[Kept(w)].type # "PING"
    <3>1. Cut(w, Kept(w)) /\ w[Kept(w)] = Client[Kept(w)]
      BY <2>1 DEF Keeping
    <3> QED BY <3>1 DEF Cut
  <2> QED BY <2>1, <2>4, <2>5, <2>6 DEF FlightIsComplete
<1>2. TypeOK /\ CaptureInv => FlightIsComplete
  BY <1>1 DEF FlightIsComplete
<1> QED BY <1>2, H2Invariant, PTL

\* No flight holds the headers of two requests.
THEOREM OneHeaderBlockHolds == Spec => []OneHeaderBlock
<1> DEFINE Headers == {i \in 2..(raw.len \div 2) :
                         raw.dir = ClientDir /\ Client[i].type = "HEADERS"}
<1>1. ASSUME TypeOK, CaptureInv
      PROVE  \A i, j \in Headers : i = j
  <2>1. CASE obs = 0
    <3>1. raw.len = 0 /\ 0 \div 2 = 0
      BY <1>1, <2>1 DEF CaptureInv
    <3>2. Headers = {}
      BY <3>1
    <3> QED BY <3>2
  <2>2. CASE obs # 0
    <3> DEFINE n == got[ClientDir] \div 2
               w == Whole(Client, got[ClientDir])
    <3>1. /\ n \in 1..Len(Client) /\ Len(Client) \in Nat
          /\ \A i \in 1..n : w[i] = Client[i]
          /\ Kept(w) \in 2..n /\ Keeping(w, n, Kept(w))
          /\ raw = [dir |-> ClientDir, len |-> 2 * Kept(w)]
      BY <1>1, <2>2, FlightFacts
    <3> HIDE DEF n, w
    <3>2. raw.len \div 2 = Kept(w)
      <4>1. raw.len = 2 * Kept(w) /\ Kept(w) \in Nat
        BY <3>1
      <4>2. (2 * Kept(w)) \div 2 = Kept(w)
        BY <4>1
      <4> QED BY <4>1, <4>2
    <3>3. \A i \in Headers : i \in 2..Kept(w) /\ w[i].type = "HEADERS"
      BY <3>1, <3>2
    <3> QED BY <3>1, <3>3 DEF Keeping
  <2> QED BY <2>1, <2>2
<1>2. ASSUME \A i, j \in Headers : i = j PROVE Cardinality(Headers) <= 1
  <2>1. CASE Headers = {}
    BY <2>1, FS_EmptySet
  <2>2. CASE Headers # {}
    <3>1. PICK i \in Headers : TRUE
      BY <2>2
    <3> HIDE DEF Headers
    <3>2. Headers = {i}
      BY <1>2, <3>1
    <3> QED BY <3>2, FS_Singleton
  <2> QED BY <2>1, <2>2
<1>3. TypeOK /\ CaptureInv => OneHeaderBlock
  BY <1>1, <1>2 DEF OneHeaderBlock
<1> QED BY <1>3, H2Invariant, PTL

\* Every step leaves what was received, and the SETTINGS found, as they are.
LEMMA StepsExtend ==
  ASSUME TypeOK, CaptureInv, Next
  PROVE  /\ Len(Client) <= Len(Client') /\ \A i \in 1..Len(Client) : Client'[i] = Client[i]
         /\ got[ClientDir] <= got'[ClientDir] /\ (obs # 0 => obs' = obs)
<1>1. /\ Client \in Seq(Items) /\ Len(Client) \in Nat /\ got[ClientDir] \in Nat
      /\ ClientDir \in Dirs
  BY TwoDirections, StreamTypes DEF Client, TypeOK
<1>2. ASSUME NEW d \in Dirs, Put(d)
      PROVE  /\ Len(Client) <= Len(Client') /\ \A i \in 1..Len(Client) : Client'[i] = Client[i]
             /\ got' = got /\ obs' = obs
  <2>1. PICK f \in IF d = ClientDir THEN Frames ELSE {ServerSettings} :
          stream' = [stream EXCEPT ![d] = Append(stream[d], f)]
    BY <1>2 DEF Put
  <2>2. got' = got /\ obs' = obs
    BY <1>2 DEF Put
  <2>3. CASE d = ClientDir
    <3>1. f \in Items
      BY <2>1, <2>3 DEF Items
    <3>2. Client' = Append(Client, f)
      BY <1>1, <2>1, <2>3 DEF Client, TypeOK
    <3>3. Len(Append(Client, f)) = Len(Client) + 1 /\ \A i \in 1..Len(Client) : Append(Client, f)[i] = Client[i]
      BY <1>1, <3>1, AppendProperties
    <3> QED BY <1>1, <2>2, <3>2, <3>3
  <2>4. CASE d # ClientDir
    <3>1. Client' = Client
      BY <1>1, <2>1, <2>4 DEF Client, TypeOK
    <3> QED BY <1>1, <2>2, <3>1
  <2> QED BY <2>3, <2>4
<1>3. ASSUME NEW d \in Dirs, Capture(d)
      PROVE  Client' = Client /\ got[ClientDir] <= got'[ClientDir] /\ (obs # 0 => obs' = obs)
  <2>1. CASE d = ClientDir
    <3>1. stream' = stream /\ got'[ClientDir] \in got[ClientDir]..2 * Len(Client)
      BY <1>3, <2>1, ClientCaptured
    <3>2. obs # 0 => obs' = obs
      BY <1>3 DEF Capture
    <3> QED BY <1>1, <3>1, <3>2 DEF Client
  <2>2. CASE d = Answers
    BY <1>1, <1>3, <2>2, AnswersCaptured DEF Client
  <2> QED BY <2>1, <2>2, TwoDirections
<1>4. ASSUME NEW d \in Dirs, Put(d)
      PROVE  /\ Len(Client) <= Len(Client') /\ \A i \in 1..Len(Client) : Client'[i] = Client[i]
             /\ got[ClientDir] <= got'[ClientDir] /\ (obs # 0 => obs' = obs)
  BY <1>1, <1>2, <1>4
<1>5. ASSUME NEW d \in Dirs, Capture(d)
      PROVE  /\ Len(Client) <= Len(Client') /\ \A i \in 1..Len(Client) : Client'[i] = Client[i]
             /\ got[ClientDir] <= got'[ClientDir] /\ (obs # 0 => obs' = obs)
  BY <1>1, <1>3, <1>5
<1> QED BY <1>4, <1>5 DEF Next

\* The flight only grows, and once it is over it does not change, whatever
\* arrives afterwards on either direction; the observation never changes.
THEOREM FlightOnlyGrowsHolds == Spec => FlightOnlyGrows
<1> DEFINE n == got[ClientDir] \div 2
           w == Whole(Client, got[ClientDir])
           Grows == /\ raw.len > 0 => raw'.dir = raw.dir
                    /\ raw'.len >= raw.len
                    /\ obs # 0 => obs' = obs
                    /\ raw.len > 0 /\ Stops # {} => raw' = raw
<1>1. ASSUME TypeOK, CaptureInv, TypeOK', CaptureInv', Next PROVE Grows
  <2>1. CASE obs = 0
    <3>1. raw.len = 0 /\ raw'.len \in Nat
      BY <1>1, <2>1 DEF CaptureInv, TypeOK
    <3> QED BY <2>1, <3>1
  <2>2. CASE obs # 0
    <3>1. /\ Len(Client) <= Len(Client') /\ \A i \in 1..Len(Client) : Client'[i] = Client[i]
          /\ got[ClientDir] <= got'[ClientDir] /\ obs' = obs
          /\ got[ClientDir] \in Nat /\ got'[ClientDir] \in Nat
      BY <1>1, <2>2, StepsExtend, TwoDirections DEF TypeOK
    <3>2. /\ n \in 1..Len(Client) /\ Len(Client) \in Nat
          /\ w \in Seq(Items) /\ Framed(w) /\ Len(w) = n /\ \A i \in 1..n : w[i] = Client[i]
          /\ Kept(w) \in 2..n /\ raw = [dir |-> ClientDir, len |-> 2 * Kept(w)]
      BY <1>1, <2>2, FlightFacts
    <3>3. /\ n' \in 1..Len(Client') /\ Len(Client') \in Nat
          /\ w' \in Seq(Items) /\ Framed(w') /\ Len(w') = n' /\ \A i \in 1..n' : w'[i] = Client'[i]
          /\ Kept(w') \in 2..n' /\ raw' = [dir |-> ClientDir, len |-> 2 * Kept(w')]
      <4>1. CaptureInv' /\ obs' # 0
        BY <1>1, <2>2, <3>1
      <4>2. /\ Client' \in Seq(Items) /\ Len(Client') \in Nat /\ got'[ClientDir] \in 0..2 * Len(Client')
            /\ Framed(Client')
        <5>1. stream' \in [Dirs -> Seq(Items)] /\ got'[ClientDir] <= 2 * Len(stream'[ClientDir])
          BY <1>1, TwoDirections DEF TypeOK, Items
        <5>2. stream'[ClientDir] \in Seq(Items) /\ Len(stream'[ClientDir]) \in Nat
          BY <5>1, TwoDirections, LenProperties
        <5>3. Framed(stream'[ClientDir])
          BY <1>1 DEF CaptureInv, Client
        <5> QED BY <3>1, <5>1, <5>2, <5>3 DEF Client
      <4>3. obs' = ClientSettings(w') /\ raw' = [dir |-> ClientDir, len |-> 2 * Kept(w')]
        BY <4>1 DEF CaptureInv
      <4>4. /\ w' \in Seq(Items) /\ Len(w') = n' /\ n' \in 0..Len(Client')
            /\ \A i \in 1..n' : w'[i] = Client'[i]
        BY <4>2, WholeParts
      <4>5. Framed(w') /\ Kept(w') \in 2..n'
        BY <4>1, <4>2, <4>3, TruncateKept
      <4> HIDE DEF n, w
      <4>6. n' \in 1..Len(Client')
        BY <4>2, <4>4, <4>5
      <4> QED BY <4>2, <4>3, <4>4, <4>5, <4>6
    <3>4. n <= n'
      BY <3>1
    <3>5. Stops = {i \in 2..n : Ends(w, i)}
      <4>1. n \in Nat
        BY <3>2
      <4> QED BY <3>2, <4>1, StopsAre
    <3> HIDE DEF n, w
    <3>6. Len(w) <= Len(w') /\ \A i \in 1..Len(w) : w'[i] = w[i]
      <4>1. Len(w) = n /\ Len(w') = n' /\ n \in Nat /\ n' \in Nat
        BY <3>2, <3>3
      <4>2. ASSUME NEW i \in 1..n PROVE w'[i] = w[i]
        <5>1. i \in 1..n' /\ i \in 1..Len(Client)
          BY <3>2, <3>4, <4>1
        <5>2. w'[i] = Client'[i] /\ w[i] = Client[i]
          BY <3>2, <3>3, <5>1
        <5> QED BY <3>1, <5>1, <5>2
      <4> QED BY <3>4, <4>1, <4>2
    <3>7. Kept(w) <= Kept(w') /\ ((\E j \in 2..n : Ends(w, j)) => Kept(w') = Kept(w))
      BY <3>2, <3>3, <3>6, KeptGrows
    <3>8. raw.dir = ClientDir /\ raw'.dir = ClientDir /\ raw.len = 2 * Kept(w) /\ raw'.len = 2 * Kept(w')
      BY <3>2, <3>3
    <3>9. raw'.len >= raw.len
      BY <3>2, <3>3, <3>7, <3>8
    <3>10. Stops # {} => raw' = raw
      BY <3>2, <3>3, <3>5, <3>7
    <3> QED BY <3>1, <3>8, <3>9, <3>10
  <2> QED BY <2>1, <2>2
<1> HIDE DEF Grows
<1>2. TypeOK /\ CaptureInv /\ TypeOK' /\ CaptureInv' /\ [Next]_vars => [Grows]_vars
  BY <1>1
<1>3. [][Grows]_vars => FlightOnlyGrows
  BY DEF Grows, FlightOnlyGrows
<1> QED BY <1>2, <1>3, H2Invariant, PTL DEF Spec
=============================================================================
