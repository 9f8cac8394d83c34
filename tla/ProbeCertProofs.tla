-------------------------- MODULE ProbeCertProofs --------------------------
(***************************************************************************)
(* ProbeCert for all sets of processes, directories and roots and every    *)
(* number of starts and kills.                                             *)
(***************************************************************************)
EXTENDS ProbeCert, SequenceTheorems, TLAPS

-----------------------------------------------------------------------------
(* Pairs and short lists                                                   *)

\* Two files are a function of their two names.
LEMMA PairType ==
  ASSUME NEW S, NEW a \in S, NEW b \in S
  PROVE  <<a, b>> \in [1..2 -> S] /\ <<a, b>>[1] = a /\ <<a, b>>[2] = b
<1>1. <<a, b>> \in Seq(S) /\ Len(<<a, b>>) = 2
  OBVIOUS
<1> QED BY <1>1, LenProperties

\* Two pairs are the same if their certificates and their keys are.
LEMMA PairEqual ==
  ASSUME NEW S, NEW f \in [1..2 -> S], NEW a \in S, NEW b \in S
  PROVE  f = <<a, b>> <=> f[1] = a /\ f[2] = b
<1>1. <<a, b>> \in [1..2 -> S] /\ <<a, b>>[1] = a /\ <<a, b>>[2] = b
  BY PairType
<1>2. ASSUME NEW g \in [1..2 -> S], f[1] = g[1], f[2] = g[2] PROVE f = g
  <2>1. \A i \in 1..2 : i = 1 \/ i = 2
    OBVIOUS
  <2>2. \A i \in 1..2 : f[i] = g[i]
    BY <1>2, <2>1
  <2> QED BY <2>2
<1> QED BY <1>1, <1>2

\* The lists of directories are at most two long.
LEMMA ListEnds ==
  ASSUME NEW a, NEW b
  PROVE  /\ Head(<<a>>) = a /\ Tail(<<a>>) = <<>> /\ Head(<<a, b>>) = a /\ Tail(<<a, b>>) = <<b>>
         /\ <<a>> # <<>> /\ <<a, b>> # <<>> /\ <<a>> # <<a, b>> /\ <<b>> # <<a, b>>
         /\ Len(<<a>>) = 1 /\ Len(<<a, b>>) = 2
OBVIOUS

\* The directories a process tries are directories.
LEMMA CandidatesType ==
  ASSUME NEW c \in Dirs \cup {Durable, None}
  PROVE  /\ Candidates(c) \in Seq(Dirs \cup {Durable}) /\ <<Durable>> \in Seq(Dirs \cup {Durable})
         /\ <<>> \in Seq(Dirs \cup {Durable})
         /\ c # None => c \in Dirs \cup {Durable} /\ <<c>> \in Seq(Dirs \cup {Durable})
<1>1. Durable \in Dirs \cup {Durable} /\ (c # None => c \in Dirs \cup {Durable})
  BY NoneIsNoDir
<1>2. <<Durable>> \in Seq(Dirs \cup {Durable}) /\ <<>> \in Seq(Dirs \cup {Durable})
  BY <1>1
<1>3. c # None => /\ <<c>> \in Seq(Dirs \cup {Durable})
                  /\ <<c, Durable>> \in Seq(Dirs \cup {Durable})
  BY <1>1
<1> QED BY <1>1, <1>2, <1>3 DEF Candidates

\* The end of a list of directories is one.
LEMMA ListType ==
  ASSUME TypeOK, NEW p \in Procs, todo[p] # <<>>
  PROVE  Head(todo[p]) \in Dirs \cup {Durable} /\ Tail(todo[p]) \in Seq(Dirs \cup {Durable})
<1>1. todo[p] \in Seq(Dirs \cup {Durable})
  BY DEF TypeOK
<1> QED BY <1>1, HeadTailProperties

-----------------------------------------------------------------------------
(* Types and what a run has left to do                                     *)

\* No process, no files.
LEMMA CertInitType == Init => TypeOK /\ RunInv
<1> SUFFICES ASSUME Init PROVE TypeOK /\ RunInv
  OBVIOUS
<1>1. <<None, None>> \in [1..2 -> Contents] /\ <<None, None>> \in [1..2 -> Roots \cup {None}]
  BY PairType DEF Contents
<1>2. <<>> \in Seq(Dirs \cup {Durable}) /\ <<>> \in Seq(Roots)
  OBVIOUS
<1>3. TypeOK
  BY <1>1, <1>2, BoundsAreNaturals DEF Init, TypeOK, PCs, Contents
<1>4. RunInv
  BY DEF Init, RunInv
<1> QED BY <1>3, <1>4

\* A process that ends is as it was before it started.
LEMMA ExitType ==
  ASSUME TypeOK, RunInv, NEW p \in Procs, Exit(p),
         files' = files, used' = used, served' = served, starts' = starts,
         kills' \in 0..MaxKills,
         mishaps' \subseteq {"overlap", "failedWrite", "killedAlone"}, mishaps \subseteq mishaps'
  PROVE  TypeOK' /\ RunInv'
<1>1. <<None, None>> \in [1..2 -> Roots \cup {None}] /\ <<>> \in Seq(Dirs \cup {Durable})
  BY PairType
<1>2. TypeOK'
  BY <1>1 DEF TypeOK, Exit, PCs, Contents
<1>3. RunInv'
  BY DEF TypeOK, Exit, RunInv
<1> QED BY <1>2, <1>3

\* A process starts: it has read nothing yet.
LEMMA StartType ==
  ASSUME TypeOK, RunInv, NEW p \in Procs, NEW dir \in Dirs \cup {None}, Start(p, dir)
  PROVE  TypeOK' /\ RunInv'
<1>1. dir \in Dirs \cup {Durable, None} /\ Candidates(dir) \in Seq(Dirs \cup {Durable})
  BY CandidatesType
<1>2. TypeOK'
  BY <1>1, BoundsAreNaturals DEF TypeOK, Start, PCs
<1>3. RunInv'
  BY DEF TypeOK, Start, RunInv, Candidates
<1> QED BY <1>2, <1>3

\* The candidates left when the first is done with.
LEMMA CandidatesTail ==
  ASSUME NEW c, NEW s \in {Candidates(c), <<Durable>>, <<>>}, s # <<>>
  PROVE  /\ Tail(s) \in {<<Durable>>, <<>>}
         /\ Tail(s) = <<>> <=> s = <<Durable>>
         /\ s = <<Durable>> => Head(s) = Durable
         /\ s # <<Durable>> => Head(s) = c /\ c \notin {None, Durable}
BY ListEnds DEF Candidates

\* A process reads one of the two files, or makes a new root.
LEMMA LoadType ==
  ASSUME TypeOK, RunInv, NEW p \in Procs, LoadCert(p) \/ LoadKey(p) \/ Mint(p)
  PROVE  TypeOK' /\ RunInv'
<1>1. captureDir[p] \in Dirs \cup {Durable, None} /\ read[p] \in Contents
  BY DEF TypeOK
<1>2. CASE LoadCert(p)
  <2>1. /\ Head(todo[p]) \in Dirs \cup {Durable} /\ Tail(todo[p]) \in Seq(Dirs \cup {Durable})
        /\ Tail(todo[p]) \in {<<Durable>>, <<>>}
    BY <1>2, ListType, CandidatesTail DEF LoadCert, RunInv
  <2>2. files[Head(todo[p])][1] \in Contents
    BY <2>1 DEF TypeOK
  <2>3. /\ read' = [read EXCEPT ![p] = files[Head(todo[p])][1]]
        /\ UNCHANGED <<files, pc, captureDir, minted, failed, cached>>
        /\ UNCHANGED <<starts, kills, used, served, mishaps>>
        /\ pc[p] = "load"
    BY <1>2 DEF LoadCert, run, history
  <2>4. \/ todo' = [todo EXCEPT ![p] = Tail(todo[p])] /\ part' = part /\ part[p] = 1
        \/ todo' = todo /\ part' = [part EXCEPT ![p] = 2] /\ todo[p] # <<>>
    BY <1>2 DEF LoadCert
  <2>5. CASE todo' = [todo EXCEPT ![p] = Tail(todo[p])] /\ part' = part /\ part[p] = 1
    <3>1. TypeOK'
      BY <2>1, <2>2, <2>3, <2>5 DEF TypeOK
    <3>2. RunInv'
      BY <2>1, <2>3, <2>5 DEF TypeOK, RunInv
    <3> QED BY <3>1, <3>2
  <2>6. CASE todo' = todo /\ part' = [part EXCEPT ![p] = 2] /\ todo[p] # <<>>
    <3>1. TypeOK'
      BY <2>2, <2>3, <2>6 DEF TypeOK
    <3>2. RunInv'
      BY <2>3, <2>6 DEF TypeOK, RunInv
    <3> QED BY <3>1, <3>2
  <2> QED BY <2>4, <2>5, <2>6
<1>3. CASE LoadKey(p)
  <2> DEFINE key == files[Head(todo[p])][2]
  <2>1. /\ Head(todo[p]) \in Dirs \cup {Durable} /\ Tail(todo[p]) \in Seq(Dirs \cup {Durable})
        /\ Tail(todo[p]) \in {<<Durable>>, <<>>}
    BY <1>3, ListType, CandidatesTail DEF LoadKey, RunInv
  <2>2. CASE IsPair(read[p], key)
    <3>1. /\ read[p] \in Roots /\ key = read[p] /\ <<read[p], key>> \in [1..2 -> Roots \cup {None}]
          /\ <<read[p], key>>[1] = read[p] /\ <<read[p], key>>[2] = read[p]
      BY <2>2, PairType DEF IsPair
    <3>2. Candidates(captureDir[p]) \in Seq(Dirs \cup {Durable})
      BY <1>1, CandidatesType
    <3> HIDE DEF key
    <3>3. /\ read' = [read EXCEPT ![p] = None] /\ part' = [part EXCEPT ![p] = 1]
          /\ cached' = [cached EXCEPT ![p] = <<read[p], key>>]
          /\ pc' = [pc EXCEPT ![p] = "mirror"]
          /\ todo' = [todo EXCEPT ![p] = Candidates(captureDir[p])]
          /\ UNCHANGED <<files, run, history>>
      BY <1>3, <2>2 DEF LoadKey, MirrorTargets, key
    <3>4. TypeOK'
      BY <3>1, <3>2, <3>3 DEF TypeOK, PCs, Contents, run, history
    <3>5. RunInv'
      BY <3>1, <3>3 DEF TypeOK, RunInv, run, history
    <3> QED BY <3>4, <3>5
  <2>3. CASE ~IsPair(read[p], key)
    <3>1. /\ read' = [read EXCEPT ![p] = None] /\ part' = [part EXCEPT ![p] = 1]
          /\ todo' = [todo EXCEPT ![p] = Tail(todo[p])] /\ pc[p] = "load"
          /\ UNCHANGED <<pc, cached, files, captureDir, minted, failed>>
          /\ UNCHANGED <<starts, kills, used, served, mishaps>>
      BY <1>3, <2>3 DEF LoadKey, run, history
    <3> HIDE DEF key
    <3>2. TypeOK'
      BY <2>1, <3>1 DEF TypeOK, Contents
    <3>3. RunInv'
      BY <2>1, <3>1 DEF TypeOK, RunInv
    <3> QED BY <3>2, <3>3
  <2> QED BY <2>2, <2>3
<1>4. CASE Mint(p)
  <2>1. PICK root \in Roots \ used :
          used' = used \cup {root} /\ cached' = [cached EXCEPT ![p] = <<root, root>>]
    BY <1>4 DEF Mint
  <2>2. /\ <<root, root>> \in [1..2 -> Roots \cup {None}]
        /\ <<root, root>>[1] = root /\ <<root, root>>[2] = root
    BY PairType
  <2>3. Candidates(captureDir[p]) \in Seq(Dirs \cup {Durable})
    BY <1>1, CandidatesType
  <2>4. TypeOK'
    BY <1>4, <2>1, <2>2, <2>3 DEF TypeOK, Mint, MirrorTargets, PCs
  <2>5. RunInv'
    BY <1>4, <2>1, <2>2 DEF TypeOK, Mint, MirrorTargets, RunInv
  <2> QED BY <2>4, <2>5
<1> QED BY <1>2, <1>3, <1>4

\* os.WriteFile opens and empties a file.
LEMMA TruncateType ==
  ASSUME TypeOK, RunInv, NEW p \in Procs, Truncate(p)
  PROVE  TypeOK' /\ RunInv'
<1>1. /\ todo[p] # <<>> /\ pc[p] \in {"mirror", "copy"}
      /\ files' = [files EXCEPT ![Head(todo[p])][part[p]] = Empty]
      /\ pc' = [pc EXCEPT ![p] = IF pc[p] = "mirror" THEN "truncated" ELSE "copyTruncated"]
      /\ UNCHANGED <<todo, part, read, cached, captureDir, minted, failed>>
      /\ UNCHANGED <<starts, kills, used, served, mishaps>>
  BY DEF Truncate, Mirroring, run, history
<1>2. Head(todo[p]) \in Dirs \cup {Durable}
  BY <1>1, ListType
<1>3. TypeOK'
  BY <1>1, <1>2 DEF TypeOK, PCs, Contents
<1>4. RunInv'
  BY <1>1 DEF TypeOK, RunInv
<1> QED BY <1>3, <1>4

\* Writing the pair a run has: its certificate is followed by its key.
LEMMA WriteParts ==
  ASSUME TypeOK, RunInv, NEW p \in Procs, Write(p)
  PROVE  /\ Head(todo[p]) \in Dirs \cup {Durable} /\ todo[p] # <<>>
         /\ cached[p][1] \in Roots /\ cached[p][2] = cached[p][1]
         /\ pc[p] \in {"truncated", "copyTruncated"} /\ part[p] \in {1, 2}
         /\ files' = [files EXCEPT ![Head(todo[p])][part[p]] = cached[p][1]]
         /\ pc' = [pc EXCEPT ![p] = IF pc[p] = "truncated" THEN "mirror" ELSE "copy"]
         /\ part' = [part EXCEPT ![p] = 3 - part[p]]
         /\ todo' = [todo EXCEPT ![p] = IF part[p] = 2 THEN Tail(todo[p]) ELSE todo[p]]
         /\ UNCHANGED <<read, cached, captureDir, minted, failed>>
         /\ UNCHANGED <<starts, kills, used, served, mishaps>>
<1>1. pc[p] \in {"truncated", "copyTruncated"} /\ part[p] \in {1, 2} /\ todo[p] # <<>>
  BY DEF TypeOK, RunInv, Write
<1>2. cached[p][1] \in Roots /\ cached[p][2] = cached[p][1]
  BY <1>1 DEF RunInv
<1>3. cached[p][part[p]] = cached[p][1]
  BY <1>1, <1>2
<1>4. files' = [files EXCEPT ![Head(todo[p])][part[p]] = cached[p][1]]
  BY <1>3 DEF Write
<1> QED BY <1>1, <1>2, <1>4, ListType DEF Write, NextPart, Mirroring, run, history

\* What is left of a list after its head has been dealt with.
LEMMA RestOfList ==
  ASSUME TypeOK, RunInv, NEW p \in Procs, todo[p] # <<>>
  PROVE  /\ Tail(todo[p]) \in Seq(Dirs \cup {Durable})
         /\ pc[p] \in {"mirror", "truncated"} => Tail(todo[p]) \in {<<Durable>>, <<>>}
         /\ pc[p] \in {"copy", "copyTruncated"} => Tail(todo[p]) = <<>>
<1>1. Tail(todo[p]) \in Seq(Dirs \cup {Durable})
  BY ListType
<1>2. ASSUME pc[p] \in {"mirror", "truncated"}
      PROVE  Tail(todo[p]) \in {<<Durable>>, <<>>}
  <2>1. todo[p] \in {Candidates(captureDir[p]), <<Durable>>, <<>>}
    BY <1>2 DEF RunInv
  <2> QED BY <2>1, CandidatesTail
<1>3. ASSUME pc[p] \in {"copy", "copyTruncated"}
      PROVE  Tail(todo[p]) = <<>>
  <2>1. todo[p] = <<captureDir[p]>>
    BY <1>3 DEF RunInv
  <2> QED BY <2>1, ListEnds
<1> QED BY <1>1, <1>2, <1>3

\* os.WriteFile puts the contents in.
LEMMA WriteType ==
  ASSUME TypeOK, RunInv, NEW p \in Procs, Write(p)
  PROVE  TypeOK' /\ RunInv'
<1>1. /\ Tail(todo[p]) \in Seq(Dirs \cup {Durable})
      /\ pc[p] = "truncated" => Tail(todo[p]) \in {<<Durable>>, <<>>}
      /\ pc[p] = "copyTruncated" => Tail(todo[p]) = <<>>
  <2>1. todo[p] # <<>> /\ pc[p] \in {"truncated", "copyTruncated"}
    BY WriteParts
  <2> QED BY <2>1, RestOfList
<1>2. /\ Head(todo[p]) \in Dirs \cup {Durable} /\ todo[p] # <<>>
      /\ cached[p][1] \in Roots /\ pc[p] \in {"truncated", "copyTruncated"} /\ part[p] \in {1, 2}
      /\ files' = [files EXCEPT ![Head(todo[p])][part[p]] = cached[p][1]]
      /\ pc' = [pc EXCEPT ![p] = IF pc[p] = "truncated" THEN "mirror" ELSE "copy"]
      /\ UNCHANGED <<read, cached, captureDir, minted, failed>>
      /\ UNCHANGED <<starts, kills, used, served, mishaps>>
  BY WriteParts
<1>3. CASE part[p] = 1
  <2>1. part' = [part EXCEPT ![p] = 2] /\ todo' = todo
    <3>1. part' = [part EXCEPT ![p] = 3 - part[p]] /\ todo' = [todo EXCEPT ![p] = todo[p]]
      BY <1>3 DEF Write, NextPart
    <3> QED BY <1>3, <3>1 DEF TypeOK
  <2>2. TypeOK'
    BY <1>2, <1>3, <2>1 DEF TypeOK, PCs, Contents
  <2>3. RunInv'
    BY <1>2, <2>1 DEF TypeOK, RunInv
  <2> QED BY <2>2, <2>3
<1>4. CASE part[p] = 2
  <2>1. part' = [part EXCEPT ![p] = 1] /\ todo' = [todo EXCEPT ![p] = Tail(todo[p])]
    BY <1>4 DEF Write, NextPart
  <2>2. TypeOK'
    BY <1>1, <1>2, <1>4, <2>1 DEF TypeOK, PCs, Contents
  <2>3. RunInv'
    BY <1>1, <1>2, <2>1 DEF TypeOK, RunInv
  <2> QED BY <2>2, <2>3
<1> QED BY <1>2, <1>3, <1>4

\* os.WriteFile fails, before or after the truncation.
LEMMA WriteFailsType ==
  ASSUME TypeOK, RunInv, NEW p \in Procs, WriteFails(p)
  PROVE  TypeOK' /\ RunInv'
<1>1. /\ todo[p] # <<>> /\ pc[p] \in {"mirror", "truncated", "copy", "copyTruncated"}
      /\ pc' = [pc EXCEPT ![p] = IF pc[p] \in {"mirror", "truncated"} THEN "mirror" ELSE "copy"]
      /\ failed' = [failed EXCEPT ![p] = TRUE] /\ part' = [part EXCEPT ![p] = 1]
      /\ todo' = [todo EXCEPT ![p] = Tail(todo[p])] /\ mishaps' = mishaps \cup {"failedWrite"}
      /\ UNCHANGED <<files, read, cached, captureDir, minted, starts, kills, used, served>>
  BY DEF WriteFails, Mirroring
<1>2. /\ Tail(todo[p]) \in Seq(Dirs \cup {Durable})
      /\ pc[p] \in {"mirror", "truncated"} => Tail(todo[p]) \in {<<Durable>>, <<>>}
      /\ pc[p] \in {"copy", "copyTruncated"} => Tail(todo[p]) = <<>>
  BY <1>1, RestOfList
<1>3. TypeOK'
  BY <1>1, <1>2 DEF TypeOK, PCs
<1>4. RunInv'
  BY <1>1, <1>2 DEF TypeOK, RunInv
<1> QED BY <1>3, <1>4

\* A process serves with the pair it holds.
LEMMA ServeType ==
  ASSUME TypeOK, RunInv, NEW p \in Procs, Serve(p) \/ Copied(p)
  PROVE  TypeOK' /\ RunInv'
<1>1. CASE Serve(p)
  <2> DEFINE left == IF captureDir[p] = None THEN <<>> ELSE <<captureDir[p]>>
  <2>1. cached[p][1] \in Roots /\ Append(served, cached[p][1]) \in Seq(Roots)
    BY <1>1, AppendProperties DEF Serve, RunInv, TypeOK
  <2>2. captureDir[p] \in Dirs \cup {Durable, None}
    BY DEF TypeOK
  <2>3. left \in Seq(Dirs \cup {Durable})
    BY <2>2, CandidatesType
  <2>4. /\ pc[p] = "mirror" /\ pc' = [pc EXCEPT ![p] = "copy"] /\ todo' = [todo EXCEPT ![p] = left]
        /\ served' = Append(served, cached[p][1]) /\ todo[p] = <<>>
        /\ UNCHANGED <<files, part, read, cached, captureDir, minted, failed>>
        /\ UNCHANGED <<starts, kills, used, mishaps>>
    BY <1>1 DEF Serve, run
  <2>5. left = <<>> \/ (captureDir[p] # None /\ left = <<captureDir[p]>>)
    OBVIOUS
  <2> HIDE DEF left
  <2>6. TypeOK'
    BY <2>1, <2>3, <2>4 DEF TypeOK, PCs
  <2>7. RunInv'
    BY <2>4, <2>5 DEF TypeOK, RunInv
  <2> QED BY <2>6, <2>7
<1>2. CASE Copied(p)
  BY <1>2 DEF Copied, TypeOK, RunInv, PCs, run, history
<1> QED BY <1>1, <1>2

\* A process ends, is killed, or fails to start.
LEMMA EndType ==
  ASSUME TypeOK, RunInv, NEW p \in Procs, StartFails(p) \/ Stop(p) \/ Kill(p)
  PROVE  TypeOK' /\ RunInv'
<1>1. CASE StartFails(p) \/ Stop(p)
  BY <1>1, ExitType DEF StartFails, Stop, history, TypeOK
<1>2. CASE Kill(p)
  BY <1>2, ExitType, BoundsAreNaturals DEF Kill, TypeOK
<1> QED BY <1>1, <1>2

\* Every step keeps the types and what a process knows.
LEMMA CertStepType == TypeOK /\ RunInv /\ [Next]_vars => TypeOK' /\ RunInv'
<1> SUFFICES ASSUME TypeOK, RunInv, [Next]_vars PROVE TypeOK' /\ RunInv'
  OBVIOUS
<1>1. CASE UNCHANGED vars
  BY <1>1 DEF vars, TypeOK, RunInv
<1> QED BY <1>1, StartType, LoadType, TruncateType, WriteType, WriteFailsType, ServeType,
           EndType DEF Next

\* The types, and what each process knows, hold at all times.
LEMMA CertTypeInvariant == Spec => [](TypeOK /\ RunInv)
BY CertInitType, CertStepType, PTL DEF Spec

\* Every variable keeps its type, for all processes, directories and bounds.
THEOREM CertTypeCorrect == Spec => []TypeOK
BY CertTypeInvariant, PTL

\* What a run serves and copies is a certificate with its own key, although
\* others may be rewriting the files while it reads them.
THEOREM ServesMatchingPairHolds == Spec => []ServesMatchingPair
<1>1. RunInv => ServesMatchingPair
  BY DEF RunInv, ServesMatchingPair
<1> QED BY <1>1, CertTypeInvariant, PTL

-----------------------------------------------------------------------------
(* Runs that follow one another                                            *)

Quiet == mishaps = {} /\ kills <= 1
OneRoot == \A i \in DOMAIN served : served[i] = Latest

\* What QuietInv says of a quiet state, in the form the steps use it.
LEMMA QuietFacts ==
  ASSUME QuietInv, CalmInv, Quiet, NEW p \in Procs, pc[p] # "off"
  PROVE  Alone(p) /\ QuietRun(p) /\ (kills = 0 => CalmRun(p) /\ OneRoot)
BY DEF QuietInv, CalmInv, Quiet, OneRoot

\* Where one process runs alone, the invariants speak of that one only.
LEMMA AloneSuffices ==
  ASSUME NEW p \in Procs,
         Quiet' => /\ Alone(p)' /\ QuietRun(p)'
                   /\ served' # <<>> /\ pc'[p] \in {"off", "load"} => Intact(Latest)'
                   /\ kills' = 0 => CalmRun(p)' /\ OneRoot'
  PROVE  QuietInv' /\ CalmInv'
<1>1. CASE ~Quiet'
  BY <1>1 DEF QuietInv, CalmInv, Quiet
<1>2. CASE Quiet'
  <2>1. /\ Alone(p)' /\ QuietRun(p)'
        /\ served' # <<>> /\ pc'[p] \in {"off", "load"} => Intact(Latest)'
        /\ kills' = 0 => CalmRun(p)' /\ OneRoot'
    BY <1>2
  <2>2. ASSUME NEW q \in Procs, q # p
        PROVE  /\ pc'[q] = "off" /\ QuietRun(q)'
               /\ kills' = 0 /\ Alone(q)' => CalmRun(q)'
    <3>1. pc'[q] = "off"
      BY <2>1, <2>2 DEF Alone
    <3>2. QuietRun(q)'
      BY <3>1 DEF QuietRun, Mirrors, Copies
    <3>3. ASSUME kills' = 0, Alone(q)' PROVE CalmRun(q)'
      <4>1. pc'[p] = "off" /\ CalmRun(p)'
        BY <2>1, <2>2, <3>3 DEF Alone
      <4> QED BY <3>1, <4>1 DEF CalmRun, Mirrors, Copies, Halfway
    <3> QED BY <3>1, <3>2, <3>3
  <2>3. QuietInv'
    <3>1. \A q \in Procs : pc'[q] # "off" => Alone(q)'
      BY <2>1, <2>2
    <3>2. \A q \in Procs : QuietRun(q)'
      BY <2>1, <2>2
    <3> QED BY <2>1, <3>1, <3>2 DEF QuietInv
  <2>4. CalmInv'
    BY <2>1, <2>2 DEF CalmInv, OneRoot
  <2> QED BY <2>3, <2>4
<1> QED BY <1>1, <1>2

\* A step of the only process leaves it the only one.
LEMMA StaysAlone ==
  ASSUME TypeOK, NEW p \in Procs, Alone(p), NEW x, pc' = [pc EXCEPT ![p] = x]
  PROVE  Alone(p)' /\ pc'[p] = x
BY DEF Alone, TypeOK

\* What a write to one file leaves alone.
LEMMA FileWritten ==
  ASSUME TypeOK, NEW h \in Dirs \cup {Durable}, NEW k \in {1, 2}, NEW v,
         files' = [files EXCEPT ![h][k] = v]
  PROVE  /\ files'[h][k] = v
         /\ \A j \in {1, 2} : j # k => files'[h][j] = files[h][j]
         /\ \A d \in Dirs \cup {Durable} : d # h =>
              files'[d][1] = files[d][1] /\ files'[d][2] = files[d][2]
BY DEF TypeOK

\* Both files of a pair are there.
LEMMA HeldIsIntact ==
  ASSUME TypeOK, NEW d \in Dirs \cup {Durable}, NEW root \in Roots, Holds(d, root)
  PROVE  Intact(root)
<1>1. files[d] \in [1..2 -> Contents] /\ root \in Contents
  BY DEF TypeOK, Contents
<1>2. files[d] = <<root, root>>
  BY <1>1, PairEqual DEF Holds
<1> QED BY <1>2 DEF Intact

\* The newest root is a root that was made.
LEMMA LatestType ==
  ASSUME TypeOK, served # <<>>
  PROVE  Latest \in Roots /\ Latest # None
<1>1. served \in Seq(Roots)
  BY DEF TypeOK
<1> QED BY <1>1, RootsAreNoMarks, LenProperties, ElementOfSeq DEF Latest

\* A root that is made is the newest.
LEMMA AppendLatest ==
  ASSUME TypeOK, NEW r \in Roots, served' = Append(served, r)
  PROVE  /\ served' # <<>> /\ Latest' = r
         /\ OneRoot /\ (served = <<>> \/ Latest = r) => OneRoot'
<1>1. served \in Seq(Roots)
  BY DEF TypeOK
<1>2. /\ Len(served') = Len(served) + 1 /\ served'[Len(served) + 1] = r
      /\ \A i \in 1..Len(served) : served'[i] = served[i]
      /\ Len(served) \in Nat /\ DOMAIN served = 1..Len(served) /\ DOMAIN served' = 1..Len(served')
  BY <1>1, AppendProperties, LenProperties
<1>3. served' # <<>> /\ Latest' = r
  BY <1>2 DEF Latest
<1>4. ASSUME OneRoot, served = <<>> \/ Latest = r PROVE OneRoot'
  BY <1>2, <1>3, <1>4 DEF OneRoot
<1> QED BY <1>3, <1>4

\* No files: nothing to disagree about.
LEMMA CertInitQuiet == Init => QuietInv /\ CalmInv
<1> SUFFICES ASSUME Init PROVE QuietInv /\ CalmInv
  OBVIOUS
<1>1. ASSUME NEW d \in Dirs \cup {Durable} PROVE Holds(d, None)
  BY <1>1 DEF Init, Holds
<1>2. QuietInv
  BY DEF Init, QuietInv, QuietRun, Mirrors, Copies
<1>3. ASSUME NEW p \in Procs PROVE CalmRun(p)
  BY <1>1 DEF Init, CalmRun
<1> QED BY <1>2, <1>3 DEF CalmInv, Init

\* A process that starts has nothing in hand.
LEMMA StartQuiet ==
  ASSUME TypeOK, RunInv, QuietInv, CalmInv, NEW p \in Procs, NEW dir \in Dirs \cup {None},
         Start(p, dir)
  PROVE  QuietInv' /\ CalmInv'
<1>1. SUFFICES ASSUME Quiet'
      PROVE /\ Alone(p)' /\ QuietRun(p)'
            /\ served' # <<>> /\ pc'[p] \in {"off", "load"} => Intact(Latest)'
            /\ kills' = 0 => CalmRun(p)' /\ OneRoot'
  BY AloneSuffices
<1>2. Quiet /\ \A q \in Procs : pc[q] = "off"
  BY <1>1 DEF Quiet, Start
<1>3. pc'[p] = "load" /\ Alone(p)' /\ Alone(p)
  <2>1. Alone(p) /\ pc' = [pc EXCEPT ![p] = "load"]
    BY <1>2 DEF Alone, Start
  <2> QED BY <2>1, StaysAlone
<1>4. QuietRun(p)'
  BY <1>3 DEF QuietRun, Mirrors, Copies
<1>5. served' # <<>> => Intact(Latest)'
  BY <1>2 DEF QuietInv, Quiet, Start, Intact, Latest
<1>6. ASSUME kills' = 0 PROVE CalmRun(p)' /\ OneRoot'
  <2>1. CalmRun(p) /\ OneRoot /\ pc[p] = "off"
    BY <1>2, <1>3, <1>6 DEF CalmInv, Quiet, Start, OneRoot
  <2>2. /\ UNCHANGED <<files, part, served>> /\ part[p] = 1
        /\ todo'[p] = Candidates(dir)
    BY <2>1 DEF Start, RunInv, TypeOK
  <2>3. todo'[p] # <<>>
    BY <2>2, ListEnds DEF Candidates
  <2>4. CalmRun(p)'
    BY <1>3, <2>1, <2>2, <2>3 DEF CalmRun, Mirrors, Copies, Halfway, Holds, Latest
  <2> QED BY <2>1, <2>2, <2>4 DEF OneRoot, Latest
<1> QED BY <1>3, <1>4, <1>5, <1>6

\* A file that is there is the certificate of the only pair.
LEMMA LoadedIsLatest ==
  ASSUME TypeOK, NEW p \in Procs, CalmRun(p), pc[p] = "load",
         NEW d \in Dirs \cup {Durable}, files[d][1] # None
  PROVE  served # <<>> /\ Holds(d, Latest)
BY DEF CalmRun, Mirrors, Copies, Halfway, Holds

\* The certificate is read.
LEMMA LoadCertQuiet ==
  ASSUME TypeOK, RunInv, QuietInv, CalmInv, NEW p \in Procs, LoadCert(p)
  PROVE  QuietInv' /\ CalmInv'
<1>1. SUFFICES ASSUME Quiet'
      PROVE /\ Alone(p)' /\ QuietRun(p)'
            /\ served' # <<>> /\ pc'[p] \in {"off", "load"} => Intact(Latest)'
            /\ kills' = 0 => CalmRun(p)' /\ OneRoot'
  BY AloneSuffices
<1>2. /\ pc[p] = "load" /\ todo[p] # <<>>
      /\ read' = [read EXCEPT ![p] = files[Head(todo[p])][1]]
      /\ UNCHANGED <<files, pc, cached, captureDir, kills, served, mishaps>>
  BY DEF LoadCert, run, history
<1>3. Quiet /\ Alone(p) /\ (kills = 0 => CalmRun(p) /\ OneRoot)
  BY <1>1, <1>2, QuietFacts DEF Quiet
<1>4. Alone(p)' /\ QuietRun(p)'
  BY <1>2, <1>3 DEF Alone, QuietRun, Mirrors, Copies
<1>5. served' # <<>> => Intact(Latest)'
  BY <1>2, <1>3 DEF QuietInv, Quiet, Alone, Intact, Latest
<1>6. ASSUME kills' = 0 PROVE CalmRun(p)' /\ OneRoot'
  <2>1. CalmRun(p) /\ OneRoot
    BY <1>2, <1>3, <1>6
  <2>2. \/ read'[p] = None /\ todo'[p] = Tail(todo[p]) /\ part'[p] = 1
        \/ read'[p] # None /\ todo'[p] = todo[p]
    BY DEF LoadCert, TypeOK
  <2>3. Head(todo[p]) \in Dirs \cup {Durable} /\ read'[p] = files[Head(todo[p])][1]
    BY <1>2, ListType DEF TypeOK
  <2>4. ASSUME todo'[p] = <<>> PROVE Holds(Durable, None)'
    <3>1. todo[p] \in {Candidates(captureDir[p]), <<Durable>>, <<>>}
      BY <1>2 DEF RunInv
    <3>2. todo[p] = <<Durable>> /\ Head(todo[p]) = Durable /\ read'[p] = None
      BY <1>2, <2>2, <2>4, <3>1, CandidatesTail
    <3>3. Holds(Durable, None)
      <4>1. files[Durable][1] = None
        BY <2>3, <3>2
      <4>2. ~(served # <<>> /\ Holds(Durable, Latest))
        BY <4>1, LatestType DEF Holds
      <4> QED BY <1>2, <2>1, <4>2 DEF CalmRun, Mirrors, Copies, Halfway
    <3> QED BY <1>2, <3>3 DEF Holds
  <2>5. part'[p] = 2 => read'[p] # None /\ read'[p] = files'[Head(todo'[p])][1]
    BY <1>2, <2>2, <2>3
  <2>6. CalmRun(p)'
    BY <1>2, <2>1, <2>4, <2>5 DEF CalmRun, Mirrors, Copies, Halfway, Holds, Latest
  <2> QED BY <1>2, <2>1, <2>6 DEF OneRoot, Latest
<1> QED BY <1>4, <1>5, <1>6

\* The key is read, and matches or does not.
LEMMA LoadKeyQuiet ==
  ASSUME TypeOK, RunInv, QuietInv, CalmInv, NEW p \in Procs, LoadKey(p)
  PROVE  QuietInv' /\ CalmInv'
<1>1. SUFFICES ASSUME Quiet'
      PROVE /\ Alone(p)' /\ QuietRun(p)'
            /\ served' # <<>> /\ pc'[p] \in {"off", "load"} => Intact(Latest)'
            /\ kills' = 0 => CalmRun(p)' /\ OneRoot'
  BY AloneSuffices
<1> DEFINE h == Head(todo[p])
<1>2. /\ pc[p] = "load" /\ todo[p] # <<>> /\ part[p] = 2 /\ part'[p] = 1
      /\ h \in Dirs \cup {Durable}
      /\ UNCHANGED <<files, captureDir, kills, served, mishaps>>
  BY ListType DEF LoadKey, run, history, TypeOK
<1>3. Quiet /\ Alone(p) /\ (kills = 0 => CalmRun(p) /\ OneRoot)
  BY <1>1, <1>2, QuietFacts DEF Quiet
<1>4. served # <<>> => Intact(Latest)
  BY <1>2, <1>3 DEF QuietInv, Quiet, Alone
<1>5. Intact(Latest) => Intact(Latest)'
  BY <1>2 DEF Intact, Latest
<1>6. CASE IsPair(read[p], files[h][2])
  <2>1. /\ pc' = [pc EXCEPT ![p] = "mirror"] /\ cached'[p] = <<read[p], files[h][2]>>
        /\ todo'[p] = Candidates(captureDir[p])
        /\ read[p] \in Roots /\ files[h][2] = read[p] /\ cached'[p][1] = read[p]
    BY <1>6 DEF LoadKey, TypeOK, MirrorTargets, IsPair
  <2>2. Alone(p)' /\ pc'[p] = "mirror" /\ todo'[p] # <<>>
    <3>1. Alone(p)' /\ pc'[p] = "mirror"
      BY <1>3, <2>1, StaysAlone
    <3>2. todo'[p] # <<>>
      BY <2>1, ListEnds DEF Candidates
    <3> QED BY <3>1, <3>2
  <2>3. todo'[p] = <<Durable>> => captureDir'[p] \in {None, Durable}
    BY <1>2, <2>1, ListEnds DEF Candidates
  <2>4. QuietRun(p)'
    BY <1>2, <2>2, <2>3 DEF QuietRun, Mirrors, Copies
  <2>5. ASSUME kills' = 0 PROVE CalmRun(p)' /\ OneRoot'
    <3>1. CalmRun(p) /\ OneRoot
      BY <1>2, <1>3, <2>5
    <3>2. files[h][1] = read[p] /\ files[h][1] # None
      BY <1>2, <3>1 DEF CalmRun
    <3>3. served # <<>> /\ Latest = read[p]
      BY <1>2, <3>1, <3>2, LoadedIsLatest DEF Holds
    <3>4. CalmRun(p)'
      BY <1>2, <2>1, <2>2, <3>1, <3>3 DEF CalmRun, Mirrors, Copies, Halfway, Holds, Latest
    <3> QED BY <1>2, <3>1, <3>4 DEF OneRoot, Latest
  <2> QED BY <2>2, <2>4, <2>5
<1>7. CASE ~IsPair(read[p], files[h][2])
  <2>1. UNCHANGED <<pc, cached>> /\ todo'[p] = Tail(todo[p])
    BY <1>7 DEF LoadKey, TypeOK
  <2>2. Alone(p)' /\ QuietRun(p)' /\ pc'[p] = "load"
    BY <1>2, <1>3, <2>1 DEF Alone, QuietRun, Mirrors, Copies
  <2>3. kills # 0
    <3>1. SUFFICES ASSUME kills = 0 PROVE FALSE
      OBVIOUS
    <3>2. CalmRun(p)
      BY <1>3, <3>1
    <3>3. files[h][1] = read[p] /\ files[h][1] # None
      BY <1>2, <3>2 DEF CalmRun
    <3>4. served # <<>> /\ Holds(h, Latest)
      BY <1>2, <3>2, <3>3, LoadedIsLatest
    <3> QED BY <1>7, <3>3, <3>4, LatestType DEF IsPair, Holds
  <2> QED BY <1>2, <1>4, <1>5, <2>2, <2>3
<1> QED BY <1>6, <1>7

\* A new root is made and becomes the newest.
LEMMA MintQuiet ==
  ASSUME TypeOK, RunInv, QuietInv, CalmInv, NEW p \in Procs, Mint(p)
  PROVE  QuietInv' /\ CalmInv'
<1>1. SUFFICES ASSUME Quiet'
      PROVE /\ Alone(p)' /\ QuietRun(p)'
            /\ served' # <<>> /\ pc'[p] \in {"off", "load"} => Intact(Latest)'
            /\ kills' = 0 => CalmRun(p)' /\ OneRoot'
  BY AloneSuffices
<1>2. /\ pc[p] = "load" /\ todo[p] = <<>> /\ part[p] = 1
      /\ pc' = [pc EXCEPT ![p] = "mirror"] /\ todo'[p] = Candidates(captureDir[p])
      /\ UNCHANGED <<files, part, captureDir, kills, served, mishaps>>
  BY DEF Mint, MirrorTargets, TypeOK, RunInv
<1>3. Quiet /\ Alone(p) /\ (kills = 0 => CalmRun(p) /\ OneRoot)
  BY <1>1, <1>2, QuietFacts DEF Quiet
<1>4. Alone(p)' /\ pc'[p] = "mirror" /\ todo'[p] # <<>>
  <2>1. Alone(p)' /\ pc'[p] = "mirror"
    BY <1>2, <1>3, StaysAlone
  <2>2. todo'[p] # <<>>
    BY <1>2, ListEnds DEF Candidates
  <2> QED BY <2>1, <2>2
<1>5. todo'[p] = <<Durable>> => captureDir'[p] \in {None, Durable}
  BY <1>2, ListEnds DEF Candidates
<1>6. QuietRun(p)'
  BY <1>2, <1>4, <1>5 DEF QuietRun, Mirrors, Copies
<1>7. ASSUME kills' = 0 PROVE CalmRun(p)' /\ OneRoot'
  <2>1. CalmRun(p) /\ OneRoot
    BY <1>2, <1>3, <1>7
  <2>2. served = <<>>
    BY <1>2, <2>1, LatestType DEF CalmRun, Holds, Halfway, Mirrors, Copies
  <2>3. \A d \in Dirs \cup {Durable} : Holds(d, None)
    BY <1>2, <2>1, <2>2 DEF CalmRun
  <2>4. CalmRun(p)'
    BY <1>2, <1>4, <2>2, <2>3 DEF CalmRun, Mirrors, Copies, Holds
  <2> QED BY <1>2, <2>1, <2>4 DEF OneRoot, Latest
<1> QED BY <1>4, <1>6, <1>7

\* A file is emptied: only the process that will fill it knows.
LEMMA TruncateQuiet ==
  ASSUME TypeOK, RunInv, QuietInv, CalmInv, NEW p \in Procs, Truncate(p)
  PROVE  QuietInv' /\ CalmInv'
<1>1. SUFFICES ASSUME Quiet'
      PROVE /\ Alone(p)' /\ QuietRun(p)'
            /\ served' # <<>> /\ pc'[p] \in {"off", "load"} => Intact(Latest)'
            /\ kills' = 0 => CalmRun(p)' /\ OneRoot'
  BY AloneSuffices
<1> DEFINE h == Head(todo[p])
<1>2. /\ todo[p] # <<>> /\ h \in Dirs \cup {Durable} /\ part[p] \in {1, 2}
      /\ files' = [files EXCEPT ![h][part[p]] = Empty]
      /\ UNCHANGED <<todo, part, cached, captureDir, kills, served, mishaps>>
  BY ListType DEF Truncate, run, history, TypeOK
<1>3. /\ \A j \in {1, 2} : j # part[p] => files'[h][j] = files[h][j]
      /\ \A d \in Dirs \cup {Durable} : d # h =>
           files'[d][1] = files[d][1] /\ files'[d][2] = files[d][2]
  BY <1>2, FileWritten
<1>4. \/ pc[p] = "mirror" /\ pc' = [pc EXCEPT ![p] = "truncated"]
      \/ pc[p] = "copy" /\ pc' = [pc EXCEPT ![p] = "copyTruncated"]
  BY DEF Truncate, Mirroring
<1>5. Quiet /\ Alone(p) /\ QuietRun(p) /\ (kills = 0 => CalmRun(p) /\ OneRoot)
  BY <1>1, <1>2, <1>4, QuietFacts DEF Quiet
<1>6. /\ Alone(p)' /\ pc'[p] \in {"truncated", "copyTruncated"}
      /\ pc[p] = "mirror" <=> pc'[p] = "truncated"
      /\ pc[p] = "copy" <=> pc'[p] = "copyTruncated"
  BY <1>4, <1>5, StaysAlone
<1>7. h = Durable /\ todo[p] # <<Durable>> => pc[p] = "mirror" /\ FALSE
  <2>1. pc[p] = "mirror" => todo[p] \in {Candidates(captureDir[p]), <<Durable>>, <<>>}
    BY DEF RunInv
  <2>2. pc[p] = "copy" => todo[p] = <<captureDir[p]>>
    BY <1>2 DEF RunInv
  <2> QED BY <1>2, <1>4, <2>1, <2>2, CandidatesTail, ListEnds
<1>8. todo[p] = <<Durable>> => h = Durable
  BY ListEnds
<1>9. captureDir[p] \notin {None, Durable} => captureDir[p] \in Dirs
  BY DEF TypeOK
<1> HIDE DEF h
<1>10. QuietRun(p)'
  BY <1>2, <1>3, <1>5, <1>6, <1>7, <1>8, <1>9 DEF QuietRun, Mirrors, Copies, Holds, Latest, h
<1>11. ASSUME kills' = 0 PROVE CalmRun(p)' /\ OneRoot'
  <2>1. CalmRun(p) /\ OneRoot
    BY <1>2, <1>5, <1>11
  <2>2. \A d \in Dirs \cup {Durable} : Halfway(p, d)' <=> d = h
    BY <1>2, <1>6 DEF Halfway, Mirrors, Copies, h
  <2>3. \A d \in Dirs \cup {Durable} : Halfway(p, d) => d = h
    BY DEF Halfway, h
  <2>4. \A d \in Dirs \cup {Durable} : \A c : d # h /\ Holds(d, c) => Holds(d, c)'
    BY <1>3 DEF Holds
  <2>5. (Mirrors(p) <=> Mirrors(p)') /\ Latest' = Latest
    BY <1>2, <1>4, <1>6 DEF Mirrors, Latest
  <2>6. CalmRun(p)'
    BY <1>2, <1>6, <2>1, <2>2, <2>3, <2>4, <2>5 DEF CalmRun
  <2> QED BY <1>2, <2>1, <2>6 DEF OneRoot, Latest
<1> QED BY <1>6, <1>10, <1>11

\* The files of a directory that has been written are the run's pair.
LEMMA WriteQuiet ==
  ASSUME TypeOK, RunInv, QuietInv, CalmInv, NEW p \in Procs, Write(p)
  PROVE  QuietInv' /\ CalmInv'
<1>1. SUFFICES ASSUME Quiet'
      PROVE /\ Alone(p)' /\ QuietRun(p)'
            /\ served' # <<>> /\ pc'[p] \in {"off", "load"} => Intact(Latest)'
            /\ kills' = 0 => CalmRun(p)' /\ OneRoot'
  BY AloneSuffices
<1>a. Head(todo[p]) \in Dirs \cup {Durable} /\ cached[p][1] \in Roots
  BY WriteParts
<1>h. PICK h \in Dirs \cup {Durable} : h = Head(todo[p])
  BY <1>a
<1>r. PICK root \in Roots : root = cached[p][1]
  BY <1>a
<1>d. h \in Dirs \cup {Durable}
  BY <1>h
<1>2. /\ todo[p] # <<>> /\ part[p] \in {1, 2}
      /\ files' = [files EXCEPT ![h][part[p]] = root]
      /\ UNCHANGED <<cached, captureDir, kills, served, mishaps>>
  BY WriteParts, <1>h, <1>r
<1>3. /\ files'[h][part[p]] = root
      /\ \A j \in {1, 2} : j # part[p] => files'[h][j] = files[h][j]
      /\ \A d \in Dirs \cup {Durable} : d # h =>
           files'[d][1] = files[d][1] /\ files'[d][2] = files[d][2]
  BY <1>2 DEF TypeOK
<1> USE <1>h, <1>r
<1>4. \/ pc[p] = "truncated" /\ pc' = [pc EXCEPT ![p] = "mirror"]
      \/ pc[p] = "copyTruncated" /\ pc' = [pc EXCEPT ![p] = "copy"]
  BY DEF Write, Mirroring
<1>5. Quiet /\ Alone(p) /\ QuietRun(p) /\ (kills = 0 => CalmRun(p) /\ OneRoot)
  BY <1>1, <1>2, <1>4, QuietFacts DEF Quiet
<1>6. /\ Alone(p)' /\ pc'[p] \in {"mirror", "copy"}
      /\ pc[p] = "truncated" <=> pc'[p] = "mirror"
      /\ pc[p] = "copyTruncated" <=> pc'[p] = "copy"
  BY <1>4, <1>5, StaysAlone
<1>7. /\ pc[p] = "truncated" => todo[p] \in {Candidates(captureDir[p]), <<Durable>>}
      /\ pc[p] = "copyTruncated" => todo[p] = <<captureDir[p]>>
  BY <1>2 DEF RunInv
<1>8. /\ todo[p] = <<Durable>> => h = Durable
      /\ todo[p] # <<Durable>> => h = captureDir[p] /\ h \notin {None, Durable}
      /\ Tail(todo[p]) \in {<<Durable>>, <<>>}
      /\ pc[p] = "copyTruncated" => Tail(todo[p]) = <<>>
      /\ pc[p] = "truncated" => (Tail(todo[p]) = <<>> <=> todo[p] = <<Durable>>)
  <2>1. CASE pc[p] = "truncated"
    <3>1. todo[p] \in {Candidates(captureDir[p]), <<Durable>>, <<>>}
      BY <1>7, <2>1
    <3>2. /\ Tail(todo[p]) \in {<<Durable>>, <<>>}
          /\ Tail(todo[p]) = <<>> <=> todo[p] = <<Durable>>
          /\ todo[p] = <<Durable>> => Head(todo[p]) = Durable
          /\ todo[p] # <<Durable>> =>
               Head(todo[p]) = captureDir[p] /\ captureDir[p] \notin {None, Durable}
      BY <1>2, <3>1, CandidatesTail
    <3> QED BY <2>1, <3>2
  <2>2. CASE pc[p] = "copyTruncated"
    <3>1. captureDir[p] # None
      BY <1>2, <2>2 DEF RunInv
    <3> QED BY <1>7, <2>2, <3>1, ListEnds
  <2> QED BY <1>4, <2>1, <2>2
<1>9. \/ part[p] = 1 /\ part'[p] = 2 /\ todo' = todo
      \/ part[p] = 2 /\ part'[p] = 1 /\ todo'[p] = Tail(todo[p]) /\ Holds(h, root)'
  <2>1. CASE part[p] = 1
    BY <2>1 DEF Write, NextPart, TypeOK
  <2>2. CASE part[p] = 2
    <3>1. files[h][1] = root
      BY <1>4, <1>5, <2>2 DEF QuietRun, Mirrors, Copies
    <3>2. Holds(h, root)'
      BY <1>2, <1>3, <2>2, <3>1 DEF Holds
    <3> QED BY <2>2, <3>2 DEF Write, NextPart, TypeOK
  <2> QED BY <1>2, <2>1, <2>2
<1>10. captureDir[p] \notin {None, Durable} => captureDir[p] \in Dirs
  BY DEF TypeOK
<1>11. \A d \in Dirs \cup {Durable} : \A c : d # h /\ Holds(d, c) => Holds(d, c)'
  BY <1>3 DEF Holds
<1>12. Latest' = Latest /\ (Mirrors(p) <=> Mirrors(p)') /\ (Copies(p) <=> Copies(p)') /\ cached' = cached
       /\ pc'[p] # "serving" /\ (Copies(p) <=> pc[p] = "copyTruncated") /\ (Mirrors(p) <=> ~Copies(p))
  BY <1>2, <1>4, <1>6 DEF Latest, Mirrors, Copies
<1>13. QuietRun(p)'
  <2>1. ASSUME Mirrors(p)', todo'[p] = <<>> PROVE Holds(Durable, root)'
    BY <1>2, <1>4, <1>8, <1>9, <1>12, <2>1 DEF Holds
  <2>2. ASSUME Mirrors(p)', todo'[p] = <<Durable>>, captureDir[p] \notin {None, Durable}
        PROVE  Holds(captureDir[p], root)'
    <3>1. CASE part[p] = 1
      <4>1. h = Durable /\ Holds(captureDir[p], root)
        BY <1>5, <1>8, <1>9, <1>12, <2>2, <3>1 DEF QuietRun
      <4> QED BY <1>2, <1>3, <1>10, <2>2, <4>1 DEF Holds
    <3>2. CASE part[p] = 2
      <4>1. todo'[p] = Tail(todo[p]) /\ files'[h][1] = root /\ files'[h][2] = root
        BY <1>9, <3>2 DEF Holds
      <4>2. h = captureDir[p]
        <5>1. pc[p] = "truncated" /\ Tail(todo[p]) # <<>>
          BY <1>4, <1>12, <2>2, <4>1, ListEnds
        <5> QED BY <1>8, <5>1
      <4> QED BY <1>2, <4>1, <4>2 DEF Holds
    <3> QED BY <1>2, <3>1, <3>2
  <2>3. ASSUME part'[p] = 2 PROVE files'[Head(todo'[p])][1] = root
    BY <1>3, <1>9, <2>3
  <2>4. ASSUME Copies(p)'
        PROVE  /\ served' # <<>> /\ Latest' = root
               /\ Holds(Durable, root)' \/ todo'[p] = <<Durable>>
    <3>1. /\ served # <<>> /\ Latest = root
          /\ Holds(Durable, root) \/ todo[p] = <<Durable>>
      BY <1>5, <1>12, <2>4 DEF QuietRun
    <3>2. CASE h = Durable
      BY <1>2, <1>8, <1>9, <1>12, <2>4, <3>1, <3>2
    <3>3. CASE h # Durable
      BY <1>2, <1>8, <1>11, <1>12, <3>1, <3>3
    <3> QED BY <3>2, <3>3
  <2> QED BY <1>2, <1>12, <2>1, <2>2, <2>3, <2>4 DEF QuietRun
<1>14. ASSUME kills' = 0 PROVE CalmRun(p)' /\ OneRoot'
  <2>1. CalmRun(p) /\ OneRoot
    BY <1>2, <1>5, <1>14
  <2>2. \A d \in Dirs \cup {Durable} : Halfway(p, d) => d = h
    BY DEF Halfway
  <2>3. Halfway(p, h)' \/ Holds(h, root)'
    BY <1>2, <1>6, <1>9 DEF Halfway, Mirrors, Copies
  <2>4. /\ served # <<>> => Latest = root
        /\ Mirrors(p) \/ served # <<>>
    BY <1>5, <1>12, <2>1 DEF CalmRun, QuietRun
  <2>5. ASSUME served # <<>> PROVE Holds(Durable, Latest)' \/ Halfway(p, Durable)'
    <3>1. Holds(Durable, Latest) \/ h = Durable
      BY <2>1, <2>2, <2>5 DEF CalmRun
    <3> QED BY <1>11, <1>12, <2>3, <2>4, <2>5, <3>1
  <2>6. ASSUME NEW d \in Dirs \cup {Durable}
        PROVE  \/ Holds(d, None)'
               \/ served # <<>> /\ Holds(d, Latest)'
               \/ Halfway(p, d)'
               \/ Mirrors(p) /\ Holds(d, root)'
    <3>1. CASE d = h
      BY <1>12, <2>3, <2>4, <3>1
    <3>2. CASE d # h
      <4>1. \/ Holds(d, None)
            \/ served # <<>> /\ Holds(d, Latest)
            \/ Mirrors(p) /\ Holds(d, root)
        BY <2>1, <2>2, <3>2 DEF CalmRun
      <4> QED BY <1>11, <1>12, <3>2, <4>1
    <3> QED BY <3>1, <3>2
  <2>7. CalmRun(p)'
    BY <1>2, <1>6, <1>12, <2>4, <2>5, <2>6 DEF CalmRun
  <2> QED BY <1>2, <2>1, <2>7 DEF OneRoot, Latest
<1> QED BY <1>6, <1>13, <1>14

\* A pair is served.
LEMMA ServeQuiet ==
  ASSUME TypeOK, RunInv, QuietInv, CalmInv, NEW p \in Procs, Serve(p)
  PROVE  QuietInv' /\ CalmInv'
<1>1. SUFFICES ASSUME Quiet'
      PROVE /\ Alone(p)' /\ QuietRun(p)'
            /\ served' # <<>> /\ pc'[p] \in {"off", "load"} => Intact(Latest)'
            /\ kills' = 0 => CalmRun(p)' /\ OneRoot'
  BY AloneSuffices
<1>2. /\ pc[p] = "mirror" /\ todo[p] = <<>> /\ pc' = [pc EXCEPT ![p] = "copy"]
      /\ UNCHANGED <<files, part, cached, captureDir, kills, mishaps>>
      /\ served' = Append(served, cached[p][1])
      /\ cached[p][1] \in Roots /\ part[p] = 1
  <2>1. pc[p] = "mirror" /\ todo[p] = <<>>
    BY DEF Serve
  <2>2. cached[p][1] \in Roots /\ part[p] # 2 /\ part[p] \in 1..2
    BY <2>1 DEF RunInv, TypeOK
  <2> QED BY <2>1, <2>2 DEF Serve, run
<1>3. Quiet /\ Alone(p) /\ QuietRun(p) /\ (kills = 0 => CalmRun(p) /\ OneRoot)
  BY <1>1, <1>2, QuietFacts DEF Quiet
<1>4. Alone(p)' /\ pc'[p] = "copy"
  BY <1>2, <1>3, StaysAlone
<1>5. /\ served' # <<>> /\ Latest' = cached[p][1]
      /\ OneRoot /\ (served = <<>> \/ Latest = cached[p][1]) => OneRoot'
  BY <1>2, AppendLatest
<1>6. Holds(Durable, cached[p][1])
  BY <1>2, <1>3 DEF QuietRun, Mirrors
<1>7. QuietRun(p)'
  BY <1>2, <1>4, <1>5, <1>6 DEF QuietRun, Mirrors, Copies, Holds
<1>8. ASSUME kills' = 0 PROVE CalmRun(p)' /\ OneRoot'
  <2>1. CalmRun(p) /\ OneRoot /\ Mirrors(p)
    BY <1>2, <1>3, <1>8 DEF Mirrors
  <2>2. served # <<>> => Latest = cached[p][1]
    BY <2>1 DEF CalmRun
  <2>3. \A d \in Dirs \cup {Durable} : Holds(d, None) \/ Holds(d, cached[p][1])
    BY <1>2, <2>1, <2>2 DEF CalmRun, Halfway
  <2>4. CalmRun(p)'
    BY <1>2, <1>4, <1>5, <1>6, <2>3 DEF CalmRun, Mirrors, Copies, Holds
  <2> QED BY <1>5, <2>1, <2>2, <2>4
<1> QED BY <1>4, <1>7, <1>8

\* The copy into the capture directory is done.
LEMMA CopiedQuiet ==
  ASSUME TypeOK, RunInv, QuietInv, CalmInv, NEW p \in Procs, Copied(p)
  PROVE  QuietInv' /\ CalmInv'
<1>1. SUFFICES ASSUME Quiet'
      PROVE /\ Alone(p)' /\ QuietRun(p)'
            /\ served' # <<>> /\ pc'[p] \in {"off", "load"} => Intact(Latest)'
            /\ kills' = 0 => CalmRun(p)' /\ OneRoot'
  BY AloneSuffices
<1>2. /\ pc[p] = "copy" /\ todo[p] = <<>> /\ pc' = [pc EXCEPT ![p] = "serving"]
      /\ UNCHANGED <<files, todo, part, cached, captureDir, kills, served, mishaps>>
  BY DEF Copied, run, history
<1>3. Quiet /\ Alone(p) /\ QuietRun(p) /\ (kills = 0 => CalmRun(p) /\ OneRoot)
  BY <1>1, <1>2, QuietFacts DEF Quiet
<1>4. Alone(p)' /\ pc'[p] = "serving"
  BY <1>2, <1>3, StaysAlone
<1>5. served # <<>> /\ Latest = cached[p][1] /\ Holds(Durable, cached[p][1])
  BY <1>2, <1>3, ListEnds DEF QuietRun, Copies
<1>6. QuietRun(p)'
  BY <1>2, <1>4, <1>5 DEF QuietRun, Mirrors, Copies, Holds, Latest
<1>7. ASSUME kills' = 0 PROVE CalmRun(p)' /\ OneRoot'
  <2>1. CalmRun(p) /\ OneRoot
    BY <1>2, <1>3, <1>7
  <2>2. CalmRun(p)'
    BY <1>2, <1>4, <1>5, <2>1 DEF CalmRun, Mirrors, Copies, Holds, Halfway, Latest
  <2> QED BY <1>2, <2>1, <2>2 DEF OneRoot, Latest
<1> QED BY <1>4, <1>6, <1>7

\* A process that serves stops: nothing is half done.
LEMMA StopQuiet ==
  ASSUME TypeOK, RunInv, QuietInv, CalmInv, NEW p \in Procs, Stop(p)
  PROVE  QuietInv' /\ CalmInv'
<1>1. SUFFICES ASSUME Quiet'
      PROVE /\ Alone(p)' /\ QuietRun(p)'
            /\ served' # <<>> /\ pc'[p] \in {"off", "load"} => Intact(Latest)'
            /\ kills' = 0 => CalmRun(p)' /\ OneRoot'
  BY AloneSuffices
<1>2. /\ pc[p] = "serving" /\ pc' = [pc EXCEPT ![p] = "off"]
      /\ UNCHANGED <<files, kills, served, mishaps>>
  BY DEF Stop, Exit, history
<1>3. Quiet /\ Alone(p) /\ QuietRun(p) /\ (kills = 0 => CalmRun(p) /\ OneRoot)
  BY <1>1, <1>2, QuietFacts DEF Quiet
<1>4. Alone(p)' /\ pc'[p] = "off"
  BY <1>2, <1>3, StaysAlone
<1>5. served # <<>> /\ Holds(Durable, Latest)
  BY <1>2, <1>3 DEF QuietRun, Copies
<1>6. QuietRun(p)'
  BY <1>4 DEF QuietRun, Mirrors, Copies
<1>7. Intact(Latest)'
  <2>1. Intact(Latest)
    BY <1>5, LatestType, HeldIsIntact
  <2> QED BY <1>2, <2>1 DEF Intact, Latest
<1>8. ASSUME kills' = 0 PROVE CalmRun(p)' /\ OneRoot'
  <2>1. CalmRun(p) /\ OneRoot
    BY <1>2, <1>3, <1>8
  <2>2. \A d \in Dirs \cup {Durable} : Holds(d, None) \/ Holds(d, Latest)
    BY <1>2, <2>1 DEF CalmRun, Halfway, Mirrors, Copies
  <2>3. CalmRun(p)'
    BY <1>2, <1>4, <1>5, <2>2 DEF CalmRun, Mirrors, Copies, Holds, Latest
  <2> QED BY <1>2, <2>1, <2>3 DEF OneRoot, Latest
<1> QED BY <1>4, <1>6, <1>7, <1>8

\* Killed at any point, a run that is the first to be killed leaves one of its
\* two directories with the pair served last.
LEMMA KillQuiet ==
  ASSUME TypeOK, RunInv, QuietInv, CalmInv, NEW p \in Procs, Kill(p)
  PROVE  QuietInv' /\ CalmInv'
<1>1. SUFFICES ASSUME Quiet'
      PROVE /\ Alone(p)' /\ QuietRun(p)'
            /\ served' # <<>> /\ pc'[p] \in {"off", "load"} => Intact(Latest)'
            /\ kills' = 0 => CalmRun(p)' /\ OneRoot'
  BY AloneSuffices
<1>2. /\ pc[p] \notin {"off", "serving"} /\ pc' = [pc EXCEPT ![p] = "off"]
      /\ kills' = kills + 1 /\ kills \in Nat
      /\ UNCHANGED <<files, served>>
  BY DEF Kill, Exit, TypeOK
<1>3. mishaps = {} /\ Len(Candidates(captureDir[p])) # 1
  BY <1>1 DEF Kill, Quiet
<1>4. kills = 0 /\ kills' # 0 /\ Quiet
  BY <1>1, <1>2, <1>3 DEF Quiet
<1>5. Alone(p) /\ QuietRun(p) /\ CalmRun(p)
  BY <1>2, <1>4, QuietFacts
<1>6. Alone(p)' /\ QuietRun(p)'
  BY <1>2, <1>5, StaysAlone DEF QuietRun, Mirrors, Copies
<1>7. captureDir[p] \in Dirs /\ captureDir[p] # Durable
  BY <1>3, ListEnds DEF Candidates, TypeOK
<1>8. ASSUME served # <<>> PROVE Intact(Latest)
  <2>1. CASE pc[p] = "load"
    BY <1>3, <1>4, <1>5, <1>8, <2>1 DEF QuietInv, Alone
  <2>2. CASE Mirrors(p)
    <3>1. cached[p][1] = Latest
      BY <1>5, <1>8, <2>2 DEF CalmRun
    <3>2. todo[p] \in {Candidates(captureDir[p]), <<Durable>>, <<>>}
      BY <2>2 DEF RunInv, Mirrors
    <3>3. CASE todo[p] = <<>>
      BY <1>5, <1>8, <2>2, <3>1, <3>3, LatestType, HeldIsIntact DEF QuietRun
    <3>4. CASE todo[p] = <<Durable>>
      <4>1. Holds(captureDir[p], Latest)
        BY <1>5, <1>7, <2>2, <3>1, <3>4, NoneIsNoDir DEF QuietRun
      <4> QED BY <1>7, <1>8, <4>1, LatestType, HeldIsIntact
    <3>5. CASE todo[p] \notin {<<Durable>>, <<>>}
      <4>1. Head(todo[p]) # Durable
        BY <3>2, <3>5, CandidatesTail
      <4>2. Holds(Durable, Latest)
        BY <1>5, <1>8, <4>1 DEF CalmRun, Halfway
      <4> QED BY <1>8, <4>2, LatestType, HeldIsIntact
    <3> QED BY <3>3, <3>4, <3>5
  <2>3. CASE Copies(p)
    <3>1. todo[p] # <<Durable>>
      BY <1>7, <2>3, ListEnds DEF RunInv, Copies
    <3>2. Holds(Durable, Latest)
      BY <1>5, <2>3, <3>1 DEF QuietRun
    <3> QED BY <1>8, <3>2, LatestType, HeldIsIntact
  <2> QED BY <1>2, <2>1, <2>2, <2>3 DEF TypeOK, PCs, Mirrors, Copies
<1>9. served' # <<>> => Intact(Latest)'
  BY <1>2, <1>8 DEF Intact, Latest
<1> QED BY <1>4, <1>6, <1>9

\* Every step keeps the quiet and the calm invariants.
LEMMA CertStepQuiet ==
  TypeOK /\ RunInv /\ QuietInv /\ CalmInv /\ [Next]_vars => QuietInv' /\ CalmInv'
<1> SUFFICES ASSUME TypeOK, RunInv, QuietInv, CalmInv, [Next]_vars PROVE QuietInv' /\ CalmInv'
  OBVIOUS
<1>1. CASE UNCHANGED vars
  BY <1>1 DEF vars, QuietInv, CalmInv, Alone, QuietRun, CalmRun, Mirrors, Copies, Halfway, Holds,
              Latest, Intact
<1>2. ASSUME NEW p \in Procs, StartFails(p) \/ WriteFails(p) PROVE QuietInv' /\ CalmInv'
  <2>1. mishaps' # {}
    BY <1>2 DEF StartFails, WriteFails, CertErr, RunInv, TypeOK, history
  <2> QED BY <2>1 DEF QuietInv, CalmInv
<1> QED BY <1>1, <1>2, StartQuiet, LoadCertQuiet, LoadKeyQuiet, MintQuiet, TruncateQuiet, WriteQuiet,
           ServeQuiet, CopiedQuiet, StopQuiet, KillQuiet DEF Next

\* The quiet and the calm invariants hold at all times.
LEMMA CertQuietInvariant == Spec => [](QuietInv /\ CalmInv)
BY CertInitType, CertStepType, CertInitQuiet, CertStepQuiet, PTL DEF Spec

\* As long as runs follow one another, none is killed and every file can be
\* written, every run serves the same root, whatever --capture-dir each has.
THEOREM OneRootWhenCalmHolds == Spec => []OneRootWhenCalm
<1>1. CalmInv => OneRootWhenCalm
  BY DEF CalmInv, OneRootWhenCalm
<1> QED BY <1>1, CertQuietInvariant, PTL

\* One run that keeps the pair in two directories may be killed at any point:
\* the root served last is intact in one of them.
THEOREM OneKillKeepsRootHolds == Spec => []OneKillKeepsRoot
<1>1. TypeOK /\ QuietInv => OneKillKeepsRoot
  <2> SUFFICES ASSUME TypeOK, QuietInv, mishaps = {}, kills <= 1,
                      \A p \in Procs : pc[p] \in {"off", "serving"}, served # <<>>
               PROVE  Intact(Latest)
    BY DEF OneKillKeepsRoot, Latest
  <2>1. CASE \E p \in Procs : pc[p] = "serving"
    <3>1. Holds(Durable, Latest)
      BY <2>1 DEF QuietInv, QuietRun, Copies
    <3> QED BY <3>1, LatestType, HeldIsIntact
  <2>2. CASE \A p \in Procs : pc[p] = "off"
    BY <2>2 DEF QuietInv
  <2> QED BY <2>1, <2>2
<1> QED BY <1>1, CertTypeInvariant, CertQuietInvariant, PTL
=============================================================================
