----------------------------- MODULE ProbeCert -----------------------------
(***************************************************************************)
(* The probe's Root CA (internal/probe/cert.go): where a starting process  *)
(* looks for the PEM pair, when it mints one, and how it copies the pair   *)
(* into every candidate directory.  os.WriteFile truncates the file and    *)
(* then writes it, so a process killed in between leaves an empty file,    *)
(* and another process may read one.                                       *)
(***************************************************************************)
EXTENDS Integers, Sequences, FiniteSets

CONSTANTS
  Procs,        \* coherencelab processes, each started any number of times
  Dirs,         \* directories given as --capture-dir
  Durable,      \* DurableCertDir()
  Roots,        \* bound: the pairs that can be minted
  MaxStarts,    \* bound: how many times a process is started
  MaxKills,     \* bound: how many of the runs are killed
  WritesFail,   \* whether opening or writing a file may fail
  None, Empty   \* no file; a truncated file

ASSUME RootsAreNoMarks == {None, Empty} \cap Roots = {} /\ None # Empty
ASSUME NoneIsNoDir == None \notin Dirs \cup {Durable}
ASSUME BoundsAreNaturals == MaxStarts \in Nat /\ MaxKills \in Nat

Names == <<"probe-cert.pem", "probe-key.pem">>

VARIABLES
  files,        \* the content of each PEM file: whose pair it belongs to
  pc,           \* where each process stands
  captureDir,   \* certPersistDir: None when there is no --capture-dir
  todo,         \* the directories still to read, or still to write
  part,         \* which of the two files is read or written next
  read,         \* the certificate loadCertPEMs has read
  cached,       \* cachedCertPEM and cachedKeyPEM
  minted,       \* whether this run minted its pair
  failed,       \* whether a write of this run failed
  \* history
  starts, kills,
  used,         \* the pairs minted so far
  served,       \* the pairs served, in order
  mishaps       \* what happened besides runs that end normally, one by one

vars == <<files, pc, captureDir, todo, part, read, cached, minted, failed,
          starts, kills, used, served, mishaps>>
run == <<captureDir, minted, failed>>
history == <<starts, kills, used, served, mishaps>>

Contents == Roots \cup {None, Empty}
PCs == {"off", "load", "mirror", "truncated", "copy", "copyTruncated", "serving"}

TypeOK ==
  /\ files \in [Dirs \cup {Durable} -> [1..2 -> Contents]]
  /\ pc \in [Procs -> PCs]
  /\ captureDir \in [Procs -> Dirs \cup {Durable, None}]
  /\ todo \in [Procs -> Seq(Dirs \cup {Durable})]
  /\ part \in [Procs -> 1..2]
  /\ read \in [Procs -> Contents]
  /\ cached \in [Procs -> [1..2 -> Roots \cup {None}]]
  /\ minted \in [Procs -> BOOLEAN] /\ failed \in [Procs -> BOOLEAN]
  /\ starts \in 0..MaxStarts /\ kills \in 0..MaxKills
  /\ used \subseteq Roots /\ served \in Seq(Roots)
  /\ mishaps \subseteq {"overlap", "failedWrite", "killedAlone"}

Init ==
  /\ files = [d \in Dirs \cup {Durable} |-> <<None, None>>]
  /\ pc = [p \in Procs |-> "off"]
  /\ captureDir = [p \in Procs |-> None]
  /\ todo = [p \in Procs |-> <<>>]
  /\ part = [p \in Procs |-> 1]
  /\ read = [p \in Procs |-> None]
  /\ cached = [p \in Procs |-> <<None, None>>]
  /\ minted = [p \in Procs |-> FALSE]
  /\ failed = [p \in Procs |-> FALSE]
  /\ starts = 0 /\ kills = 0
  /\ used = {} /\ served = <<>> /\ mishaps = {}

\* The process is gone, and its memory with it.
Exit(p) ==
  /\ pc' = [pc EXCEPT ![p] = "off"]
  /\ captureDir' = [captureDir EXCEPT ![p] = None]
  /\ todo' = [todo EXCEPT ![p] = <<>>]
  /\ part' = [part EXCEPT ![p] = 1]
  /\ read' = [read EXCEPT ![p] = None]
  /\ cached' = [cached EXCEPT ![p] = <<None, None>>]
  /\ minted' = [minted EXCEPT ![p] = FALSE]
  /\ failed' = [failed EXCEPT ![p] = FALSE]

-----------------------------------------------------------------------------
(* buildCerts                                                              *)

\* mutant: the durable directory is a fallback for runs without --capture-dir
DurableOnlyAlone(dir) == IF dir = None THEN <<Durable>> ELSE <<dir>>

\* The directories buildCerts reads, in order.
Candidates(dir) == IF dir \in {None, Durable} THEN <<Durable>> ELSE <<dir, Durable>>

\* mutant: the pair goes to the capture directory only
MirrorFirst(dir) == <<Head(Candidates(dir))>>

\* mirrorCachedPEMs(candidates), which skips repeats
MirrorTargets(dir) == Candidates(dir)

Start(p, dir) ==
  /\ pc[p] = "off"
  /\ starts < MaxStarts
  /\ starts' = starts + 1
  /\ pc' = [pc EXCEPT ![p] = "load"]
  /\ captureDir' = [captureDir EXCEPT ![p] = dir]
  /\ todo' = [todo EXCEPT ![p] = Candidates(dir)]
  /\ mishaps' = IF \E q \in Procs : pc[q] # "off" THEN mishaps \cup {"overlap"} ELSE mishaps
  /\ UNCHANGED <<files, part, read, cached, minted, failed, kills, used, served>>

\* Reading probe-cert.pem of the first candidate left.
LoadCert(p) ==
  /\ pc[p] = "load" /\ todo[p] # <<>> /\ part[p] = 1
  /\ read' = [read EXCEPT ![p] = files[Head(todo[p])][1]]
  /\ IF read'[p] = None
     THEN todo' = [todo EXCEPT ![p] = Tail(@)] /\ UNCHANGED part
     ELSE part' = [part EXCEPT ![p] = 2] /\ UNCHANGED todo
  /\ UNCHANGED <<files, pc, run, cached, history>>

\* mutant: any two PEM files are taken for a pair
AnyTwoPEMs(cert, key) == cert \in Roots /\ key \in Roots

\* tls.X509KeyPair: both files parse and the key is the certificate's.
IsPair(cert, key) == cert \in Roots /\ key = cert

\* Reading probe-key.pem, then cacheFromPEM: the pair, or the next candidate.
LoadKey(p) ==
  LET key == files[Head(todo[p])][2] IN
  /\ pc[p] = "load" /\ todo[p] # <<>> /\ part[p] = 2
  /\ part' = [part EXCEPT ![p] = 1]
  /\ read' = [read EXCEPT ![p] = None]
  /\ IF IsPair(read[p], key)
     THEN /\ cached' = [cached EXCEPT ![p] = <<read[p], key>>]
          /\ pc' = [pc EXCEPT ![p] = "mirror"]
          /\ todo' = [todo EXCEPT ![p] = MirrorTargets(captureDir[p])]
     ELSE /\ todo' = [todo EXCEPT ![p] = Tail(@)]
          /\ UNCHANGED <<pc, cached>>
  /\ UNCHANGED <<files, run, history>>

\* No candidate holds a pair.
Mint(p) ==
  /\ pc[p] = "load" /\ todo[p] = <<>>
  /\ \E root \in Roots \ used :
       /\ used' = used \cup {root}
       /\ cached' = [cached EXCEPT ![p] = <<root, root>>]
  /\ minted' = [minted EXCEPT ![p] = TRUE]
  /\ pc' = [pc EXCEPT ![p] = "mirror"]
  /\ todo' = [todo EXCEPT ![p] = MirrorTargets(captureDir[p])]
  /\ UNCHANGED <<files, part, read, captureDir, failed, starts, kills, served, mishaps>>

-----------------------------------------------------------------------------
(* writeCertPEMsTo, called by mirrorCachedPEMs and by WriteCertPEMs        *)

\* Within mirrorCachedPEMs, as opposed to WriteCertPEMs.
Mirroring(p) == pc[p] \in {"mirror", "truncated"}

\* os.WriteFile opens and truncates the file.
Truncate(p) ==
  /\ pc[p] \in {"mirror", "copy"} /\ todo[p] # <<>>
  /\ files' = [files EXCEPT ![Head(todo[p])][part[p]] = Empty]
  /\ pc' = [pc EXCEPT ![p] = IF Mirroring(p) THEN "truncated" ELSE "copyTruncated"]
  /\ UNCHANGED <<todo, part, read, cached, run, history>>

\* mutant: the key of the last directory is followed by a third file
NextPartOn(i) == i + 1

\* The certificate first, then the key.
NextPart(i) == 3 - i

\* It writes the content, and the next file or directory is up.
Write(p) ==
  /\ pc[p] \in {"truncated", "copyTruncated"}
  /\ files' = [files EXCEPT ![Head(todo[p])][part[p]] = cached[p][part[p]]]
  /\ pc' = [pc EXCEPT ![p] = IF Mirroring(p) THEN "mirror" ELSE "copy"]
  /\ part' = [part EXCEPT ![p] = NextPart(@)]
  /\ todo' = [todo EXCEPT ![p] = IF part[p] = 2 THEN Tail(@) ELSE @]
  /\ UNCHANGED <<read, cached, run, history>>

\* The open or the write fails: the rest of this directory is skipped.
WriteFails(p) ==
  /\ WritesFail
  /\ Mirroring(p) \/ pc[p] \in {"copy", "copyTruncated"}
  /\ todo[p] # <<>>
  /\ pc' = [pc EXCEPT ![p] = IF Mirroring(p) THEN "mirror" ELSE "copy"]
  /\ failed' = [failed EXCEPT ![p] = TRUE]
  /\ part' = [part EXCEPT ![p] = 1]
  /\ todo' = [todo EXCEPT ![p] = Tail(@)]
  /\ mishaps' = mishaps \cup {"failedWrite"}
  /\ UNCHANGED <<files, read, cached, captureDir, minted, starts, kills, used, served>>

\* A failed write is an error of a minting run only (certErr).
CertErr(p) == minted[p] /\ failed[p]

\* The end of buildCerts when a minted pair is not everywhere: Start fails.
StartFails(p) ==
  /\ pc[p] = "mirror" /\ todo[p] = <<>> /\ CertErr(p)
  /\ Exit(p)
  /\ UNCHANGED <<files, history>>

\* The end of buildCerts otherwise.  Start serves the pair and copies it into
\* the capture directory once more.
Serve(p) ==
  /\ pc[p] = "mirror" /\ todo[p] = <<>> /\ ~CertErr(p)
  /\ pc' = [pc EXCEPT ![p] = "copy"]
  /\ served' = Append(served, cached[p][1])
  /\ todo' = [todo EXCEPT ![p] = IF captureDir[p] = None THEN <<>> ELSE <<captureDir[p]>>]
  /\ UNCHANGED <<files, part, read, cached, run, starts, kills, used, mishaps>>

Copied(p) ==
  /\ pc[p] = "copy" /\ todo[p] = <<>>
  /\ pc' = [pc EXCEPT ![p] = "serving"]
  /\ UNCHANGED <<files, todo, part, read, cached, run, history>>

Stop(p) ==
  /\ pc[p] = "serving"
  /\ Exit(p)
  /\ UNCHANGED <<files, history>>

\* The process is killed.
Kill(p) ==
  /\ pc[p] \notin {"off", "serving"}
  /\ kills < MaxKills
  /\ kills' = kills + 1
  /\ mishaps' = IF Len(Candidates(captureDir[p])) = 1
                 THEN mishaps \cup {"killedAlone"} ELSE mishaps
  /\ Exit(p)
  /\ UNCHANGED <<files, starts, used, served>>

Next ==
  \E p \in Procs :
    \/ \E dir \in Dirs \cup {None} : Start(p, dir)
    \/ LoadCert(p) \/ LoadKey(p) \/ Mint(p)
    \/ Truncate(p) \/ Write(p) \/ WriteFails(p)
    \/ StartFails(p) \/ Serve(p) \/ Copied(p) \/ Stop(p) \/ Kill(p)

Spec == Init /\ [][Next]_vars

-----------------------------------------------------------------------------

\* What a run serves and hands to the browser to trust is a certificate with
\* its own key, although another run may be rewriting either file while
\* loadCertPEMs reads them.
ServesMatchingPair ==
  \A p \in Procs : pc[p] \in {"mirror", "copy", "serving"} => cached[p][1] = cached[p][2]

\* As long as runs follow one another, end normally and can write, every run
\* serves the same root, whatever --capture-dir each is given.
OneRootWhenCalm ==
  mishaps = {} /\ kills = 0 => \A i, j \in DOMAIN served : served[i] = served[j]

Intact(root) == \E d \in Dirs \cup {Durable} : files[d] = <<root, root>>

\* Of the two copies of the served root, one survives a run being killed at
\* any point, between two files or halfway through one.
OneKillKeepsRoot ==
  /\ mishaps = {} /\ kills <= 1
  /\ \A p \in Procs : pc[p] \in {"off", "serving"}
  /\ served # <<>>
  => Intact(served[Len(served)])

\* What makes these inductive.  What a run has still to read or to write is
\* the end of its list, and it writes a pair that it has loaded or minted.
RunInv ==
  \A p \in Procs :
    /\ pc[p] \in {"load", "mirror", "truncated"} =>
         todo[p] \in {Candidates(captureDir[p]), <<Durable>>, <<>>}
    /\ pc[p] \in {"copy", "copyTruncated"} =>
         todo[p] = <<>> \/ (captureDir[p] # None /\ todo[p] = <<captureDir[p]>>)
    /\ pc[p] \in {"truncated", "copyTruncated"} \/ part[p] = 2 => todo[p] # <<>>
    /\ pc[p] = "off" => part[p] = 1
    /\ pc[p] \notin {"off", "load"} => cached[p][1] \in Roots /\ cached[p][2] = cached[p][1]
    /\ failed[p] => "failedWrite" \in mishaps

Alone(p) == \A q \in Procs : q # p => pc[q] = "off"
Holds(d, content) == files[d][1] = content /\ files[d][2] = content
Latest == served[Len(served)]
Mirrors(p) == pc[p] \in {"mirror", "truncated"}
Copies(p) == pc[p] \in {"copy", "copyTruncated"}

\* A run that has yet to serve has its pair in the directories it is done
\* with; one that has served left it in the durable directory, unless it is
\* writing it there again.
QuietRun(p) ==
  /\ Mirrors(p) =>
       /\ todo[p] = <<>> => Holds(Durable, cached[p][1])
       /\ todo[p] = <<Durable>> /\ captureDir[p] \notin {None, Durable} =>
            Holds(captureDir[p], cached[p][1])
  /\ (Mirrors(p) \/ Copies(p)) /\ part[p] = 2 => files[Head(todo[p])][1] = cached[p][1]
  /\ Copies(p) \/ pc[p] = "serving" =>
       /\ served # <<>> /\ Latest = cached[p][1]
       /\ Holds(Durable, cached[p][1]) \/ (Copies(p) /\ todo[p] = <<Durable>>)

\* Runs that follow one another, of which one may be killed.
QuietInv ==
  mishaps = {} /\ kills <= 1 =>
    /\ \A p \in Procs : pc[p] # "off" => Alone(p)
    /\ \A p \in Procs : QuietRun(p)
    /\ served # <<>> /\ (\A p \in Procs : pc[p] \in {"off", "load"}) => Intact(Latest)

\* In the middle of the two files of a directory.
Halfway(p, d) ==
  /\ Mirrors(p) \/ Copies(p)
  /\ todo[p] # <<>> /\ d = Head(todo[p])
  /\ part[p] = 2 \/ pc[p] \in {"truncated", "copyTruncated"}

\* There is but one pair, in the durable directory once it has been served; any
\* other directory has it or nothing, and a run that finds nothing mints.
CalmRun(p) ==
  /\ served = <<>> /\ pc[p] \in {"off", "load"} =>
       \A d \in Dirs \cup {Durable} : Holds(d, None)
  /\ served # <<>> =>
       /\ Mirrors(p) => cached[p][1] = Latest
       /\ Holds(Durable, Latest) \/ Halfway(p, Durable)
  /\ \A d \in Dirs \cup {Durable} :
       \/ Holds(d, None)
       \/ served # <<>> /\ Holds(d, Latest)
       \/ Halfway(p, d)
       \/ Mirrors(p) /\ Holds(d, cached[p][1])
  /\ pc[p] = "load" =>
       /\ todo[p] = <<>> => Holds(Durable, None)
       /\ part[p] = 2 => read[p] # None /\ read[p] = files[Head(todo[p])][1]

\* Runs that follow one another, of which none is killed.
CalmInv ==
  mishaps = {} /\ kills = 0 =>
    /\ \A i \in DOMAIN served : served[i] = Latest
    /\ \A p \in Procs : Alone(p) => CalmRun(p)

\* docs/live-capture.md: "Switching --capture-dir no longer mints a new Root
\* CA".  A run given one directory does not mint while the directory of an
\* earlier run still holds the root that was served.
MintsOnlyTheFirstRoot ==
  \A p \in Procs : minted[p] /\ pc[p] = "mirror" /\ captureDir[p] # None =>
    ~ \E d \in Dirs \ {captureDir[p]} : \E i \in DOMAIN served : Holds(d, served[i])
=============================================================================
