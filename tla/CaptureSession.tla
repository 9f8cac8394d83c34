--------------------------- MODULE CaptureSession ---------------------------
(***************************************************************************)
(* fingerprint --serve: captureViaProbe starts a probe server, waits until *)
(* a ClientHello is stored, sleeps, and has LoadCaptureDir read the newest *)
(* file of each kind from a directory that the server's goroutines still   *)
(* write to and that an earlier run may have left files in.                *)
(*                                                                         *)
(* One client visits.  The server's goroutines are here by the files they  *)
(* write, in order (ProbeServer, QuicCapture and H3Control say which).  A  *)
(* file is empty between its creation and its write.  Modification times   *)
(* are those of a clock that may tick slower than files come: of the files *)
(* of one tick LoadCaptureDir takes the first.                             *)
(***************************************************************************)
EXTENDS Integers, Sequences

CONSTANTS
  FingerprintCapture(_, _),  \* the report on what was read, against references
  Missing,   \* what is read of a file that is not there
  Nothing,   \* what there is before anything is read
  CorpusLayers,  \* the families' own captures, which do not change while the command runs
  Traffic,   \* what a client of each family sends, by writer: its files in order
  Visitors,  \* the families that may visit
  Leftovers  \* the file of each kind, or Missing, that a client of a family
             \* may have left at an earlier run

\* The goroutines that write files.
Writers == {"hello", "h2", "h3", "quic"}
Kinds   == {"hello", "h2", "h3", "flight", "quic"}

VARIABLES
  command,  \* "off", "wait", "sleep", "done", "failed"
  family,   \* of the visiting client
  stored,   \* Server.lastHello is set
  next,     \* the number of the file each writer writes next
  opened,   \* the writers that have created it
  newest,   \* the file LoadCaptureDir takes, by kind
  loaded,   \* the files the command took
  report    \* FingerprintCapture's

vars == <<command, family, stored, next, opened, newest, loaded, report>>

\* A file of a kind, the n-th of its writer, or 0 if it was there before.
File(kind, owner, n, whole) == [kind |-> kind, owner |-> owner, n |-> n, whole |-> whole]
NoFile == File("none", "none", 0, FALSE)

WriterOf(kind) == IF kind = "flight" THEN "quic" ELSE kind

\* What is in a file: an empty one is like none.
Content(f) ==
  IF ~f.whole THEN Missing
  ELSE IF f.n = 0 THEN Leftovers[f.owner][f.kind]
  ELSE Traffic[f.owner][WriterOf(f.kind)][f.n].content

EmptyDir == [k \in Kinds |-> NoFile]
Remaining(f) == [k \in Kinds |-> IF Leftovers[f][k] = Missing THEN NoFile ELSE File(k, f, 0, TRUE)]

Off ==
  /\ command = "off" /\ family = "none"
  /\ stored = FALSE /\ next = [w \in Writers |-> 1] /\ opened = {}
  /\ newest = EmptyDir /\ loaded = Nothing /\ report = Nothing

Init == Off

\* The command starts the server, and a client comes.
Start ==
  /\ command = "off" /\ command' = "wait"
  /\ family' \in Visitors
  /\ newest' \in {EmptyDir} \cup {Remaining(f) : f \in DOMAIN Leftovers}
  /\ UNCHANGED <<stored, next, opened, loaded, report>>

-----------------------------------------------------------------------------
(* The directory                                                           *)

\* A file's time is set by its creation and by its write.  In a later tick
\* it is taken; in that of the newest one it is passed over.
Touch(file) ==
  LET now == newest[file.kind]
      is  == now.owner = file.owner /\ now.n = file.n
  IN \/ newest' = [newest EXCEPT ![file.kind] = file]
     \/ ~is /\ now # NoFile /\ UNCHANGED newest

\* storeHello sets lastHello before it writes.
StoreHello ==
  /\ ~stored
  /\ stored' = TRUE
  /\ UNCHANGED <<family, next, opened, newest, command, loaded, report>>

Due(w) == next[w] \in DOMAIN Traffic[family][w] /\ (w = "hello" => stored)

\* os.WriteFile creates the file, and then fills it.
Create(w) ==
  LET e == Traffic[family][w][next[w]] IN
  /\ Due(w) /\ w \notin opened
  /\ opened' = opened \cup {w}
  /\ Touch(File(e.kind, family, next[w], FALSE))
  /\ UNCHANGED <<family, stored, next, command, loaded, report>>

Fill(w) ==
  LET e == Traffic[family][w][next[w]] IN
  /\ w \in opened
  /\ opened' = opened \ {w}
  /\ next' = [next EXCEPT ![w] = @ + 1]
  /\ Touch(File(e.kind, family, next[w], TRUE))
  /\ UNCHANGED <<family, stored, command, loaded, report>>

-----------------------------------------------------------------------------
(* captureViaProbe and fingerprintCmd                                      *)

\* A hello is there, or the time is over.
Wait ==
  /\ command = "wait"
  /\ command' = IF stored THEN "sleep" ELSE "failed"
  /\ UNCHANGED <<family, stored, next, opened, newest, loaded, report>>

\* The files that are taken: a flight wins over a single Initial.
QuicFile(dir) == IF dir.flight # NoFile THEN dir.flight ELSE dir.quic

Taken(dir) ==
  [hello |-> dir.hello, h2 |-> dir.h2, h3 |-> dir.h3, quic |-> QuicFile(dir)]

\* LoadCaptureDir, and the report on what it returns.  The kinds have writers
\* of their own, so that what is read of each at a time of its own can also be
\* read of all at once.
Load ==
  /\ command = "sleep"
  /\ LET taken == Taken(newest)
         rep   == FingerprintCapture(CorpusLayers, [l \in DOMAIN taken |-> Content(taken[l])])
     IN /\ loaded' = taken
        /\ report' = rep
        /\ command' = IF rep.err THEN "failed" ELSE "done"
  /\ UNCHANGED <<family, stored, next, opened, newest>>

\* The server's goroutines end with the command.
Running == command \in {"wait", "sleep"}

Next ==
  \/ Running /\ StoreHello
  \/ Running /\ \E w \in Writers : Create(w) \/ Fill(w)
  \/ Start \/ Wait \/ Load

Spec == Init /\ [][Next]_vars

-----------------------------------------------------------------------------

TypeOK ==
  /\ command \in {"off", "wait", "sleep", "done", "failed"}
  /\ family \in Visitors \cup {"none"} /\ stored \in BOOLEAN
  /\ command # "off" => \A w \in Writers : next[w] \in 1..(Len(Traffic[family][w]) + 1)
  /\ opened \subseteq Writers
  /\ DOMAIN newest = Kinds
  /\ \A k \in Kinds : newest[k].owner \in {"none", family} \cup DOMAIN Leftovers

\* What the types need to be kept: the client stays, a file that was created
\* is one of its writer's, and nothing has come before the command starts.
SessionInv ==
  /\ newest = [k \in Kinds |-> newest[k]] /\ next = [w \in Writers |-> next[w]]
  /\ IF command = "off" THEN opened = {} /\ next = [w \in Writers |-> 1]
     ELSE family \in Visitors /\ \A w \in opened : next[w] \in DOMAIN Traffic[family][w]

Engine(f) == IF f = "firefox" THEN "Gecko" ELSE "Chromium"

\* The layers the command read, and whose they are.
WasRead(l) == command = "done" /\ loaded[l].whole

\* The accusation is never made of a client whose hello and HTTP/2 flight are
\* of one engine, whatever stale or half-written files the rest comes from.
NoFalseConflict ==
  report # Nothing /\ ~report.err /\ report.Conflict =>
    WasRead("hello") /\ WasRead("h2") /\ Engine(loaded.hello.owner) # Engine(loaded.h2.owner)

\* When files of two clients are mixed so that the verdict is not the engine
\* of the hello, the report says so.
MixUpIsReported ==
  WasRead("hello") /\ Engine(report.Best) # Engine(loaded.hello.owner) => report.Conflict
=============================================================================
