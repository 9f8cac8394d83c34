--------------------------- MODULE ReplayedStream ---------------------------
(***************************************************************************)
(* What HelloCaptureConn promises the TLS stack above it ("bytes are       *)
(* replayed transparently on subsequent Reads"): it sees what the client   *)
(* sent, in order, as if nothing had been read before.  A client that      *)
(* stops in the middle of its first record is the one exception the code   *)
(* makes: the record may then be made up with zeros to its full length.    *)
(***************************************************************************)
EXTENDS Integers, Sequences, SequencesExt

CONSTANTS Byte, Zero

VARIABLES sent, delivered, ended

Init == sent = <<>> /\ delivered = <<>> /\ ended = FALSE

Send ==
  /\ ~ended
  /\ \E b \in Byte : sent' = Append(sent, b)
  /\ UNCHANGED <<delivered, ended>>

End == ~ended /\ ended' = TRUE /\ UNCHANGED <<sent, delivered>>

\* A Read returns the next bytes sent.
Deliver ==
  /\ delivered' # delivered
  /\ IsPrefix(delivered, delivered') /\ IsPrefix(delivered', sent)
  /\ UNCHANGED <<sent, ended>>

Padding(s) == \A i \in DOMAIN s : s[i] = Zero

\* A Read returns bytes of the record made up with zeros.
DeliverPadded ==
  /\ ended
  /\ delivered' # delivered
  /\ IsPrefix(delivered, delivered')
  /\ \E n \in 0..Len(delivered') :
       /\ IsPrefix(SubSeq(delivered', 1, n), sent)
       /\ Padding(SubSeq(delivered', n + 1, Len(delivered')))
  /\ UNCHANGED <<sent, ended>>

Next == Send \/ End \/ Deliver \/ DeliverPadded

Spec == Init /\ [][Next]_<<sent, delivered, ended>>
=============================================================================
