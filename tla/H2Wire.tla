------------------------------- MODULE H2Wire -------------------------------
(***************************************************************************)
(* The HTTP/2 side of internal/dissect: ParseH2 over a captured client     *)
(* flight, the HPACK decoder, the order of the pseudo-headers and the      *)
(* fingerprint built from them.                                            *)
(*                                                                         *)
(* A flight is a record of the preface, the frames that are there in full, *)
(* and where it is cut: not at all, in the nine bytes that head a frame,   *)
(* or in a payload.  A header block is a sequence of representations; a    *)
(* frame carries some of them, plen bytes long with its padding.           *)
(***************************************************************************)
EXTENDS Integers, Sequences, FiniteSets, SequencesExt

-----------------------------------------------------------------------------
(* hpack.go                                                                *)

\* Field representations: an indexed field, a literal with or without
\* incremental indexing (name index 0: the name is spelled out), and a change
\* of the table's size.  len is the length of name and value.
Indexed(idx)                  == [rep |-> "indexed", idx |-> idx]
Literal(idx, name, value, len) ==
  [rep |-> "literal", idx |-> idx, name |-> name, value |-> value, len |-> len]
LiteralIncremental(idx, name, value, len) ==
  [Literal(idx, name, value, len) EXCEPT !.rep = "incremental"]
SizeUpdate(max)               == [rep |-> "size", max |-> max]

Field(name, value, len) == [name |-> name, value |-> value, len |-> len]

staticCount == 61

\* The static table, by the names that PseudoOrder tells apart; of the values,
\* those of a request.
hpackStatic(idx) ==
  CASE idx = 1        -> Field(":authority", "", 10)
    [] idx \in {2, 3} -> Field(":method", IF idx = 2 THEN "GET" ELSE "POST", 10)
    [] idx \in {4, 5} -> Field(":path", IF idx = 4 THEN "/" ELSE "/index.html", 6)
    [] idx \in {6, 7} -> Field(":scheme", IF idx = 6 THEN "http" ELSE "https", 12)
    [] idx \in 8..14  -> Field(":status", "", 10)
    [] OTHER          -> Field("other", "", 5)

TableSize(dyn) ==
  LET size[n \in 0..Len(dyn)] == IF n = 0 THEN 0 ELSE size[n - 1] + 32 + dyn[n].len
  IN size[Len(dyn)]

\* mutant: the entries that fit are kept, and a new one only if it does
EvictNewest(dyn, max) == IF TableSize(dyn) > max /\ dyn # <<>> THEN Tail(dyn) ELSE dyn

\* The newest entries that fit.
evict(dyn, max) ==
  SubSeq(dyn, 1, Max({k \in 0..Len(dyn) : TableSize(SubSeq(dyn, 1, k)) <= max}))

InTable(d, idx) == idx \in 1..(staticCount + Len(d.dyn))

lookup(d, idx) ==
  IF idx <= staticCount THEN hpackStatic(idx) ELSE d.dyn[idx - staticCount]

\* A literal's field; its length counts the name it refers to.
literal(d, r) ==
  IF r.idx = 0 THEN Field(r.name, r.value, r.len)
  ELSE Field(lookup(d, r.idx).name, r.value, r.len)

RefersTo(d, r) ==
  CASE r.rep = "indexed" -> InTable(d, r.idx)
    [] r.rep = "size"    -> r.max <= 4096 * 2
    [] OTHER             -> r.idx = 0 \/ InTable(d, r.idx)

\* One turn of hpackDecoder.decode.
DecodeRep(d, r) ==
  IF ~d.ok \/ ~RefersTo(d, r) THEN [d EXCEPT !.ok = FALSE]
  ELSE CASE r.rep = "indexed" -> [d EXCEPT !.fields = Append(@, lookup(d, r.idx))]
         [] r.rep = "literal" -> [d EXCEPT !.fields = Append(@, literal(d, r))]
         [] r.rep = "incremental" ->
              [d EXCEPT !.fields = Append(@, literal(d, r)),
                        !.dyn    = evict(<<literal(d, r)>> \o @, d.maxTableSize)]
         [] r.rep = "size" ->
              [d EXCEPT !.maxTableSize = r.max, !.dyn = evict(@, r.max)]

\* A block starts from an empty table: each is decoded by itself.
NewDecoder == [ok |-> TRUE, fields |-> <<>>, dyn |-> <<>>, maxTableSize |-> 4096]

\* The decoder, after each of the representations.
Decoders(reps) ==
  LET d[i \in 0..Len(reps)] == IF i = 0 THEN NewDecoder ELSE DecodeRep(d[i - 1], reps[i])
  IN d

decode(reps) == Decoders(reps)[Len(reps)]

\* What a block may be made of.
IsBlock(reps) ==
  /\ reps \in Seq(Range(reps))
  /\ \A i \in DOMAIN reps :
       /\ reps[i].rep \in {"indexed", "literal", "incremental", "size"}
       /\ reps[i].rep = "size" => reps[i].max \in Nat

\* The fields that a block inserts, the newest first.
Insertions(reps) ==
  LET newest[i \in 0..Len(reps)] ==
        IF i = 0 THEN <<>>
        ELSE IF reps[i].rep = "incremental" THEN <<reps[i]>> \o newest[i - 1]
        ELSE newest[i - 1]
  IN newest[Len(reps)]

-----------------------------------------------------------------------------
(* pseudo.go                                                               *)

PseudoLetter(name) ==
  CASE name = ":method" -> "m" [] name = ":authority" -> "a"
    [] name = ":scheme" -> "s" [] name = ":path" -> "p"
    [] name = ":protocol" -> "c" [] OTHER -> "?"

PseudoHeaders == {":method", ":authority", ":scheme", ":path", ":protocol", ":status"}

\* HeaderBlock.PseudoOrder
PseudoOrder(fields) ==
  LET pseudo == SelectSeq(fields, LAMBDA f : f.name \in PseudoHeaders)
  IN [i \in DOMAIN pseudo |-> PseudoLetter(pseudo[i].name)]

PseudoChrome  == <<"m", "a", "s", "p">>
PseudoFirefox == <<"m", "p", "a", "s">>
PseudoSafari  == <<"m", "s", "p", "a">>

FamilyGuess(fields) ==
  CASE PseudoOrder(fields) = PseudoChrome  -> "chrome"
    [] PseudoOrder(fields) = PseudoFirefox -> "firefox"
    [] PseudoOrder(fields) = PseudoSafari  -> "safari"
    [] OTHER -> "unknown"

-----------------------------------------------------------------------------
(* h2.go                                                                   *)

\* extractHeaderFragment: the padding leaves room for itself, its length and
\* a PRIORITY.
PaddingFits(fr) ==
  LET o == IF "PADDED" \in fr.flags THEN 1 ELSE 0
      pad == IF "PADDED" \in fr.flags THEN fr.pad ELSE 0
  IN /\ o + pad <= fr.plen
     /\ "PRIORITY" \in fr.flags => o + 5 <= fr.plen - pad

\* The frames of the header block that starts at frame i: the CONTINUATION
\* frames of its stream that follow directly, up to the first END_HEADERS.
BlockEnds(frames, i) ==
  {j \in i..Len(frames) :
     /\ "END_HEADERS" \in frames[j].flags
     /\ \A k \in (i + 1)..j : frames[k].type = "CONTINUATION" /\ frames[k].stream = frames[i].stream
     /\ \A k \in i..(j - 1) : "END_HEADERS" \notin frames[k].flags}

Merged(frames, i, j) ==
  FlattenSeq([k \in 1..(j - i + 1) |-> frames[i + k - 1].block])

\* The decoded block that starts at frame i, or <<>>: incomplete, badly
\* padded and undecodable blocks are left out.
BlockAt(frames, i) ==
  IF frames[i].type # "HEADERS" \/ ~PaddingFits(frames[i]) \/ BlockEnds(frames, i) = {} THEN <<>>
  ELSE LET d == decode(Merged(frames, i, Max(BlockEnds(frames, i))))
       IN IF d.ok THEN <<d.fields>> ELSE <<>>

assembleHeaderBlocks(frames) == FlattenSeq([i \in DOMAIN frames |-> BlockAt(frames, i)])

\* annotateFrame: an acknowledgement and a malformed frame add nothing.
SettingsOf(frames) ==
  FlattenSeq([i \in DOMAIN frames |->
    IF frames[i].type = "SETTINGS" /\ "ACK" \notin frames[i].flags /\ frames[i].plen % 6 = 0
    THEN frames[i].settings ELSE <<>>])

WindowUpdatesOf(frames) ==
  SelectSeq(frames, LAMBDA fr : fr.type = "WINDOW_UPDATE" /\ fr.plen = 4)

\* ParsePriorityUpdatePayload needs the four bytes of a stream id.
PriorityUpdatesOf(frames) ==
  SelectSeq(frames, LAMBDA fr : fr.type = "PRIORITY_UPDATE" /\ fr.plen >= 4)

CutInPayload(b) == b.cut = "payload"

ParseH2(b) ==
  IF CutInPayload(b) THEN [ok |-> FALSE]
  ELSE [ok              |-> TRUE,
        HasPreface      |-> b.preface,
        Frames          |-> b.frames,
        Settings        |-> SettingsOf(b.frames),
        WindowUpdates   |-> WindowUpdatesOf(b.frames),
        PriorityUpdates |-> PriorityUpdatesOf(b.frames),
        HeaderBlocks    |-> assembleHeaderBlocks(b.frames)]

\* HeaderBlock, the first one.
FirstPseudoOrder(s) == IF s.HeaderBlocks = <<>> THEN <<>> ELSE PseudoOrder(s.HeaderBlocks[1])

-----------------------------------------------------------------------------
(* priority.go and AkamaiH2Fingerprint                                     *)

httpPriorityHeaderValue(s) ==
  LET all == SelectSeq(FlattenSeq(s.HeaderBlocks), LAMBDA f : f.name = "priority" /\ f.value # "")
  IN IF all = <<>> THEN "" ELSE all[1].value

\* An update without a value is named by the stream it is for.
PriorityToken(fr) == <<fr.value, IF fr.value = "" THEN fr.prioritized ELSE 0>>

\* What the third field of the fingerprint rests on, and the values.
PriorityFingerprint(s) ==
  IF s.PriorityUpdates # <<>>
    THEN <<"update", [i \in DOMAIN s.PriorityUpdates |-> PriorityToken(s.PriorityUpdates[i])]>>
  ELSE IF httpPriorityHeaderValue(s) # "" THEN <<"hdr", httpPriorityHeaderValue(s)>>
  ELSE IF \E i \in DOMAIN s.Frames :
            \/ s.Frames[i].type = "PRIORITY"
            \/ s.Frames[i].type = "HEADERS" /\ "PRIORITY" \in s.Frames[i].flags
    THEN <<"7540", "">>
  ELSE <<"0", "">>

ConnectionWindow(s) ==
  LET conn == SelectSeq(s.WindowUpdates, LAMBDA fr : fr.stream = 0)
  IN IF conn = <<>> THEN 0 ELSE conn[1].increment

AkamaiH2Fingerprint(s) ==
  <<s.Settings, ConnectionWindow(s), PriorityFingerprint(s), FirstPseudoOrder(s)>>
=============================================================================
