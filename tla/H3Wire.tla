------------------------------- MODULE H3Wire -------------------------------
(***************************************************************************)
(* The HTTP/3 side of internal/dissect: ParseH3 over the bytes of a        *)
(* control or request stream, QPACK field sections, and the identity of a  *)
(* control stream.                                                         *)
(*                                                                         *)
(* Stream bytes are the frames that are there in full and whether another  *)
(* one has begun (cut).  A frame has its type and, by type, its settings   *)
(* (pairs of id and value), its prioritized element and priority value, or *)
(* its field section.                                                      *)
(***************************************************************************)
EXTENDS H2Wire

H3FrameData     == 0
H3FrameHeaders  == 1
H3FrameSettings == 4
H3FramePriorityUpdateRequest == \hF0700
H3FramePriorityUpdatePush    == \hF0701

IsPriorityUpdate(fr) ==
  fr.type \in {H3FramePriorityUpdateRequest, H3FramePriorityUpdatePush}

\* Frame types and setting ids are reserved by the same formula.
IsH3GREASE(t) == t >= 33 /\ (t - 33) % 31 = 0

-----------------------------------------------------------------------------
(* qpack.go: a field section has its Required Insert Count and its lines,  *)
(* which refer to the static or the dynamic table.                         *)

\* As hpackStatic.
qpackStatic(idx) ==
  CASE idx = 1         -> Field(":authority", "", 10)
    [] idx = 2         -> Field(":path", "/", 6)
    [] idx \in 15..21  -> Field(":method", IF idx = 17 THEN "GET" ELSE "", 10)
    [] idx \in 22..23  -> Field(":scheme", IF idx = 22 THEN "http" ELSE "https", 12)
    [] idx \in (24..28) \cup (63..71) -> Field(":status", "", 10)
    [] OTHER           -> Field("other", "", 5)

qpackStaticCount == 98

qpackLookup(line) == line.static /\ line.idx \in 1..qpackStaticCount

LineDecodes(line) == line.rep = "literal" \/ qpackLookup(line)

LineField(line) ==
  CASE line.rep = "indexed" -> qpackStatic(line.idx)
    [] line.rep = "nameRef" -> Field(qpackStatic(line.idx).name, line.value, line.len)
    [] line.rep = "literal" -> Field(line.name, line.value, line.len)

\* Only sections that need no insertion are decoded; a post-base line is an
\* error whatever it refers to.
DecodeQPACKFieldSection(sec) ==
  IF \/ sec.ric # 0
     \/ \E i \in DOMAIN sec.lines : sec.lines[i].rep = "postBase" \/ ~LineDecodes(sec.lines[i])
  THEN [ok |-> FALSE]
  ELSE [ok |-> TRUE, fields |-> [i \in DOMAIN sec.lines |-> LineField(sec.lines[i])]]

\* EncodeQPACKPseudoBlock
EncodeQPACKPseudoBlock(order) ==
  LET line(letter) ==
        CASE letter = "m" -> [rep |-> "indexed", static |-> TRUE, idx |-> 17]
          [] letter = "p" -> [rep |-> "indexed", static |-> TRUE, idx |-> 2]
          [] letter = "s" -> [rep |-> "indexed", static |-> TRUE, idx |-> 23]
          [] letter = "a" -> [rep |-> "nameRef", static |-> TRUE, idx |-> 1, value |-> "host", len |-> 14]
  IN [ric |-> 0, lines |-> [i \in DOMAIN order |-> line(order[i])]]

-----------------------------------------------------------------------------
(* h3.go                                                                   *)

FramesOf(stream, P(_)) == SelectSeq(stream.frames, P)

H3SettingsOf(stream) ==
  LET settings == FramesOf(stream, LAMBDA fr : fr.type = H3FrameSettings)
  IN FlattenSeq([i \in DOMAIN settings |-> settings[i].settings])

\* ParseH3PriorityUpdate fails on an empty payload.
H3PriorityUpdatesOf(stream) ==
  FramesOf(stream, LAMBDA fr : IsPriorityUpdate(fr) /\ fr.plen > 0)

\* Whether a request's priority is for a stream a client can open.
IsClientBidi(fr) == fr.type = H3FramePriorityUpdateRequest => fr.id % 4 = 0

H3Sections(stream) ==
  FramesOf(stream, LAMBDA fr : fr.type = H3FrameHeaders /\ DecodeQPACKFieldSection(fr.section).ok)

\* The first field section that decodes.
H3HeaderBlock(stream) ==
  IF H3Sections(stream) = <<>> THEN <<>>
  ELSE DecodeQPACKFieldSection(H3Sections(stream)[1].section).fields

WholeFrames(stream) == ~stream.cut

ParseH3(stream) ==
  IF ~WholeFrames(stream) THEN [ok |-> FALSE]
  ELSE [ok              |-> TRUE,
        Frames          |-> stream.frames,
        Settings        |-> H3SettingsOf(stream),
        PriorityUpdates |-> H3PriorityUpdatesOf(stream),
        QPACK           |-> H3Sections(stream) # <<>>,
        HeaderBlock     |-> H3HeaderBlock(stream)]

\* H3Session.PriorityFingerprint
H3PriorityFingerprint(s) ==
  [i \in DOMAIN s.PriorityUpdates |->
    <<s.PriorityUpdates[i].type, s.PriorityUpdates[i].id, s.PriorityUpdates[i].value>>]

countH3GREASEFrames(s) == Cardinality({i \in DOMAIN s.Frames : IsH3GREASE(s.Frames[i].type)})
countH3GREASESettings(s) == Cardinality({i \in DOMAIN s.Settings : IsH3GREASE(s.Settings[i][1])})

h3HasSetting(s, id) == ~IsH3GREASE(id) /\ \E i \in DOMAIN s.Settings : s.Settings[i][1] = id

\* h3SettingsSig, with a GREASE id as -1
h3SettingsSig(s) ==
  [i \in DOMAIN s.Settings |-> IF IsH3GREASE(s.Settings[i][1]) THEN -1 ELSE s.Settings[i][1]]

\* golden.go: H3Fingerprint
H3Fingerprint(s) == <<h3SettingsSig(s), countH3GREASEFrames(s), H3PriorityFingerprint(s)>>

\* h3Findings, those that tell clients apart.
h3Findings(s) ==
  {f \in {"priority update", "GREASE frame", "GREASE setting", "draft priority update",
          "pseudo order", "not client-bidi"} :
     CASE f = "priority update" -> s.PriorityUpdates # <<>>
       [] f = "GREASE frame"    -> countH3GREASEFrames(s) > 0
       [] f = "GREASE setting"  -> countH3GREASESettings(s) > 0
       [] f = "draft priority update" -> \E i \in DOMAIN s.Frames : s.Frames[i].type = 15
       [] f = "pseudo order"    -> s.HeaderBlock # <<>>
       [] f = "not client-bidi" -> \E i \in DOMAIN s.PriorityUpdates : ~IsClientBidi(s.PriorityUpdates[i])}
=============================================================================
