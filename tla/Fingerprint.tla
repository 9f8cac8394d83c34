---------------------------- MODULE Fingerprint ----------------------------
(***************************************************************************)
(* internal/dissect/fingerprint.go: a capture (a hello, an HTTP/2 flight,  *)
(* a control stream and QUIC Initials, each of which may be missing)       *)
(* scored against the browsers of the corpus.  Scores are in thousandths   *)
(* of a percent.                                                           *)
(***************************************************************************)
EXTENDS QuicWire

CONSTANTS
  Pieces,       \* the pieces of a hello that is split over Initials
  Missing       \* a layer that is not there

fingerprintFamilies == <<"chrome", "edge", "firefox">>

\* The fixtures of a family.
FixturesOf(family) ==
  CASE family = "chrome"  ->
         [hello |-> "chrome_131", h2 |-> "h2_chrome", h3 |-> "h3_chrome", quic |-> "quic_initial_chrome"]
    [] family = "edge"    ->
         [hello |-> "edge_live", h2 |-> "h2_edge", h3 |-> "h3_edge", quic |-> "quic_initial_edge"]
    [] family = "firefox" ->
         [hello |-> "firefox_live", h2 |-> "h2_firefox", h3 |-> "h3_firefox", quic |-> "quic_initial_firefox"]

Full == 100000

-----------------------------------------------------------------------------
(* The layers of a bundle that can be compared                             *)

Nothing == [ok |-> FALSE]

HelloLayer(raw) == IF raw = Missing THEN Nothing ELSE ParseClientHello(raw)
H2Layer(raw)    == IF raw = Missing THEN Nothing ELSE ParseH2(raw)
H3Layer(raw)    == IF raw = Missing THEN Nothing ELSE ParseH3(raw)

\* Initials that decrypt but hold no transport parameters are left out.
QuicLayer(raw) ==
  IF raw = Missing THEN Nothing
  ELSE LET d == DecryptInitialCapture(raw, Pieces)
       IN IF ~d.ok \/ d.Transport = <<>> THEN Nothing ELSE d

LayersOf(b) ==
  [hello |-> HelloLayer(b.hello), h2 |-> H2Layer(b.h2), h3 |-> H3Layer(b.h3), quic |-> QuicLayer(b.quic)]

\* One of them, by its name.
Parsed(l, content) ==
  CASE l = "hello" -> HelloLayer(content)
    [] l = "h2"    -> H2Layer(content)
    [] l = "h3"    -> H3Layer(content)
    [] l = "quic"  -> QuicLayer(content)

-----------------------------------------------------------------------------
(* Scores                                                                  *)

\* A flight without a request says little.
h2PseudoScore(ref, got) ==
  LET r == FirstPseudoOrder(ref)
      g == FirstPseudoOrder(got)
  IN IF r # <<>> /\ r = g THEN Full
     ELSE IF r = <<>> \/ g = <<>> THEN (40 * Full) \div 100
     ELSE 0

\* A repeated id of got counts each time.
jaccardU64(a, b) ==
  LET inter == Cardinality({i \in DOMAIN b : b[i] \in Range(a)})
      union == Cardinality(Range(a) \cup Range(b))
  IN IF union = 0 THEN Full ELSE (inter * Full) \div union

h3SettingIDs(s) ==
  LET ids == SelectSeq(s.Settings, LAMBDA st : ~IsH3GREASE(st[1]))
  IN [i \in DOMAIN ids |-> ids[i][1]]

h3FamilyScore(ref, got) ==
  LET j == (jaccardU64(h3SettingIDs(ref), h3SettingIDs(got)) * 70) \div 100
      same == (ref.PriorityUpdates # <<>>) = (got.PriorityUpdates # <<>>)
  IN j + IF same THEN (30 * Full) \div 100 ELSE 0

quicFamilyScore(ref, got) == jaccardU64(NonGREASEIds(ref), NonGREASEIds(got))

Layers == {"hello", "h2", "h3", "quic"}

\* The fixtures of each family, as they are in the corpus now.
References(corpus) ==
  [f \in Range(fingerprintFamilies) |->
     LayersOf([l \in Layers |-> corpus[FixturesOf(f)[l]].content])]

\* A layer of a client against the one of a family.
LayerScore(l, ref, got) ==
  CASE l = "hello" -> DiffClientHellos(ref, got).Score * (Full \div 100)
    [] l = "h2"    -> h2PseudoScore(ref, got)
    [] l = "h3"    -> h3FamilyScore(ref, got)
    [] l = "quic"  -> quicFamilyScore(ref.Transport, got.Transport)

LayerWeight == [hello |-> 50, h2 |-> 25, h3 |-> 15, quic |-> 15]

\* A layer that is not there, or whose fixture does not parse, is passed over
\* without a word.
Scored(refs, family, layers) == {l \in Layers : layers[l].ok /\ refs[family][l].ok}

OverLayers(of) == of.hello + of.h2 + of.h3 + of.quic

\* The scores of the layers, and their mean.
scoreFamily(refs, family, layers) ==
  LET Match(score, weight) ==
        [Family |-> family, HelloScore |-> score.hello, H2Score |-> score.h2,
         Score |-> IF OverLayers(weight) = 0 THEN 0
                   ELSE OverLayers([l \in Layers |-> weight[l] * score[l]]) \div OverLayers(weight)]
      Of(scored) ==
        Match([l \in Layers |-> IF l \in scored THEN LayerScore(l, refs[family][l], layers[l]) ELSE 0],
              [l \in Layers |-> IF l \in scored THEN LayerWeight[l] ELSE 0])
  IN Of(Scored(refs, family, layers))

Families(refs, layers) ==
  <<scoreFamily(refs, fingerprintFamilies[1], layers), scoreFamily(refs, fingerprintFamilies[2], layers),
    scoreFamily(refs, fingerprintFamilies[3], layers)>>

\* mutant: the families are not sorted
Unranked(refs, layers) == Families(refs, layers)

\* The families by score, equal ones in the order of the list.
Ranking(refs, layers) ==
  LET InOrder(m) ==
        LET before(i, j) == m[i].Score > m[j].Score \/ (m[i].Score = m[j].Score /\ i < j)
            order == CHOOSE p \in [DOMAIN m -> DOMAIN m] :
                       \A i, j \in DOMAIN m : i < j => before(p[i], p[j])
        IN [i \in DOMAIN m |-> m[order[i]]]
  IN InOrder(Families(refs, layers))

\* The first with the highest score above 0.
BestBy(ranking, score) ==
  LET best == {i \in DOMAIN ranking :
                 /\ ranking[i][score] > 0
                 /\ \A j \in DOMAIN ranking : ranking[j][score] <= ranking[i][score]}
  IN IF best = {} THEN "" ELSE ranking[Min(best)].Family

\* mutant: the best HTTP/2 score does not
StrictlyCertain(h2Score, helloScore) == h2Score > Full /\ helloScore >= Full \div 2

\* Evidence enough to accuse a client.
Certain(h2Score, helloScore) == h2Score >= Full /\ helloScore >= Full \div 2

fingerprintConflicts(layers, ranking) ==
  LET hello == BestBy(ranking, "HelloScore")
      h2    == BestBy(ranking, "H2Score")
  IN /\ layers.h2.ok
     /\ hello # "" /\ h2 # "" /\ hello # h2
     /\ Certain(Max({ranking[i].H2Score : i \in DOMAIN ranking}),
                Max({ranking[i].HelloScore : i \in DOMAIN ranking}))

\* A hello that does not parse is an error, other layers are passed over;
\* one at least must be there.
FingerprintCapture(refs, b) ==
  LET Report(layers, ranking) ==
        [err |-> FALSE, Best |-> ranking[1].Family, Conflict |-> fingerprintConflicts(layers, ranking)]
      OfLayers(layers) ==
        IF \/ b.hello # Missing /\ ~layers.hello.ok
           \/ \A l \in Layers : ~layers[l].ok
        THEN [err |-> TRUE]
        ELSE Report(layers, Ranking(refs, layers))
  IN OfLayers(LayersOf(b))
=============================================================================
