------------------------------- MODULE Hello -------------------------------
(***************************************************************************)
(* The TLS side of internal/dissect: what ParseClientHello makes of a      *)
(* captured record, the fingerprints JA3 and JA4, the two extension        *)
(* signatures, the agreement of two hellos, and the entropy of several.    *)
(*                                                                         *)
(* A captured hello is a record of its fields, of the extensions that are  *)
(* there in full, each a type and the list it carries, and of where the    *)
(* capture is cut: not at all, before the extensions ("fields"), in the    *)
(* four bytes that head an extension, or in its data.  A session id is its *)
(* length, a hash the value it is computed from.                           *)
(***************************************************************************)
EXTENDS Integers, Sequences, FiniteSets, SequencesExt

ExtServerName        == 0
ExtSupportedGroups   == 10
ExtECPointFormats    == 11
ExtSignatureAlgs     == 13
ExtALPN              == 16
ExtSupportedVersions == 43
ExtALPS              == {17513, 17613}
ExtECH               == 65037

IsGREASE16(v) == v % 16 = 10 /\ (v \div 256) % 16 = 10

\* The members of a set, in their order: SelectSeq, as a function of how much
\* has been read.
Only(vals, set) ==
  LET first[n \in 0..Len(vals)] ==
        IF n = 0 THEN <<>>
        ELSE IF vals[n] \in set THEN Append(first[n - 1], vals[n]) ELSE first[n - 1]
  IN first[Len(vals)]

filterNonGREASE(vals) == Only(vals, {v \in ToSet(vals) : ~IsGREASE16(v)})

-----------------------------------------------------------------------------
(* ParseClientHello, parseClientHelloBody, decodeExtension                 *)

ExtensionOrder(exts) == [i \in DOMAIN exts |-> exts[i].type]

\* The list carried by the last extension of a type: a repeated one replaces
\* what an earlier one said.
Carried(exts, type) ==
  LET of == {i \in DOMAIN exts : exts[i].type = type}
  IN IF of = {} THEN <<>> ELSE exts[Max(of)].data

\* An extension whose data is cut is an error; a cut in its first four bytes
\* ends the list.
Truncated(w) == w.cut \in {"fields", "data"}

ParseClientHello(w) ==
  IF w.handshake # 1 \/ Truncated(w) THEN [ok |-> FALSE]
  ELSE [ok              |-> TRUE,
        quic            |-> w.quic,
        LegacyVersion   |-> w.version,
        RecordVersion   |-> w.recordVersion,
        SessionID       |-> w.sessionID,
        CipherSuites    |-> w.ciphers,
        ExtensionOrder  |-> ExtensionOrder(w.exts),
        ALPN            |-> Carried(w.exts, ExtALPN),
        SupportedVersions |-> Carried(w.exts, ExtSupportedVersions),
        SupportedGroups |-> Carried(w.exts, ExtSupportedGroups),
        ECPointFormats  |-> Carried(w.exts, ExtECPointFormats),
        SignatureAlgs   |-> Carried(w.exts, ExtSignatureAlgs),
        HasECH          |-> \E i \in DOMAIN w.exts : w.exts[i].type = ExtECH,
        HasALPS         |-> \E i \in DOMAIN w.exts : w.exts[i].type \in ExtALPS]

-----------------------------------------------------------------------------
(* tls_ja.go                                                               *)

JA3Raw(ch) ==
  <<IF ch.LegacyVersion = 0 THEN ch.RecordVersion ELSE ch.LegacyVersion,
    filterNonGREASE(ch.CipherSuites), filterNonGREASE(ch.ExtensionOrder),
    filterNonGREASE(ch.SupportedGroups), ch.ECPointFormats>>

\* The n-th of a list in order is the least that n of it are not above.
Sorted(vals) ==
  [n \in DOMAIN vals |->
    Min({v \in ToSet(vals) : n <= Cardinality({i \in DOMAIN vals : vals[i] <= v})})]

\* The highest version offered that is not GREASE, else the legacy one.
ja4Version(ch) ==
  LET offered == filterNonGREASE(ch.SupportedVersions)
  IN IF offered = <<>> THEN ch.LegacyVersion ELSE Max(ToSet(offered))

AtMost99(n) == IF n > 99 THEN 99 ELSE n

ja4Prefix(ch) ==
  [proto   |-> IF ch.quic THEN "q" ELSE "t",
   version |-> ja4Version(ch),
   sni     |-> IF Contains(ch.ExtensionOrder, ExtServerName) THEN "d" ELSE "i",
   ciphers |-> AtMost99(Len(filterNonGREASE(ch.CipherSuites))),
   exts    |-> AtMost99(Len(filterNonGREASE(ch.ExtensionOrder))),
   alpn    |-> IF ch.ALPN = <<>> THEN "00" ELSE Head(ch.ALPN)]

\* mutant: the list is hashed as it is on the wire
ja4ExtListUnsorted(exts) ==
  Only(exts, ToSet(exts) \ {ExtServerName, ExtALPN})

\* The extensions in the hash: without SNI and ALPN, which only count.
ja4ExtList(exts) ==
  Sorted(Only(exts, ToSet(exts) \ {ExtServerName, ExtALPN}))

\* Signature algorithms, in wire order, are hashed only after extensions.
ja4ExtRaw(exts, sigs) ==
  IF ja4ExtList(exts) = <<>> THEN <<>> ELSE <<ja4ExtList(exts), sigs>>

JA4(ch) ==
  <<ja4Prefix(ch), Sorted(filterNonGREASE(ch.CipherSuites)),
    ja4ExtRaw(filterNonGREASE(ch.ExtensionOrder), filterNonGREASE(ch.SignatureAlgs))>>

-----------------------------------------------------------------------------
(* entropy.go                                                              *)

extensionSetSignature(order) == ToSet(filterNonGREASE(order))

GREASE == -1

extensionOrderSignature(order, stripGREASE) ==
  IF stripGREASE THEN filterNonGREASE(order)
  ELSE [i \in DOMAIN order |-> IF IsGREASE16(order[i]) THEN GREASE ELSE order[i]]

\* The number of samples: at least 2, at most 64.
Samples(n) == IF n < 2 THEN 2 ELSE IF n > 64 THEN 64 ELSE n

\* AnalyzeExtensionPermutation over parsed samples; the skeleton is one of
\* the most frequent, and stable if it is the only one.
AnalyzeExtensionPermutation(hellos) ==
  LET n     == Len(hellos)
      skel(i) == extensionOrderSignature(hellos[i].ExtensionOrder, TRUE)
      count(s) == Cardinality({i \in 1..n : skel(i) = s})
  IN [UniqueOrders |-> Cardinality({extensionOrderSignature(hellos[i].ExtensionOrder, FALSE) : i \in 1..n}),
      UniqueJA3    |-> Cardinality({JA3Raw(hellos[i]) : i \in 1..n}),
      Skeletons    |-> {skel(i) : i \in {j \in 1..n : \A k \in 1..n : count(skel(k)) <= count(skel(j))}},
      SkeletonStable |-> \A i \in 1..n : skel(i) = skel(1)]

-----------------------------------------------------------------------------
(* corpus.go: DiffClientHellos.  A check is a field, its severity, its     *)
(* weight and whether both hellos agree on it; the weights add up to 100.  *)

HelloChecks(ref, parrot) ==
  LET same(f) == ref[f] = parrot[f]
      list(f) == filterNonGREASE(ref[f]) = filterNonGREASE(parrot[f])
  IN {<<"ja3", "high", 20, JA3Raw(ref) = JA3Raw(parrot)>>,
      <<"extension_set", "high", 20,
        extensionSetSignature(ref.ExtensionOrder) = extensionSetSignature(parrot.ExtensionOrder)>>,
      <<"alpn", "high", 10, same("ALPN")>>,
      <<"alps", "critical", 15, same("HasALPS")>>,
      <<"ech", "medium", 10, same("HasECH")>>,
      <<"ciphers", "high", 10, list("CipherSuites")>>,
      <<"groups", "high", 10, list("SupportedGroups")>>,
      <<"session_id_len", "medium", 5, same("SessionID")>>}

WeightOf(checks) == MapThenSumSet(LAMBDA c : c[3], checks)

\* Order is reported, not scored.
OrderCheck(ref, parrot) ==
  <<"extension_order", "info", 0, filterNonGREASE(ref.ExtensionOrder) = filterNonGREASE(parrot.ExtensionOrder)>>

DiffClientHellos(ref, parrot) ==
  LET checks  == HelloChecks(ref, parrot)
      agreed  == {c \in checks : c[4]}
      all     == checks \cup {OrderCheck(ref, parrot)}
  IN [Score   |-> (WeightOf(agreed) * 100) \div WeightOf(checks),
      Matches |-> {c[1] : c \in {d \in all : d[4]}},
      Diffs   |-> {<<c[1], c[2]>> : c \in {d \in all : ~d[4]}}]

\* helloDiffFindings, the conclusions it may draw.
HelloFindings(d) ==
  {f \in {"not coherent", "good fidelity", "permuted only", "set differs", "JA3 missed it"} :
     CASE f = "not coherent"  -> \E x \in d.Diffs : x[2] = "critical"
       [] f = "good fidelity" -> d.Score >= 95 /\ d.Diffs = {}
       [] f = "permuted only" -> "extension_set" \in d.Matches /\ "ja3" \notin d.Matches
       [] f = "set differs"   -> "extension_set" \notin d.Matches
       [] f = "JA3 missed it" -> "ja3" \in d.Matches /\ "extension_order" \notin d.Matches}
=============================================================================
