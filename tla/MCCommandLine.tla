---------------------------- MODULE MCCommandLine ----------------------------
(* An instance of CommandLine for TLC: the profiles under src/profiles, the  *)
(* fixtures of MCCorpus and of dissect.Catalog, and a few of each kind of    *)
(* input that is not shipped.                                                *)
EXTENDS CommandLine, MCCorpus

-----------------------------------------------------------------------------
(* Profiles                                                                  *)

\* The words of a User-Agent for a platform and for a browser.
OnPlatform == [
  windows |-> {<<"windows nt", 0>>}, macos |-> {<<"mac os x", 0>>}, linux |-> {<<"linux", 0>>},
  android |-> {<<"android", 0>>, <<"linux", 0>>}, ios |-> {<<"iphone", 0>>, <<"mac os x", 0>>}]

Chrome(v) == {<<"chrome", v>>, <<"safari", 537>>}
Gecko133  == {<<"firefox", 133>>}
Safari18  == {<<"version", 18>>, <<"safari", 605>>}
CriOS     == {<<"crios", 131>>, <<"safari", 604>>}

Brands(name, v, chromium) == {<<name, v>>, <<"Chromium", chromium>>, <<"Not_A Brand", 24>>}

Hints      == <<"sec-ch-ua", "sec-ch-ua-mobile", "sec-ch-ua-platform">>
ChromeOrder ==
  Hints \o <<"upgrade-insecure-requests", "user-agent", "accept", "sec-fetch-site",
             "sec-fetch-mode", "sec-fetch-user", "sec-fetch-dest", "accept-encoding", "accept-language">>
FirefoxOrder ==
  <<"user-agent", "accept", "accept-language", "accept-encoding", "upgrade-insecure-requests",
    "sec-fetch-dest", "sec-fetch-mode", "sec-fetch-site", "sec-fetch-user">>
WebKitOrder == <<"accept", "user-agent", "accept-language", "accept-encoding">>

Fetched == ("sec-fetch-site" :> "none") @@ ("sec-fetch-mode" :> "navigate")
           @@ ("sec-fetch-user" :> "?1") @@ ("sec-fetch-dest" :> "document")
Automation == {"x-selenium", "x-webdriver"}

WithZstd == "gzip, deflate, br, zstd"
NoZstd   == "gzip, deflate, br"

Blink(name, v, platform, ua, pattern, brands, preset, encoding, forbidden) ==
  [id |-> <<name, v, platform>>, named |-> TRUE,
   browser |-> IF name = "brave" THEN "chrome" ELSE name, platform |-> platform, major |-> v,
   ua |-> OnPlatform[platform] \cup ua, pattern |-> pattern, mode |-> "contains",
   brands |-> brands, hint |-> platform, mobile |-> IF platform = "android" THEN "?1" ELSE "?0",
   order |-> IF platform = "android" THEN SelectSeq(ChromeOrder, LAMBDA h : h # "sec-fetch-user") ELSE ChromeOrder,
   accept |-> "text/html", encoding |-> encoding, language |-> "en-US",
   required |-> IF platform = "android" THEN [h \in DOMAIN Fetched \ {"sec-fetch-user"} |-> Fetched[h]] ELSE Fetched,
   forbidden |-> forbidden, upgrade |-> TRUE, primary |-> "en-US", alpn |-> <<"h2", "http/1.1">>,
   minVersion |-> 12, maxVersion |-> 13, preset |-> preset,
   settings |-> SettingValues(65536, 0, 1000, 6291456, 16384, 262144),
   navigator |-> NoNavigator, webgl |-> NoWebGL]

ChromeOn(v, platform, encoding, forbidden) ==
  Blink("chrome", v, platform, Chrome(v), Chrome(v), Brands("Google Chrome", v, v), <<"chrome", v>>,
        encoding, forbidden)

EdgeOn(platform) ==
  Blink("edge", 131, platform, Chrome(131) \cup {<<"edg", 131>>}, {<<"edg", 131>>},
        Brands("Microsoft Edge", 131, 131), <<"chrome", 131>>, WithZstd, {"x-selenium"})

Opera116 == Chrome(131) \cup {<<"opr", 116>>}

FirefoxOn(platform) ==
  [ChromeOn(133, platform, WithZstd, ToSet(Hints)) EXCEPT
     !.id[1] = "firefox", !.browser = "firefox", !.ua = OnPlatform[platform] \cup Gecko133,
     !.pattern = Gecko133, !.brands = {}, !.hint = "", !.mobile = "", !.order = FirefoxOrder,
     !.preset = <<"firefox", 133>>, !.settings = SettingValues(65536, 0, 100, 131072, 16384, 0)]

WebKit(name, v, platform, ua, preset, forbidden) ==
  [ChromeOn(v, platform, NoZstd, ToSet(Hints) \cup forbidden) EXCEPT
     !.id[1] = name, !.browser = name, !.ua = OnPlatform[platform] \cup ua, !.pattern = ua,
     !.brands = {}, !.hint = "", !.mobile = "", !.order = WebKitOrder, !.required = <<>>,
     !.upgrade = FALSE, !.preset = preset, !.settings = SettingValues(4096, 0, 100, 2097152, 16384, 0)]

Js(platform, vendor) == [there |-> TRUE, platform |-> platform, vendor |-> vendor, webdriver |-> "false"]
GL(vendor, renderer) == [there |-> TRUE, vendor |-> {vendor}, renderer |-> {renderer}, exact |-> FALSE]

WithJS(p, nav, webgl) == [p EXCEPT !.navigator = nav, !.webgl = webgl]

MCShipped == <<
  Blink("brave", 131, "windows", Chrome(131), Chrome(131), Brands("Brave", 131, 131), <<"chrome", 131>>,
        WithZstd, Automation),
  ChromeOn(120, "windows", NoZstd, Automation),
  ChromeOn(131, "android", WithZstd, Automation),
  WithJS(WebKit("chrome", 131, "ios", CriOS, <<"safari_ios", 18>>, Automation),
         Js("iPhone", "Google Inc."), GL("Apple", "Apple")),
  ChromeOn(131, "linux", WithZstd, Automation),
  WithJS(ChromeOn(131, "macos", WithZstd, Automation), Js("MacIntel", "Google Inc."), GL("Google Inc.", "ANGLE")),
  WithJS(ChromeOn(131, "windows", WithZstd, Automation \cup {"x-coherencelab-test"}),
         Js("Win32", "Google Inc."), GL("Google Inc.", "ANGLE")),
  ChromeOn(132, "linux", WithZstd, Automation),
  ChromeOn(132, "macos", WithZstd, Automation),
  ChromeOn(132, "windows", WithZstd, Automation \cup {"x-coherencelab-test"}),
  EdgeOn("macos"), EdgeOn("windows"),
  FirefoxOn("linux"), FirefoxOn("macos"), WithJS(FirefoxOn("windows"), Js("Win32", ""), NoWebGL),
  Blink("opera", 116, "windows", Opera116, Opera116, Brands("Opera", 116, 131), <<"chrome", 131>>,
        WithZstd, Automation),
  WebKit("safari", 18, "ios", Safari18, <<"safari_ios", 18>>, {"sec-fetch-site"}),
  WebKit("safari", 18, "macos", Safari18, <<"safari", 18>>, {"sec-fetch-site"})>>

ChromeWin  == MCShipped[7]
ChromeMac  == MCShipped[6]
FirefoxWin == MCShipped[15]
SafariMac  == MCShipped[18]

-----------------------------------------------------------------------------
(* Sessions and exports                                                      *)

\* What the probe sees of a browser: the preset is unknown to it, and the
\* settings are those of its own connection or of none.
SeenTLS == [there |-> TRUE, version |-> 13, alpn |-> "h2", preset |-> NoPreset, ja3 |-> "of the wire"]
SeenH2(p) ==
  LET sent == {"HEADER_TABLE_SIZE", "ENABLE_PUSH", "INITIAL_WINDOW_SIZE"}
  IN [there |-> TRUE, wire |-> TRUE, present |-> sent,
      settings |-> [n \in SettingNames |-> IF n \in sent THEN p.settings[n] ELSE 0]]

VisitOf(p) == FromRequest(p, SeenTLS, SeenH2(p))

MCGenuine ==
  {FromHTTP(NoId, VisitOf(p)) : p \in ToSet(MCShipped)}
  \cup {FromHTTP(NoId, FromRequest(p, SeenTLS, NoH2)) : p \in {ChromeWin, FirefoxWin}}

\* Sessions of another kind: an automated one, one for a shipped id, ones
\* without an id or a User-Agent, and one that says which hello it had.
MCSessions ==
  MCGenuine
  \cup {FromHTTP(NoId, [VisitOf(ChromeWin) EXCEPT !.navigator.webdriver = "true"]),
        FromHTTP(ChromeWin.id, VisitOf(FirefoxWin)),
        FromHTTP(NoId, [VisitOf(FirefoxWin) EXCEPT !.tls.preset = <<"chrome", 120>>]),
        [FromHTTP(NoId, VisitOf(ChromeWin)) EXCEPT !.id = NoId],
        FromHTTP(NoId, [VisitOf(ChromeWin) EXCEPT !.ua = {}])}

Export(keys, s) == [keys |-> keys, signals |-> s]
Local(p) == LocalSnapshot(p)

MCExports == {
  Export(<<"chrome131">>, Local(ChromeWin)),
  Export(<<"firefox133">>, [Local(FirefoxWin) EXCEPT !.brands = ChromeWin.brands]),
  Export(<<"chrome131macos", "chrome">>, [Local(ChromeMac) EXCEPT !.hint = "windows"]),
  Export(<<>>, [Local(ChromeWin) EXCEPT !.tls.preset = <<"firefox", 133>>]),
  Export(<<"firefox">>, [Local(FirefoxWin) EXCEPT !.tls.preset = <<"chrome", 131>>]),
  Export(<<"chrome">>, [Local(ChromeWin) EXCEPT !.navigator.webdriver = "true"]),
  Export(<<"nothing known">>, [Local(SafariMac) EXCEPT !.h2 = NoH2]),
  Export(<<"chrome131">>, [Local(ChromeWin) EXCEPT !.ua = {}, !.headers = <<>>])}

OnWindows(name, v) == <<name, v, "windows">>
MCPresetMap == [
  curl |-> ("chrome131" :> OnWindows("chrome", 131)) @@ ("chrome131macos" :> <<"chrome", 131, "macos">>)
           @@ ("firefox133" :> OnWindows("firefox", 133)) @@ ("edge101" :> OnWindows("edge", 131)),
  httpcloak |-> ("chrome131" :> OnWindows("chrome", 131)) @@ ("firefox133" :> OnWindows("firefox", 133))
                @@ ("safariios18" :> <<"safari", 18, "ios">>),
  playwright |-> ("chrome" :> OnWindows("chrome", 131)) @@ ("firefox" :> OnWindows("firefox", 133))
                 @@ ("webkit" :> <<"safari", 18, "macos">>)]

Dial(alpn) == [version |-> 13, alpn |-> alpn]
MCDials == {<<Dial("h2")>>, <<Dial("http/1.1")>>, <<Dial("h2"), Dial("http/1.1")>>,
            <<Dial("http/1.1"), Dial("h2")>>}

-----------------------------------------------------------------------------
(* The corpus                                                                *)

Fixture(kind, content) == [kind |-> kind, content |-> content, preset |-> NoPreset]
HelloFixture(content, preset) == [Fixture("clienthello", content) EXCEPT !.preset = preset]

\* The parrots: the same hellos without what uTLS does not send.
ParrotHello(f) == HelloOf(f, SelectSeq(ExtTypes[f], LAMBDA t : t # \hca34))
ParrotVisit(f) ==
  [HelloOf(f, SelectSeq(VisitTypes[f], LAMBDA t : t # \hca34)) EXCEPT
     !.ciphers = [i \in DOMAIN @ |-> IF IsGREASE16(@[i]) THEN \haaaa ELSE @[i]]]

Stream(frames) == [frames |-> frames, cut |-> FALSE]
SettingsOnly   == [H3Frame(4, 6) EXCEPT !.settings = <<<<1, 4096>>, <<7, 16>>>>]
WithSection(sec) == [H3Frame(1, 20) EXCEPT !.section = sec]

Teaching(f) ==
  [H2Flight(f) EXCEPT !.frames =
     <<H2SettingsFrame(f), H2Window(f),
       [H2Frame("PRIORITY_UPDATE", 0, 10) EXCEPT !.value = "u=0, i", !.prioritized = 1],
       [H2Request(f) EXCEPT !.flags = {}, !.block = SubSeq(@, 1, 2)],
       [H2Frame("CONTINUATION", 1, 20) EXCEPT !.flags = {"END_HEADERS"}, !.block = SubSeq(H2Request(f).block, 3, 5)]>>]

CraftedTP == <<[id |-> \h2ab2, value |-> 0], [id |-> 4, value |-> 15728640], [id |-> 27, value |-> 0]>>
Crafted ==
  [OneInitial("chrome", 1) EXCEPT !.datagrams =
     <<[Initial("chrome", HelloPieces) EXCEPT !.dcid = "crafted", !.transport = CraftedTP]>>]
Packet(class) == [Crafted EXCEPT !.class = class, !.count = 0, !.datagrams = <<>>]

MCCatalog ==
  ("chrome_131" :> HelloFixture(LiveCorpus.chrome.hello, <<"chrome", 131>>))
  @@ ("edge_live" :> HelloFixture(LiveCorpus.edge.hello, <<"chrome", 131>>))
  @@ ("firefox_live" :> HelloFixture(LiveCorpus.firefox.hello, <<"firefox", 133>>))
  @@ ("chrome_131_utls" :> HelloFixture(ParrotHello("chrome"), <<"chrome", 131>>))
  @@ ("h2_chrome" :> Fixture("h2", LiveCorpus.chrome.h2))
  @@ ("h2_edge" :> Fixture("h2", LiveCorpus.edge.h2))
  @@ ("h2_firefox" :> Fixture("h2", LiveCorpus.firefox.h2))
  @@ ("h2_continuation" :> Fixture("h2", Teaching("chrome")))
  @@ ("h3_chrome" :> Fixture("h3", LiveCorpus.chrome.h3))
  @@ ("h3_edge" :> Fixture("h3", LiveCorpus.edge.h3))
  @@ ("h3_firefox" :> Fixture("h3", LiveCorpus.firefox.h3))
  @@ ("h3_chrome_crafted" :>
       Fixture("h3", Stream(Append(H3Control("chrome"), WithSection(EncodeQPACKPseudoBlock(PseudoChrome))))))
  @@ ("h3_minimal" :> Fixture("h3", Stream(<<SettingsOnly>>)))
  @@ ("qpack_chrome" :> Fixture("qpack", EncodeQPACKPseudoBlock(PseudoChrome)))
  @@ ("quic_initial_chrome" :> Fixture("quic", LiveCorpus.chrome.quic))
  @@ ("quic_initial_edge" :> Fixture("quic", LiveCorpus.edge.quic))
  @@ ("quic_initial_firefox" :> Fixture("quic", LiveCorpus.firefox.quic))
  @@ ("quic_initial_crafted" :> Fixture("quic", Crafted))
  @@ ("quic_tp_minimal" :> Fixture("quic_tp", [params |-> <<[id |-> 4, value |-> 1048576]>>, cut |-> FALSE]))
  @@ ("quic_vn" :> Fixture("quic", Packet("version_negotiation")))
  @@ ("quic_retry" :> Fixture("quic", Packet("retry")))

MCCorpusLayers == References(MCCatalog)

MCParrots ==
  ("Chrome_133" :> {ParrotHello("chrome"), ParrotVisit("chrome")})
  @@ ("Chrome_131" :> {ParrotHello("chrome"), ParrotVisit("chrome")})
  @@ ("Chrome_120" :> {ParrotHello("chrome"), ParrotVisit("chrome")})
  @@ ("Chrome_Auto" :> {ParrotHello("chrome"), ParrotVisit("chrome")})
  @@ ("Firefox_Auto" :> {ParrotHello("firefox")})
  @@ ("Safari_Auto" :> {ParrotHello("firefox")})
  @@ ("IOS_Auto" :> {ParrotHello("firefox")})
  @@ ("Edge_Auto" :> {ParrotHello("edge")})

\* A client's own hello, another family's, one that is cut off, and a record
\* that holds no hello.
Ingested(content, owner) == [record |-> TRUE, whole |-> TRUE, content |-> content, owner |-> owner]
MCHellos ==
  {Ingested(HelloOf("chrome", VisitTypes.chrome), "chrome"),
   Ingested(HelloOf("firefox", ExtTypes.firefox), "firefox"),
   Ingested([HelloOf("chrome", ExtTypes.chrome) EXCEPT !.handshake = 2], "none"),
   [Ingested(HelloOf("chrome", ExtTypes.chrome), "chrome") EXCEPT !.whole = FALSE]}

-----------------------------------------------------------------------------
(* Wire files of other origin                                                *)

MCFiles == [
  clienthello |-> {HelloOf("edge", VisitTypes.edge), [HelloOf("edge", VisitTypes.edge) EXCEPT !.cut = "data"]},
  h2 |-> {H2Preface("chrome"), [H2Flight("chrome") EXCEPT !.cut = "payload"],
          [H2Flight("firefox") EXCEPT !.frames = Append(@, [H2Frame("HEADERS", 5, 3) EXCEPT !.flags = {"PADDED"}, !.pad = 9])]},
  h3 |-> {Stream(<<H3Frame(15, 4), H3Update(2)>>), [Stream(H3Control("edge")) EXCEPT !.cut = TRUE],
          Stream(<<WithSection([ric |-> 1, lines |-> <<>>])>>)},
  qpack |-> {[ric |-> 1, lines |-> <<>>], [ric |-> 0, lines |-> <<[rep |-> "postBase"]>>],
             [ric |-> 0, lines |-> <<[rep |-> "indexed", static |-> FALSE, idx |-> 3]>>]},
  quic |-> {OneInitial("edge", 1), [QuicFlight("edge") EXCEPT !.count = 3],
            [Packet("short_header") EXCEPT !.cut = TRUE], Packet("handshake"),
            [Packet("retry") EXCEPT !.tag = "of another"], [Packet("version_negotiation") EXCEPT !.cut = TRUE]},
  quic_tp |-> {[params |-> TPOf("chrome"), cut |-> TRUE], [params |-> TPOf("edge"), cut |-> FALSE]}]

\* Blocks of at most three representations, the fields told apart by where
\* they stand.
Inserts(i) == {LiteralIncremental(0, "a", i, 10), LiteralIncremental(0, "b", i, 4000),
               LiteralIncremental(0, "c", i, 5000), LiteralIncremental(62, "", i, 60)}
Reps(i) == Inserts(i) \cup {SizeUpdate(60), SizeUpdate(8192), SizeUpdate(8193), Indexed(63)}
MCBlocks ==
  {<<a, b, c>> : a \in Reps(1), b \in Reps(2), c \in Reps(3)}

-----------------------------------------------------------------------------
(* fingerprint --serve                                                       *)

MCVisitors == {"chrome", "firefox"}

\* What the visitors' goroutines write: the hello, the preface and then the
\* flight with the request, one Initial and then the flight of both.
MCTraffic ==
  [f \in MCVisitors |->
    [hello |-> <<[kind |-> "hello", content |-> HelloOf(f, VisitTypes[f])]>>,
     h2    |-> <<[kind |-> "h2", content |-> H2Preface(f)], [kind |-> "h2", content |-> H2Flight(f)]>>,
     h3    |-> <<[kind |-> "h3", content |-> Stream(H3Control(f))]>>,
     quic  |-> <<[kind |-> "quic", content |-> OneInitial(f, 1)],
                 [kind |-> "flight", content |-> QuicFlight(f)]>>]]

\* A visit of Edge, and one of Firefox that had no second Initial.
Remains(f, flight) ==
  [hello |-> LiveCorpus[f].hello, h2 |-> LiveCorpus[f].h2, h3 |-> LiveCorpus[f].h3,
   flight |-> flight, quic |-> OneInitial(f, 1)]
MCLeftovers == [edge |-> Remains("edge", QuicFlight("edge")), firefox |-> Remains("firefox", Missing)]
=============================================================================
