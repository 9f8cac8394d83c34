----------------------------- MODULE MCH3Control -----------------------------
EXTENDS H3Control, MCCorpus

\* A Firefox whose PRIORITY_UPDATE comes late, or never: the client may stop
\* anywhere.
MCControlFrames == [c \in {"firefox"} |-> <<H3SettingsFrame("firefox"), H3Update(0)>>]

\* And its request, which holds two of the paths that are looked for.
MCRequestText == [c \in {"firefox"} |-> {"/page", "/"}]
=============================================================================
