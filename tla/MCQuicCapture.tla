--------------------------- MODULE MCQuicCapture ---------------------------
(* An instance of QuicCapture for TLC.  One hello of six units: the head,  *)
(* an extension of three units and one of two.  Connection x sends it in   *)
(* two datagrams that overlap, y in three; yAck does not decrypt.           *)
EXTENDS QuicCapture, TLC

CONSTANTS x, y, x1, x2, y1, y2, y3, yAck

MCInitials == {x1, x2, y1, y2, y3, yAck}
MCDcid  == (x1 :> x @@ x2 :> x @@ y1 :> y @@ y2 :> y @@ y3 :> y @@ yAck :> y)
MCKey   == [g \in MCInitials |-> g]
MCFirst == (x1 :> 1 @@ x2 :> 3 @@ y1 :> 1 @@ y2 :> 3 @@ y3 :> 5 @@ yAck :> 1)
MCFinal == (x1 :> 3 @@ x2 :> 6 @@ y1 :> 2 @@ y2 :> 4 @@ y3 :> 6 @@ yAck :> 0)
MCExt   == <<1, 3, 1, 2, 2, 3>>
=============================================================================
