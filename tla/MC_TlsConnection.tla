--------------------------- MODULE MC_TlsConnection ---------------------------
(***************************************************************************)
(* Two runs of the tool, for two valid addresses and one that is not, over *)
(* three days; a server's certificate is in force for one day after its    *)
(* first, a root for two.  A client's clock may be a day off.              *)
(***************************************************************************)
EXTENDS TlsConnection

Loopback == <<1, 2, 7, Dot, 0, Dot, 0, Dot, 1>>
Elsewhere4 == <<1, 0, Dot, 0, Dot, 0, Dot, 1>>
TooLarge == <<1, 2, 7, Dot, 0, Dot, 0, Dot, 2, 5, 6>>
ThreeAddresses == {Loopback, Elsewhere4, TooLarge}
ADayOff == {-1, 0, 1}
=============================================================================
