--------------------------- MODULE MC_TlsHandshake ---------------------------
(***************************************************************************)
(* TlsHandshake as in TLS 1.3: the server reads the ClientHello, writes    *)
(* its flight, reads the client's Finished and writes the session tickets. *)
(***************************************************************************)
EXTENDS TlsHandshake

TLS13Operations == 4
=============================================================================
