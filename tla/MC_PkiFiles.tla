---------------------------- MODULE MC_PkiFiles ----------------------------
(***************************************************************************)
(* Three runs of the tool: a finished one, one that is cut short, and one  *)
(* that comes after it.  One address is valid, one has an octet too large. *)
(***************************************************************************)
EXTENDS PkiFiles

Loopback == <<1, 2, 7, Dot, 0, Dot, 0, Dot, 1>>
TooLarge == <<1, 2, 7, Dot, 0, Dot, 0, Dot, 2, 5, 6>>
TwoAddresses == {Loopback, TooLarge}
=============================================================================
