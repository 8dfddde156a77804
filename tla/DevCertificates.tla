--------------------------- MODULE DevCertificates ---------------------------
(***************************************************************************)
(* What issueDevCa puts into the two certificates of one run               *)
(* (tools/pki/src/dev_ca.cpp), as far as a client that verifies its peer   *)
(* looks at it.  Runs are numbered and days are counted; a key is known by *)
(* the run that made it and what for.  Serial numbers, the curve and the   *)
(* hash are left out, and so are the names of issuers: every root has the  *)
(* same one, so a name tells no two runs apart.                            *)
(***************************************************************************)
EXTENDS Integers

CONSTANTS kCaValidityDays,      \* 3650
          kServerValidityDays   \* 365

ASSUME ValidityAssumption ==
  /\ kCaValidityDays \in Nat /\ kServerValidityDays \in Nat
  /\ kServerValidityDays <= kCaValidityDays

CaKey(n) == [run |-> n, of |-> "ca"]
LeafKey(n) == [run |-> n, of |-> "server"]

\* Bug: the two periods are mixed up.
CaShortLived(n, day) ==
  [key |-> CaKey(n), signed_by |-> CaKey(n),
   not_before |-> day, not_after |-> day + kServerValidityDays - 1,
   is_ca |-> TRUE, usage |-> {"keyCertSign", "cRLSign"}, server_auth |-> FALSE, san_ips |-> {}]

Ca(n, day) ==
  [key |-> CaKey(n), signed_by |-> CaKey(n),
   not_before |-> day, not_after |-> day + kCaValidityDays,
   is_ca |-> TRUE, usage |-> {"keyCertSign", "cRLSign"}, server_auth |-> FALSE, san_ips |-> {}]

Leaf(n, ip, day) ==
  [key |-> LeafKey(n), signed_by |-> CaKey(n),
   not_before |-> day, not_after |-> day + kServerValidityDays,
   is_ca |-> FALSE, usage |-> {"digitalSignature"}, server_auth |-> TRUE, san_ips |-> {ip}]

verifySignedBy(cert, issuer) == cert.signed_by = issuer.key
certMatchesKey(cert, key) == cert.key = key

-----------------------------------------------------------------------------
(* External: QSslSocket with VerifyPeer, which never ignores an error, of a *)
(* peer that proves it has the key of its certificate.                      *)

InForce(cert, day) == cert.not_before <= day /\ day <= cert.not_after
MayIssue(issuer) == issuer.is_ca /\ "keyCertSign" \in issuer.usage
MayServe(cert) == cert.server_auth /\ "digitalSignature" \in cert.usage

\* The client trusts ca and knows its peer as name; it is day on its clock.
PeerVerified(ca, cert, name, day) ==
  /\ verifySignedBy(cert, ca) /\ MayIssue(ca) /\ InForce(ca, day)
  /\ MayServe(cert) /\ InForce(cert, day)
  /\ name \in cert.san_ips
=============================================================================
