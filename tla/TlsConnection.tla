---------------------------- MODULE TlsConnection ----------------------------
(***************************************************************************)
(* A client calls a server, with the files PkiFiles describes between      *)
(* them: what the client trusts and what the server shows were read at     *)
(* different times, from a directory the tool may be writing, and they     *)
(* stay what they were when the files are replaced.                        *)
(*                                                                         *)
(* External: QSslSocket (PeerVerified) and the clocks.  A handshake that   *)
(* the network or a timeout ends is TlsHandshake's subject.                *)
(***************************************************************************)
EXTENDS PkiFiles, DevCertificates

CONSTANTS
  LastDay,   \* bound: how long the model looks
  Lags       \* by how many days a client's clock may be behind, or ahead if negative

ASSUME DaysAssumption == LastDay \in Nat /\ Lags \subseteq Int

VARIABLES
  today,       \* the day on the clocks of the tool and the server
  issued_on,   \* the day of each run's certificates
  socket,      \* what applyTo left in the client's socket
  link         \* how the last handshake ended, and whose certificate the server showed

linkVars == <<today, issued_on, socket, link>>
allVars == <<vars, linkVars>>

NoSocket == [trusts |-> 0, peer_verify_mode |-> "none"]
NoLink == [end |-> "none", with |-> 0]

ConnectionInit ==
  /\ Init
  /\ today = 0 /\ issued_on = [n \in 1..Runs |-> 0]
  /\ socket = NoSocket /\ link = NoLink

\* A certificate is valid from the day on which it is made.
Issue ==
  /\ IssueDevCa
  /\ issued_on' = [issued_on EXCEPT ![run] = today]
  /\ UNCHANGED <<today, socket, link>>

NextDay ==
  /\ today < LastDay /\ today' = today + 1
  /\ UNCHANGED <<vars, issued_on, socket, link>>

\* The other steps of the tool.
ToolAsBefore ==
  /\ \/ StartRun \/ RefuseArguments \/ IssueFails
     \/ CreateDirectories \/ CreateDirectoriesFails
     \/ OpenFile \/ OpenFails \/ WriteFile \/ WriteFails \/ Killed
  /\ UNCHANGED linkVars

ServerAsBefore == Server /\ UNCHANGED linkVars

\* A client that starts again has no socket yet.
StartClient ==
  /\ Client
  /\ socket' = NoSocket
  /\ UNCHANGED <<today, issued_on, link>>

\* Bug: a client that was refused a configuration connects all the same.
ApplyToUnbuilt ==
  /\ socket' = [trusts |-> root, peer_verify_mode |-> "VerifyPeer"]
  /\ UNCHANGED <<vars, today, issued_on, link>>

\* Bug: the mode that encrypts and asks nothing.
ApplyToVerifyNone ==
  /\ client = "trusting"
  /\ socket' = [trusts |-> root, peer_verify_mode |-> "VerifyNone"]
  /\ UNCHANGED <<vars, today, issued_on, link>>

\* applyTo copies the configuration that build returned into a new socket.
ApplyTo ==
  /\ client = "trusting"
  /\ socket' = [trusts |-> root, peer_verify_mode |-> "VerifyPeer"]
  /\ UNCHANGED <<vars, today, issued_on, link>>

Accepts(ip, day) ==
  \/ socket.peer_verify_mode = "VerifyNone"
  \/ PeerVerified(Ca(socket.trusts, issued_on[socket.trusts]),
                  Leaf(cert, address[cert], issued_on[cert]), ip, day)

\* connectToHostEncrypted(ip, port, ip), on a socket that has a configuration, to
\* a server that listens.
Connect(ip, day) ==
  /\ socket # NoSocket /\ server = "loaded"
  /\ certMatchesKey(Leaf(cert, address[cert], issued_on[cert]), LeafKey(key))
  /\ link' = [end |-> IF Accepts(ip, day) THEN "encrypted" ELSE "refused", with |-> cert]
  /\ UNCHANGED <<vars, today, issued_on, socket>>

ClientDays == {today - lag : lag \in Lags}

ConnectionNext ==
  \/ Issue \/ NextDay \/ ToolAsBefore \/ ServerAsBefore \/ StartClient \/ ApplyTo
  \/ \E ip \in Addresses : \E day \in ClientDays : Connect(ip, day)

ConnectionSpec == ConnectionInit /\ [][ConnectionNext]_allVars

-----------------------------------------------------------------------------
ConnectionTypeOK ==
  /\ TypeOK
  /\ today \in 0..LastDay /\ issued_on \in [1..Runs -> 0..LastDay]
  /\ \/ socket = NoSocket
     \/ socket \in [trusts : 1..Runs, peer_verify_mode : {"VerifyPeer"}]
  /\ \/ link = NoLink
     \/ link \in [end : {"encrypted", "refused"}, with : 1..Runs]

EncryptedEndsFit ==
  \A ip \in Addresses : \A day \in ClientDays :
    Connect(ip, day) /\ link'.end = "encrypted" =>
      /\ cert = key /\ cert = root
      /\ ip = address[cert] /\ isIpv4Literal(ip)
      /\ issued_on[cert] <= day /\ day <= issued_on[cert] + kServerValidityDays

FitEndsEncrypt ==
  \A ip \in Addresses : \A day \in ClientDays :
    /\ Connect(ip, day) /\ server_saw # 0 /\ client_saw = server_saw
    /\ ip = address[server_saw]
    /\ issued_on[server_saw] <= day /\ day <= issued_on[server_saw] + kServerValidityDays
    => link'.end = "encrypted"

\* Whatever was replaced, cut short or restarted on the way, a handshake ends
\* encrypted only with a server that has the key of a certificate of the very run
\* whose root this client read: made for the address the client dialled, which is
\* a valid one, and in force on the client's own clock (tls_client.cpp:36-47,
\* dev_ca.cpp:93-112, 248-270).
EncryptedIsGenuine == [][EncryptedEndsFit]_allVars

\* A server and a client that each started over the same finished set are never
\* kept apart by what the tool wrote, until the server's certificate expires: not
\* by a run that was cut short since, and not by a root that expired first
\* (dev_ca.hpp:17-18, dev_ca.cpp:231-270, tls_client.cpp:30-47).
UndisturbedEndsConnect == [][FitEndsEncrypt]_allVars
=============================================================================
