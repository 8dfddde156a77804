------------------------------ MODULE PkiFiles ------------------------------
(***************************************************************************)
(* The directory of development certificates and the three programs that   *)
(* share it: chathub-dev-ca (tools/pki/src), which replaces its four files *)
(* one after the other, the server (TlsContext::load), which reads two of  *)
(* them, and the client (TlsClientConfig::build), which reads a third.     *)
(*                                                                         *)
(* Nothing but the file system connects them: any two steps may            *)
(* interleave, and a run of the tool may fail or be killed between any     *)
(* two.  A file is what a reader can make of it: the number of the run     *)
(* whose whole PEM text it holds, or Unreadable (missing, empty or cut).   *)
(* Two certificates, or a certificate and a key, belong together if and    *)
(* only if they come from the same run, since every run makes new keys.    *)
(*                                                                         *)
(* External: the file system, OpenSSL, Qt.  Not modelled: two runs of the  *)
(* tool at the same time, and loss of written data when the machine fails. *)
(***************************************************************************)
EXTENDS Ipv4Literal

CONSTANTS
  Runs,        \* bound: how often the tool is run
  Addresses    \* the texts operators give to --ip

ASSUME RunsAssumption == Runs \in Nat \ {0}

VARIABLES
  \* chathub-dev-ca
  run,         \* the number of the last run, 0 before the first
  address,     \* what each run is given as --ip
  tool,        \* where the run stands; "idle" when none is under way
  file,        \* which file of WriteOrder it opens or writes
  exit,        \* how the last run ended
  dir,         \* the files
  \* TlsContext::load of the last start of the server
  server, cert, key, server_error,
  \* TlsClientConfig::build of the last start of the client
  client, root, client_error,
  \* history
  intact,      \* the run that reported success, if no file was opened since
  server_saw,  \* the run that was intact from the beginning of load to its end
  client_saw   \* the run that was intact during build

toolVars == <<run, address, tool, file, exit>>
serverVars == <<server, cert, key, server_error>>
clientVars == <<client, root, client_error>>
vars == <<toolVars, dir, serverVars, clientVars, intact, server_saw, client_saw>>

Files == {"trusted-ca.pem", "ca-key.pem", "server-cert.pem", "server-key.pem"}

\* Bug: what the clients trust is replaced last.
RootLast == <<"ca-key.pem", "server-cert.pem", "server-key.pem", "trusted-ca.pem">>

\* The order of the calls of write_file.
WriteOrder == <<"trusted-ca.pem", "ca-key.pem", "server-cert.pem", "server-key.pem">>
LastFile == 4

Unreadable == 0

Init ==
  /\ run = 0 /\ address \in [1..Runs -> Addresses]
  /\ tool = "idle" /\ file = 1 /\ exit = "none"
  /\ dir = [f \in Files |-> Unreadable]
  /\ server = "down" /\ cert = Unreadable /\ key = Unreadable /\ server_error = "none"
  /\ client = "down" /\ root = Unreadable /\ client_error = "none"
  /\ intact = 0 /\ server_saw = 0 /\ client_saw = 0

-----------------------------------------------------------------------------
(* chathub-dev-ca *)

Elsewhere == UNCHANGED <<serverVars, clientVars, client_saw>>
ToolOnly == Elsewhere /\ UNCHANGED <<dir, intact, server_saw>>

Exit(how) == tool' = "idle" /\ file' = 1 /\ exit' = how

StartRun ==
  /\ tool = "idle" /\ run < Runs
  /\ run' = run + 1 /\ tool' = "issue" /\ exit' = "none"
  /\ UNCHANGED <<address, file>> /\ ToolOnly

\* An unknown option, or one without its value.
RefuseArguments ==
  /\ tool = "idle" /\ run < Runs
  /\ run' = run + 1 /\ Exit("usage")
  /\ UNCHANGED address /\ ToolOnly

IssueDevCa ==
  /\ tool = "issue" /\ isIpv4Literal(address[run])
  /\ tool' = "directory"
  /\ UNCHANGED <<run, address, file, exit>> /\ ToolOnly

\* A text that is not an address, or any OpenSSL call that fails.
IssueFails ==
  /\ tool = "issue" /\ Exit("error")
  /\ UNCHANGED <<run, address>> /\ ToolOnly

CreateDirectories ==
  /\ tool = "directory"
  /\ tool' = "open" /\ file' = 1
  /\ UNCHANGED <<run, address, exit>> /\ ToolOnly

CreateDirectoriesFails ==
  /\ tool = "directory" /\ Exit("error")
  /\ UNCHANGED <<run, address>> /\ ToolOnly

Loading == server \in {"options", "chain", "key", "check"}

\* The file is there and empty from now on.
OpenFile ==
  /\ tool = "open" /\ tool' = "write"
  /\ dir' = [dir EXCEPT ![WriteOrder[file]] = Unreadable]
  /\ intact' = 0
  /\ server_saw' = IF Loading THEN 0 ELSE server_saw
  /\ UNCHANGED <<run, address, file, exit>> /\ Elsewhere

OpenFails ==
  /\ tool = "open" /\ Exit("error")
  /\ UNCHANGED <<run, address>> /\ ToolOnly

Written == [dir EXCEPT ![WriteOrder[file]] = run]

\* Bug: the last file is not the last.
WriteFilePastTheEnd ==
  /\ tool = "write" /\ dir' = Written
  /\ tool' = "open" /\ file' = file + 1
  /\ UNCHANGED <<run, address, exit, intact, server_saw>> /\ Elsewhere

\* Bug: the set counts as written when the certificate is.
WriteFileStopsEarly ==
  /\ tool = "write" /\ dir' = Written
  /\ IF file < LastFile - 1
       THEN tool' = "open" /\ file' = file + 1 /\ UNCHANGED <<exit, intact>>
       ELSE Exit("success") /\ intact' = run
  /\ UNCHANGED <<run, address, server_saw>> /\ Elsewhere

WriteFile ==
  /\ tool = "write" /\ dir' = Written
  /\ IF file < LastFile
       THEN tool' = "open" /\ file' = file + 1 /\ UNCHANGED <<exit, intact>>
       ELSE Exit("success") /\ intact' = run
  /\ UNCHANGED <<run, address, server_saw>> /\ Elsewhere

\* Bug: the stream is not asked after close().
WriteFailsUnnoticed ==
  /\ tool = "write" /\ dir' \in {dir, Written}
  /\ IF file < LastFile
       THEN tool' = "open" /\ file' = file + 1 /\ UNCHANGED <<exit, intact>>
       ELSE Exit("success") /\ intact' = run
  /\ UNCHANGED <<run, address, server_saw>> /\ Elsewhere

\* write or close reports an error: the text is cut, or it is all there.
WriteFails ==
  /\ tool = "write" /\ dir' \in {dir, Written}
  /\ Exit("error")
  /\ UNCHANGED <<run, address, intact, server_saw>> /\ Elsewhere

\* The process is killed, in the middle of a write or between two steps.
Killed ==
  /\ tool # "idle" /\ Exit("killed")
  /\ dir' \in IF tool = "write" THEN {dir, Written} ELSE {dir}
  /\ UNCHANGED <<run, address, intact, server_saw>> /\ Elsewhere

Tool ==
  \/ StartRun \/ RefuseArguments \/ IssueDevCa \/ IssueFails
  \/ CreateDirectories \/ CreateDirectoriesFails
  \/ OpenFile \/ OpenFails \/ WriteFile \/ WriteFails \/ Killed

-----------------------------------------------------------------------------
(* TlsContext::load, called at every start of the server *)

ServerOnly == UNCHANGED <<toolVars, dir, clientVars, intact, client_saw>>

\* load gives up and its context is freed.
Refuse(error) ==
  /\ server' = "refused" /\ server_error' = error
  /\ cert' = Unreadable /\ key' = Unreadable
  /\ UNCHANGED server_saw /\ ServerOnly

Load ==
  /\ ~Loading
  /\ server' = "options" /\ server_error' = "none"
  /\ cert' = Unreadable /\ key' = Unreadable
  /\ server_saw' = intact
  /\ ServerOnly

SetCipherList ==
  /\ server = "options" /\ server' = "chain"
  /\ UNCHANGED <<cert, key, server_error, server_saw>> /\ ServerOnly

CipherListFails == server = "options" /\ Refuse("ciphers")

UseCertificateChainFile ==
  /\ server = "chain" /\ dir["server-cert.pem"] # Unreadable
  /\ server' = "key" /\ cert' = dir["server-cert.pem"]
  /\ UNCHANGED <<key, server_error, server_saw>> /\ ServerOnly

ChainFails ==
  /\ server = "chain" /\ dir["server-cert.pem"] = Unreadable
  /\ Refuse("chain")

UsePrivateKeyFile ==
  /\ server = "key" /\ dir["server-key.pem"] # Unreadable
  /\ server' = "check" /\ key' = dir["server-key.pem"]
  /\ UNCHANGED <<cert, server_error, server_saw>> /\ ServerOnly

\* OpenSSL may notice here already that the key is another one's.
KeyFails ==
  /\ server = "key" /\ dir["server-key.pem"] \in {Unreadable} \union ((1..run) \ {cert})
  /\ Refuse("key")

\* Bug: the pair is not compared.
CheckPrivateKeySkipped ==
  /\ server = "check" /\ server' = "loaded"
  /\ UNCHANGED <<cert, key, server_error, server_saw>> /\ ServerOnly

CheckPrivateKey ==
  /\ server = "check" /\ key = cert /\ server' = "loaded"
  /\ UNCHANGED <<cert, key, server_error, server_saw>> /\ ServerOnly

KeyIsAnothers == server = "check" /\ key # cert /\ Refuse("mismatch")

Server ==
  \/ Load \/ SetCipherList \/ CipherListFails
  \/ UseCertificateChainFile \/ ChainFails
  \/ UsePrivateKeyFile \/ KeyFails
  \/ CheckPrivateKey \/ KeyIsAnothers

-----------------------------------------------------------------------------
(* TlsClientConfig::build, called at every start of the client *)

ClientOnly == UNCHANGED <<toolVars, dir, serverVars, intact, server_saw>>

Give(error) ==
  /\ client' = "refused" /\ client_error' = error /\ root' = Unreadable
  /\ client_saw' = intact /\ ClientOnly

\* No TLS backend, or not OpenSSL 3.5.
BackendNotReady == Give("backend")

Build ==
  /\ dir["trusted-ca.pem"] # Unreadable
  /\ client' = "trusting" /\ client_error' = "none" /\ root' = dir["trusted-ca.pem"]
  /\ client_saw' = intact /\ ClientOnly

NoCaCertificate == dir["trusted-ca.pem"] = Unreadable /\ Give("no_ca")

Client == Build \/ BackendNotReady \/ NoCaCertificate

-----------------------------------------------------------------------------
Next == Tool \/ Server \/ Client
Spec == Init /\ [][Next]_vars

TypeOK ==
  /\ run \in 0..Runs /\ address \in [1..Runs -> Addresses]
  /\ tool \in {"idle", "issue", "directory", "open", "write"}
  /\ file \in 1..LastFile /\ dir \in [Files -> 0..Runs]
  /\ exit \in {"none", "success", "error", "usage", "killed"}
  /\ server \in {"down", "options", "chain", "key", "check", "loaded", "refused"}
  /\ cert \in 0..Runs /\ key \in 0..Runs
  /\ server_error \in {"none", "ciphers", "chain", "key", "mismatch"}
  /\ client \in {"down", "trusting", "refused"} /\ root \in 0..Runs
  /\ client_error \in {"none", "backend", "no_ca"}
  /\ intact \in 0..Runs /\ server_saw \in 0..Runs /\ client_saw \in 0..Runs

\* Exit status 0 is worth something: from then on all four files are whole, of
\* that run and for a valid address, until a later run really opens one.  A run
\* that was cut short before it, or one after it that is refused, finds no
\* address or cannot open its first file, makes no difference
\* (dev_ca_main.cpp:26-44, dev_ca.cpp:287-307).
SuccessIsWhole ==
  /\ exit = "success" => intact = run
  /\ intact # 0 => /\ \A f \in Files : dir[f] = intact
                   /\ isIpv4Literal(address[intact])

\* However the two reads of load fall between the writes of the tool and its
\* accidents, a server that starts has a certificate and its own key
\* (tls_context.cpp:33-49).
LoadedPairMatches == server = "loaded" => cert # Unreadable /\ cert = key

\* The root is written first, so a client that starts while a server is up
\* never reads a root older than the one that server's certificate was issued
\* under, wherever the tool was cut short (dev_ca.cpp:303-306).
TrustNeverLags ==
  server = "loaded" => dir["trusted-ca.pem"] = Unreadable \/ dir["trusted-ca.pem"] >= cert

\* A server and a client that were started over one finished set, with no file
\* opened while they read, come up, unless the TLS library itself refuses, and
\* trust each other (dev_ca.cpp:303, tls_context.cpp:33, tls_client.cpp:30).
UndisturbedEndsAgree ==
  /\ server = "loaded" /\ server_saw # 0 => cert = server_saw
  /\ server = "refused" /\ server_saw # 0 => server_error = "ciphers"
  /\ client = "trusting" /\ client_saw # 0 => root = client_saw
  /\ client = "refused" /\ client_saw # 0 => client_error = "backend"
=============================================================================
