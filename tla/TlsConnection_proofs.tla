------------------------ MODULE TlsConnection_proofs ------------------------
(***************************************************************************)
(* Proofs about the certificate directory, and about a client that calls a *)
(* server with what the two read there: for any number of runs of the      *)
(* tool, any texts given to them as addresses, any periods of validity,    *)
(* and clocks that are any number of days behind.                          *)
(*                                                                         *)
(* The argument for the files (PkiFiles): runs only get larger numbers and *)
(* each writes from the first file on, so the readable files never get     *)
(* newer along WriteOrder (NewerFirst).  Opening a file ends the history   *)
(* of an intact set before anything is lost, and with it what a load in    *)
(* progress may rely on (LoadRelies).                                      *)
(*                                                                         *)
(* The argument for the connection: every step is one of PkiFiles or       *)
(* leaves its variables alone, so its invariant IInv holds here too.  What *)
(* is added to it says that only certificates for valid addresses get      *)
(* around (AddressesAreGood) and that a socket trusts what the client's    *)
(* last build read (SocketFollowsClient).  The rest is in what the         *)
(* certificates say.                                                       *)
(***************************************************************************)
EXTENDS TlsConnection, TLAPS

-----------------------------------------------------------------------------
(* The files *)

At(i) == dir[WriteOrder[i]]

\* No readable file is newer than a readable one written before it.
NewerFirst ==
  \A i, j \in 1..LastFile :
    i < j /\ At(i) # Unreadable /\ At(j) # Unreadable => At(i) >= At(j)

\* Only runs that began have left files, pairs and sets.
PastRuns ==
  /\ \A f \in Files : dir[f] <= run
  /\ cert <= run /\ key <= run /\ intact <= run

\* What the steps of the present run have established.
RunProgress ==
  /\ tool # "idle" => run > 0
  /\ tool \in {"directory", "open", "write"} => isIpv4Literal(address[run])
  /\ tool \in {"open", "write"} => \A i \in 1..LastFile : i < file => At(i) = run
  /\ tool = "write" => At(file) = Unreadable /\ intact = 0
  /\ tool = "open" /\ file > 1 => intact = 0
  /\ exit = "success" => tool = "idle"

\* The certificate a server read, and its age.
LoadProgress ==
  /\ server \in {"key", "check", "loaded"} => cert # Unreadable
  /\ server = "loaded" => cert = key
  /\ cert # Unreadable =>
       dir["trusted-ca.pem"] = Unreadable \/ dir["trusted-ca.pem"] >= cert

\* While nothing disturbs it, a load sees one intact set.
LoadRelies ==
  server_saw # 0 =>
    /\ Loading => intact = server_saw
    /\ server \in {"key", "check"} => cert = server_saw
    /\ server = "check" => key = server_saw

IInv ==
  /\ TypeOK /\ NewerFirst /\ PastRuns /\ RunProgress /\ LoadProgress /\ LoadRelies
  /\ SuccessIsWhole /\ UndisturbedEndsAgree

-----------------------------------------------------------------------------
\* The tool writes every file once, and the ones others read where it says.
LEMMA OrderFacts ==
  /\ \A i \in 1..LastFile : WriteOrder[i] \in Files
  /\ \A i, j \in 1..LastFile : WriteOrder[i] = WriteOrder[j] => i = j
  /\ \A f \in Files : \E i \in 1..LastFile : WriteOrder[i] = f
  /\ WriteOrder[1] = "trusted-ca.pem" /\ WriteOrder[3] = "server-cert.pem"
  /\ WriteOrder[4] = "server-key.pem"
<1>1. \A i \in 1..LastFile : i = 1 \/ i = 2 \/ i = 3 \/ i = 4
  BY DEF LastFile
<1>2. /\ WriteOrder[1] = "trusted-ca.pem" /\ WriteOrder[2] = "ca-key.pem"
      /\ WriteOrder[3] = "server-cert.pem" /\ WriteOrder[4] = "server-key.pem"
      /\ 1 \in 1..LastFile /\ 2 \in 1..LastFile /\ 3 \in 1..LastFile /\ 4 \in 1..LastFile
  BY DEF WriteOrder, LastFile
<1> QED
  BY <1>1, <1>2 DEF Files

\* A step that replaces the present file leaves the others as they are.
LEMMA DirUpdate ==
  ASSUME TypeOK, NEW value \in 0..Runs,
         dir' = [dir EXCEPT ![WriteOrder[file]] = value]
  PROVE  /\ dir' \in [Files -> 0..Runs]
         /\ \A i \in 1..LastFile : At(i)' = IF i = file THEN value ELSE At(i)
<1>1. file \in 1..LastFile /\ dir \in [Files -> 0..Runs]
  BY DEF TypeOK
<1>2. dir' \in [Files -> 0..Runs]
  BY <1>1, OrderFacts
<1>3. ASSUME NEW i \in 1..LastFile
      PROVE  dir'[WriteOrder[i]] = IF i = file THEN value ELSE dir[WriteOrder[i]]
  BY <1>1, <1>3, OrderFacts
<1> QED
  BY <1>2, <1>3 DEF At

\* Every step keeps the types.
LEMMA StepKeepsType == TypeOK /\ [Next]_vars => TypeOK'
<1> SUFFICES ASSUME TypeOK, [Next]_vars PROVE TypeOK'
  OBVIOUS
<1>1. CASE UNCHANGED vars
  BY <1>1 DEF TypeOK, vars, toolVars, serverVars, clientVars
<1>2. CASE StartRun \/ RefuseArguments \/ IssueDevCa \/ IssueFails
             \/ CreateDirectories \/ CreateDirectoriesFails \/ OpenFails
  <2>1. run' \in 0..Runs
    BY <1>2, RunsAssumption
       DEF TypeOK, StartRun, RefuseArguments, IssueDevCa, IssueFails, CreateDirectories,
           CreateDirectoriesFails, OpenFails
  <2>2. file' \in 1..LastFile
    BY <1>2 DEF TypeOK, StartRun, RefuseArguments, IssueDevCa, IssueFails,
                CreateDirectories, CreateDirectoriesFails, OpenFails, Exit, LastFile
  <2> QED
    BY <1>2, <2>1, <2>2
       DEF TypeOK, StartRun, RefuseArguments, IssueDevCa, IssueFails, CreateDirectories,
           CreateDirectoriesFails, OpenFails, Exit, ToolOnly, Elsewhere, serverVars,
           clientVars
<1>3. CASE OpenFile
  <2>1. 0 \in 0..Runs /\ dir' = [dir EXCEPT ![WriteOrder[file]] = 0]
    BY <1>3, RunsAssumption DEF OpenFile, Unreadable
  <2>2. dir' \in [Files -> 0..Runs]
    BY <2>1, DirUpdate
  <2> QED
    BY <1>3, <2>2, RunsAssumption DEF TypeOK, OpenFile, Elsewhere, serverVars, clientVars
<1>4. CASE WriteFile \/ WriteFails \/ Killed
  <2>1. dir' = dir \/ dir' = Written
    BY <1>4 DEF WriteFile, WriteFails, Killed
  <2>2. dir' \in [Files -> 0..Runs]
    BY <2>1, DirUpdate DEF TypeOK, Written
  <2>3. CASE WriteFile
    BY <2>2, <2>3, RunsAssumption
       DEF TypeOK, WriteFile, Exit, Elsewhere, serverVars, clientVars, LastFile
  <2>4. CASE WriteFails \/ Killed
    BY <2>2, <2>4, RunsAssumption
       DEF TypeOK, WriteFails, Killed, Exit, Elsewhere, serverVars, clientVars, LastFile
  <2> QED
    BY <1>4, <2>3, <2>4
<1>5. CASE Server
  <2> USE RunsAssumption DEF TypeOK, Refuse, ServerOnly, toolVars, clientVars, Unreadable
  <2>1. CASE Load \/ SetCipherList \/ CheckPrivateKey
    BY <2>1 DEF Load, SetCipherList, CheckPrivateKey
  <2>2. CASE CipherListFails \/ ChainFails \/ KeyFails \/ KeyIsAnothers
    BY <2>2 DEF CipherListFails, ChainFails, KeyFails, KeyIsAnothers
  <2>3. CASE UseCertificateChainFile
    BY <2>3 DEF UseCertificateChainFile, Files
  <2>4. CASE UsePrivateKeyFile
    BY <2>4 DEF UsePrivateKeyFile, Files
  <2> QED
    BY <1>5, <2>1, <2>2, <2>3, <2>4 DEF Server
<1>6. CASE Client
  <2> USE RunsAssumption
      DEF TypeOK, Give, ClientOnly, toolVars, serverVars, Unreadable
  <2>1. CASE Build
    BY <2>1 DEF Build, Files
  <2>2. CASE BackendNotReady \/ NoCaCertificate
    BY <2>2 DEF BackendNotReady, NoCaCertificate
  <2> QED
    BY <1>6, <2>1, <2>2 DEF Client
<1> QED
  BY <1>1, <1>2, <1>3, <1>4, <1>5, <1>6 DEF Next, Tool

\* Every variable keeps its type.
THEOREM TypeCorrect == Spec => []TypeOK
<1>1. Init => TypeOK
  BY RunsAssumption DEF Init, TypeOK, Unreadable, LastFile
<1> QED
  BY <1>1, StepKeepsType, PTL DEF Spec

-----------------------------------------------------------------------------
(* One lemma per kind of step shows that it keeps IInv *)

\* A file's place in WriteOrder tells what IInv says of it.
LEMMA FilesByPlace ==
  ASSUME TypeOK
  PROVE  /\ \A f \in Files : \E i \in 1..LastFile : dir[f] = At(i)
         /\ \A i \in 1..LastFile : At(i) \in 0..Runs
         /\ At(1) = dir["trusted-ca.pem"] /\ At(3) = dir["server-cert.pem"]
         /\ At(4) = dir["server-key.pem"]
  BY OrderFacts DEF TypeOK, At

\* A step of the tool that opens and writes nothing.
LEMMA ToolOnlyKeepsIInv ==
  ASSUME IInv,
         \/ StartRun \/ RefuseArguments \/ IssueDevCa \/ IssueFails
         \/ CreateDirectories \/ CreateDirectoriesFails \/ OpenFails
  PROVE  IInv'
<1>1. TypeOK'
  BY StepKeepsType DEF IInv, Next, Tool
<1>2. /\ UNCHANGED <<dir, intact, server_saw, address>> /\ Elsewhere
      /\ run <= run' /\ run' \in 0..Runs
  BY RunsAssumption
     DEF IInv, TypeOK, ToolOnly, StartRun, RefuseArguments, IssueDevCa, IssueFails,
         CreateDirectories, CreateDirectoriesFails, OpenFails
<1>3. NewerFirst' /\ LoadProgress' /\ LoadRelies' /\ UndisturbedEndsAgree'
  BY <1>2 DEF IInv, NewerFirst, At, LoadProgress, LoadRelies, Loading,
              UndisturbedEndsAgree, Elsewhere, serverVars, clientVars
<1>4. PastRuns'
  BY <1>2 DEF IInv, PastRuns, TypeOK, Elsewhere, serverVars
<1>5. RunProgress'
  BY <1>2 DEF IInv, TypeOK, RunProgress, At, StartRun, RefuseArguments, IssueDevCa,
              IssueFails, CreateDirectories, CreateDirectoriesFails, OpenFails, Exit,
              LastFile
<1>6. SuccessIsWhole'
  <2>1. exit' = "success" => exit = "success" /\ run' = run
    BY DEF StartRun, RefuseArguments, IssueDevCa, IssueFails, CreateDirectories,
           CreateDirectoriesFails, OpenFails, Exit
  <2> QED
    BY <1>2, <2>1 DEF IInv, SuccessIsWhole
<1> QED
  BY <1>1, <1>3, <1>4, <1>5, <1>6 DEF IInv

\* Opening a file makes it unreadable and ends the intact set.
LEMMA OpenFileKeepsIInv ==
  ASSUME IInv, OpenFile
  PROVE  IInv'
<1>1. TypeOK /\ TypeOK'
  BY StepKeepsType DEF IInv, Next, Tool
<1>2. /\ \A i \in 1..LastFile : At(i)' = IF i = file THEN Unreadable ELSE At(i)
      /\ dir' \in [Files -> 0..Runs]
  <2>1. 0 \in 0..Runs /\ dir' = [dir EXCEPT ![WriteOrder[file]] = 0]
    BY RunsAssumption DEF OpenFile, Unreadable
  <2> QED
    BY <1>1, <2>1, DirUpdate DEF Unreadable
<1>3. /\ UNCHANGED <<run, address, file, exit>> /\ Elsewhere
      /\ tool = "open" /\ tool' = "write" /\ intact' = 0
      /\ server_saw' = IF Loading THEN 0 ELSE server_saw
  BY DEF OpenFile
<1>4. file \in 1..LastFile /\ run \in 0..Runs
  BY <1>1 DEF TypeOK
<1>5. NewerFirst'
  BY <1>2 DEF IInv, NewerFirst, Unreadable
<1>6. \A f \in Files : dir'[f] = dir[f] \/ dir'[f] = Unreadable
  BY <1>2, OrderFacts DEF At
<1>7. PastRuns'
  BY <1>1, <1>3, <1>4, <1>6, RunsAssumption
     DEF IInv, PastRuns, Elsewhere, serverVars, Unreadable
<1>8. RunProgress'
  BY <1>2, <1>3, <1>4 DEF IInv, RunProgress, Unreadable, LastFile
<1>9. LoadProgress'
  BY <1>3, <1>6 DEF IInv, LoadProgress, Elsewhere, serverVars, Files
<1>10. LoadRelies' /\ SuccessIsWhole' /\ UndisturbedEndsAgree'
  BY <1>3 DEF IInv, LoadRelies, Loading, SuccessIsWhole, UndisturbedEndsAgree, RunProgress,
              Elsewhere, serverVars, clientVars
<1> QED
  BY <1>1, <1>5, <1>7, <1>8, <1>9, <1>10 DEF IInv

\* What a file that was written whole changes: only that it is now readable,
\* and newer than anything in the directory.
LEMMA WrittenFacts ==
  ASSUME IInv, TypeOK', tool = "write", dir' = Written, UNCHANGED <<run, address>>,
         UNCHANGED server_saw, Elsewhere
  PROVE  /\ NewerFirst' /\ LoadProgress'
         /\ \A f \in Files : dir'[f] <= run
         /\ \A i \in 1..LastFile : i <= file => At(i)' = run
         /\ run > 0 /\ isIpv4Literal(address[run])
         /\ intact = 0 /\ (Loading => server_saw = 0)
<1>1. TypeOK /\ run \in 0..Runs /\ file \in 1..LastFile
  BY DEF IInv, TypeOK
<1>2. /\ \A i \in 1..LastFile : At(i)' = IF i = file THEN run ELSE At(i)
      /\ dir' \in [Files -> 0..Runs]
  BY <1>1, DirUpdate DEF Written
<1>3. \A i \in 1..LastFile : At(i) \in 0..Runs /\ At(i) <= run
  BY <1>1, FilesByPlace, OrderFacts DEF IInv, PastRuns, At
<1>4. \A i \in 1..LastFile : i <= file => At(i)' = run
  BY <1>1, <1>2 DEF IInv, RunProgress, LastFile
<1>5. NewerFirst'
  <2> SUFFICES ASSUME NEW i \in 1..LastFile, NEW j \in 1..LastFile, i < j,
                      At(i)' # Unreadable, At(j)' # Unreadable
               PROVE  At(i)' >= At(j)'
    BY DEF NewerFirst
  <2>1. CASE i <= file
    BY <1>1, <1>2, <1>3, <1>4, <2>1, RunsAssumption
  <2>2. CASE i > file
    <3>1. i # file /\ j # file
      BY <1>1, <2>2 DEF LastFile
    <3> QED
      BY <1>2, <3>1 DEF IInv, NewerFirst
  <2> QED
    BY <1>1, <2>1, <2>2 DEF LastFile
<1>6. \A f \in Files : dir'[f] = dir[f] \/ dir'[f] = run
  BY <1>2, OrderFacts DEF At
<1>7. \A f \in Files : dir'[f] <= run
  BY <1>1, <1>6, RunsAssumption DEF IInv, PastRuns
<1>8. LoadProgress'
  BY <1>1, <1>6, RunsAssumption
     DEF IInv, LoadProgress, PastRuns, Elsewhere, serverVars, Files, TypeOK
<1>9. run > 0 /\ isIpv4Literal(address[run]) /\ intact = 0
  BY DEF IInv, RunProgress
<1>10. Loading => server_saw = 0
  BY <1>9 DEF IInv, LoadRelies
<1> QED
  BY <1>4, <1>5, <1>7, <1>8, <1>9, <1>10

\* A file written whole; after the last one the set is intact.
LEMMA WriteFileKeepsIInv ==
  ASSUME IInv, WriteFile
  PROVE  IInv'
<1>1. TypeOK /\ TypeOK'
  BY StepKeepsType DEF IInv, Next, Tool
<1>2. /\ tool = "write" /\ dir' = Written /\ Elsewhere
      /\ UNCHANGED <<run, address>> /\ UNCHANGED server_saw
  BY DEF WriteFile
<1>3. file \in 1..LastFile /\ run \in 0..Runs
  BY <1>1 DEF TypeOK
<1>4. /\ NewerFirst' /\ LoadProgress'
      /\ \A f \in Files : dir'[f] <= run
      /\ \A i \in 1..LastFile : i <= file => At(i)' = run
      /\ run > 0 /\ isIpv4Literal(address[run])
      /\ intact = 0 /\ (Loading => server_saw = 0)
  BY <1>1, <1>2, WrittenFacts
<1>5. \/ /\ file < LastFile /\ tool' = "open" /\ file' = file + 1
         /\ exit' = exit /\ intact' = 0
      \/ /\ file = LastFile /\ tool' = "idle" /\ file' = 1
         /\ exit' = "success" /\ intact' = run
  BY <1>3, <1>4 DEF WriteFile, Exit, LastFile
<1>6. PastRuns'
  BY <1>2, <1>3, <1>4, <1>5, RunsAssumption DEF IInv, PastRuns, Elsewhere, serverVars
<1>7. RunProgress'
  BY <1>2, <1>3, <1>4, <1>5 DEF IInv, RunProgress, LastFile
<1>8. LoadRelies' /\ UndisturbedEndsAgree'
  BY <1>2, <1>4 DEF IInv, LoadRelies, Loading, UndisturbedEndsAgree, Elsewhere, serverVars,
                    clientVars
<1>9. SuccessIsWhole'
  <2>1. CASE intact' = 0 /\ exit' = exit
    BY <1>2, <1>4, <2>1 DEF IInv, SuccessIsWhole, RunProgress
  <2>2. CASE file = LastFile /\ intact' = run
    <3>1. \A i \in 1..LastFile : At(i)' = run
      BY <1>4, <2>2 DEF LastFile
    <3>2. \A f \in Files : dir'[f] = run
      BY <3>1, OrderFacts DEF At
    <3> QED
      BY <1>2, <1>4, <2>2, <3>2 DEF SuccessIsWhole
  <2> QED
    BY <1>5, <2>1, <2>2
<1> QED
  BY <1>1, <1>4, <1>6, <1>7, <1>8, <1>9 DEF IInv

\* A run that ends in the middle of a write, or is killed between two steps.
LEMMA CutShortKeepsIInv ==
  ASSUME IInv, WriteFails \/ Killed
  PROVE  IInv'
<1>1. TypeOK /\ TypeOK'
  BY StepKeepsType DEF IInv, Next, Tool
<1>2. /\ dir' = dir \/ (tool = "write" /\ dir' = Written)
      /\ Elsewhere /\ UNCHANGED <<run, address, intact, server_saw>>
      /\ tool' = "idle" /\ exit' # "success" /\ tool # "idle"
  BY DEF WriteFails, Killed, Exit
<1>3. /\ NewerFirst' /\ LoadProgress'
      /\ \A f \in Files : dir'[f] <= run
      /\ dir' = dir \/ intact = 0
  <2>1. CASE dir' = dir
    BY <1>2, <2>1 DEF IInv, NewerFirst, At, LoadProgress, PastRuns, Elsewhere, serverVars
  <2>2. CASE tool = "write" /\ dir' = Written
    BY <1>1, <1>2, <2>2, WrittenFacts
  <2> QED
    BY <1>2, <2>1, <2>2
<1>4. PastRuns' /\ RunProgress'
  BY <1>2, <1>3 DEF IInv, PastRuns, RunProgress, Elsewhere, serverVars
<1>5. LoadRelies' /\ SuccessIsWhole' /\ UndisturbedEndsAgree'
  BY <1>2, <1>3 DEF IInv, LoadRelies, Loading, SuccessIsWhole, UndisturbedEndsAgree,
                    Elsewhere, serverVars, clientVars
<1> QED
  BY <1>1, <1>3, <1>4, <1>5 DEF IInv

\* A step of load, over whatever the tool has left.
LEMMA ServerKeepsIInv ==
  ASSUME IInv, Server
  PROVE  IInv'
<1>1. TypeOK /\ TypeOK'
  BY StepKeepsType DEF IInv, Next
<1>2. ServerOnly
  BY DEF Server, Load, SetCipherList, CipherListFails, UseCertificateChainFile, ChainFails,
         UsePrivateKeyFile, KeyFails, CheckPrivateKey, KeyIsAnothers, Refuse
<1>3. NewerFirst' /\ RunProgress' /\ SuccessIsWhole'
  BY <1>2 DEF IInv, NewerFirst, At, RunProgress, SuccessIsWhole, ServerOnly, toolVars
<1>4. \/ cert' \in {cert, Unreadable} /\ key' \in {key, Unreadable}
      \/ cert' = dir["server-cert.pem"] /\ key' = key
      \/ cert' = cert /\ key' = dir["server-key.pem"]
  BY DEF Server, Load, SetCipherList, CipherListFails, UseCertificateChainFile, ChainFails,
         UsePrivateKeyFile, KeyFails, CheckPrivateKey, KeyIsAnothers, Refuse
<1>5. PastRuns'
  BY <1>1, <1>2, <1>4, RunsAssumption
     DEF IInv, PastRuns, ServerOnly, toolVars, Files, Unreadable, TypeOK
<1>6. /\ server' \in {"key", "check", "loaded"} => cert' # Unreadable
      /\ server' = "loaded" => cert' = key'
  BY DEF IInv, LoadProgress, Server, Load, SetCipherList, CipherListFails,
         UseCertificateChainFile, ChainFails, UsePrivateKeyFile, KeyFails, CheckPrivateKey,
         KeyIsAnothers, Refuse
<1>7. cert' # Unreadable =>
        dir["trusted-ca.pem"] = Unreadable \/ dir["trusted-ca.pem"] >= cert'
  <2>1. CASE cert' \in {cert, Unreadable}
    BY <2>1 DEF IInv, LoadProgress
  <2>2. CASE cert' = dir["server-cert.pem"]
    <3>1. cert' = At(3) /\ dir["trusted-ca.pem"] = At(1) /\ 1 < 3
          /\ 1 \in 1..LastFile /\ 3 \in 1..LastFile
      BY <1>1, <2>2, FilesByPlace DEF LastFile
    <3> QED
      BY <3>1 DEF IInv, NewerFirst
  <2> QED
    BY <1>4, <2>1, <2>2
<1>8. LoadProgress'
  BY <1>2, <1>6, <1>7 DEF LoadProgress, ServerOnly
<1>9. ASSUME intact # 0
      PROVE  dir["server-cert.pem"] = intact /\ dir["server-key.pem"] = intact
  BY <1>9 DEF IInv, SuccessIsWhole, Files
<1>10. LoadRelies'
  BY <1>1, <1>2, <1>9
     DEF IInv, LoadRelies, Loading, Server, Load, SetCipherList, CipherListFails,
         UseCertificateChainFile, ChainFails, UsePrivateKeyFile, KeyFails, CheckPrivateKey,
         KeyIsAnothers, Refuse, ServerOnly
<1>11. UndisturbedEndsAgree'
  <2>1. server' = "loaded" /\ server_saw' # 0 => cert' = server_saw'
    BY DEF IInv, UndisturbedEndsAgree, LoadRelies, Server, Load, SetCipherList,
           CipherListFails, UseCertificateChainFile, ChainFails, UsePrivateKeyFile, KeyFails,
           CheckPrivateKey, KeyIsAnothers, Refuse
  <2>2. ASSUME server' = "refused", server_saw' # 0
        PROVE  server_error' = "ciphers"
    <3>1. CASE CipherListFails
      BY <3>1 DEF CipherListFails, Refuse
    <3>2. CASE ChainFails
      BY <1>9, <2>2, <3>2 DEF IInv, LoadRelies, Loading, ChainFails, Refuse, Unreadable
    <3>3. CASE KeyFails
      BY <1>9, <2>2, <3>3 DEF IInv, LoadRelies, Loading, KeyFails, Refuse, Unreadable
    <3>4. CASE KeyIsAnothers
      BY <1>9, <2>2, <3>4 DEF IInv, LoadRelies, KeyIsAnothers, Refuse
    <3> QED
      BY <2>2, <3>1, <3>2, <3>3, <3>4
         DEF Server, Load, SetCipherList, UseCertificateChainFile, UsePrivateKeyFile,
             CheckPrivateKey
  <2>3. UNCHANGED <<client, root, client_error, client_saw>>
    BY <1>2 DEF ServerOnly, clientVars
  <2> QED
    BY <2>1, <2>2, <2>3 DEF IInv, UndisturbedEndsAgree
<1> QED
  BY <1>1, <1>3, <1>5, <1>8, <1>10, <1>11 DEF IInv

\* A start of the client.
LEMMA ClientKeepsIInv ==
  ASSUME IInv, Client
  PROVE  IInv'
<1>1. TypeOK'
  BY StepKeepsType DEF IInv, Next
<1>2. ClientOnly /\ client_saw' = intact
  BY DEF Client, Build, BackendNotReady, NoCaCertificate, Give
<1>3. /\ NewerFirst' /\ PastRuns' /\ RunProgress' /\ LoadProgress' /\ LoadRelies'
      /\ SuccessIsWhole'
  BY <1>2 DEF IInv, NewerFirst, At, PastRuns, RunProgress, LoadProgress, LoadRelies, Loading,
              SuccessIsWhole, ClientOnly, toolVars, serverVars
<1>4. intact # 0 => dir["trusted-ca.pem"] = intact
  BY DEF IInv, SuccessIsWhole, Files
<1>5. UndisturbedEndsAgree'
  BY <1>2, <1>4
     DEF IInv, UndisturbedEndsAgree, Client, Build, BackendNotReady, NoCaCertificate, Give,
         ClientOnly, serverVars, Unreadable
<1> QED
  BY <1>1, <1>3, <1>5 DEF IInv

\* Every step keeps the invariant.
LEMMA StepKeepsIInv == IInv /\ [Next]_vars => IInv'
<1> SUFFICES ASSUME IInv, [Next]_vars PROVE IInv'
  OBVIOUS
<1>1. CASE UNCHANGED vars
  BY <1>1 DEF IInv, TypeOK, NewerFirst, At, PastRuns, RunProgress, LoadProgress, LoadRelies,
              Loading, SuccessIsWhole, UndisturbedEndsAgree, vars, toolVars, serverVars,
              clientVars
<1>2. CASE Tool
  BY <1>2, ToolOnlyKeepsIInv, OpenFileKeepsIInv, WriteFileKeepsIInv, CutShortKeepsIInv
     DEF Tool
<1>3. CASE Server
  BY <1>3, ServerKeepsIInv
<1>4. CASE Client
  BY <1>4, ClientKeepsIInv
<1> QED
  BY <1>1, <1>2, <1>3, <1>4 DEF Next

-----------------------------------------------------------------------------
\* It holds before the first run.
LEMMA InitGivesIInv == Init => IInv
<1> SUFFICES ASSUME Init PROVE IInv
  OBVIOUS
<1>1. TypeOK
  BY RunsAssumption DEF Init, TypeOK, Unreadable, LastFile
<1>2. \A f \in Files : dir[f] = Unreadable
  BY DEF Init
<1>3. NewerFirst
  BY <1>2, OrderFacts DEF NewerFirst, At
<1> QED
  BY <1>1, <1>2, <1>3
     DEF Init, IInv, PastRuns, RunProgress, LoadProgress, LoadRelies, Loading,
         SuccessIsWhole, UndisturbedEndsAgree, Unreadable

\* The inductive invariant: files, pairs in memory and the history of intact
\* sets, tied to the progress of tool and load.
THEOREM InvariantHolds == Spec => []IInv
  BY InitGivesIInv, StepKeepsIInv, PTL DEF Spec

\* A run that reported success leaves four whole files of its own, for as long
\* as no later run opens one.
THEOREM SetsAreWhole == Spec => []SuccessIsWhole
<1>1. IInv => SuccessIsWhole
  BY DEF IInv
<1> QED
  BY <1>1, InvariantHolds, PTL

\* No server comes up with the key of another certificate.
THEOREM PairsMatch == Spec => []LoadedPairMatches
<1>1. IInv => LoadedPairMatches
  BY DEF IInv, LoadProgress, LoadedPairMatches
<1> QED
  BY <1>1, InvariantHolds, PTL

\* The root on disk is at least as new as the certificate being served.
THEOREM TrustIsNewest == Spec => []TrustNeverLags
<1>1. IInv => TrustNeverLags
  BY DEF IInv, LoadProgress, TrustNeverLags
<1> QED
  BY <1>1, InvariantHolds, PTL

\* Server and client started over one intact set come up and fit together.
THEOREM EndsAgree == Spec => []UndisturbedEndsAgree
<1>1. IInv => UndisturbedEndsAgree
  BY DEF IInv
<1> QED
  BY <1>1, InvariantHolds, PTL

-----------------------------------------------------------------------------
(* The connection *)

AddressesAreGood ==
  /\ \A f \in Files : dir[f] # Unreadable => isIpv4Literal(address[dir[f]])
  /\ cert # Unreadable => isIpv4Literal(address[cert])

SocketFollowsClient ==
  /\ client = "trusting" => root # Unreadable
  /\ socket # NoSocket => client = "trusting" /\ socket.trusts = root

ConnectionInv == IInv /\ ConnectionTypeOK /\ AddressesAreGood /\ SocketFollowsClient

-----------------------------------------------------------------------------
\* The steps of the connection are steps over the files, or none.
LEMMA StepsMapToFiles == [ConnectionNext]_allVars => [Next]_vars
<1> SUFFICES ASSUME [ConnectionNext]_allVars PROVE [Next]_vars
  OBVIOUS
<1>1. CASE UNCHANGED allVars
  BY <1>1 DEF allVars
<1>2. CASE Issue
  BY <1>2 DEF Issue, Next, Tool
<1>3. CASE ToolAsBefore
  BY <1>3 DEF ToolAsBefore, Next, Tool
<1>4. CASE ServerAsBefore \/ StartClient
  BY <1>4 DEF ServerAsBefore, StartClient, Next
<1>5. CASE NextDay \/ ApplyTo
  BY <1>5 DEF NextDay, ApplyTo
<1>6. CASE \E ip \in Addresses : \E day \in ClientDays : Connect(ip, day)
  BY <1>6 DEF Connect
<1> QED
  BY <1>1, <1>2, <1>3, <1>4, <1>5, <1>6 DEF ConnectionNext

\* A step over the files brings no certificate for a text that is no address.
LEMMA StepKeepsAddresses ==
  ASSUME IInv, AddressesAreGood, [Next]_vars
  PROVE  AddressesAreGood'
<1> USE DEF AddressesAreGood
<1>1. CASE UNCHANGED vars
  BY <1>1 DEF vars, toolVars, serverVars
<1>2. CASE Tool
  <2>1. address' = address /\ cert' = cert
    BY <1>2 DEF Tool, StartRun, RefuseArguments, IssueDevCa, IssueFails, CreateDirectories,
       CreateDirectoriesFails, OpenFile, OpenFails, WriteFile, WriteFails, Killed,
       ToolOnly, Elsewhere, serverVars
  <2>2. CASE dir' = dir
    BY <2>1, <2>2
  <2>3. CASE OpenFile
    <3>1. dir' = [dir EXCEPT ![WriteOrder[file]] = Unreadable] /\ dir \in [Files -> 0..Runs]
      BY <2>3 DEF OpenFile, IInv, TypeOK
    <3>2. \A f \in Files : dir'[f] = Unreadable \/ dir'[f] = dir[f]
      BY <3>1
    <3> QED
      BY <2>1, <3>2
  <2>4. CASE (WriteFile \/ WriteFails \/ Killed) /\ dir' # dir
    <3>1. tool = "write" /\ dir' = Written
      BY <2>4 DEF WriteFile, WriteFails, Killed
    <3>2. isIpv4Literal(address[run]) /\ dir \in [Files -> 0..Runs]
      BY <3>1 DEF IInv, RunProgress, TypeOK
    <3>3. \A f \in Files : dir'[f] = run \/ dir'[f] = dir[f]
      BY <3>1, <3>2 DEF Written
    <3> QED
      BY <2>1, <3>2, <3>3
  <2> QED
    BY <1>2, <2>2, <2>3, <2>4
       DEF Tool, StartRun, RefuseArguments, IssueDevCa, IssueFails, CreateDirectories,
           CreateDirectoriesFails, OpenFails, ToolOnly
<1>3. CASE Server
  <2>1. address' = address /\ dir' = dir
    BY <1>3 DEF Server, Load, SetCipherList, CipherListFails, UseCertificateChainFile,
       ChainFails, UsePrivateKeyFile, KeyFails, CheckPrivateKey, KeyIsAnothers, Refuse,
       ServerOnly, toolVars
  <2>2. \/ cert' = cert \/ cert' = Unreadable
        \/ cert' = dir["server-cert.pem"]
    BY <1>3 DEF Server, Load, SetCipherList, CipherListFails, UseCertificateChainFile,
       ChainFails, UsePrivateKeyFile, KeyFails, CheckPrivateKey, KeyIsAnothers, Refuse
  <2> QED
    BY <2>1, <2>2 DEF Files
<1>4. CASE Client
  BY <1>4 DEF Client, Build, BackendNotReady, NoCaCertificate, Give, ClientOnly, toolVars,
     serverVars
<1> QED
  BY <1>1, <1>2, <1>3, <1>4 DEF Next

-----------------------------------------------------------------------------
\* It holds before the first run.
LEMMA InitHolds == ConnectionInit => ConnectionInv
<1> SUFFICES ASSUME ConnectionInit PROVE ConnectionInv
  OBVIOUS
<1>1. IInv
  BY InitGivesIInv DEF ConnectionInit
<1>2. ConnectionTypeOK
  BY <1>1, DaysAssumption DEF ConnectionInit, ConnectionTypeOK, IInv
<1> QED
  BY <1>1, <1>2
     DEF ConnectionInv, ConnectionInit, Init, AddressesAreGood, SocketFollowsClient, Unreadable

\* The variables of the connection keep their types.
LEMMA StepKeepsConnectionType ==
  ASSUME ConnectionInv, [ConnectionNext]_allVars, TypeOK'
  PROVE  ConnectionTypeOK'
<1> USE DaysAssumption, RunsAssumption DEF ConnectionInv, ConnectionTypeOK
<1>1. CASE UNCHANGED allVars \/ ToolAsBefore \/ ServerAsBefore
  BY <1>1 DEF allVars, linkVars, ToolAsBefore, ServerAsBefore
<1>2. CASE Issue
  BY <1>2 DEF Issue
<1>3. CASE NextDay
  BY <1>3 DEF NextDay
<1>4. CASE StartClient
  BY <1>4 DEF StartClient
<1>5. CASE ApplyTo
  <2>1. root \in 1..Runs
    BY <1>5 DEF ApplyTo, SocketFollowsClient, IInv, TypeOK, Unreadable
  <2> QED
    BY <1>5, <2>1 DEF ApplyTo
<1>6. ASSUME NEW ip \in Addresses, NEW day \in ClientDays, Connect(ip, day)
      PROVE  ConnectionTypeOK'
  <2>1. cert \in 1..Runs
    BY <1>6 DEF Connect, IInv, LoadProgress, TypeOK, Unreadable
  <2>2. \E end \in {"encrypted", "refused"} : link' = [end |-> end, with |-> cert]
    BY <1>6 DEF Connect
  <2> QED
    BY <1>6, <2>1, <2>2 DEF Connect
<1> QED
  BY <1>1, <1>2, <1>3, <1>4, <1>5, <1>6 DEF ConnectionNext

\* A socket keeps to the client that made it.
LEMMA StepKeepsSocket ==
  ASSUME ConnectionInv, [ConnectionNext]_allVars
  PROVE  SocketFollowsClient'
<1> USE DEF ConnectionInv, SocketFollowsClient
<1>1. CASE UNCHANGED allVars
  BY <1>1 DEF allVars, linkVars, vars, clientVars
<1>2. CASE Issue
  BY <1>2 DEF Issue, IssueDevCa, ToolOnly, Elsewhere, clientVars
<1>3. CASE ToolAsBefore
  <2>1. UNCHANGED <<clientVars, socket>>
    BY <1>3 DEF ToolAsBefore, StartRun, RefuseArguments, IssueFails, CreateDirectories,
       CreateDirectoriesFails, OpenFile, OpenFails, WriteFile, WriteFails, Killed,
       ToolOnly, Elsewhere, linkVars
  <2> QED
    BY <2>1 DEF clientVars
<1>4. CASE ServerAsBefore
  <2>1. UNCHANGED <<clientVars, socket>>
    BY <1>4 DEF ServerAsBefore, Server, Load, SetCipherList, CipherListFails,
       UseCertificateChainFile, ChainFails, UsePrivateKeyFile, KeyFails, CheckPrivateKey,
       KeyIsAnothers, Refuse, ServerOnly, linkVars
  <2> QED
    BY <2>1 DEF clientVars
<1>5. CASE StartClient
  BY <1>5 DEF StartClient, Client, Build, BackendNotReady, NoCaCertificate, Give
<1>6. CASE NextDay
  BY <1>6 DEF NextDay, vars, clientVars
<1>7. CASE ApplyTo
  BY <1>7 DEF ApplyTo, vars, clientVars
<1>8. CASE \E ip \in Addresses : \E day \in ClientDays : Connect(ip, day)
  BY <1>8 DEF Connect, vars, clientVars
<1> QED
  BY <1>1, <1>2, <1>3, <1>4, <1>5, <1>6, <1>7, <1>8 DEF ConnectionNext

\* The invariant of the files, with what a connection adds to it.
THEOREM ConnectionInvariantHolds == ConnectionSpec => []ConnectionInv
<1>1. ConnectionInv /\ [ConnectionNext]_allVars => ConnectionInv'
  <2> SUFFICES ASSUME ConnectionInv, [ConnectionNext]_allVars PROVE ConnectionInv'
    OBVIOUS
  <2>1. [Next]_vars
    BY StepsMapToFiles
  <2>2. IInv'
    BY <2>1, StepKeepsIInv DEF ConnectionInv
  <2>3. AddressesAreGood'
    BY <2>1, StepKeepsAddresses DEF ConnectionInv
  <2>4. ConnectionTypeOK'
    BY <2>2, StepKeepsConnectionType DEF IInv
  <2>5. SocketFollowsClient'
    BY StepKeepsSocket
  <2> QED
    BY <2>2, <2>3, <2>4, <2>5 DEF ConnectionInv
<1> QED
  BY <1>1, InitHolds, PTL DEF ConnectionSpec

\* Every variable of the files, certificates, programs and sockets keeps its type,
\* whatever the tool does and whoever calls (dev_ca.cpp, tls_context.cpp,
\* tls_configuration.cpp).
THEOREM ConnectionTypeCorrect == ConnectionSpec => []ConnectionTypeOK
<1>1. ConnectionInv => ConnectionTypeOK
  BY DEF ConnectionInv
<1> QED
  BY <1>1, ConnectionInvariantHolds, PTL

-----------------------------------------------------------------------------
(* What the certificates say of a handshake *)

\* The root a socket trusts is one some run made, and the socket asks for it.
LEMMA SocketTrusts ==
  ASSUME ConnectionInv, socket # NoSocket
  PROVE  /\ socket.trusts = root /\ root \in 1..Runs
         /\ socket.peer_verify_mode = "VerifyPeer" /\ client = "trusting"
<1>1. socket \in [trusts : 1..Runs, peer_verify_mode : {"VerifyPeer"}]
  BY DEF ConnectionInv, ConnectionTypeOK
<1> QED
  BY <1>1 DEF ConnectionInv, SocketFollowsClient

\* A peer is verified under a root if and only if it is the root of its own run.
LEMMA VerifiedPeers ==
  ASSUME NEW n \in 1..Runs, NEW m \in 1..Runs, NEW ip, NEW name,
         NEW made \in Int, NEW made_root \in Int, NEW day \in Int
  PROVE  PeerVerified(Ca(m, made_root), Leaf(n, ip, made), name, day) <=>
           /\ n = m /\ name = ip
           /\ made_root <= day /\ day <= made_root + kCaValidityDays
           /\ made <= day /\ day <= made + kServerValidityDays
<1>1. CaKey(n) = CaKey(m) <=> n = m
  BY DEF CaKey
<1> QED
  BY <1>1 DEF PeerVerified, verifySignedBy, MayIssue, MayServe, InForce, Ca, Leaf

\* A day on a client's clock is a number.
LEMMA DaysAreNumbers ==
  ASSUME ConnectionInv
  PROVE  /\ ClientDays \subseteq Int
         /\ \A n \in 1..Runs : issued_on[n] \in Int
  BY DaysAssumption DEF ClientDays, ConnectionInv, ConnectionTypeOK

\* A handshake that ends encrypted is with a server of the run whose root the client
\* read, at the address it dialled, while that server's certificate is in force.
THEOREM EncryptedPeersAreGenuine == ConnectionSpec => EncryptedIsGenuine
<1>1. ASSUME ConnectionInv, NEW ip \in Addresses, NEW day \in ClientDays,
             Connect(ip, day), link'.end = "encrypted"
      PROVE  /\ cert = key /\ cert = root
             /\ ip = address[cert] /\ isIpv4Literal(ip)
             /\ issued_on[cert] <= day /\ day <= issued_on[cert] + kServerValidityDays
  <2>1. /\ socket.trusts = root /\ root \in 1..Runs
        /\ socket.peer_verify_mode = "VerifyPeer"
    BY <1>1, SocketTrusts DEF Connect
  <2>2. cert \in 1..Runs /\ cert = key
    BY <1>1 DEF ConnectionInv, Connect, IInv, LoadProgress, TypeOK, Unreadable
  <2>3. Accepts(ip, day)
    BY <1>1 DEF Connect
  <2>4. PeerVerified(Ca(root, issued_on[root]),
                     Leaf(cert, address[cert], issued_on[cert]), ip, day)
    BY <2>1, <2>3 DEF Accepts
  <2>5. day \in Int /\ issued_on[root] \in Int /\ issued_on[cert] \in Int
    BY <1>1, <2>1, <2>2, DaysAreNumbers
  <2>6. /\ cert = root /\ ip = address[cert]
        /\ issued_on[cert] <= day /\ day <= issued_on[cert] + kServerValidityDays
    BY <2>1, <2>2, <2>4, <2>5, VerifiedPeers
  <2>7. isIpv4Literal(address[cert])
    BY <1>1, <2>2, RunsAssumption DEF ConnectionInv, AddressesAreGood, Unreadable
  <2> QED
    BY <2>2, <2>6, <2>7
<1>2. ConnectionInv => EncryptedEndsFit
  BY <1>1 DEF EncryptedEndsFit
<1> QED
  BY <1>2, ConnectionInvariantHolds, PTL DEF EncryptedIsGenuine

\* Server and client that started over one finished set connect until the server's
\* certificate expires.
THEOREM UndisturbedEndsMeet == ConnectionSpec => UndisturbedEndsConnect
<1>1. ASSUME ConnectionInv, NEW ip \in Addresses, NEW day \in ClientDays, Connect(ip, day),
             server_saw # 0, client_saw = server_saw, ip = address[server_saw],
             issued_on[server_saw] <= day,
             day <= issued_on[server_saw] + kServerValidityDays
      PROVE  link'.end = "encrypted"
  <2>1. /\ socket.trusts = root /\ root \in 1..Runs /\ client = "trusting"
    BY <1>1, SocketTrusts DEF Connect
  <2>2. cert = server_saw /\ root = server_saw
    BY <1>1, <2>1 DEF ConnectionInv, IInv, UndisturbedEndsAgree, Connect
  <2>3. day \in Int /\ issued_on[root] \in Int
    BY <1>1, <2>1, DaysAreNumbers
  <2>4. day <= issued_on[root] + kCaValidityDays
    BY <1>1, <2>2, <2>3, ValidityAssumption
  <2>5. PeerVerified(Ca(root, issued_on[root]),
                     Leaf(root, address[root], issued_on[root]), ip, day)
    BY <1>1, <2>1, <2>2, <2>3, <2>4, VerifiedPeers
  <2>6. Accepts(ip, day)
    BY <2>1, <2>2, <2>5 DEF Accepts
  <2> QED
    BY <1>1, <2>6 DEF Connect
<1>2. ConnectionInv => FitEndsEncrypt
  BY <1>1 DEF FitEndsEncrypt
<1> QED
  BY <1>2, ConnectionInvariantHolds, PTL DEF UndisturbedEndsConnect
=============================================================================
