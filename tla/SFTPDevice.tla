----------------------------- MODULE SFTPDevice -----------------------------
(***************************************************************************)
(* SFTPLoader::LoadASync and the download of SFTPDevice                    *)
(* (src/src/SFTPLoader.cpp, src/src/SFTPCommon.cpp), for any url.          *)
(*                                                                         *)
(* Each handler makes one non-blocking libssh2 call.  EAGAIN waits for the *)
(* socket and repeats the call (a stuttering step here); a failure of the  *)
(* call or of the wait reports a failure status and answers with no data.  *)
(* The size of the file is asked once; the server may truncate the file at *)
(* any time after that.                                                    *)
(***************************************************************************)
EXTENDS URLStringUtil

CONSTANTS
  MaxUrl,      \* a bound on the symbols of a url
  MaxSecret,   \* a bound on the symbols of the password in a login
  MaxLoaded,   \* bounds both for a url that is loaded
  MaxSize      \* a bound on the size of the remote file, in what one read returns

ASSUME BoundsAreNat == MaxUrl \in Nat /\ MaxSecret \in Nat /\ MaxLoaded \in Nat /\ MaxSize \in Nat

VARIABLES
  url,
  step,           \* the handler that runs next
  remote,         \* the size of the file on the server
  file_size_,     \* the size libssh2_sftp_stat returned
  totalBytesRead,
  session,        \* the libssh2 session
  method,         \* the credentials authentication was tried with
  failures,       \* failure statuses reported
  answers         \* calls of handle_read

vars == <<url, step, remote, file_size_, totalBytesRead, session, method, failures, answers>>
transfer == <<remote, file_size_, totalBytesRead>>

Chain == <<"connect", "handshake", "auth", "init", "open", "stat", "read">>
Steps == Range(Chain) \cup {"idle", "ended", "threw"}
Answers == {"data", "null"}

\* Urls of the form user:password@host/ with all passwords of up to k symbols.
Logins(k) == {<<"x", ":">> \o s \o <<"@", "x", "/">> : s \in BoundedSeq(Words \cup {":", "x"}, k)}

Urls == BoundedSeq(Characters, MaxUrl) \cup Logins(MaxSecret)
Loaded == BoundedSeq(Characters, MaxLoaded) \cup Logins(MaxLoaded)

Init ==
  /\ url \in Urls
  /\ step = "idle"
  /\ remote \in 0..MaxSize /\ (url \notin Loaded => remote = 0)
  /\ file_size_ = 0 /\ totalBytesRead = 0
  /\ session = "none" /\ method = "none"
  /\ failures = 0
  /\ answers = << >>

\* A failure status, and handle_read with a null pointer.
Null ==
  /\ step' = "ended"
  /\ failures' = failures + 1
  /\ answers' = Append(answers, "null")

-----------------------------------------------------------------------------
\* Mutant: a host that does not resolve is answered at once, and connected to.
LoadASyncAnswersUnresolved ==
  /\ step = "idle" /\ url \in Loaded
  /\ session' = "live" /\ step' = "connect"
  /\ \/ failures' = 0 /\ UNCHANGED answers
     \/ failures' = 1 /\ answers' = <<"null">>
  /\ UNCHANGED <<url, transfer, method>>

\* The verdict of parseSFTPUrl is not looked at.  A host that does not resolve is
\* reported as a failure, and connecting to no address is started all the same.
LoadASync ==
  /\ step = "idle" /\ url \in Loaded
  /\ session' = "live" /\ step' = "connect"
  /\ failures' \in {0, 1}
  /\ UNCHANGED <<url, transfer, method, answers>>

\* The call of a handler succeeds and it calls the next handler.
Succeeds(from) ==
  /\ step = from
  /\ step' = Chain[Find(Chain, from) + 1]
  /\ UNCHANGED <<failures, answers>>

\* The call fails, or the wait to repeat it.
Fails(from) == step = from /\ Null

Connected ==
  /\ (failures = 0 /\ Succeeds("connect")) \/ Fails("connect")
  /\ UNCHANGED <<url, transfer, session, method>>

StartSFTPHandshake ==
  /\ Succeeds("handshake") \/ Fails("handshake")
  /\ UNCHANGED <<url, transfer, session, method>>

\* A private key before a public key before a password.
Method(login) ==
  CASE login.privatekey_file # Empty -> "private key"
    [] login.privatekey_file = Empty /\ login.publickey_file # Empty -> "public key"
    [] OTHER -> "password"

StartSFTPAuth ==
  /\ Succeeds("auth") \/ Fails("auth")
  /\ method' = Method(parseSFTPUrl(url).login)
  /\ UNCHANGED <<url, transfer, session>>

StartCreateSFTP ==
  /\ Succeeds("init") \/ Fails("init")
  /\ UNCHANGED <<url, transfer, session, method>>

StartSFTPOpen ==
  /\ Succeeds("open") \/ Fails("open")
  /\ UNCHANGED <<url, transfer, session, method>>

\* The buffer is allocated in the size the server told: the allocation may throw, and
\* the exception leaves the handler and io_context::run with the load unanswered.
StartSFTPGetSize ==
  /\ \/ Succeeds("stat") /\ file_size_' = remote
     \/ /\ step = "stat" /\ remote > 0 /\ step' = "threw" /\ file_size_' = remote
        /\ UNCHANGED <<failures, answers>>
     \/ Fails("stat") /\ UNCHANGED file_size_
  /\ UNCHANGED <<url, remote, totalBytesRead, session, method>>

\* Each call may return EAGAIN, which nobody looks at, and leave the session.
StartSFTPCleanup == session' \in {"freed", session}

\* Mutant: the size is not compared with what was asked for.
GetBlocksEarly ==
  /\ step = "read" /\ totalBytesRead < remote
  /\ \E rc \in 1..(file_size_ - totalBytesRead) :
       /\ rc <= remote - totalBytesRead
       /\ totalBytesRead' = totalBytesRead + rc
       /\ step' = "ended" /\ answers' = Append(answers, "data")
  /\ UNCHANGED <<url, remote, file_size_, session, method, failures>>

\* libssh2_sftp_read returns some bytes; the last ones complete the buffer, and the
\* session is left as it is.
GetBlocks ==
  /\ step = "read" /\ totalBytesRead < remote
  /\ \E rc \in 1..(file_size_ - totalBytesRead) :
       /\ rc <= remote - totalBytesRead
       /\ totalBytesRead' = totalBytesRead + rc
       /\ IF totalBytesRead' >= file_size_
            THEN step' = "ended" /\ answers' = Append(answers, "data")
            ELSE UNCHANGED <<step, answers>>
  /\ UNCHANGED <<url, remote, file_size_, session, method, failures>>

\* Mutant: the end of the file is taken for data not there yet.
GetBlocksFailsWaits ==
  /\ step = "read" /\ totalBytesRead < remote
  /\ StartSFTPCleanup /\ Null
  /\ UNCHANGED <<url, transfer, method>>

\* It returns an error, or 0 at the end of the file or for an empty buffer; or the
\* wait for the next part fails.
GetBlocksFails ==
  /\ step = "read"
  /\ StartSFTPCleanup /\ Null
  /\ UNCHANGED <<url, transfer, method>>

\* The server's file gets shorter (external).
Truncated ==
  /\ step = "read"
  /\ \E k \in 0..(remote - 1) : remote' = k
  /\ UNCHANGED <<url, step, file_size_, totalBytesRead, session, method, failures, answers>>

Download ==
  \/ Connected \/ StartSFTPHandshake \/ StartSFTPAuth \/ StartCreateSFTP
  \/ StartSFTPOpen \/ StartSFTPGetSize \/ GetBlocks \/ GetBlocksFails

Next == LoadASync \/ Download \/ Truncated

\* Fairness: the context runs its handlers and the server answers in the end; there
\* is no deadline for one that does not.
Spec == Init /\ [][Next]_vars /\ WF_vars(Download)

-----------------------------------------------------------------------------
(* Properties. *)

\* Every variable has its type.
TypeOK ==
  /\ url \in Seq(Symbols) /\ step \in Steps
  /\ remote \in 0..MaxSize /\ file_size_ \in 0..MaxSize /\ totalBytesRead \in 0..file_size_
  /\ session \in {"none", "live", "freed"}
  /\ method \in {"none", "private key", "public key", "password"}
  /\ failures \in 0..2 /\ answers \in Seq(Answers)

\* getURLComponents, parseHTTPUrl and parseIPFSUrl accept what their grammars
\* derive and return the one derivation: no url is split in two ways, none is
\* accepted with an empty host, port or cid, and no symbol is lost.
UrlsMatchGrammar ==
  step = "idle" =>
    LET c == getURLComponents(url)
        h == parseHTTPUrl(url)
        i == parseIPFSUrl(url)
    IN  /\ ComponentsGrammar(url) = IF c.ok THEN {[prefix |-> c.prefix, base |-> c.base]} ELSE {}
        /\ ExtensionGrammar(c.base) = {c.extension}
        /\ HTTPGrammar(url) = IF h.ok THEN {[host |-> h.host, port |-> h.port, path |-> h.path]} ELSE {}
        /\ IPFSGrammar(url) = IF i.ok THEN {[cid |-> i.cid, file |-> i.file]} ELSE {}

\* parseSFTPUrl splits a url the one way its grammar does, the user ends at the
\* first colon of the login, and what is left of the login is one credential: a
\* password, a public key or a private key, never two of them.
LoginsMatchGrammar ==
  step = "idle" =>
    LET r == parseSFTPUrl(url)
        l == r.login
    IN  /\ r.ok <=> SFTPGrammar(url) # {}
        /\ \A g \in SFTPGrammar(url) :
             /\ r.host = g.host /\ r.path = g.path
             /\ \A k \in LoginGrammar(g.login) :
                  /\ l.user = k.user
                  /\ Range(k.secret) \cap Words = {} => l.pass = k.secret
        /\ (l.pass # Empty => l.publickey_file = Empty /\ l.privatekey_file = Empty)
        /\ l.publickey_file # Empty => l.privatekey_file = Empty
        /\ l.privatekey_pass # Empty => l.pass = Empty /\ l.publickey_file = Empty

\* The functions of URLStringUtil return what the grammars of urls and logins say,
\* for every url up to the bounds.
ParsersMatchGrammar == UrlsMatchGrammar /\ LoginsMatchGrammar

\* Data is delivered only when all of the size the server told has been read, so
\* never a part of a truncated file, nor an empty file; a load that delivers data
\* has reported no failure, and one that does not has; and a session is freed only
\* when reading has failed, after its last use.
DeliversWholeFile ==
  /\ answers = <<"data">> => totalBytesRead = file_size_ /\ file_size_ > 0 /\ failures = 0
  /\ answers = <<"null">> => failures > 0
  /\ session = "freed" => step = "ended" /\ answers = <<"null">> /\ method # "none"

\* handle_read is called at most once, although a host that does not resolve is
\* reported and the connection still tried (module OneShot).
Contract == INSTANCE OneShot
LoadAnsweredOnce == Contract!Spec

\* Every load that was started is answered, whatever the url and wherever it fails,
\* unless there was no memory for the file.
AnsweredUnlessThrown == step = "connect" ~> (answers # << >> \/ step = "threw")
=============================================================================
