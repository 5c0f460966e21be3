------------------------------ MODULE SFTPSaver ------------------------------
(***************************************************************************)
(* SFTPSaver::SaveASync and the upload devices it starts, one per file     *)
(* (src/src/SFTPSaver.cpp).  The caller's thread starts the uploads in a   *)
(* loop while the io_context already runs the handlers of the first ones;  *)
(* the callback of each upload decrements remainingWrites, and the one     *)
(* that finds it used up calls FileManager's handle_write.                 *)
(*                                                                         *)
(* Every libssh2 call is non-blocking and may ask to be repeated (EAGAIN), *)
(* so handlers of different uploads interleave between any two of them.    *)
(* The calls of StartSFTPCleanup are not repeated: one that asks for it    *)
(* leaves the session as it is.                                            *)
(* The caller passes a save_location (without one nothing is reported).    *)
(***************************************************************************)
EXTENDS Integers, Sequences

CONSTANTS
  MaxFiles,   \* a bound on the files of one save
  MaxSize     \* a bound on their size, in units of what one write may take

ASSUME MaxFilesIsPositive == MaxFiles \in Nat \ {0}
ASSUME MaxSizeIsNat == MaxSize \in Nat

VARIABLES
  n,                \* the number of files, 0 before the call
  next,             \* the file whose upload the loop starts next
  size,             \* size[f]: how much there is to write
  step,             \* step[f]: where the upload of file f is
  session,          \* session[f]: the libssh2 session of its upload
  opened,           \* the files that were opened on the server
  written,          \* written[f]: how much of it the server has taken
  remainingWrites,  \* uploads whose callback has not run
  saveLocation,     \* the file the caller's save_location names, 0 for none
  answers           \* calls of handle_write

vars ==
  <<n, next, size, step, session, opened, written, remainingWrites, saveLocation, answers>>

Files == 1..MaxFiles
Steps == {"idle", "connect", "handshake", "auth", "init", "open", "write", "posted", "ended"}

\* "written": by the last callback; "rejected": there was nothing to save.
Answers == {"written", "rejected"}

\* The session after StartSFTPCleanup, which libssh2 may have left to nobody.
Cleaned == {"freed", "unfreed"}

call == <<n, next, size>>
location == <<opened, saveLocation>>

Init ==
  /\ n = 0 /\ next = 1
  /\ size = [f \in Files |-> 0]
  /\ step = [f \in Files |-> "idle"]
  /\ session = [f \in Files |-> "none"] /\ opened = {}
  /\ written = [f \in Files |-> 0]
  /\ remainingWrites = 0
  /\ saveLocation = 0
  /\ answers = << >>

-----------------------------------------------------------------------------
(* SaveASync, on the caller's thread. *)

\* No data, or paths and contents that do not match: handle_write is posted and run.
SaveASyncRejects ==
  /\ n = 0 /\ answers = << >>
  /\ answers' = <<"rejected">>
  /\ UNCHANGED <<call, step, session, written, remainingWrites, location>>

\* Mutant: the last index instead of the size.
SaveASyncMiscounts ==
  /\ n = 0 /\ answers = << >>
  /\ n' \in Files
  /\ size' \in [Files -> 0..MaxSize] /\ \A f \in Files : f > n' => size'[f] = 0
  /\ remainingWrites' = n' - 1
  /\ UNCHANGED <<next, step, session, written, location, answers>>

SaveASync ==
  /\ n = 0 /\ answers = << >>
  /\ n' \in Files
  /\ size' \in [Files -> 0..MaxSize] /\ \A f \in Files : f > n' => size'[f] = 0
  /\ remainingWrites' = n'
  /\ UNCHANGED <<next, step, session, written, location, answers>>

\* One round of the loop: a session, and an address to connect to or the callback.
StartSFTPUpload(f) ==
  /\ f = next /\ f <= n
  /\ next' = next + 1
  /\ session' = [session EXCEPT ![f] = "live"]
  /\ \E s \in {"connect", "posted"} : step' = [step EXCEPT ![f] = s]
  /\ UNCHANGED <<n, size, written, remainingWrites, location, answers>>

-----------------------------------------------------------------------------
(* The upload of one file. *)

\* DoWriteCallback: the callback is posted.
DoWriteCallback(f) == step' = [step EXCEPT ![f] = "posted"]

\* Close, shutdown, disconnect, free; an EAGAIN of any of them is not looked at.
StartSFTPCleanup(f) == \E s \in Cleaned : session' = [session EXCEPT ![f] = s]

\* The call of this step succeeds and the next step is begun.
Advance(f, from, to) ==
  /\ step[f] = from
  /\ step' = [step EXCEPT ![f] = to]
  /\ UNCHANGED <<call, session, written, remainingWrites>>

\* The call of this step fails, or waiting for the socket to repeat it does.
Fails(f, from) ==
  /\ step[f] = from
  /\ DoWriteCallback(f)
  /\ UNCHANGED <<call, session, written, remainingWrites, location, answers>>

Connected(f) ==
  \/ Advance(f, "connect", "handshake") /\ UNCHANGED <<location, answers>>
  \/ Fails(f, "connect")

StartSFTPHandshake(f) ==
  \/ Advance(f, "handshake", "auth") /\ UNCHANGED <<location, answers>>
  \/ Fails(f, "handshake")

StartSFTPAuth(f) ==
  \/ Advance(f, "auth", "init") /\ UNCHANGED <<location, answers>>
  \/ Fails(f, "auth")

\* Mutant: the error of libssh2_sftp_init is logged only.
StartCreateSFTPSilently(f) ==
  \/ Advance(f, "init", "open") /\ UNCHANGED <<location, answers>>
  \/ Advance(f, "init", "ended") /\ UNCHANGED <<location, answers>>

StartCreateSFTP(f) ==
  \/ Advance(f, "init", "open") /\ UNCHANGED <<location, answers>>
  \/ Fails(f, "init")

\* The file is created or truncated, and reported as the save location.
StartSFTPOpen(f) ==
  \/ Advance(f, "open", "write") /\ saveLocation' = f /\ opened' = opened \cup {f}
       /\ UNCHANGED answers
  \/ Fails(f, "open")

\* libssh2_sftp_write takes a part, and there is more.
WriteBlock(f) ==
  /\ step[f] = "write"
  /\ \E k \in 1..(size[f] - written[f] - 1) : written' = [written EXCEPT ![f] = @ + k]
  /\ UNCHANGED <<call, step, session, remainingWrites, location, answers>>

\* It takes the rest, or there was nothing to write.
WriteDone(f) ==
  /\ step[f] = "write"
  /\ written' = [written EXCEPT ![f] = size[f]]
  /\ StartSFTPCleanup(f)
  /\ DoWriteCallback(f)
  /\ UNCHANGED <<call, remainingWrites, location, answers>>

\* Mutant: a failed write leaves the session to nobody.
WriteFailsUncleaned(f) ==
  /\ step[f] = "write" /\ size[f] > 0
  /\ DoWriteCallback(f)
  /\ UNCHANGED <<call, session, written, remainingWrites, location, answers>>

\* It fails or takes nothing, or waiting for the socket fails.
WriteFails(f) ==
  /\ step[f] = "write" /\ size[f] > 0
  /\ StartSFTPCleanup(f)
  /\ DoWriteCallback(f)
  /\ UNCHANGED <<call, written, remainingWrites, location, answers>>

\* Mutant: the unsigned comparison is written the other way round.
WriteCallbackEach(f) ==
  /\ step[f] = "posted"
  /\ step' = [step EXCEPT ![f] = "ended"]
  /\ remainingWrites' = remainingWrites - 1
  /\ answers' = Append(answers, "written")
  /\ UNCHANGED <<call, session, written, location>>

\* The callback SaveASync gave the device.
WriteCallback(f) ==
  /\ step[f] = "posted"
  /\ step' = [step EXCEPT ![f] = "ended"]
  /\ remainingWrites' = remainingWrites - 1
  /\ answers' = IF remainingWrites' <= 0 THEN Append(answers, "written") ELSE answers
  /\ UNCHANGED <<call, session, written, location>>

Upload(f) ==
  \/ Connected(f) \/ StartSFTPHandshake(f) \/ StartSFTPAuth(f) \/ StartCreateSFTP(f)
  \/ StartSFTPOpen(f) \/ WriteBlock(f) \/ WriteDone(f) \/ WriteFails(f) \/ WriteCallback(f)

Next ==
  \/ SaveASyncRejects \/ SaveASync
  \/ \E f \in Files : StartSFTPUpload(f) \/ Upload(f)

(***************************************************************************)
(* Fairness: the loop goes on, the io_context runs its handlers and the    *)
(* server answers every request.  Uploads have no deadline: a server that  *)
(* stays silent, or keeps libssh2 at EAGAIN, keeps the save waiting.       *)
(***************************************************************************)
Spec ==
  /\ Init /\ [][Next]_vars
  /\ \A f \in Files : WF_vars(StartSFTPUpload(f)) /\ WF_vars(Upload(f))

-----------------------------------------------------------------------------
(* Properties. *)

\* Every variable has its type; in particular the unsigned remainingWrites does not
\* wrap, and no block reaches past the end of the file.
TypeOK ==
  /\ n \in 0..MaxFiles /\ next \in 1..(MaxFiles + 1)
  /\ size \in [Files -> 0..MaxSize]
  /\ step \in [Files -> Steps]
  /\ session \in [Files -> {"none", "live"} \cup Cleaned] /\ opened \subseteq Files
  /\ written \in [Files -> Nat] /\ \A f \in Files : written[f] <= size[f]
  /\ remainingWrites \in 0..MaxFiles
  /\ saveLocation \in 0..MaxFiles
  /\ answers \in Seq(Answers)

\* handle_write is called at most once for a save of any number of files, however
\* their uploads end and interleave with the loop that starts them (module OneShot).
Contract == INSTANCE OneShot
SaveAnsweredOnce == Contract!Spec

\* handle_write is called only after every upload of the save has ended: FileManager
\* may stop the context then, and no handler is left that would need it.
AnsweredAfterAllUploads ==
  answers = <<"written">> => next = n + 1 /\ \A f \in 1..n : step[f] = "ended"

\* An upload that opened its file ends only after StartSFTPCleanup, whatever stopped
\* it, and no upload goes on with a session that was cleaned up.  Whether
\* the session is then gone is not promised: an EAGAIN in the cleanup leaves it.
CleanedUpOnceOpen ==
  \A f \in Files :
    /\ session[f] \in Cleaned => step[f] \in {"posted", "ended"}
    /\ step[f] \in {"posted", "ended"} /\ f \in opened => session[f] \in Cleaned

\* Every save is answered: no failure of any upload at any step is forgotten.
SaveCompletes == n > 0 ~> answers # << >>
=============================================================================
