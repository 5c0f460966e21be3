----------------------------- MODULE SFTPLibrary -----------------------------
(***************************************************************************)
(* SFTPSaver composed with what its calls share: libssh2's count of        *)
(* initialisations.  Threads call the blocking SFTPSaver::SaveFile         *)
(* (src/src/SFTPSaver.cpp) while the uploads of a SaveASync (module        *)
(* SFTPSaver) are under way on a context.                                  *)
(*                                                                         *)
(* SaveFile initialises the library and gives that back on the paths it    *)
(* foresees; an upload never initialises it (libssh2_session_init does so  *)
(* if nobody has) but calls libssh2_exit when it cleans up.                *)
(***************************************************************************)
EXTENDS SFTPSaver, FiniteSets

CONSTANT Threads   \* threads that each call SaveFile once

ASSUME ThreadsFinite == IsFiniteSet(Threads)

VARIABLES
  library,       \* libssh2's count of initialisations, up while it is positive
  saving,        \* saving[t]: where the SaveFile of thread t is
  writeSize, totalWritten

blocking == <<saving, writeSize, totalWritten>>
allVars == <<vars, library, blocking>>

SavingSteps == {"idle", "connect", "open", "write", "saved", "threw", "leaked"}

InSession(t) == saving[t] \in {"open", "write"}
Ended(t) == saving[t] \in {"saved", "threw", "leaked"}

LibraryInit ==
  /\ Init
  /\ library = 0
  /\ saving = [t \in Threads |-> "idle"]
  /\ writeSize = [t \in Threads |-> 0] /\ totalWritten = writeSize

-----------------------------------------------------------------------------
(* libssh2. *)

\* libssh2_session_init initialises the library if nobody has.
AfterSessionInit(count) == IF count = 0 THEN 1 ELSE count

\* libssh2_exit does nothing once the count is used up.
AfterExit(count) == IF count = 0 THEN 0 ELSE count - 1

\* A step of SaveASync and its uploads, with what it does to the library: it makes
\* a session, or frees one and exits.
SaverStep ==
  /\ Next
  /\ library' =
       IF \E f \in Files : session[f] = "none" /\ session'[f] = "live"
         THEN AfterSessionInit(library)
       ELSE IF \E f \in Files : session[f] = "live" /\ session'[f] \in Cleaned
         THEN AfterExit(library) ELSE library
  /\ UNCHANGED blocking

-----------------------------------------------------------------------------
(* SFTPSaver::SaveFile, on thread t. *)

Enter(t, s) == saving' = [saving EXCEPT ![t] = s]

\* No data, or libssh2_init fails.
SaveFileRejects(t) ==
  /\ saving[t] = "idle" /\ Enter(t, "threw")
  /\ UNCHANGED <<vars, library, writeSize, totalWritten>>

SaveFile(t) ==
  /\ saving[t] = "idle" /\ Enter(t, "connect")
  /\ library' = library + 1
  /\ \E k \in 0..MaxSize : writeSize' = [writeSize EXCEPT ![t] = k]
  /\ UNCHANGED <<vars, totalWritten>>

\* resolve and connect; their exceptions leave without libssh2_exit.
Connect(t) ==
  /\ saving[t] = "connect"
  /\ \/ Enter(t, "open") /\ library' = AfterSessionInit(library)
     \/ Enter(t, "leaked") /\ UNCHANGED library
  /\ UNCHANGED <<vars, writeSize, totalWritten>>

\* Mutant: a failure frees the session and forgets the library.
SessionFailsLeaks(t) ==
  /\ InSession(t) /\ (saving[t] = "write" => totalWritten[t] < writeSize[t])
  /\ Enter(t, "threw")
  /\ UNCHANGED <<vars, library, writeSize, totalWritten>>

\* Any call on the session fails: the session is freed, the library exited and the call throws.
SessionFails(t) ==
  /\ InSession(t) /\ (saving[t] = "write" => totalWritten[t] < writeSize[t])
  /\ Enter(t, "threw")
  /\ library' = AfterExit(library)
  /\ UNCHANGED <<vars, writeSize, totalWritten>>

\* Handshake, authentication, SFTP subsystem and open have all succeeded.
SessionOpens(t) ==
  /\ saving[t] = "open" /\ Enter(t, "write")
  /\ UNCHANGED <<vars, library, writeSize, totalWritten>>

\* One round of the loop: libssh2_sftp_write takes some of what is left.  (If it
\* takes nothing the loop only goes round.)
WriteSome(t) ==
  /\ saving[t] = "write" /\ totalWritten[t] < writeSize[t]
  /\ \E k \in 1..(writeSize[t] - totalWritten[t]) :
       totalWritten' = [totalWritten EXCEPT ![t] = @ + k]
  /\ UNCHANGED <<vars, library, saving, writeSize>>

\* Everything is written, or there was nothing to write: the session is cleaned up.
WriteEnds(t) ==
  /\ saving[t] = "write" /\ totalWritten[t] >= writeSize[t]
  /\ Enter(t, "saved")
  /\ library' = AfterExit(library)
  /\ UNCHANGED <<vars, writeSize, totalWritten>>

SaveFileStep(t) ==
  Connect(t) \/ SessionFails(t) \/ SessionOpens(t) \/ WriteSome(t) \/ WriteEnds(t)

LibraryNext ==
  \/ SaverStep
  \/ \E t \in Threads : SaveFileRejects(t) \/ SaveFile(t) \/ SaveFileStep(t)

(***************************************************************************)
(* Fairness: that of the uploads, and every thread in SaveFile goes on and *)
(* gets an answer from its server.  A server that keeps taking nothing     *)
(* keeps the thread in its loop for ever; that is not modelled.            *)
(***************************************************************************)
LibrarySpec ==
  /\ LibraryInit /\ [][LibraryNext]_allVars
  /\ WF_allVars(n > 0 /\ SaverStep)
  /\ \A t \in Threads : WF_allVars(SaveFileStep(t))

-----------------------------------------------------------------------------
(* Properties. *)

\* Every variable has its type.
LibraryTypeOK ==
  /\ TypeOK
  /\ library \in Nat
  /\ saving \in [Threads -> SavingSteps]
  /\ writeSize \in [Threads -> 0..MaxSize] /\ totalWritten \in [Threads -> 0..MaxSize]

Live == {f \in Files : session[f] = "live" /\ step[f] # "ended"}

CleanedUp == \E f \in Files : session[f] \in Cleaned

\* The library goes down under a SaveFile only by the cleanup of an upload: threads in
\* SaveFile never take it from each other.  Under an upload, which holds no count of
\* its own, it can go down by the end of a SaveFile too, and by nothing else.
DownOnlyByUploads ==
  library = 0 =>
    /\ (\E t \in Threads : saving[t] = "connect" \/ InSession(t)) => CleanedUp
    /\ Live # {} => CleanedUp \/ \E t \in Threads : Ended(t)

\* As long as there are no uploads the count is exact: SaveFile gives back what it
\* took on every path but one, an exception of resolve or connect.
SaveFileBalanced ==
  n = 0 => library = Cardinality({t \in Threads : saving[t] = "connect" \/ InSession(t)
                                                  \/ saving[t] = "leaked"})

\* What SaveFile and the uploads do to libssh2's count: it is exact without uploads,
\* and with them there are only two ways for the library to go down under a call.
LibraryAccounted == DownOnlyByUploads /\ SaveFileBalanced

\* Every save is answered, whatever fails in whichever upload, and no thread stays in
\* the loops of SaveFile.
SavesComplete ==
  SaveCompletes /\ \A t \in Threads : saving[t] = "connect" ~> Ended(t)
=============================================================================
