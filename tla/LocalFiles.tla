----------------------------- MODULE LocalFiles -----------------------------
(***************************************************************************)
(* Local files: MNNLoader::LoadASync, MNNSaver::SaveASync and FILEDevice   *)
(* (src/src/MNNLoader.cpp, src/src/MNNSaver.cpp, src/src/FILECommon.cpp),  *)
(* with the counter of FileManager that their handlers give back.          *)
(*                                                                         *)
(* A save opens its files one after the other on the caller's thread and   *)
(* starts an asynchronous write for each; the context's thread may finish  *)
(* the first before the last is open.  Three things leave the loop early:  *)
(* an open that fails posts handle_write, an exception leaves for          *)
(* FileManager's catch block, and in both cases the writes already started *)
(* go on.  asio moves a large file in several chunks.                      *)
(***************************************************************************)
EXTENDS Integers, Sequences, FiniteSets

CONSTANTS
  Ops,        \* calls of FileManager::LoadASync and SaveASync with a file url
  MaxFiles,   \* a bound on the files of one save
  MaxChunks   \* a bound on the chunks of one file

ASSUME OpsFinite == IsFiniteSet(Ops)
ASSUME BoundsArePositive == MaxFiles \in Nat \ {0} /\ MaxChunks \in Nat \ {0}

VARIABLES
  phase,            \* where the call is
  n, next,          \* the number of paths, and the one the loop opens next
  left,             \* left[o][f]: chunks of file f still to be transferred
  writing,          \* writing[o]: files whose async_write has not ended
  remainingWrites,  \* writes whose handler has not run
  posted,           \* posted[o]: a handler is posted for a file that did not open
  answers,          \* calls of handle_read or handle_write, or "threw"
  outstandingOperations_,
  stopped           \* the io_context was stopped

vars == <<phase, n, next, left, writing, remainingWrites, posted, answers,
          outstandingOperations_, stopped>>

loopState == <<n, next, left, writing, remainingWrites>>

(***************************************************************************)
(* A load is reading, or could not open its file (unreadable); a save is   *)
(* looping, has returned, or left its loop by a failed open or an          *)
(* exception.                                                              *)
(***************************************************************************)
Phases == {"idle", "reading", "unreadable", "looping", "returned", "openFailed", "threw"}
Files == 1..MaxFiles
Answers == {"data", "READ_ERROR", "FILE_OPEN_FAIL", "written", "threw"}

Init ==
  /\ phase = [o \in Ops |-> "idle"]
  /\ n = [o \in Ops |-> 0] /\ next = [o \in Ops |-> 1]
  /\ left = [o \in Ops |-> [f \in Files |-> 0]]
  /\ writing = [o \in Ops |-> {}]
  /\ remainingWrites = [o \in Ops |-> 0]
  /\ posted = [o \in Ops |-> FALSE]
  /\ answers = [o \in Ops |-> << >>]
  /\ outstandingOperations_ = 0
  /\ stopped = FALSE

Goto(o, p) == phase' = [phase EXCEPT ![o] = p]

\* FileManager counts the call; the application runs the context it passes.
Begin(o) ==
  /\ phase[o] = "idle"
  /\ outstandingOperations_' = outstandingOperations_ + 1
  /\ stopped' = FALSE
  /\ UNCHANGED answers

\* Mutant: the context is stopped although operations are outstanding.
AnswerStops(o, a) ==
  /\ answers' = [answers EXCEPT ![o] = Append(@, a)]
  /\ outstandingOperations_' = outstandingOperations_ - 1
  /\ stopped' = TRUE

\* handle_read, handle_write or FileManager's catch block: the count is given back.
Answer(o, a) ==
  /\ answers' = [answers EXCEPT ![o] = Append(@, a)]
  /\ outstandingOperations_' =
       IF outstandingOperations_ <= 0 THEN outstandingOperations_ ELSE outstandingOperations_ - 1
  /\ stopped' = (stopped \/ outstandingOperations_ <= 1)

same == <<answers, outstandingOperations_, stopped>>

-----------------------------------------------------------------------------
(* MNNLoader. *)

\* The file opens and the read starts, or the failure is posted.
LoadASync(o) ==
  /\ Begin(o)
  /\ \/ /\ Goto(o, "reading")
        /\ \E k \in 1..MaxChunks : left' = [left EXCEPT ![o][1] = k]
        /\ UNCHANGED posted
     \/ /\ Goto(o, "unreadable")
        /\ posted' = [posted EXCEPT ![o] = TRUE]
        /\ UNCHANGED left
  /\ UNCHANGED <<n, next, writing, remainingWrites>>

\* The read's handler at eof, or after an error in any chunk.
ReadHandler(o) ==
  /\ phase[o] = "reading" /\ ~stopped
  /\ \/ left[o][1] = 1 /\ Answer(o, "data")
     \/ Answer(o, "READ_ERROR")
  /\ Goto(o, "returned")
  /\ left' = [left EXCEPT ![o][1] = 0]
  /\ UNCHANGED <<n, next, writing, remainingWrites, posted>>

-----------------------------------------------------------------------------
(* MNNSaver. *)

\* Mutant: the last index instead of the size.
SaveASyncMiscounts(o) ==
  /\ Begin(o)
  /\ Goto(o, "looping")
  /\ \E k \in 0..MaxFiles :
       n' = [n EXCEPT ![o] = k] /\ remainingWrites' = [remainingWrites EXCEPT ![o] = k - 1]
  /\ UNCHANGED <<next, left, writing, posted>>

\* The loop is entered; there may be contents but no path.
SaveASync(o) ==
  /\ Begin(o)
  /\ Goto(o, "looping")
  /\ \E k \in 0..MaxFiles :
       n' = [n EXCEPT ![o] = k] /\ remainingWrites' = [remainingWrites EXCEPT ![o] = k]
  /\ UNCHANGED <<next, left, writing, posted>>

\* A failed load or no contents: the exception reaches FileManager::SaveASync,
\* which has counted the call and takes the count back.
SaveASyncNullData(o) ==
  /\ phase[o] = "idle"
  /\ Goto(o, "threw")
  /\ answers' = [answers EXCEPT ![o] = Append(@, "threw")]
  /\ stopped' = (stopped \/ outstandingOperations_ = 0)
  /\ UNCHANGED <<loopState, posted, outstandingOperations_>>

Looping(o) == phase[o] = "looping" /\ next[o] <= n[o]

\* The next file opens and its write starts.
StartWrite(o) ==
  /\ Looping(o)
  /\ \E k \in 1..MaxChunks : left' = [left EXCEPT ![o][next[o]] = k]
  /\ writing' = [writing EXCEPT ![o] = @ \cup {next[o]}]
  /\ next' = [next EXCEPT ![o] = @ + 1]
  /\ UNCHANGED <<phase, n, remainingWrites, posted, same>>

\* Mutant: the writes not started are taken off the count, and handle_write is posted.
OpenFailsTwice(o) ==
  /\ Looping(o)
  /\ Goto(o, "openFailed")
  /\ posted' = [posted EXCEPT ![o] = TRUE]
  /\ remainingWrites' = [remainingWrites EXCEPT ![o] = @ - (n[o] - next[o] + 1)]
  /\ UNCHANGED <<n, next, left, writing, same>>

\* It does not open: handle_write is posted, and the function returns.
OpenFails(o) ==
  /\ Looping(o)
  /\ Goto(o, "openFailed")
  /\ posted' = [posted EXCEPT ![o] = TRUE]
  /\ UNCHANGED <<loopState, same>>

\* create_directories throws, out to FileManager's catch block.
CreateDirectoriesThrows(o) ==
  /\ Looping(o)
  /\ Goto(o, "threw")
  /\ Answer(o, "threw")
  /\ UNCHANGED <<loopState, posted>>

LoopEnds(o) ==
  /\ phase[o] = "looping" /\ next[o] > n[o]
  /\ Goto(o, "returned")
  /\ UNCHANGED <<loopState, posted, same>>

\* One chunk of a read or a write, not the last.
Chunk(o, f) ==
  /\ ~stopped
  /\ f \in writing[o] \/ (phase[o] = "reading" /\ f = 1)
  /\ left[o][f] > 1
  /\ left' = [left EXCEPT ![o][f] = @ - 1]
  /\ UNCHANGED <<phase, n, next, writing, remainingWrites, posted, same>>

\* Mutant: an error of a write is returned from before the count.
WriteHandlerReturns(o, f) ==
  /\ f \in writing[o] /\ ~stopped
  /\ writing' = [writing EXCEPT ![o] = @ \ {f}]
  /\ UNCHANGED <<phase, n, next, left, remainingWrites, posted, same>>

\* The handler of a write that is complete, or failed in any chunk: its error is not
\* looked at.
WriteHandler(o, f) ==
  /\ f \in writing[o] /\ ~stopped
  /\ writing' = [writing EXCEPT ![o] = @ \ {f}]
  /\ \/ left[o][f] = 1 /\ left' = [left EXCEPT ![o][f] = 0]
     \/ UNCHANGED left
  /\ remainingWrites' = [remainingWrites EXCEPT ![o] = @ - 1]
  /\ IF remainingWrites'[o] <= 0 THEN Answer(o, "written") ELSE UNCHANGED same
  /\ UNCHANGED <<phase, n, next, posted>>

\* The handler posted for a file that did not open.
RunPosted(o) ==
  /\ posted[o] /\ ~stopped
  /\ posted' = [posted EXCEPT ![o] = FALSE]
  /\ Answer(o, IF phase[o] = "unreadable" THEN "FILE_OPEN_FAIL" ELSE "written")
  /\ UNCHANGED <<phase, loopState>>

Loop(o) == StartWrite(o) \/ OpenFails(o) \/ CreateDirectoriesThrows(o) \/ LoopEnds(o)

Handler(o) ==
  \/ ReadHandler(o) \/ RunPosted(o)
  \/ \E f \in Files : Chunk(o, f) \/ WriteHandler(o, f)

Next ==
  \E o \in Ops : LoadASync(o) \/ SaveASync(o) \/ SaveASyncNullData(o) \/ Loop(o) \/ Handler(o)

(***************************************************************************)
(* Fairness: the loop goes on and the thread of the context runs handlers; *)
(* local reads and writes end or fail.                                     *)
(***************************************************************************)
Spec == Init /\ [][Next]_vars /\ \A o \in Ops : WF_vars(Loop(o)) /\ WF_vars(Handler(o))

-----------------------------------------------------------------------------
(* Properties. *)

\* Every variable has its type; in particular the unsigned remainingWrites does not
\* wrap.
TypeOK ==
  /\ phase \in [Ops -> Phases]
  /\ n \in [Ops -> 0..MaxFiles] /\ next \in [Ops -> 1..(MaxFiles + 1)]
  /\ left \in [Ops -> [Files -> 0..MaxChunks]]
  /\ writing \in [Ops -> SUBSET Files]
  /\ remainingWrites \in [Ops -> 0..MaxFiles]
  /\ posted \in [Ops -> BOOLEAN]
  /\ answers \in [Ops -> Seq(Answers)]
  /\ outstandingOperations_ \in Int /\ stopped \in BOOLEAN

\* FileManager's counter is the number of calls without an answer, and no call has two:
\* a save that left its loop early and still has writes running is never answered
\* again by the last of them.
CountsUnanswered ==
  /\ \A o \in Ops : Len(answers[o]) <= 1
  /\ outstandingOperations_ = Cardinality({o \in Ops : phase[o] # "idle" /\ answers[o] = << >>})

\* A save that opened all its files is answered only after the write of each has ended,
\* although their handlers already run while the loop opens others.
AnsweredAfterAllWrites ==
  \A o \in Ops : phase[o] \in {"looping", "returned"} /\ answers[o] = <<"written">> =>
    writing[o] = {} /\ next[o] = n[o] + 1

\* Stopping the context cuts off no read, and no write but those of a save that left its
\* loop early: only there does FileManager consider done what is still being written.
StopCutsOnlyAbandoned ==
  stopped => \A o \in Ops :
    /\ phase[o] # "reading"
    /\ writing[o] # {} => phase[o] \in {"openFailed", "threw"}

\* Every call is answered, unless it is a save without paths: its loop starts nothing
\* that would ever call handle_write.
AnsweredUnlessNoPaths ==
  \A o \in Ops : phase[o] # "idle" ~> (answers[o] # << >> \/ (phase[o] = "returned" /\ n[o] = 0))
=============================================================================
