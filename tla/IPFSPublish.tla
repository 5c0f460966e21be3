----------------------------- MODULE IPFSPublish -----------------------------
(***************************************************************************)
(* IPFSSaver::SaveASync (src/src/IPFSSaver.cpp): content is written to the *)
(* local disk, handed to bitswap's PublishFile or PublishDirectory, and    *)
(* removed again by the callback, which announces and reports the CID.     *)
(*                                                                         *)
(* A save of one file uses a temporary file named after the clock; every   *)
(* save of several files uses the one directory ipfs_temp_publish.  Saves  *)
(* run on the threads that call them (the application's, or those that run *)
(* a context), so their steps on the disk interleave.  Bitswap reads the   *)
(* path some time after the call and calls back some time after that.      *)
(*                                                                         *)
(* The results of write and close are not looked at: a write that the disk *)
(* takes only in part (none of it included) leaves a truncated file, which *)
(* is published like any other.                                            *)
(***************************************************************************)
EXTENDS Integers, Sequences, FiniteSets

CONSTANTS
  Saves,      \* calls of SaveASync
  Files,      \* names of files within a published directory
  Leftover,   \* the writer of files a crashed process left in the directory
  Nobody,     \* what is not on the disk was written by Nobody
  MaxClock    \* a bound on the ticks of the clock

ASSUME WritersDiffer == Leftover \notin Saves /\ Nobody \notin Saves /\ Leftover # Nobody
ASSUME SeveralFiles == IsFiniteSet(Files) /\ Cardinality(Files) > 1
ASSUME MaxClockIsNat == MaxClock \in Nat

VARIABLES
  phase,      \* phase[s]: where save s is
  names,      \* names[s]: the files it publishes as a directory, {} for a single file
  todo,       \* todo[s]: those the loop has yet to write
  skipped,    \* skipped[s]: those it could not open
  short,      \* short[s]: those the disk took only in part
  temp,       \* temp[s]: the tick its temporary file is named after
  directory,  \* directory[f]: who wrote file f of ipfs_temp_publish
  temporary,  \* temporary[t]: who wrote the temporary file of tick t
  clock,
  published,  \* published[s]: the <<file, writer, part>> under the CID bitswap returned
  reported,   \* reported[s]: the CID was put in save_location or announced in the DHT
  answers,    \* answers[s]: calls of handle_write, or "threw"
  disturbed   \* saves whose path another save changed before bitswap had read it

disk == <<directory, temporary>>
outcome == <<published, reported, answers>>
call == <<names, todo, skipped, short, temp>>
vars == <<phase, call, disk, clock, outcome, disturbed>>

Ticks == 0..MaxClock
TheFile == "single"    \* the one file of a save that publishes no directory
Answers == {"written", "threw"}

Phases == {"idle", "prepare", "write", "publish", "read", "failed", "posted", "lost", "ended"}

Init ==
  /\ phase = [s \in Saves |-> "idle"]
  /\ names = [s \in Saves |-> {}] /\ todo = names /\ skipped = names /\ short = names
  /\ temp = [s \in Saves |-> 0]
  /\ directory \in [Files -> {Nobody, Leftover}]
  /\ temporary = [t \in Ticks |-> Nobody]
  /\ clock = 0
  /\ published = [s \in Saves |-> {}]
  /\ reported = [s \in Saves |-> FALSE]
  /\ answers = [s \in Saves |-> << >>]
  /\ disturbed = {}

Goto(s, p) == phase' = [phase EXCEPT ![s] = p]

\* Between its first write and bitswap's read a save depends on its path.
Depends(s) == phase[s] \in {"write", "publish"}
Single(s) == names[s] = {}

\* s changes the shared directory, or the temporary file of a tick.
DisturbsDirectory(s) ==
  disturbed' = disturbed \cup {r \in Saves \ {s} : Depends(r) /\ ~Single(r)}
DisturbsTemporary(s, t) ==
  disturbed' = disturbed \cup {r \in Saves \ {s} : Depends(r) /\ Single(r) /\ temp[r] = t}

RemoveAll(s) ==
  /\ directory' = [f \in Files |-> Nobody]
  /\ DisturbsDirectory(s)
  /\ UNCHANGED temporary

Remove(s) ==
  /\ temporary' = [temporary EXCEPT ![temp[s]] = Nobody]
  /\ DisturbsTemporary(s, temp[s])
  /\ UNCHANGED directory

RemovePath(s) == IF Single(s) THEN Remove(s) ELSE RemoveAll(s)

\* Removing throws: the temporary file stays, the directory is removed in part.
RemovePathThrows(s) ==
  /\ IF Single(s) THEN UNCHANGED <<directory, disturbed>>
     ELSE /\ \E gone \in SUBSET Files :
               directory' = [f \in Files |-> IF f \in gone THEN Nobody ELSE directory[f]]
          /\ DisturbsDirectory(s)
  /\ UNCHANGED temporary

\* An unchecked write of file f: the disk takes all of it, or not.
Write(s, f) == short' = short \/ short' = [short EXCEPT ![s] = @ \cup {f}]

\* steady_clock goes on between two calls, or does not.
Tick ==
  /\ clock < MaxClock /\ clock' = clock + 1
  /\ UNCHANGED <<phase, call, disk, outcome, disturbed>>

-----------------------------------------------------------------------------
(* SaveASync, on the caller's thread. *)

\* No data, no bitswap, or paths and contents that do not match.
SaveASyncRejects(s) ==
  /\ phase[s] = "idle" /\ Goto(s, "posted")
  /\ UNCHANGED <<call, disk, clock, outcome, disturbed>>

\* Mutant: a temporary file that cannot be opened is reported, and published.
SaveSingleGoesOn(s) ==
  /\ phase[s] = "idle"
  /\ temp' = [temp EXCEPT ![s] = clock]
  /\ \/ /\ temporary' = [temporary EXCEPT ![clock] = s]
        /\ Write(s, TheFile)
        /\ DisturbsTemporary(s, clock)
        /\ UNCHANGED answers
     \/ /\ answers' = [answers EXCEPT ![s] = Append(@, "written")]
        /\ UNCHANGED <<temporary, short, disturbed>>
  /\ Goto(s, "publish")
  /\ UNCHANGED <<names, todo, skipped, directory, clock, published, reported>>

\* One file: the temporary file is written, in whole or in part, or cannot be opened.
SaveSingle(s) ==
  /\ phase[s] = "idle"
  /\ temp' = [temp EXCEPT ![s] = clock]
  /\ \/ /\ temporary' = [temporary EXCEPT ![clock] = s]
        /\ Write(s, TheFile)
        /\ DisturbsTemporary(s, clock)
        /\ Goto(s, "publish")
     \/ /\ Goto(s, "posted")
        /\ UNCHANGED <<temporary, short, disturbed>>
  /\ UNCHANGED <<names, todo, skipped, directory, clock, outcome>>

\* Several files: the branch is entered.
SaveDirectory(s) ==
  /\ phase[s] = "idle"
  /\ \E fs \in SUBSET Files :
       /\ Cardinality(fs) > 1
       /\ names' = [names EXCEPT ![s] = fs] /\ todo' = [todo EXCEPT ![s] = fs]
  /\ Goto(s, "prepare")
  /\ UNCHANGED <<skipped, short, disk, temp, clock, outcome, disturbed>>

\* Mutant: a directory that exists is used as it is.
PrepareKeeps(s) ==
  /\ phase[s] = "prepare" /\ Goto(s, "write")
  /\ UNCHANGED <<call, disk, clock, outcome, disturbed>>

\* What is in the directory is removed, and it is created anew.
Prepare(s) ==
  /\ phase[s] = "prepare" /\ RemoveAll(s) /\ Goto(s, "write")
  /\ UNCHANGED <<call, clock, outcome>>

\* One round of the loop.  The directory is created again if it has gone; a file
\* that does not open is logged and left out, one that is not written is not noticed.
WriteFile(s, f) ==
  /\ phase[s] = "write" /\ f \in todo[s]
  /\ todo' = [todo EXCEPT ![s] = @ \ {f}]
  /\ \/ /\ directory' = [directory EXCEPT ![f] = s]
        /\ Write(s, f)
        /\ DisturbsDirectory(s)
        /\ UNCHANGED skipped
     \/ /\ skipped' = [skipped EXCEPT ![s] = @ \cup {f}]
        /\ UNCHANGED <<directory, short, disturbed>>
  /\ UNCHANGED <<phase, names, temporary, temp, clock, outcome>>

PublishDirectory(s) ==
  /\ phase[s] = "write" /\ todo[s] = {} /\ Goto(s, "publish")
  /\ UNCHANGED <<call, disk, clock, outcome, disturbed>>

\* An exception from the disk or from bitswap's Publish call: the path is removed
\* and handle_write posted, or removing throws again and leaves SaveASync.
Catch(s) ==
  /\ phase[s] \in {"prepare", "write", "publish"}
  /\ \/ RemovePath(s) /\ Goto(s, "posted") /\ UNCHANGED answers
     \/ /\ RemovePathThrows(s) /\ Goto(s, "ended")
        /\ answers' = [answers EXCEPT ![s] = Append(@, "threw")]
  /\ UNCHANGED <<call, clock, published, reported>>

-----------------------------------------------------------------------------
(* Bitswap, and the callback given to it. *)

\* Who wrote file f on the path of save s, and how much of it there is.
Writer(s, f) == IF Single(s) THEN temporary[temp[s]] ELSE directory[f]
Part(f, w) == IF w \in Saves /\ f \in short[w] THEN "part" ELSE "whole"

Contents(s) ==
  {<<f, Writer(s, f), Part(f, Writer(s, f))>> : f \in IF Single(s) THEN {TheFile} ELSE Files}

\* Bitswap reads what is on the path (external), or fails.
BitswapReads(s) ==
  /\ phase[s] = "publish"
  /\ \/ /\ Goto(s, "read")
        /\ published' = [published EXCEPT ![s] = {c \in Contents(s) : c[2] # Nobody}]
     \/ Goto(s, "failed") /\ UNCHANGED published
  /\ UNCHANGED <<call, disk, clock, reported, answers, disturbed>>

\* AnnounceCID if there is a DHT, save_location if the CID can be written as a string:
\* the CID gets out one way or the other, or neither way.
ReportCID(s) == \E out \in BOOLEAN : reported' = [reported EXCEPT ![s] = out]

\* Mutant: the path is removed only after a successful publication.
CallbackRemovesOnSuccess(s) ==
  /\ \/ phase[s] = "read" /\ ReportCID(s) /\ RemovePath(s)
     \/ phase[s] = "failed" /\ UNCHANGED <<reported, disk, disturbed>>
  /\ Goto(s, "posted")
  /\ UNCHANGED <<call, clock, published, answers>>

\* Mutant: a failed publication is logged only.
CallbackForgets(s) ==
  /\ \/ phase[s] = "read" /\ ReportCID(s) /\ Goto(s, "posted")
     \/ phase[s] = "failed" /\ Goto(s, "ended") /\ UNCHANGED reported
  /\ RemovePath(s)
  /\ UNCHANGED <<call, clock, published, answers>>

Callback(s) ==
  /\ \/ phase[s] = "read" /\ ReportCID(s)
     \/ phase[s] = "failed" /\ UNCHANGED reported
  /\ RemovePath(s)
  /\ Goto(s, "posted")
  /\ UNCHANGED <<call, clock, published, answers>>

\* remove or remove_all throws on any error of the file system, for one because another
\* save writes to the directory: out of a callback that bitswap runs later nobody
\* catches this.
CallbackThrows(s) ==
  /\ phase[s] \in {"read", "failed"}
  /\ RemovePathThrows(s) /\ Goto(s, "lost")
  /\ UNCHANGED <<call, clock, outcome>>

\* The posted handle_write runs.
HandleWrite(s) ==
  /\ phase[s] = "posted" /\ Goto(s, "ended")
  /\ answers' = [answers EXCEPT ![s] = Append(@, "written")]
  /\ UNCHANGED <<call, disk, clock, published, reported, disturbed>>

\* The steps of a save once SaveASync has been called.
Step(s) ==
  \/ Prepare(s) \/ (\E f \in Files : WriteFile(s, f)) \/ PublishDirectory(s) \/ Catch(s)
  \/ BitswapReads(s) \/ Callback(s) \/ CallbackThrows(s) \/ HandleWrite(s)

Next ==
  \/ Tick
  \/ \E s \in Saves : SaveASyncRejects(s) \/ SaveSingle(s) \/ SaveDirectory(s) \/ Step(s)

(***************************************************************************)
(* Fairness: a save that was called goes on: its thread runs, the context  *)
(* runs the posted handler and bitswap ends what it was asked to publish.  *)
(***************************************************************************)
Spec == Init /\ [][Next]_vars /\ \A s \in Saves : WF_vars(Step(s))

-----------------------------------------------------------------------------
(* Properties. *)

\* Every variable has its type.
TypeOK ==
  /\ phase \in [Saves -> Phases]
  /\ names \in [Saves -> SUBSET Files]
  /\ todo \in [Saves -> SUBSET Files] /\ skipped \in [Saves -> SUBSET Files]
  /\ short \in [Saves -> SUBSET (Files \cup {TheFile})]
  /\ temp \in [Saves -> Ticks] /\ clock \in Ticks
  /\ directory \in [Files -> Saves \cup {Nobody, Leftover}]
  /\ temporary \in [Ticks -> Saves \cup {Nobody}]
  /\ published \in [Saves -> SUBSET ((Files \cup {TheFile}) \X (Saves \cup {Leftover})
                                      \X {"whole", "part"})]
  /\ reported \in [Saves -> BOOLEAN]
  /\ answers \in [Saves -> Seq(Answers)]
  /\ disturbed \subseteq Saves

\* The files a save was given, and what the disk took of them: all but those that did
\* not open, in part where a write failed.
GivenFiles(s) == IF Single(s) THEN {TheFile} ELSE names[s]
Taken(s) == {<<f, s, Part(f, s)>> : f \in GivenFiles(s) \ skipped[s]}

\* The CID that is announced or reported for a save is that of what the disk took of
\* its own content, every file that opened and nothing of another save or of a crashed
\* process, unless another save changed the same path before bitswap had read it.
PublishesWhatItWrote ==
  \A s \in Saves \ disturbed : reported[s] => published[s] = Taken(s)

\* handle_write is called at most once for a save, and not for one that threw.
Contract(s) == INSTANCE OneShot WITH answers <- answers[s]
SaveAnsweredOnce ==
  [][\A s \in Saves : answers'[s] # answers[s] => \E a \in Answers : Contract(s)!Answer(a)]_answers

\* When no save is under way and removing never threw, the disk holds nothing that
\* a save has written, on whatever path the saves ended.
NothingLeftOnDisk ==
  (\A s \in Saves : phase[s] \in {"idle", "posted", "ended"} /\ answers[s] # <<"threw">>)
    => /\ \A f \in Files : directory[f] \notin Saves
       /\ \A t \in Ticks : temporary[t] = Nobody

\* Every save is answered, unless removing its path failed in the callback.
AnsweredUnlessLost ==
  \A s \in Saves : phase[s] \in {"prepare", "publish"} ~> answers[s] # << >> \/ phase[s] = "lost"
=============================================================================
