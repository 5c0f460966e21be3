-------------------------- MODULE IPFSPublishProofs --------------------------
(***************************************************************************)
(* Proofs about IPFSPublish, for any number of saves, files and ticks: a   *)
(* save that no other save disturbed publishes what the disk took of its   *)
(* own content and nothing else, whatever a crashed process left behind    *)
(* and whichever writes fail unnoticed; the disk is clean when no save     *)
(* is under way and no removal threw; every save is answered once.         *)
(***************************************************************************)
EXTENDS IPFSPublish, FiniteSetTheorems, TLAPS

\* What the phase of a save says about its own state.
PhaseInv ==
  \A s \in Saves :
    /\ todo[s] \subseteq names[s] /\ skipped[s] \subseteq names[s] \ todo[s]
    /\ phase[s] = "idle" => names[s] = {} /\ skipped[s] = {}
    /\ phase[s] = "prepare" => names[s] # {} /\ todo[s] = names[s]
    /\ phase[s] = "write" => names[s] # {}
    /\ phase[s] = "publish" => todo[s] = {}
    /\ reported[s] => phase[s] \in {"posted", "ended"}

\* The files of a save that its loop has written.
Done(s) == names[s] \ (todo[s] \cup skipped[s])

\* While bitswap has not read it, the path of a save holds what the save has written
\* to it and nothing else; then the same is true of what bitswap has read.
Intact(s) ==
  /\ Depends(s) /\ ~Single(s) =>
       \A f \in Files : directory[f] = IF f \in Done(s) THEN s ELSE Nobody
  /\ Depends(s) /\ Single(s) => temporary[temp[s]] = s
  /\ phase[s] = "read" \/ reported[s] => published[s] = Taken(s)

\* The inductive invariant.
PublishInv == TypeOK /\ PhaseInv /\ \A s \in Saves \ disturbed : Intact(s)

-----------------------------------------------------------------------------
(* Every step keeps types and phases. *)

LEMMA RemovePathType ==
  ASSUME TypeOK, NEW s \in Saves, RemovePath(s) \/ RemovePathThrows(s)
  PROVE  /\ directory' \in [Files -> Saves \cup {Nobody, Leftover}]
         /\ temporary' \in [Ticks -> Saves \cup {Nobody}]
         /\ disturbed' \subseteq Saves
BY DEF TypeOK, RemovePath, RemovePathThrows, RemoveAll, Remove, DisturbsDirectory,
       DisturbsTemporary

LEMMA WriteType ==
  ASSUME TypeOK, NEW s \in Saves, NEW f \in Files \cup {TheFile}, Write(s, f)
  PROVE  short' \in [Saves -> SUBSET (Files \cup {TheFile})]
<1>1. short[s] \cup {f} \in SUBSET (Files \cup {TheFile})
  BY DEF TypeOK
<1> QED BY <1>1 DEF Write, TypeOK

LEMMA TypeStep ==
  ASSUME TypeOK, [Next]_vars
  PROVE  TypeOK'
<1>1. ASSUME NEW s \in Saves, SaveASyncRejects(s) \/ PublishDirectory(s)
      PROVE  TypeOK'
  BY <1>1 DEF SaveASyncRejects, PublishDirectory, TypeOK, Goto, Phases, disk, call, outcome
<1>2. ASSUME NEW s \in Saves, SaveSingle(s)
      PROVE  TypeOK'
  <2>1. temp' \in [Saves -> Ticks] /\ phase' \in [Saves -> Phases]
    BY <1>2 DEF SaveSingle, TypeOK, Goto, Phases
  <2>2. temporary' \in [Ticks -> Saves \cup {Nobody}] /\ disturbed' \subseteq Saves
    <3>1. CASE UNCHANGED <<temporary, disturbed>>
      BY <3>1 DEF TypeOK
    <3>2. CASE temporary' = [temporary EXCEPT ![clock] = s] /\ DisturbsTemporary(s, clock)
      BY <3>2 DEF TypeOK, DisturbsTemporary
    <3> QED BY <1>2, <3>1, <3>2 DEF SaveSingle
  <2>3. short' \in [Saves -> SUBSET (Files \cup {TheFile})]
    BY <1>2, WriteType DEF SaveSingle, TypeOK
  <2> QED BY <1>2, <2>1, <2>2, <2>3 DEF SaveSingle, TypeOK, outcome
<1>3. ASSUME NEW s \in Saves, SaveDirectory(s)
      PROVE  TypeOK'
  BY <1>3 DEF SaveDirectory, TypeOK, Goto, Phases, disk, call, outcome
<1>4. ASSUME NEW s \in Saves, Prepare(s)
      PROVE  TypeOK'
  BY <1>4 DEF Prepare, TypeOK, Goto, Phases, call, outcome, RemoveAll, DisturbsDirectory
<1>5. ASSUME NEW s \in Saves, NEW f \in Files, WriteFile(s, f)
      PROVE  TypeOK'
  <2>1. /\ directory' \in [Files -> Saves \cup {Nobody, Leftover}]
        /\ disturbed' \subseteq Saves
    <3>1. CASE UNCHANGED <<directory, disturbed>>
      BY <3>1 DEF TypeOK
    <3>2. CASE directory' = [directory EXCEPT ![f] = s] /\ DisturbsDirectory(s)
      BY <3>2 DEF TypeOK, DisturbsDirectory
    <3> QED BY <1>5, <3>1, <3>2 DEF WriteFile
  <2>2. todo' \in [Saves -> SUBSET Files]
    <3>1. todo[s] \ {f} \in SUBSET Files
      BY DEF TypeOK
    <3> QED BY <1>5, <3>1 DEF WriteFile, TypeOK
  <2>3. skipped' \in [Saves -> SUBSET Files]
    <3>1. skipped[s] \cup {f} \in SUBSET Files
      BY DEF TypeOK
    <3>2. CASE skipped' = [skipped EXCEPT ![s] = @ \cup {f}]
      BY <3>1, <3>2 DEF TypeOK
    <3>3. CASE UNCHANGED skipped
      BY <3>3 DEF TypeOK
    <3> QED BY <1>5, <3>2, <3>3 DEF WriteFile
  <2>4. short' \in [Saves -> SUBSET (Files \cup {TheFile})]
    BY <1>5, WriteType DEF WriteFile, TypeOK
  <2> QED BY <1>5, <2>1, <2>2, <2>3, <2>4 DEF WriteFile, TypeOK, outcome
<1>6. ASSUME NEW s \in Saves, Catch(s)
      PROVE  TypeOK'
  <2>1. Append(answers[s], "threw") \in Seq(Answers)
    BY DEF TypeOK, Answers
  <2>2. /\ directory' \in [Files -> Saves \cup {Nobody, Leftover}]
        /\ temporary' \in [Ticks -> Saves \cup {Nobody}]
        /\ disturbed' \subseteq Saves
    BY <1>6, RemovePathType DEF Catch, call
  <2>3. phase' \in [Saves -> Phases]
    BY <1>6 DEF Catch, Goto, TypeOK, Phases, call
  <2>4. answers' \in [Saves -> Seq(Answers)]
    BY <1>6, <2>1 DEF Catch, TypeOK, call
  <2> QED BY <1>6, <2>2, <2>3, <2>4 DEF Catch, TypeOK, call
<1>7. ASSUME NEW s \in Saves, BitswapReads(s)
      PROVE  TypeOK'
  <2> DEFINE Items == (Files \cup {TheFile}) \X (Saves \cup {Leftover}) \X {"whole", "part"}
  <2>1. {c \in Contents(s) : c[2] # Nobody} \subseteq Items
    <3>1. ASSUME NEW c \in Contents(s), c[2] # Nobody PROVE c \in Items
      <4>1. PICK f \in IF Single(s) THEN {TheFile} ELSE Files :
              c = <<f, Writer(s, f), Part(f, Writer(s, f))>>
        BY DEF Contents
      <4>2. Writer(s, f) \in Saves \cup {Leftover}
        BY <3>1, <4>1 DEF Writer, TypeOK
      <4>3. Part(f, Writer(s, f)) \in {"whole", "part"}
        BY DEF Part
      <4> QED BY <4>1, <4>2, <4>3
    <3> QED BY <3>1
  <2>2. published' \in [Saves -> SUBSET Items]
    <3> HIDE DEF Items
    <3>0. published \in [Saves -> SUBSET Items]
      BY DEF TypeOK, Items
    <3>1. CASE published' = [published EXCEPT ![s] = {c \in Contents(s) : c[2] # Nobody}]
      BY <2>1, <3>0, <3>1
    <3>2. CASE UNCHANGED published
      BY <3>0, <3>2
    <3> QED BY <1>7, <3>1, <3>2 DEF BitswapReads, call
  <2>3. phase' \in [Saves -> Phases]
    BY <1>7 DEF BitswapReads, TypeOK, Goto, Phases, call
  <2> QED BY <1>7, <2>2, <2>3 DEF BitswapReads, TypeOK, disk, call
<1>8. ASSUME NEW s \in Saves, Callback(s)
      PROVE  TypeOK'
  BY <1>8, RemovePathType DEF Callback, ReportCID, TypeOK, Goto, Phases, call
<1>9. ASSUME NEW s \in Saves, CallbackThrows(s)
      PROVE  TypeOK'
  BY <1>9, RemovePathType DEF CallbackThrows, TypeOK, Goto, Phases, call, outcome
<1>10. ASSUME NEW s \in Saves, HandleWrite(s)
       PROVE  TypeOK'
  BY <1>10 DEF HandleWrite, TypeOK, Goto, Phases, Answers, disk, call
<1>11. CASE Tick
  BY <1>11, MaxClockIsNat DEF Tick, TypeOK, Ticks, disk, call, outcome
<1>12. CASE UNCHANGED vars
  BY <1>12 DEF TypeOK, vars, disk, call, outcome
<1> QED BY <1>1, <1>2, <1>3, <1>4, <1>5, <1>6, <1>7, <1>8, <1>9, <1>10, <1>11, <1>12 DEF Next, Step

LEMMA PhaseStep ==
  ASSUME TypeOK, PhaseInv, [Next]_vars
  PROVE  PhaseInv'
<1>1. ASSUME NEW s \in Saves,
             SaveASyncRejects(s) \/ PublishDirectory(s) \/ SaveSingle(s) \/ Prepare(s)
               \/ Catch(s) \/ BitswapReads(s) \/ CallbackThrows(s) \/ HandleWrite(s)
      PROVE  PhaseInv'
  <2>1. UNCHANGED <<names, todo, skipped, reported>>
    BY <1>1 DEF SaveASyncRejects, PublishDirectory, SaveSingle, Prepare, Catch, BitswapReads,
                CallbackThrows, HandleWrite, call, outcome
  <2>2. \A r \in Saves \ {s} : phase'[r] = phase[r]
    BY <1>1 DEF SaveASyncRejects, PublishDirectory, SaveSingle, Prepare, Catch, BitswapReads,
                CallbackThrows, HandleWrite, TypeOK, Goto, call
  <2>3. /\ phase'[s] = "prepare" => phase[s] = "prepare"
        /\ phase'[s] = "write" => phase[s] \in {"prepare", "write"}
        /\ phase'[s] = "publish" => phase[s] = "idle" \/ todo[s] = {}
        /\ phase'[s] # "idle"
        /\ phase[s] \in {"posted", "ended"} => phase'[s] \in {"posted", "ended"}
    BY <1>1 DEF SaveASyncRejects, PublishDirectory, SaveSingle, Prepare, Catch, BitswapReads,
                CallbackThrows, HandleWrite, TypeOK, Goto, call
  <2> QED BY <2>1, <2>2, <2>3 DEF PhaseInv
<1>2. ASSUME NEW s \in Saves, SaveDirectory(s)
      PROVE  PhaseInv'
  <2>1. PICK fs \in SUBSET Files :
          /\ Cardinality(fs) > 1
          /\ names' = [names EXCEPT ![s] = fs] /\ todo' = [todo EXCEPT ![s] = fs]
    BY <1>2 DEF SaveDirectory
  <2>2. fs # {}
    BY <2>1, FS_EmptySet
  <2> QED BY <1>2, <2>1, <2>2 DEF SaveDirectory, PhaseInv, TypeOK, Goto, call, outcome
<1>3. ASSUME NEW s \in Saves, NEW f \in Files, WriteFile(s, f)
      PROVE  PhaseInv'
  BY <1>3 DEF WriteFile, PhaseInv, TypeOK, call, outcome
<1>4. ASSUME NEW s \in Saves, Callback(s)
      PROVE  PhaseInv'
  BY <1>4 DEF Callback, ReportCID, PhaseInv, TypeOK, Goto, call
<1>5. CASE Tick \/ UNCHANGED vars
  BY <1>5 DEF Tick, PhaseInv, vars, disk, call, outcome
<1> QED BY <1>1, <1>2, <1>3, <1>4, <1>5 DEF Next, Step

-----------------------------------------------------------------------------
(* What one save does to the path of another one disturbs it. *)

\* The state of save s that only its own steps change.
Own(s) == <<phase[s], names[s], todo[s], skipped[s], temp[s], published[s], reported[s],
            short[s]>>

\* Save r changes the directory only if it disturbs those who depend on it, and a
\* temporary file only if it disturbs those who depend on that one.
Discloses(r) ==
  /\ disturbed \subseteq disturbed'
  /\ \A s \in Saves \ {r} :
       s \notin disturbed' /\ Depends(s) =>
         /\ ~Single(s) => directory' = directory
         /\ Single(s) => temporary'[temp[s]] = temporary[temp[s]]

LEMMA RemovePathDiscloses ==
  ASSUME TypeOK, NEW r \in Saves, RemovePath(r) \/ RemovePathThrows(r) \/ RemoveAll(r)
  PROVE  Discloses(r)
BY DEF RemovePath, RemovePathThrows, RemoveAll, Remove, DisturbsDirectory,
       DisturbsTemporary, Discloses, TypeOK, Single

LEMMA OthersIntact ==
  ASSUME NEW r \in Saves, NEW s \in Saves \ {r},
         Discloses(r), Own(s)' = Own(s), s \notin disturbed => Intact(s)
  PROVE  s \notin disturbed' => Intact(s)'
BY DEF Discloses, Own, Intact, Done, Depends, Single, Taken, GivenFiles, Part

LEMMA StepDiscloses ==
  ASSUME TypeOK, NEW r \in Saves,
         \/ SaveASyncRejects(r) \/ SaveSingle(r) \/ SaveDirectory(r) \/ Step(r)
  PROVE  Discloses(r) /\ \A s \in Saves \ {r} : Own(s)' = Own(s)
<1>1. CASE SaveASyncRejects(r) \/ SaveDirectory(r) \/ PublishDirectory(r)
             \/ BitswapReads(r) \/ HandleWrite(r)
  BY <1>1 DEF SaveASyncRejects, SaveDirectory, PublishDirectory, BitswapReads, HandleWrite,
              Discloses, Own, TypeOK, Goto, disk, call, outcome
<1>2. CASE SaveSingle(r)
  BY <1>2 DEF SaveSingle, Write, DisturbsTemporary, Discloses, Own, TypeOK, Goto, outcome
<1>3. CASE Prepare(r)
  BY <1>3, RemovePathDiscloses DEF Prepare, Own, TypeOK, Goto, call, outcome
<1>4. ASSUME NEW f \in Files, WriteFile(r, f)
      PROVE  Discloses(r) /\ \A s \in Saves \ {r} : Own(s)' = Own(s)
  BY <1>4 DEF WriteFile, Write, DisturbsDirectory, Discloses, Own, TypeOK, outcome
<1>5. CASE Catch(r)
  BY <1>5, RemovePathDiscloses DEF Catch, Own, TypeOK, Goto, call
<1>6. CASE Callback(r)
  BY <1>6, RemovePathDiscloses DEF Callback, ReportCID, Own, TypeOK, Goto, call
<1>7. CASE CallbackThrows(r)
  BY <1>7, RemovePathDiscloses DEF CallbackThrows, Own, TypeOK, Goto, call, outcome
<1> QED BY <1>1, <1>2, <1>3, <1>4, <1>5, <1>6, <1>7 DEF Step

-----------------------------------------------------------------------------
(* A save keeps its own path intact. *)

LEMMA ReadsTaken ==
  ASSUME TypeOK, PhaseInv, NEW s \in Saves, Intact(s), phase[s] = "publish"
  PROVE  {c \in Contents(s) : c[2] # Nobody} = Taken(s)
<1>1. s # Nobody
  BY WritersDiffer
<1>2. CASE Single(s)
  <2>1. temporary[temp[s]] = s /\ skipped[s] = {}
    BY <1>2 DEF Intact, Depends, PhaseInv, Single
  <2>2. Contents(s) = {<<TheFile, s, Part(TheFile, s)>>}
    BY <1>2, <2>1 DEF Contents, Writer
  <2>3. Taken(s) = {<<TheFile, s, Part(TheFile, s)>>}
    BY <1>2, <2>1 DEF Taken, GivenFiles
  <2> QED BY <1>1, <2>2, <2>3
<1>3. CASE ~Single(s)
  <2>1. \A f \in Files : directory[f] = IF f \in names[s] \ skipped[s] THEN s ELSE Nobody
    BY <1>3 DEF Intact, Depends, Done, PhaseInv
  <2>2. names[s] \ skipped[s] \subseteq Files
    BY DEF TypeOK
  <2>3. Contents(s) = {<<f, directory[f], Part(f, directory[f])>> : f \in Files}
    BY <1>3 DEF Contents, Writer
  <2>4. Taken(s) = {<<f, s, Part(f, s)>> : f \in names[s] \ skipped[s]}
    BY <1>3 DEF Taken, GivenFiles
  <2> HIDE DEF Contents, Taken, Part
  <2>5. ASSUME NEW c \in Contents(s), c[2] # Nobody
        PROVE  c \in Taken(s)
    BY <2>1, <2>3, <2>4, <2>5
  <2>6. ASSUME NEW c \in Taken(s)
        PROVE  c \in Contents(s) /\ c[2] # Nobody
    BY <1>1, <2>1, <2>2, <2>3, <2>4
  <2> QED BY <2>5, <2>6
<1> QED BY <1>2, <1>3

LEMMA OwnIntact ==
  ASSUME PublishInv, NEW s \in Saves, s \notin disturbed', disturbed \subseteq disturbed',
         \/ SaveASyncRejects(s) \/ SaveSingle(s) \/ SaveDirectory(s) \/ Step(s)
  PROVE  Intact(s)'
<1> USE DEF PublishInv
<1>1. CASE SaveASyncRejects(s) \/ SaveDirectory(s)
  <2>1. phase'[s] \in {"posted", "prepare"}
    BY <1>1 DEF SaveASyncRejects, SaveDirectory, TypeOK, Goto, call
  <2>2. ~reported'[s]
    BY <1>1 DEF SaveASyncRejects, SaveDirectory, PhaseInv, call, outcome
  <2> QED BY <2>1, <2>2 DEF Intact, Depends
<1>9. CASE HandleWrite(s)
  <2>1. s \notin disturbed /\ Intact(s)
    BY <1>9 DEF HandleWrite, call
  <2>2. Taken(s)' = Taken(s)
    BY <1>9 DEF HandleWrite, Taken, GivenFiles, Part, Single, call
  <2> QED BY <1>9, <2>1, <2>2 DEF HandleWrite, Intact, Depends, TypeOK, Goto, call
<1>2. CASE SaveSingle(s)
  BY <1>2 DEF SaveSingle, Intact, Depends, Taken, GivenFiles, Part, Single, PhaseInv, TypeOK, Goto, call, outcome
<1>3. CASE Prepare(s)
  BY <1>3 DEF Prepare, RemoveAll, Intact, Depends, Taken, GivenFiles, Part, Single, Done, PhaseInv, TypeOK,
              Goto, call, outcome
<1>4. ASSUME NEW f \in Files, WriteFile(s, f)
      PROVE  Intact(s)'
  <2>1. Depends(s) /\ ~Single(s) /\ s \notin disturbed /\ Intact(s)
    BY <1>4 DEF WriteFile, Depends, Single, PhaseInv
  <2>2. \A g \in Files : directory'[g] = IF g \in Done(s)' THEN s ELSE Nobody
    BY <1>4, <2>1 DEF WriteFile, Intact, Done, PhaseInv, TypeOK
  <2>3. ~Single(s)' /\ ~(phase[s] = "read" \/ reported[s])'
    BY <1>4, <2>1 DEF WriteFile, Single, PhaseInv, call, outcome
  <2> QED BY <2>2, <2>3 DEF Intact
<1>5. CASE PublishDirectory(s)
  BY <1>5 DEF PublishDirectory, Intact, Depends, Taken, GivenFiles, Part, Single, Done, PhaseInv, TypeOK,
              Goto, disk, call, outcome
<1>6. CASE Catch(s) \/ CallbackThrows(s)
  BY <1>6 DEF Catch, CallbackThrows, Intact, Depends, PhaseInv, TypeOK, Goto, call, outcome
<1>7. CASE BitswapReads(s)
  <2>1. s \notin disturbed /\ Intact(s)
    BY <1>7 DEF BitswapReads, call
  <2>2. Taken(s)' = Taken(s)
    BY <1>7 DEF BitswapReads, Taken, GivenFiles, Part, Single, call
  <2>3. {c \in Contents(s) : c[2] # Nobody} = Taken(s)
    BY <1>7, <2>1, ReadsTaken DEF BitswapReads, call
  <2>4. phase'[s] \in {"read", "failed"} /\ ~reported'[s]
    BY <1>7 DEF BitswapReads, TypeOK, Goto, PhaseInv, call
  <2>5. phase'[s] = "read" => published'[s] = Taken(s)
    BY <1>7, <2>3 DEF BitswapReads, TypeOK, Goto, call
  <2> QED BY <2>2, <2>4, <2>5 DEF Intact, Depends
<1>8. CASE Callback(s)
  <2>1. s \notin disturbed /\ Intact(s)
    BY <1>8 DEF Callback, call
  <2>2. Taken(s)' = Taken(s) /\ published' = published
    BY <1>8 DEF Callback, Taken, GivenFiles, Part, Single, call
  <2> QED BY <1>8, <2>1, <2>2 DEF Callback, ReportCID, Intact, Depends, PhaseInv, TypeOK, Goto, call
<1> QED BY <1>1, <1>2, <1>3, <1>4, <1>5, <1>6, <1>7, <1>8, <1>9 DEF Step

-----------------------------------------------------------------------------
(* The theorems. *)

\* The inductive invariant holds in every reachable state.
THEOREM PublishInvariant == Spec => []PublishInv
<1>1. Init => PublishInv
  BY MaxClockIsNat DEF Init, PublishInv, TypeOK, PhaseInv, Intact, Depends, Phases, Ticks, Answers
<1>2. PublishInv /\ [Next]_vars => PublishInv'
  <2> SUFFICES ASSUME PublishInv, [Next]_vars
               PROVE  PublishInv'
    OBVIOUS
  <2>1. TypeOK' /\ PhaseInv'
    BY TypeStep, PhaseStep DEF PublishInv
  <2>2. ASSUME NEW r \in Saves,
               SaveASyncRejects(r) \/ SaveSingle(r) \/ SaveDirectory(r) \/ Step(r),
               NEW s \in Saves \ disturbed'
        PROVE  Intact(s)'
    <3>1. Discloses(r) /\ \A q \in Saves \ {r} : Own(q)' = Own(q)
      BY <2>2, StepDiscloses DEF PublishInv
    <3>2. CASE s = r
      BY <2>2, <3>1, <3>2, OwnIntact DEF Discloses
    <3>3. CASE s # r
      BY <2>2, <3>1, <3>3, OthersIntact DEF PublishInv
    <3> QED BY <3>2, <3>3
  <2>3. ASSUME Tick \/ UNCHANGED vars, NEW s \in Saves \ disturbed'
        PROVE  Intact(s)'
    BY <2>3 DEF Tick, PublishInv, Intact, Depends, Done, Taken, GivenFiles, Part, Single, vars, disk, call, outcome
  <2> QED BY <2>1, <2>2, <2>3 DEF PublishInv, Next
<1> QED BY <1>1, <1>2, PTL DEF Spec

\* The CID that IPFSSaver announces or reports for a save is that of what the disk took
\* of its own content, for any number of concurrent saves and whichever writes the disk
\* cut short, unless another save changed the same path.
THEOREM OwnContentPublished == Spec => []PublishesWhatItWrote
<1>1. PublishInv => PublishesWhatItWrote
  BY DEF PublishInv, Intact, PublishesWhatItWrote
<1> QED BY <1>1, PublishInvariant, PTL

-----------------------------------------------------------------------------
(* The disk is cleaned, and the caller answered once. *)

\* A save has its one answer when it has ended.
AnswerInv ==
  \A s \in Saves : IF phase[s] = "ended" THEN answers[s] \in {<<"written">>, <<"threw">>}
                                         ELSE answers[s] = << >>

\* Save s has something on the disk that is going to be removed, or removing it failed.
Busy(s) == \/ phase[s] \in {"write", "publish", "read", "failed", "lost"}
           \/ answers[s] = <<"threw">>

\* What a save has on the disk lies where the removal of its path will find it.
OwnsFile(s) == names[s] # {} /\ Busy(s)
OwnsTemporary(s, t) == names[s] = {} /\ temp[s] = t /\ Busy(s)

DiskInv ==
  /\ \A f \in Files : directory[f] \in Saves => OwnsFile(directory[f])
  /\ \A t \in Ticks : temporary[t] \in Saves => OwnsTemporary(temporary[t], t)

\* The inductive invariant, with what has been proved of the saves.
CleanInv == TypeOK /\ PhaseInv /\ AnswerInv /\ DiskInv

\* What a step of save r may do to the disk: nothing new appears but its own files,
\* and it stays responsible for them.
Tidy(r) ==
  /\ \A f \in Files : directory'[f] \in {directory[f], Nobody, r}
  /\ \A t \in Ticks : temporary'[t] \in {temporary[t], Nobody, r}
  /\ \A f \in Files : directory'[f] = r => OwnsFile(r)'
  /\ \A t \in Ticks : temporary'[t] = r => OwnsTemporary(r, t)'

\* A save that has nothing on the disk yet, or any more, is not found on it.
LEMMA IdleOwnsNothing ==
  ASSUME CleanInv, NEW r \in Saves, phase[r] \in {"idle", "prepare", "posted"}
  PROVE  /\ \A f \in Files : directory[f] # r
         /\ \A t \in Ticks : temporary[t] # r
<1>1. ~Busy(r)
  <2>1. answers[r] = << >>
    BY DEF CleanInv, AnswerInv
  <2>2. << >> # <<"threw">>
    OBVIOUS
  <2> QED BY <2>1, <2>2 DEF Busy
<1> QED BY <1>1 DEF CleanInv, DiskInv, OwnsFile, OwnsTemporary

\* A successful removal leaves nothing of the save whose path it was.
LEMMA RemovePathTidies ==
  ASSUME CleanInv, NEW r \in Saves, RemovePath(r)
  PROVE  Tidy(r)
<1> USE DEF CleanInv
<1>1. Nobody \notin Saves
  BY WritersDiffer
<1>2. CASE Single(r)
  <2>1. directory' = directory /\ temporary' = [temporary EXCEPT ![temp[r]] = Nobody]
    BY <1>2 DEF RemovePath, Remove
  <2>2. \A f \in Files : directory[f] # r
    BY <1>2 DEF DiskInv, OwnsFile, Single
  <2>3. \A t \in Ticks : temporary'[t] = IF t = temp[r] THEN Nobody ELSE temporary[t]
    BY <2>1 DEF TypeOK
  <2>4. \A t \in Ticks : temporary'[t] # r
    BY <1>1, <2>3 DEF DiskInv, OwnsTemporary
  <2> QED BY <2>1, <2>2, <2>3, <2>4 DEF Tidy
<1>3. CASE ~Single(r)
  <2>1. directory' = [f \in Files |-> Nobody] /\ temporary' = temporary
    BY <1>3 DEF RemovePath, RemoveAll
  <2>2. \A t \in Ticks : temporary[t] # r
    BY <1>3 DEF DiskInv, OwnsTemporary, Single
  <2>3. \A f \in Files : directory'[f] = Nobody
    BY <2>1
  <2> QED BY <1>1, <2>1, <2>2, <2>3 DEF Tidy
<1> QED BY <1>2, <1>3

\* A removal that throws leaves what it leaves to a save that stays responsible.
LEMMA ThrowTidies ==
  ASSUME CleanInv, NEW r \in Saves, RemovePathThrows(r), UNCHANGED <<names, temp>>, Busy(r)'
  PROVE  Tidy(r)
<1> USE DEF CleanInv
<1>1. Nobody \notin Saves
  BY WritersDiffer
<1>2. temporary' = temporary /\ \A f \in Files : directory'[f] \in {directory[f], Nobody}
  BY DEF RemovePathThrows
<1>3. ASSUME NEW f \in Files, directory'[f] = r PROVE OwnsFile(r)'
  <2>1. directory[f] = r
    BY <1>1, <1>2, <1>3
  <2> QED BY <2>1 DEF DiskInv, OwnsFile
<1>4. ASSUME NEW t \in Ticks, temporary'[t] = r PROVE OwnsTemporary(r, t)'
  BY <1>2, <1>4 DEF DiskInv, OwnsTemporary
<1> QED BY <1>2, <1>3, <1>4 DEF Tidy

LEMMA StepTidies ==
  ASSUME CleanInv, NEW r \in Saves,
         \/ SaveASyncRejects(r) \/ SaveSingle(r) \/ SaveDirectory(r) \/ Step(r)
  PROVE  Tidy(r)
<1> USE DEF CleanInv
<1>1. CASE SaveASyncRejects(r) \/ SaveDirectory(r) \/ HandleWrite(r)
  <2>1. phase[r] \in {"idle", "posted"} /\ UNCHANGED <<directory, temporary>>
    BY <1>1 DEF SaveASyncRejects, SaveDirectory, HandleWrite, disk, call
  <2> QED BY <2>1, IdleOwnsNothing DEF Tidy
<1>2. CASE SaveSingle(r)
  <2>1. phase[r] = "idle" /\ names[r] = {} /\ UNCHANGED <<directory, names>>
    BY <1>2 DEF SaveSingle, PhaseInv
  <2>2. CASE UNCHANGED temporary
    BY <2>1, <2>2, IdleOwnsNothing DEF Tidy
  <2>3. CASE temporary' = [temporary EXCEPT ![clock] = r] /\ Goto(r, "publish")
    <3>1. temp'[r] = clock /\ phase'[r] = "publish"
      BY <1>2, <2>3 DEF SaveSingle, Goto, TypeOK
    <3>2. \A t \in Ticks : temporary'[t] = IF t = clock THEN r ELSE temporary[t]
      BY <2>3 DEF TypeOK
    <3>3. OwnsTemporary(r, clock)'
      BY <1>2, <2>1, <3>1 DEF SaveSingle, OwnsTemporary, Busy
    <3>4. \A t \in Ticks : temporary'[t] = r => OwnsTemporary(r, t)'
      BY <1>2, <2>1, <3>1, <3>2, IdleOwnsNothing DEF OwnsTemporary, Busy
    <3> QED BY <2>1, <3>2, <3>4, IdleOwnsNothing DEF Tidy
  <2> QED BY <1>2, <2>2, <2>3 DEF SaveSingle
<1>3. CASE Prepare(r)
  <2>1. /\ phase[r] = "prepare" /\ directory' = [f \in Files |-> Nobody]
        /\ UNCHANGED temporary
    BY <1>3 DEF Prepare, RemoveAll, call
  <2> QED BY <2>1, IdleOwnsNothing, WritersDiffer DEF Tidy
<1>4. ASSUME NEW f \in Files, WriteFile(r, f) PROVE Tidy(r)
  <2>1. /\ phase'[r] = "write" /\ names'[r] # {} /\ temporary' = temporary
        /\ UNCHANGED <<names, temp>>
        /\ directory' = directory \/ directory' = [directory EXCEPT ![f] = r]
    BY <1>4 DEF WriteFile, PhaseInv
  <2>2. \A g \in Files : directory'[g] \in {directory[g], r}
    BY <2>1 DEF TypeOK
  <2>3. OwnsFile(r)'
    BY <2>1 DEF OwnsFile, Busy
  <2>4. \A t \in Ticks : temporary[t] # r
    BY <2>1 DEF DiskInv, OwnsTemporary
  <2> QED BY <2>1, <2>2, <2>3, <2>4 DEF Tidy
<1>5. CASE PublishDirectory(r) \/ BitswapReads(r)
  <2>1. /\ phase'[r] \in {"publish", "read", "failed"}
        /\ UNCHANGED <<directory, temporary, names, temp>>
    BY <1>5 DEF PublishDirectory, BitswapReads, Goto, TypeOK, disk, call
  <2>2. Busy(r)'
    BY <2>1 DEF Busy
  <2>3. \A f \in Files : directory'[f] = r => OwnsFile(r)'
    BY <2>1, <2>2 DEF DiskInv, OwnsFile
  <2>4. \A t \in Ticks : temporary'[t] = r => OwnsTemporary(r, t)'
    BY <2>1, <2>2 DEF DiskInv, OwnsTemporary
  <2> QED BY <2>1, <2>3, <2>4 DEF Tidy
<1>6. CASE Catch(r) \/ Callback(r) \/ CallbackThrows(r)
  <2>1. UNCHANGED <<names, temp>>
    BY <1>6 DEF Catch, Callback, CallbackThrows, call
  <2>2. CASE RemovePath(r)
    BY <2>2, RemovePathTidies
  <2>3. CASE CallbackThrows(r)
    <3>1. RemovePathThrows(r) /\ phase'[r] = "lost"
      BY <2>3 DEF CallbackThrows, Goto, TypeOK, call
    <3>2. Busy(r)'
      BY <3>1 DEF Busy
    <3> QED BY <2>1, <3>1, <3>2, ThrowTidies
  <2>4. CASE Catch(r) /\ RemovePathThrows(r) /\ answers' = [answers EXCEPT ![r] = Append(@, "threw")]
    <3>1. answers[r] = << >>
      BY <2>4 DEF Catch, AnswerInv, call
    <3>2. Append(<< >>, "threw") = <<"threw">>
      OBVIOUS
    <3>3. answers'[r] = <<"threw">>
      BY <2>4, <3>1, <3>2 DEF TypeOK
    <3>4. Busy(r)'
      BY <3>3 DEF Busy
    <3> QED BY <2>1, <2>4, <3>4, ThrowTidies
  <2> QED BY <1>6, <2>2, <2>3, <2>4 DEF Catch, Callback, call
<1> QED BY <1>1, <1>2, <1>3, <1>4, <1>5, <1>6 DEF Step

\* A step of save r gives it at most its first answer, and nobody else one.
LEMMA StepAnswers ==
  ASSUME CleanInv, NEW r \in Saves,
         \/ SaveASyncRejects(r) \/ SaveSingle(r) \/ SaveDirectory(r) \/ Step(r)
  PROVE  /\ \A s \in Saves \ {r} : answers'[s] = answers[s]
         /\ \/ answers'[r] = answers[r] /\ phase[r] # "ended" /\ phase'[r] # "ended"
            \/ /\ answers[r] = << >> /\ phase'[r] = "ended"
               /\ \E a \in Answers : answers'[r] = <<a>>
<1> USE DEF CleanInv
<1>1. CASE SaveASyncRejects(r) \/ SaveSingle(r) \/ SaveDirectory(r) \/ Prepare(r)
             \/ PublishDirectory(r) \/ BitswapReads(r) \/ Callback(r) \/ CallbackThrows(r)
  BY <1>1 DEF SaveASyncRejects, SaveSingle, SaveDirectory, Prepare, PublishDirectory,
              BitswapReads, Callback, CallbackThrows, Goto, TypeOK, call, outcome
<1>2. ASSUME NEW f \in Files, WriteFile(r, f)
      PROVE  /\ answers' = answers /\ phase[r] # "ended" /\ phase'[r] # "ended"
  BY <1>2 DEF WriteFile, call, outcome
<1>3. ASSUME NEW a \in Answers, answers' = [answers EXCEPT ![r] = Append(@, a)],
             phase[r] # "ended", Goto(r, "ended")
      PROVE  /\ \A s \in Saves \ {r} : answers'[s] = answers[s]
             /\ answers[r] = << >> /\ phase'[r] = "ended" /\ answers'[r] = <<a>>
  <2>1. answers[r] = << >> /\ Append(<< >>, a) = <<a>>
    BY <1>3 DEF AnswerInv
  <2> QED BY <1>3, <2>1 DEF Goto, TypeOK
<1>4. CASE HandleWrite(r)
  BY <1>3, <1>4 DEF HandleWrite, Answers, call
<1>5. CASE Catch(r)
  <2>1. CASE Goto(r, "posted") /\ UNCHANGED answers
    BY <1>5, <2>1 DEF Catch, Goto, TypeOK, call
  <2>2. CASE Goto(r, "ended") /\ answers' = [answers EXCEPT ![r] = Append(@, "threw")]
    BY <1>3, <1>5, <2>2 DEF Catch, Answers, call
  <2> QED BY <1>5, <2>1, <2>2 DEF Catch, call
<1> QED BY <1>1, <1>2, <1>4, <1>5 DEF Step

LEMMA CleanStep ==
  ASSUME CleanInv, [Next]_vars
  PROVE  CleanInv'
<1> USE DEF CleanInv
<1>1. TypeOK' /\ PhaseInv'
  BY TypeStep, PhaseStep
<1>2. ASSUME NEW r \in Saves,
             SaveASyncRejects(r) \/ SaveSingle(r) \/ SaveDirectory(r) \/ Step(r)
      PROVE  AnswerInv' /\ DiskInv'
  <2>1. /\ \A s \in Saves \ {r} : answers'[s] = answers[s]
        /\ \/ answers'[r] = answers[r] /\ phase[r] # "ended" /\ phase'[r] # "ended"
           \/ /\ answers[r] = << >> /\ phase'[r] = "ended"
              /\ \E a \in Answers : answers'[r] = <<a>>
    BY <1>2, StepAnswers
  <2>2. ASSUME NEW s \in Saves \ {r}
        PROVE  UNCHANGED <<phase[s], names[s], temp[s], answers[s]>>
    <3>1. Own(s)' = Own(s)
      BY <1>2, StepDiscloses
    <3> QED BY <2>1, <3>1 DEF Own
  <2>3. AnswerInv'
    BY <2>1, <2>2 DEF AnswerInv, Answers
  <2>4. Tidy(r) /\ Nobody \notin Saves
    BY <1>2, StepTidies, WritersDiffer
  <2>5. \A f \in Files : directory'[f] \in Saves => OwnsFile(directory[f])'
    <3>1. SUFFICES ASSUME NEW f \in Files, directory'[f] \in Saves, directory'[f] # r
                   PROVE  OwnsFile(directory[f])'
      BY <2>4 DEF Tidy
    <3>2. directory'[f] = directory[f] /\ OwnsFile(directory[f])
      BY <2>4, <3>1 DEF Tidy, DiskInv
    <3> QED BY <2>2, <3>1, <3>2 DEF OwnsFile, Busy
  <2>6. \A t \in Ticks : temporary'[t] \in Saves => OwnsTemporary(temporary[t], t)'
    <3>1. SUFFICES ASSUME NEW t \in Ticks, temporary'[t] \in Saves, temporary'[t] # r
                   PROVE  OwnsTemporary(temporary[t], t)'
      BY <2>4 DEF Tidy
    <3>2. temporary'[t] = temporary[t] /\ OwnsTemporary(temporary[t], t)
      BY <2>4, <3>1 DEF Tidy, DiskInv
    <3> QED BY <2>2, <3>1, <3>2 DEF OwnsTemporary, Busy
  <2> QED BY <2>3, <2>5, <2>6 DEF DiskInv
<1>3. CASE Tick \/ UNCHANGED vars
  <2>1. UNCHANGED <<phase, names, temp, directory, temporary, answers>>
    BY <1>3 DEF Tick, vars, disk, call, outcome
  <2> QED BY <1>1, <2>1 DEF AnswerInv, DiskInv, OwnsFile, OwnsTemporary, Busy
<1> QED BY <1>1, <1>2, <1>3 DEF Next

LEMMA CleanInit == Init => CleanInv
<1> SUFFICES ASSUME Init PROVE CleanInv
  OBVIOUS
<1>1. TypeOK /\ PhaseInv
  BY MaxClockIsNat DEF Init, TypeOK, PhaseInv, Phases, Ticks, Answers
<1>2. AnswerInv
  BY DEF Init, AnswerInv
<1>3. DiskInv
  BY WritersDiffer DEF Init, DiskInv
<1> QED BY <1>1, <1>2, <1>3 DEF CleanInv

\* Whatever a save has left on the disk is its own to remove, or removing it failed.
THEOREM CleanInvariant == Spec => []CleanInv
BY CleanInit, CleanStep, PTL DEF Spec

\* When no save is under way and no removal threw, the disk holds nothing that a save
\* has written, for any number of saves that shared the directory or a clock tick.
THEOREM DiskIsCleaned == Spec => []NothingLeftOnDisk
<1>1. CleanInv => NothingLeftOnDisk
  <2> SUFFICES ASSUME CleanInv,
                      \A s \in Saves : phase[s] \in {"idle", "posted", "ended"} /\ answers[s] # <<"threw">>
               PROVE  /\ \A f \in Files : directory[f] \notin Saves
                      /\ \A t \in Ticks : temporary[t] = Nobody
    BY DEF NothingLeftOnDisk
  <2>1. \A s \in Saves : ~Busy(s)
    BY DEF Busy
  <2> QED BY <2>1 DEF CleanInv, DiskInv, OwnsFile, OwnsTemporary, TypeOK
<1> QED BY <1>1, CleanInvariant, PTL

\* Every save implements OneShot: handle_write, or the exception out of SaveASync, is
\* its first answer and its last.
THEOREM EverySaveAnsweredOnce == Spec => SaveAnsweredOnce
<1>1. CleanInv /\ [Next]_vars =>
        [\A s \in Saves : answers'[s] # answers[s] =>
           \E a \in Answers : Contract(s)!Answer(a)]_answers
  <2> SUFFICES ASSUME CleanInv, [Next]_vars, NEW s \in Saves, answers'[s] # answers[s]
               PROVE  \E a \in Answers : Contract(s)!Answer(a)
    OBVIOUS
  <2>1. CASE Tick \/ UNCHANGED vars
    BY <2>1 DEF Tick, vars, call, outcome
  <2>2. ASSUME NEW r \in Saves,
               SaveASyncRejects(r) \/ SaveSingle(r) \/ SaveDirectory(r) \/ Step(r)
        PROVE  \E a \in Answers : Contract(s)!Answer(a)
    <3>1. answers[s] = << >> /\ \E a \in Answers : answers'[s] = <<a>>
      BY <2>2, StepAnswers
    <3> QED BY <3>1 DEF Contract!Answer
  <2> QED BY <2>1, <2>2 DEF Next
<1> QED BY <1>1, CleanInvariant, PTL DEF Spec, SaveAnsweredOnce
=============================================================================
