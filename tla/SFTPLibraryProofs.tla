-------------------------- MODULE SFTPLibraryProofs --------------------------
(***************************************************************************)
(* Proofs about SFTPSaver and SFTPLibrary, for any number of files, any    *)
(* sizes and any number of threads in the blocking SaveFile: a save is     *)
(* answered once and after its last upload, sessions are cleaned up on     *)
(* every path past the open, and libssh2's count goes down under a call   *)
(* only in the two ways LibraryAccounted names.                            *)
(***************************************************************************)
EXTENDS SFTPLibrary, FiniteSetTheorems, TLAPS

\* The uploads whose callback has not run, those the loop has not started included.
Pending == {f \in 1..n : step[f] # "ended"}

\* The loop has started the uploads before next, in order.
LoopInv ==
  /\ next <= n + 1
  /\ \A f \in Files : step[f] = "idle" <=> f >= next
  /\ \A f \in Files : session[f] = "none" <=> f >= next

\* remainingWrites counts the pending uploads; the last one has answered.
AnswerInv ==
  /\ remainingWrites = Cardinality(Pending)
  /\ n = 0 => answers = << >> \/ answers = <<"rejected">>
  /\ n > 0 => answers = IF Pending = {} THEN <<"written">> ELSE << >>

\* What an upload has by the time it reaches a step.
UploadInv(f) ==
  /\ step[f] \in {"idle", "connect", "handshake", "auth", "init", "open"} =>
       written[f] = 0 /\ f \notin opened /\ session[f] \notin Cleaned
  /\ step[f] = "write" => session[f] = "live"
  /\ step[f] \in {"posted", "ended"} /\ session[f] = "live" => f \notin opened

\* The inductive invariant of SaveASync and its uploads.
SaverInv == TypeOK /\ LoopInv /\ AnswerInv /\ \A f \in Files : UploadInv(f)

\* The threads whose SaveFile holds a count of the library, and whether an upload
\* has been cleaned up.
Holding == {t \in Threads : saving[t] = "connect" \/ InSession(t) \/ saving[t] = "leaked"}
Begun == \E f \in Files : session[f] # "none"

\* The count covers every holder until an upload is cleaned up, exactly so before there
\* are uploads; and until somebody exits, a session that was made keeps the library up.
CountInv ==
  /\ ~CleanedUp => library >= Cardinality(Holding)
  /\ n = 0 => library = Cardinality(Holding)
  /\ ~CleanedUp /\ Begun /\ (\A t \in Threads : ~Ended(t)) => library > 0

\* The inductive invariant of the composition.
LibraryInv == SaverInv /\ LibraryTypeOK /\ CountInv

-----------------------------------------------------------------------------
(* SaveASync and its uploads. *)

LEMMA PendingFinite ==
  ASSUME TypeOK
  PROVE  /\ IsFiniteSet(Pending) /\ Cardinality(Pending) \in Nat
         /\ Cardinality(Pending) = 0 <=> Pending = {}
<1>1. n \in Nat
  BY MaxFilesIsPositive DEF TypeOK
<1>2. IsFiniteSet(1..n) /\ Pending \subseteq 1..n
  BY <1>1, FS_Interval DEF Pending
<1>3. IsFiniteSet(Pending)
  BY <1>2, FS_Subset
<1> QED BY <1>3, FS_CardinalityType, FS_EmptySet

\* A step of an upload that neither begins nor ends it leaves the loop and the count alone.
LEMMA MidUpload ==
  ASSUME SaverInv, NEW f \in Files, NEW s \in Steps \ {"idle", "ended"},
         step[f] \notin {"idle", "ended"}, step' = [step EXCEPT ![f] = s],
         session' = session \/ \E c \in Cleaned : session' = [session EXCEPT ![f] = c],
         UNCHANGED <<n, next, remainingWrites, answers>>
  PROVE  LoopInv' /\ AnswerInv'
<1> USE DEF SaverInv
<1>1. \A g \in Files : /\ step'[g] = "idle" <=> step[g] = "idle"
                       /\ step'[g] = "ended" <=> step[g] = "ended"
                       /\ session'[g] = "none" <=> session[g] = "none"
  BY DEF TypeOK, LoopInv, Cleaned
<1>2. 1..n \subseteq Files
  BY MaxFilesIsPositive DEF TypeOK, Files
<1>3. Pending' = Pending
  BY <1>1, <1>2 DEF Pending
<1>4. LoopInv'
  BY <1>1 DEF LoopInv
<1>5. AnswerInv'
  BY <1>3 DEF AnswerInv
<1> QED BY <1>4, <1>5

LEMMA AdvanceStep ==
  ASSUME SaverInv, NEW f \in Files,
         NEW from \in {"connect", "handshake", "auth", "init"},
         NEW to \in {"handshake", "auth", "init", "open"},
         Advance(f, from, to), UNCHANGED <<opened, saveLocation, answers>>
  PROVE  SaverInv'
<1> USE DEF SaverInv
<1>1. /\ step[f] = from /\ step' = [step EXCEPT ![f] = to]
      /\ UNCHANGED <<n, next, size, session, written, remainingWrites, opened, saveLocation, answers>>
  BY DEF Advance, call, location
<1>2. TypeOK'
  BY <1>1 DEF TypeOK, Steps
<1>3. LoopInv' /\ AnswerInv'
  BY <1>1, MidUpload DEF Steps
<1>4. ASSUME NEW g \in Files PROVE UploadInv(g)'
  BY <1>1 DEF UploadInv, TypeOK
<1> QED BY <1>2, <1>3, <1>4

LEMMA FailsStep ==
  ASSUME SaverInv, NEW f \in Files,
         NEW from \in {"connect", "handshake", "auth", "init", "open"}, Fails(f, from)
  PROVE  SaverInv'
<1> USE DEF SaverInv
<1>1. /\ step[f] = from /\ step' = [step EXCEPT ![f] = "posted"]
      /\ UNCHANGED <<n, next, size, session, written, remainingWrites, opened, saveLocation, answers>>
  BY DEF Fails, DoWriteCallback, call, location
<1>2. TypeOK'
  BY <1>1 DEF TypeOK, Steps
<1>3. LoopInv' /\ AnswerInv'
  BY <1>1, MidUpload DEF Steps
<1>4. ASSUME NEW g \in Files PROVE UploadInv(g)'
  BY <1>1 DEF UploadInv, TypeOK
<1> QED BY <1>2, <1>3, <1>4

LEMMA OpenStep ==
  ASSUME SaverInv, NEW f \in Files, Advance(f, "open", "write"), saveLocation' = f,
         opened' = opened \cup {f}, UNCHANGED answers
  PROVE  SaverInv'
<1> USE DEF SaverInv
<1>1. /\ step[f] = "open" /\ step' = [step EXCEPT ![f] = "write"]
      /\ UNCHANGED <<n, next, size, session, written, remainingWrites, answers>>
  BY DEF Advance, call, location
<1>2. TypeOK'
  <2>1. f \in 0..MaxFiles
    BY MaxFilesIsPositive DEF Files
  <2> QED BY <1>1, <2>1 DEF TypeOK, Steps
<1>3. LoopInv' /\ AnswerInv'
  BY <1>1, MidUpload DEF Steps
<1>4. session[f] = "live"
  BY <1>1 DEF UploadInv, LoopInv, TypeOK
<1>5. ASSUME NEW g \in Files PROVE UploadInv(g)'
  BY <1>1, <1>4 DEF UploadInv, TypeOK
<1> QED BY <1>2, <1>3, <1>5

LEMMA WriteBlockStep ==
  ASSUME SaverInv, NEW f \in Files, WriteBlock(f)
  PROVE  SaverInv'
<1> USE DEF SaverInv
<1>1. /\ step[f] = "write"
      /\ UNCHANGED <<n, next, size, step, session, remainingWrites, opened, saveLocation, answers>>
  BY DEF WriteBlock, call, location
<1>2. PICK k \in 1..(size[f] - written[f] - 1) : written' = [written EXCEPT ![f] = @ + k]
  BY DEF WriteBlock
<1>3. written' \in [Files -> Nat] /\ \A g \in Files : written'[g] <= size[g]
  <2>1. size[f] \in Nat /\ written[f] \in Nat
    BY MaxSizeIsNat DEF TypeOK
  <2>2. written[f] + k \in Nat /\ written[f] + k <= size[f]
    BY <2>1
  <2> QED BY <1>2, <2>2 DEF TypeOK
<1>4. TypeOK'
  BY <1>1, <1>3 DEF TypeOK
<1>5. LoopInv' /\ AnswerInv'
  BY <1>1 DEF LoopInv, AnswerInv, Pending
<1>6. ASSUME NEW g \in Files PROVE UploadInv(g)'
  BY <1>1, <1>2 DEF UploadInv, TypeOK
<1> QED BY <1>4, <1>5, <1>6

LEMMA CleanupStep ==
  ASSUME SaverInv, NEW f \in Files, WriteDone(f) \/ WriteFails(f)
  PROVE  SaverInv'
<1> USE DEF SaverInv
<1>1. /\ step[f] = "write" /\ step' = [step EXCEPT ![f] = "posted"]
      /\ \E c \in Cleaned : session' = [session EXCEPT ![f] = c]
      /\ UNCHANGED <<n, next, size, remainingWrites, opened, saveLocation, answers>>
      /\ written' = written \/ written' = [written EXCEPT ![f] = size[f]]
  BY DEF WriteDone, WriteFails, StartSFTPCleanup, DoWriteCallback, call, location
<1>2. written' \in [Files -> Nat] /\ \A g \in Files : written'[g] <= size[g]
  <2>1. size[f] \in Nat
    BY MaxSizeIsNat DEF TypeOK
  <2>2. CASE written' = written
    BY <2>2 DEF TypeOK
  <2>3. CASE written' = [written EXCEPT ![f] = size[f]]
    BY <2>1, <2>3 DEF TypeOK
  <2> QED BY <1>1, <2>2, <2>3
<1>3. TypeOK'
  BY <1>1, <1>2 DEF TypeOK, Steps
<1>4. LoopInv' /\ AnswerInv'
  BY <1>1, MidUpload DEF Steps
<1>5. ASSUME NEW g \in Files PROVE UploadInv(g)'
  BY <1>1 DEF UploadInv, TypeOK, Cleaned
<1> QED BY <1>3, <1>4, <1>5

LEMMA WriteCallbackStep ==
  ASSUME SaverInv, NEW f \in Files, WriteCallback(f)
  PROVE  SaverInv' /\ answers = << >> /\ (answers' # answers => answers' = <<"written">>)
<1> USE DEF SaverInv
<1>1. /\ step[f] = "posted" /\ step' = [step EXCEPT ![f] = "ended"]
      /\ remainingWrites' = remainingWrites - 1
      /\ UNCHANGED <<n, next, size, session, written, opened, saveLocation>>
  BY DEF WriteCallback, call, location
<1>2. n \in Nat /\ next \in Nat /\ 1..n \subseteq Files
  BY MaxFilesIsPositive DEF TypeOK, Files
<1>3. f \in 1..n /\ n > 0
  <2>1. ~(f >= next) /\ next <= n + 1 /\ f \in Nat /\ f >= 1
    BY <1>1, MaxFilesIsPositive DEF LoopInv, Files
  <2> QED BY <1>2, <2>1
<1>4. f \in Pending /\ answers = << >>
  BY <1>1, <1>3 DEF Pending, AnswerInv
<1>5. Pending' = Pending \ {f}
  <2>1. \A g \in 1..n : step'[g] # "ended" <=> step[g] # "ended" /\ g # f
    BY <1>1, <1>2 DEF TypeOK
  <2> QED BY <1>1, <2>1 DEF Pending
<1>6. Cardinality(Pending') = Cardinality(Pending) - 1 /\ IsFiniteSet(Pending')
  BY <1>4, <1>5, PendingFinite, FS_RemoveElement
<1>7. remainingWrites' = Cardinality(Pending') /\ remainingWrites' \in 0..MaxFiles
  <2>1. Cardinality(Pending') \in Nat
    BY <1>6, FS_CardinalityType
  <2> QED BY <1>1, <1>6, <2>1, MaxFilesIsPositive DEF AnswerInv, TypeOK
<1>8. remainingWrites' <= 0 <=> Pending' = {}
  <2>1. Cardinality(Pending') = 0 <=> Pending' = {}
    BY <1>6, FS_EmptySet
  <2> QED BY <1>7, <2>1
<1>9. answers' = IF Pending' = {} THEN <<"written">> ELSE << >>
  BY <1>4, <1>8 DEF WriteCallback
<1>10. answers' \in Seq(Answers)
  <2>1. << >> \in Seq(Answers) /\ <<"written">> \in Seq(Answers)
    BY DEF Answers
  <2> QED BY <1>9, <2>1
<1>11. TypeOK'
  <2>1. step' \in [Files -> Steps]
    BY <1>1 DEF TypeOK, Steps
  <2> QED BY <1>1, <1>7, <1>10, <2>1 DEF TypeOK
<1>12. LoopInv'
  BY <1>1 DEF LoopInv, TypeOK
<1>13. AnswerInv'
  BY <1>1, <1>3, <1>7, <1>9 DEF AnswerInv
<1>14. ASSUME NEW g \in Files PROVE UploadInv(g)'
  BY <1>1 DEF UploadInv, TypeOK
<1> QED BY <1>4, <1>9, <1>11, <1>12, <1>13, <1>14

LEMMA StartStep ==
  ASSUME SaverInv, NEW f \in Files, StartSFTPUpload(f)
  PROVE  SaverInv'
<1> USE DEF SaverInv
<1>1. PICK s \in {"connect", "posted"} : step' = [step EXCEPT ![f] = s]
  BY DEF StartSFTPUpload, location
<1>2. /\ f = next /\ f <= n /\ next' = next + 1
      /\ session' = [session EXCEPT ![f] = "live"]
      /\ UNCHANGED <<n, size, written, remainingWrites, opened, saveLocation, answers>>
  BY DEF StartSFTPUpload, location
<1>3. n \in 0..MaxFiles /\ next \in Nat /\ 1..n \subseteq Files /\ MaxFiles \in Nat
  BY MaxFilesIsPositive DEF TypeOK, Files
<1>4. step[f] = "idle" /\ session[f] = "none"
  BY <1>2, <1>3 DEF LoopInv
<1>5. TypeOK'
  <2>1. next' \in 1..(MaxFiles + 1)
    BY <1>2, <1>3
  <2> QED BY <1>1, <1>2, <2>1 DEF TypeOK, Steps
<1>6. LoopInv'
  <2>1. next' <= n' + 1
    BY <1>2, <1>3
  <2>2. \A g \in Files : g >= next' <=> g >= next /\ g # f
    BY <1>2, <1>3 DEF Files
  <2>3. \A g \in Files \ {f} : step'[g] = step[g] /\ session'[g] = session[g]
    BY <1>1, <1>2 DEF TypeOK
  <2>4. step'[f] # "idle" /\ session'[f] # "none"
    BY <1>1, <1>2 DEF TypeOK
  <2> QED BY <2>1, <2>2, <2>3, <2>4 DEF LoopInv
<1>7. AnswerInv'
  <2>1. \A g \in 1..n : step'[g] # "ended" <=> step[g] # "ended"
    BY <1>1, <1>3, <1>4 DEF TypeOK
  <2>2. Pending' = Pending
    BY <1>2, <2>1 DEF Pending
  <2> QED BY <1>2, <2>2 DEF AnswerInv
<1>8. ASSUME NEW g \in Files PROVE UploadInv(g)'
  BY <1>1, <1>2, <1>4 DEF UploadInv, TypeOK, Cleaned
<1> QED BY <1>5, <1>6, <1>7, <1>8

LEMMA SaveASyncStep ==
  ASSUME SaverInv, SaveASync
  PROVE  SaverInv'
<1> USE DEF SaverInv
<1>1. /\ n = 0 /\ answers = << >> /\ n' \in Files
      /\ size' \in [Files -> 0..MaxSize] /\ remainingWrites' = n'
      /\ UNCHANGED <<next, step, session, written, opened, saveLocation, answers>>
  BY DEF SaveASync, location
<1>2. next = 1 /\ n' \in Nat /\ n' \in 1..MaxFiles /\ MaxFiles \in Nat
  BY <1>1, MaxFilesIsPositive DEF TypeOK, LoopInv, Files
<1>3. \A f \in Files : step[f] = "idle" /\ session[f] = "none" /\ written[f] = 0
  BY <1>1, <1>2 DEF LoopInv, UploadInv, Files
<1>4. Pending' = 1..n'
  BY <1>1, <1>2, <1>3 DEF Pending, Files
<1>5. Cardinality(Pending') = n' /\ Pending' # {}
  <2>1. Cardinality(1..n') = n'
    BY <1>2, FS_Interval
  <2>2. 1 \in 1..n'
    BY <1>2
  <2> QED BY <1>4, <2>1, <2>2
<1>6. TypeOK'
  <2>1. \A f \in Files : written[f] <= size'[f]
    BY <1>1, <1>3, MaxSizeIsNat
  <2> QED BY <1>1, <1>2, <2>1 DEF TypeOK
<1>7. LoopInv'
  <2>1. next' = 1
    BY <1>1, <1>2
  <2>2. next' <= n' + 1
    <3>1. ASSUME NEW k \in Nat PROVE 1 <= k + 1
      OBVIOUS
    <3>2. 1 <= n' + 1
      BY <1>2, <3>1
    <3> QED BY <2>1, <3>2
  <2> QED BY <1>1, <2>2 DEF LoopInv
<1>8. AnswerInv'
  BY <1>1, <1>2, <1>5 DEF AnswerInv
<1>9. ASSUME NEW g \in Files PROVE UploadInv(g)'
  BY <1>1 DEF UploadInv
<1> QED BY <1>6, <1>7, <1>8, <1>9

LEMMA RejectsStep ==
  ASSUME SaverInv, SaveASyncRejects
  PROVE  SaverInv'
<1> USE DEF SaverInv
<1>1. /\ n = 0 /\ answers' = <<"rejected">>
      /\ UNCHANGED <<n, next, size, step, session, written, remainingWrites, opened, saveLocation>>
  BY DEF SaveASyncRejects, call, location
<1>2. TypeOK'
  <2>1. answers' \in Seq(Answers)
    BY <1>1 DEF Answers
  <2> QED BY <1>1, <2>1 DEF TypeOK
<1>3. LoopInv' /\ Pending' = Pending /\ \A f \in Files : UploadInv(f)'
  BY <1>1 DEF LoopInv, Pending, UploadInv
<1>4. AnswerInv'
  BY <1>1, <1>3 DEF AnswerInv
<1> QED BY <1>2, <1>3, <1>4

LEMMA SaverKeeps ==
  ASSUME SaverInv, [Next]_vars
  PROVE  SaverInv'
<1>1. CASE UNCHANGED vars
  BY <1>1 DEF vars, SaverInv, TypeOK, LoopInv, AnswerInv, Pending, UploadInv
<1>2. ASSUME NEW f \in Files, Upload(f) PROVE SaverInv'
  <2>1. CASE Connected(f) \/ StartSFTPHandshake(f)
    BY <2>1, AdvanceStep, FailsStep DEF Connected, StartSFTPHandshake, location
  <2>2. CASE StartSFTPAuth(f) \/ StartCreateSFTP(f)
    BY <2>2, AdvanceStep, FailsStep DEF StartSFTPAuth, StartCreateSFTP, location
  <2>3. CASE StartSFTPOpen(f)
    BY <2>3, OpenStep, FailsStep DEF StartSFTPOpen
  <2> QED BY <1>2, <2>1, <2>2, <2>3, WriteBlockStep, CleanupStep, WriteCallbackStep DEF Upload
<1> QED BY <1>1, <1>2, SaveASyncStep, RejectsStep, StartStep DEF Next

\* handle_write is called for a save that has no answer, with one answer.
LEMMA AnswersOnce ==
  ASSUME SaverInv, [Next]_vars, answers' # answers
  PROVE  answers = << >> /\ \E a \in Answers : answers' = <<a>>
<1>1. CASE SaveASyncRejects
  BY <1>1 DEF SaveASyncRejects, Answers
<1>2. ASSUME NEW f \in Files, WriteCallback(f)
      PROVE  answers = << >> /\ \E a \in Answers : answers' = <<a>>
  BY <1>2, WriteCallbackStep DEF Answers
<1>3. ASSUME NEW f \in Files, Upload(f), ~WriteCallback(f)
      PROVE  FALSE
  BY <1>3 DEF Upload, Connected, StartSFTPHandshake, StartSFTPAuth, StartCreateSFTP,
              StartSFTPOpen, WriteBlock, WriteDone, WriteFails, Fails
<1> QED BY <1>1, <1>2, <1>3 DEF Next, vars, SaveASync, StartSFTPUpload

\* A session is made and then cleaned up; no step changes it otherwise.
LEMMA SessionsMove ==
  ASSUME SaverInv, Next
  PROVE  /\ n' = 0 => n = 0 /\ session' = session
         /\ \A f \in Files : \/ session'[f] = session[f]
                             \/ session[f] = "none" /\ session'[f] = "live"
                             \/ session[f] = "live" /\ session'[f] \in Cleaned
<1> USE DEF SaverInv
<1>1. CASE SaveASync
  BY <1>1, MaxFilesIsPositive DEF SaveASync, Files
<1>2. CASE SaveASyncRejects
  BY <1>2 DEF SaveASyncRejects, call, location
<1>3. ASSUME NEW f \in Files, StartSFTPUpload(f)
      PROVE  /\ n' # 0
             /\ \A g \in Files : \/ session'[g] = session[g]
                                 \/ session[g] = "none" /\ session'[g] = "live"
  <2>1. session[f] = "none" /\ f <= n /\ f > 0 /\ n \in Nat /\ n' = n
    BY <1>3, MaxFilesIsPositive DEF StartSFTPUpload, LoopInv, TypeOK, Files
  <2>2. session' = [session EXCEPT ![f] = "live"]
    BY <1>3 DEF StartSFTPUpload, location
  <2> QED BY <2>1, <2>2 DEF TypeOK, Files
<1>4. ASSUME NEW f \in Files, WriteDone(f) \/ WriteFails(f)
      PROVE  /\ n' # 0
             /\ \A g \in Files : \/ session'[g] = session[g]
                                 \/ session[g] = "live" /\ session'[g] \in Cleaned
  <2>1. session[f] = "live" /\ n' = n /\ \E c \in Cleaned : session' = [session EXCEPT ![f] = c]
    BY <1>4 DEF WriteDone, WriteFails, StartSFTPCleanup, UploadInv, call, location
  <2>2. ~(f >= next) /\ f \in Nat /\ f > 0 /\ next <= n + 1 /\ n \in Nat /\ next \in Nat
    BY <2>1, MaxFilesIsPositive DEF LoopInv, TypeOK, Files
  <2> QED BY <2>1, <2>2 DEF TypeOK
<1>5. ASSUME NEW f \in Files, Upload(f), ~(WriteDone(f) \/ WriteFails(f))
      PROVE  n' = n /\ session' = session
  BY <1>5 DEF Upload, Connected, StartSFTPHandshake, StartSFTPAuth, StartCreateSFTP,
              StartSFTPOpen, Advance, Fails, WriteBlock, WriteCallback, call, location
<1> QED BY <1>1, <1>2, <1>3, <1>4, <1>5 DEF Next

-----------------------------------------------------------------------------
(* The library's count. *)

LEMMA HoldingFinite ==
  /\ IsFiniteSet(Holding) /\ Cardinality(Holding) \in Nat
  /\ Cardinality(Holding) = 0 <=> Holding = {}
<1>1. IsFiniteSet(Holding)
  BY ThreadsFinite, FS_Subset DEF Holding
<1> QED BY <1>1, FS_CardinalityType, FS_EmptySet

\* What a step of SaveASync and its uploads does to the count.
LEMMA SaverCounts ==
  ASSUME LibraryInv, SaverStep
  PROVE  LibraryTypeOK' /\ CountInv'
<1> USE DEF LibraryInv
<1>0. SaverInv'
  BY SaverKeeps DEF SaverStep
<1>1. library \in Nat /\ library' \in Nat /\ LibraryTypeOK'
  BY <1>0 DEF SaverStep, SaverInv, LibraryTypeOK, AfterSessionInit, AfterExit, blocking
<1>2. /\ n' = 0 => n = 0 /\ session' = session
      /\ \A f \in Files : \/ session'[f] = session[f]
                          \/ session[f] = "none" /\ session'[f] = "live"
                          \/ session[f] = "live" /\ session'[f] \in Cleaned
  BY SessionsMove DEF SaverStep
<1>3. Holding' = Holding /\ \A t \in Threads : Ended(t)' = Ended(t)
  BY DEF SaverStep, blocking, Holding, InSession, Ended
<1>4. CleanedUp => CleanedUp'
  BY <1>2 DEF CleanedUp, Cleaned
<1>5. CASE \E f \in Files : session[f] = "none" /\ session'[f] = "live"
  <2>1. n' # 0 /\ library' >= library /\ library' > 0
    BY <1>1, <1>2, <1>5 DEF SaverStep, AfterSessionInit
  <2> QED BY <1>1, <1>3, <1>4, <2>1, HoldingFinite DEF CountInv
<1>6. CASE ~\E f \in Files : session[f] = "none" /\ session'[f] = "live"
  <2>1. CASE \E f \in Files : session[f] = "live" /\ session'[f] \in Cleaned
    <3>1. n' # 0 /\ CleanedUp'
      BY <1>2, <2>1 DEF CleanedUp, Cleaned
    <3> QED BY <1>1, <3>1 DEF CountInv
  <2>2. CASE ~\E f \in Files : session[f] = "live" /\ session'[f] \in Cleaned
    <3>1. library' = library
      BY <1>6, <2>2 DEF SaverStep
    <3>2. CleanedUp' = CleanedUp /\ Begun' = Begun
      BY <1>2, <1>6, <2>2 DEF CleanedUp, Begun
    <3> QED BY <1>1, <1>2, <1>3, <3>1, <3>2 DEF CountInv
  <2> QED BY <2>1, <2>2
<1> QED BY <1>1, <1>5, <1>6

\* A thread in SaveFile leaves the uploads alone.
LEMMA ThreadFrame ==
  ASSUME LibraryInv, UNCHANGED vars
  PROVE  SaverInv' /\ TypeOK' /\ CleanedUp' = CleanedUp /\ Begun' = Begun /\ n' = n
BY DEF LibraryInv, vars, SaverInv, TypeOK, LoopInv, AnswerInv, Pending, UploadInv, CleanedUp, Begun

\* SaveFile takes a count.
LEMMA SaveFileCounts ==
  ASSUME LibraryInv, NEW t \in Threads, SaveFile(t)
  PROVE  LibraryTypeOK' /\ CountInv'
<1> USE DEF LibraryInv
<1>1. /\ saving[t] = "idle" /\ saving' = [saving EXCEPT ![t] = "connect"]
      /\ library' = library + 1 /\ UNCHANGED vars /\ UNCHANGED totalWritten
  BY DEF SaveFile, Enter
<1>2. LibraryTypeOK'
  <2>1. writeSize' \in [Threads -> 0..MaxSize]
    BY DEF SaveFile, LibraryTypeOK
  <2>2. library' \in Nat /\ saving' \in [Threads -> SavingSteps]
    BY <1>1 DEF LibraryTypeOK, SavingSteps
  <2>3. totalWritten' \in [Threads -> 0..MaxSize] /\ TypeOK'
    BY <1>1, ThreadFrame DEF LibraryTypeOK
  <2> QED BY <2>1, <2>2, <2>3 DEF LibraryTypeOK
<1>3. Holding' = Holding \cup {t} /\ t \notin Holding
  BY <1>1 DEF Holding, InSession, LibraryTypeOK
<1>4. Cardinality(Holding') = Cardinality(Holding) + 1
  BY <1>3, HoldingFinite, FS_AddElement
<1>5. library \in Nat
  BY DEF LibraryTypeOK
<1>6. CleanedUp' = CleanedUp /\ n' = n /\ library' > 0
  BY <1>1, <1>5, ThreadFrame
<1>7. Cardinality(Holding) \in Nat
  BY HoldingFinite
<1>8. CountInv'
  BY <1>1, <1>4, <1>5, <1>6, <1>7 DEF CountInv
<1> QED BY <1>2, <1>8

\* Steps that leave the holders as they are and do not lower the count.
LEMMA HoldersStay ==
  ASSUME LibraryInv, LibraryTypeOK', Holding' = Holding, UNCHANGED vars,
         library' = library \/ (Holding # {} /\ library' = AfterSessionInit(library)),
         \A t \in Threads : Ended(t) => Ended(t)'
  PROVE  CountInv'
<1> USE DEF LibraryInv
<1>1. library \in Nat
  BY DEF LibraryTypeOK
<1>2. library' >= library
  BY <1>1 DEF AfterSessionInit
<1>3. n = 0 => library' = library
  BY <1>1, HoldingFinite DEF CountInv, AfterSessionInit
<1>4. library' \in Nat
  BY DEF LibraryTypeOK
<1> QED BY <1>1, <1>2, <1>3, <1>4, HoldingFinite, ThreadFrame DEF CountInv

\* SaveFile gives its count back when it ends.
LEMMA ExitCounts ==
  ASSUME LibraryInv, NEW t \in Threads, InSession(t), LibraryTypeOK', UNCHANGED vars,
         Holding' = Holding \ {t}, Ended(t)', library' = AfterExit(library)
  PROVE  CountInv'
<1> USE DEF LibraryInv
<1>1. library \in Nat /\ t \in Holding
  BY DEF LibraryTypeOK, Holding
<1>2. Cardinality(Holding') = Cardinality(Holding) - 1 /\ Cardinality(Holding) > 0
  BY <1>1, HoldingFinite, FS_RemoveElement
<1> QED BY <1>1, <1>2, HoldingFinite, ThreadFrame DEF CountInv, AfterExit

LEMMA ThreadCounts ==
  ASSUME LibraryInv, NEW t \in Threads, SaveFileRejects(t) \/ SaveFileStep(t)
  PROVE  LibraryTypeOK' /\ CountInv'
<1> USE DEF LibraryInv
<1>1. CASE SaveFileRejects(t)
  <2>1. LibraryTypeOK'
    BY <1>1, ThreadFrame DEF SaveFileRejects, Enter, LibraryTypeOK, SavingSteps
  <2>2. Holding' = Holding /\ \A u \in Threads : Ended(u) => Ended(u)'
    BY <1>1 DEF SaveFileRejects, Enter, Holding, InSession, Ended, LibraryTypeOK
  <2> QED BY <1>1, <2>1, <2>2, HoldersStay DEF SaveFileRejects
<1>2. CASE Connect(t)
  <2>1. LibraryTypeOK'
    BY <1>2, ThreadFrame DEF Connect, Enter, LibraryTypeOK, SavingSteps, AfterSessionInit
  <2>2. t \in Holding /\ Holding' = Holding /\ \A u \in Threads : Ended(u) => Ended(u)'
    BY <1>2 DEF Connect, Enter, Holding, InSession, Ended, LibraryTypeOK
  <2> QED BY <1>2, <2>1, <2>2, HoldersStay DEF Connect
<1>3. CASE SessionFails(t) \/ WriteEnds(t)
  <2>1. /\ InSession(t) /\ UNCHANGED vars /\ library' = AfterExit(library)
        /\ saving' = [saving EXCEPT ![t] = "threw"] \/ saving' = [saving EXCEPT ![t] = "saved"]
        /\ UNCHANGED <<writeSize, totalWritten>>
    BY <1>3 DEF SessionFails, WriteEnds, Enter, InSession
  <2>2. LibraryTypeOK'
    BY <2>1, ThreadFrame DEF LibraryTypeOK, SavingSteps, AfterExit
  <2>3. Holding' = Holding \ {t} /\ Ended(t)'
    BY <2>1 DEF Holding, InSession, Ended, LibraryTypeOK
  <2> QED BY <2>1, <2>2, <2>3, ExitCounts
<1>4. CASE SessionOpens(t)
  <2>1. LibraryTypeOK'
    BY <1>4, ThreadFrame DEF SessionOpens, Enter, LibraryTypeOK, SavingSteps
  <2>2. Holding' = Holding /\ \A u \in Threads : Ended(u) => Ended(u)'
    BY <1>4 DEF SessionOpens, Enter, Holding, InSession, Ended, LibraryTypeOK
  <2> QED BY <1>4, <2>1, <2>2, HoldersStay DEF SessionOpens
<1>5. CASE WriteSome(t)
  <2>1. PICK k \in 1..(writeSize[t] - totalWritten[t]) :
          totalWritten' = [totalWritten EXCEPT ![t] = @ + k]
    BY <1>5 DEF WriteSome
  <2>2. totalWritten[t] + k \in 0..MaxSize
    BY MaxSizeIsNat DEF LibraryTypeOK
  <2>3. totalWritten' \in [Threads -> 0..MaxSize]
    BY <2>1, <2>2 DEF LibraryTypeOK
  <2>4. LibraryTypeOK'
    BY <1>5, <2>3, ThreadFrame DEF WriteSome, LibraryTypeOK
  <2>5. Holding' = Holding /\ \A u \in Threads : Ended(u) => Ended(u)'
    BY <1>5 DEF WriteSome, Holding, InSession, Ended
  <2> QED BY <1>5, <2>4, <2>5, HoldersStay DEF WriteSome
<1> QED BY <1>1, <1>2, <1>3, <1>4, <1>5 DEF SaveFileStep

-----------------------------------------------------------------------------
(* The theorems. *)

LEMMA InitHolds ==
  ASSUME LibraryInit
  PROVE  LibraryInv
<1> USE DEF LibraryInit, Init
<1>1. TypeOK
  <2>1. n \in 0..MaxFiles /\ next \in 1..(MaxFiles + 1) /\ remainingWrites \in 0..MaxFiles
        /\ saveLocation \in 0..MaxFiles
    BY MaxFilesIsPositive
  <2>2. size \in [Files -> 0..MaxSize] /\ written \in [Files -> Nat]
        /\ \A f \in Files : written[f] <= size[f]
    BY MaxSizeIsNat
  <2> QED BY <2>1, <2>2 DEF TypeOK, Steps
<1>2. LoopInv
  BY MaxFilesIsPositive DEF LoopInv, Files
<1>3. Pending = {}
  BY DEF Pending
<1>4. AnswerInv
  BY <1>3, FS_EmptySet DEF AnswerInv
<1>5. \A f \in Files : UploadInv(f)
  BY DEF UploadInv, Files, Cleaned
<1>6. LibraryTypeOK
  BY <1>1, MaxSizeIsNat DEF LibraryTypeOK, SavingSteps
<1>7. Holding = {} /\ ~CleanedUp /\ ~Begun
  BY DEF Holding, InSession, CleanedUp, Begun, Cleaned
<1>8. CountInv
  BY <1>7, FS_EmptySet DEF CountInv
<1> QED BY <1>1, <1>2, <1>4, <1>5, <1>6, <1>8 DEF LibraryInv, SaverInv

LEMMA LibraryKeeps ==
  ASSUME LibraryInv, [LibraryNext]_allVars
  PROVE  LibraryInv' /\ [Next]_vars
<1>1. [Next]_vars
  BY DEF LibraryNext, allVars, SaverStep, SaveFileRejects, SaveFile, SaveFileStep, Connect,
         SessionFails, SessionOpens, WriteSome, WriteEnds
<1>2. SaverInv'
  BY <1>1, SaverKeeps DEF LibraryInv
<1>3. CASE UNCHANGED allVars
  <2>1. UNCHANGED vars /\ UNCHANGED <<library, saving, writeSize, totalWritten>>
    BY <1>3 DEF allVars, blocking
  <2>2. LibraryTypeOK'
    BY <2>1, ThreadFrame DEF LibraryInv, LibraryTypeOK
  <2>3. Holding' = Holding /\ \A u \in Threads : Ended(u) => Ended(u)'
    BY <2>1 DEF Holding, InSession, Ended
  <2> QED BY <1>1, <1>2, <2>1, <2>2, <2>3, HoldersStay DEF LibraryInv
<1> QED BY <1>1, <1>2, <1>3, SaverCounts, SaveFileCounts, ThreadCounts DEF LibraryNext, LibraryInv

\* The inductive invariant holds in every reachable state, and the composition lets
\* SFTPSaver take only its own steps.
THEOREM LibraryInvariant == LibrarySpec => []LibraryInv /\ [][Next]_vars
<1>1. LibraryInit => LibraryInv
  BY InitHolds
<1>2. LibraryInv /\ [LibraryNext]_allVars => LibraryInv' /\ [Next]_vars
  BY LibraryKeeps
<1> QED BY <1>1, <1>2, PTL DEF LibrarySpec

\* SFTPSaver calls handle_write only after every upload of the save has ended, for any
\* number of files and any way their uploads fail.
THEOREM AnswerFollowsUploads == LibrarySpec => []AnsweredAfterAllUploads
<1>1. LibraryInv => AnsweredAfterAllUploads
  <2> SUFFICES ASSUME SaverInv, answers = <<"written">>
               PROVE  next = n + 1 /\ \A f \in 1..n : step[f] = "ended"
    BY DEF LibraryInv, AnsweredAfterAllUploads
  <2>1. n \in Nat /\ next \in Nat /\ 1..n \subseteq Files /\ next <= n + 1
    BY MaxFilesIsPositive DEF SaverInv, TypeOK, LoopInv, Files
  <2>2. answers # << >> /\ answers # <<"rejected">>
    OBVIOUS
  <2>3. Pending = {} /\ n > 0
    BY <2>1, <2>2 DEF SaverInv, AnswerInv
  <2>4. \A f \in 1..n : step[f] = "ended"
    BY <2>3 DEF Pending
  <2>5. n \in Files /\ step[n] = "ended"
    BY <2>1, <2>3, <2>4
  <2>6. ~(n >= next)
    BY <2>5 DEF SaverInv, LoopInv
  <2> QED BY <2>1, <2>4, <2>6
<1> QED BY <1>1, LibraryInvariant, PTL

\* An upload of SFTPSaver that opened its file runs StartSFTPCleanup on every path and
\* never before its last use of the session, whatever libssh2 then makes of it.
THEOREM CleanupFollowsOpen == LibrarySpec => []CleanedUpOnceOpen
<1>1. LibraryInv => CleanedUpOnceOpen
  BY DEF LibraryInv, SaverInv, LoopInv, TypeOK, Steps, UploadInv, CleanedUpOnceOpen, Cleaned
<1> QED BY <1>1, LibraryInvariant, PTL

\* What SaveFile and the uploads do to libssh2's count, for any number of threads.
THEOREM LibraryIsAccounted == LibrarySpec => []LibraryAccounted
<1>1. ASSUME LibraryInv PROVE LibraryAccounted
  <2>1. SaveFileBalanced
    BY <1>1 DEF LibraryInv, CountInv, SaveFileBalanced, Holding
  <2>2. ASSUME library = 0, NEW t \in Threads, saving[t] = "connect" \/ InSession(t)
        PROVE  CleanedUp
    <3>1. t \in Holding
      BY <2>2 DEF Holding
    <3>2. Cardinality(Holding) \in Nat /\ Cardinality(Holding) # 0
      BY <3>1, HoldingFinite
    <3> QED BY <1>1, <2>2, <3>2 DEF LibraryInv, CountInv
  <2>3. ASSUME library = 0, Live # {} PROVE CleanedUp \/ \E t \in Threads : Ended(t)
    <3>1. Begun
      BY <2>3 DEF Live, Begun
    <3> QED BY <1>1, <2>3, <3>1 DEF LibraryInv, CountInv
  <2> QED BY <2>1, <2>2, <2>3 DEF LibraryAccounted, DownOnlyByUploads, CleanedUp
<1> QED BY <1>1, LibraryInvariant, PTL

\* SFTPSaver implements the contract OneShot: one answer for a save of any number of files.
THEOREM SaveImplementsOneShot == LibrarySpec => SaveAnsweredOnce
<1>1. LibraryInit => Contract!Init
  BY DEF LibraryInit, Init, Contract!Init
<1>2. LibraryInv /\ [Next]_vars => [Contract!Next]_answers
  BY AnswersOnce DEF LibraryInv, Contract!Next, Contract!Answer
<1> QED BY <1>1, <1>2, LibraryInvariant, PTL DEF LibrarySpec, SaveAnsweredOnce, Contract!Spec
=============================================================================
