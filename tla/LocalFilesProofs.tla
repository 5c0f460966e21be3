-------------------------- MODULE LocalFilesProofs --------------------------
(***************************************************************************)
(* Proofs about LocalFiles, for any number of calls, files and chunks:     *)
(* FileManager's counter is exact, a save is answered after its writes,    *)
(* and stopping the context cuts off only what a save abandoned.           *)
(***************************************************************************)
EXTENDS LocalFiles, FiniteSetTheorems, TLAPS

Unanswered == {o \in Ops : phase[o] # "idle" /\ answers[o] = << >>}

\* remainingWrites counts the files the loop has not opened and the writes in progress.
WritesAccounted(o) ==
  /\ next[o] <= n[o] + 1
  /\ writing[o] \subseteq 1..(next[o] - 1)
  /\ remainingWrites[o] = n[o] - next[o] + 1 + Cardinality(writing[o])

\* What a call has in progress, and that it is not answered before that has ended; a
\* loop that was left early keeps the count of remainingWrites above zero for ever.
CallInv(o) ==
  /\ phase[o] \in {"idle", "reading", "unreadable"} => writing[o] = {} /\ n[o] = 0 /\ next[o] = 1
  /\ phase[o] \in {"idle", "reading"} => answers[o] = << >>
  /\ phase[o] \in {"looping", "returned"} /\ remainingWrites[o] > 0 => answers[o] = << >>
  /\ phase[o] \in {"openFailed", "threw"} /\ writing[o] # {} => next[o] <= n[o]
  /\ posted[o] => phase[o] \in {"unreadable", "openFailed"} /\ answers[o] = << >>

\* The counter, and when the context is stopped.
CounterInv ==
  /\ \A o \in Ops : Len(answers[o]) <= 1
  /\ outstandingOperations_ = Cardinality(Unanswered)
  /\ stopped => Unanswered = {}

\* The inductive invariant.
LocalInv ==
  /\ TypeOK
  /\ \A o \in Ops : WritesAccounted(o) /\ CallInv(o)
  /\ CounterInv

-----------------------------------------------------------------------------
(* The counter. *)

LEMMA UnansweredFinite ==
  /\ IsFiniteSet(Unanswered) /\ Cardinality(Unanswered) \in Nat
  /\ Cardinality(Unanswered) = 0 <=> Unanswered = {}
<1>1. Unanswered \subseteq Ops
  BY DEF Unanswered
<1>2. IsFiniteSet(Unanswered)
  BY <1>1, OpsFinite, FS_Subset
<1> QED BY <1>2, FS_CardinalityType, FS_EmptySet

LEMMA BeginTypes ==
  ASSUME LocalInv, NEW o \in Ops, Begin(o)
  PROVE  outstandingOperations_' \in Int /\ stopped' \in BOOLEAN
<1>1. outstandingOperations_ \in Int
  BY DEF LocalInv, TypeOK
<1>2. outstandingOperations_' \in Int
  BY <1>1 DEF Begin
<1>3. stopped' \in BOOLEAN
  BY Zenon DEF Begin
<1> QED BY <1>2, <1>3

\* A call that begins is one more without an answer.
LEMMA BeginCounts ==
  ASSUME LocalInv, NEW o \in Ops, Begin(o), phase' \in [Ops -> Phases], phase'[o] # "idle",
         \A q \in Ops \ {o} : phase'[q] = phase[q]
  PROVE  CounterInv'
<1>1. o \notin Unanswered /\ answers[o] = << >>
  BY DEF Begin, Unanswered, LocalInv, CallInv
<1>2. Unanswered' = Unanswered \cup {o}
  BY <1>1 DEF Begin, Unanswered
<1>3. Cardinality(Unanswered') = Cardinality(Unanswered) + 1
  BY <1>1, <1>2, UnansweredFinite, FS_AddElement
<1> QED BY <1>3 DEF Begin, LocalInv, CounterInv

\* An answer to a call that had none gives one count back, and stops the context at zero.
LEMMA AnswerCounts ==
  ASSUME LocalInv, NEW o \in Unanswered, NEW a \in Answers, Answer(o, a),
         phase' \in [Ops -> Phases], phase'[o] # "idle",
         \A q \in Ops \ {o} : phase'[q] = phase[q]
  PROVE  /\ CounterInv'
         /\ answers' \in [Ops -> Seq(Answers)]
         /\ answers'[o] # << >> /\ \A q \in Ops \ {o} : answers'[q] = answers[q]
         /\ outstandingOperations_' \in Int /\ stopped' \in BOOLEAN
<1>0. o \in Ops /\ answers[o] = << >> /\ answers \in [Ops -> Seq(Answers)]
  BY DEF Unanswered, LocalInv, TypeOK
<1>1. answers'[o] = <<a>>
  BY <1>0 DEF Answer
<1>2. \A q \in Ops \ {o} : answers'[q] = answers[q]
  BY <1>0 DEF Answer
<1>3. answers' \in [Ops -> Seq(Answers)]
  BY <1>0 DEF Answer
<1>4. Unanswered' = Unanswered \ {o}
  <2>1. answers'[o] # << >>
    BY <1>1
  <2>2. \A q \in Ops : q \in Unanswered' <=> q \in Unanswered \ {o}
    BY <1>0, <1>2, <2>1 DEF Unanswered
  <2>3. Unanswered \subseteq Ops /\ Unanswered' \subseteq Ops
    BY DEF Unanswered
  <2> QED BY <2>2, <2>3
<1>5. Cardinality(Unanswered') = Cardinality(Unanswered) - 1
  BY <1>4, UnansweredFinite, FS_RemoveElement
<1>6. Cardinality(Unanswered) > 0
  BY UnansweredFinite
<1>7. Cardinality(Unanswered) = 1 => Unanswered' = {}
  BY <1>4, <1>5, UnansweredFinite, FS_RemoveElement, FS_EmptySet
<1>8. ~stopped
  BY DEF LocalInv, CounterInv
<1>9. outstandingOperations_ = Cardinality(Unanswered) /\ Cardinality(Unanswered) \in Nat
  BY UnansweredFinite DEF LocalInv, CounterInv
<1>10. outstandingOperations_' = Cardinality(Unanswered')
  BY <1>5, <1>6, <1>9 DEF Answer
<1>11. stopped' => Unanswered' = {}
  <2>1. outstandingOperations_ <= 1 => Unanswered' = {}
    BY <1>6, <1>7, <1>9
  <2> QED BY <1>8, <2>1 DEF Answer
<1>12. \A q \in Ops : Len(answers'[q]) <= 1
  <2>1. Len(answers'[o]) <= 1
    BY <1>1
  <2>2. ASSUME NEW q \in Ops, q # o PROVE Len(answers'[q]) <= 1
    BY <1>2, <2>2 DEF LocalInv, CounterInv
  <2> QED BY <2>1, <2>2
<1>13. outstandingOperations_' \in Int /\ stopped' \in BOOLEAN
  BY <1>9 DEF Answer
<1> QED BY <1>1, <1>2, <1>3, <1>10, <1>11, <1>12, <1>13 DEF CounterInv

\* A step that answers nobody and begins nothing.
LEMMA QuietCounts ==
  ASSUME LocalInv, UNCHANGED same, \A q \in Ops : phase'[q] = "idle" <=> phase[q] = "idle"
  PROVE  CounterInv'
BY DEF LocalInv, CounterInv, same, Unanswered
-----------------------------------------------------------------------------
(* Every step keeps the invariant. *)

LEMMA WritingFinite ==
  ASSUME LocalInv, NEW o \in Ops
  PROVE  /\ IsFiniteSet(writing[o]) /\ Cardinality(writing[o]) \in Nat
         /\ Cardinality(writing[o]) = 0 <=> writing[o] = {}
<1>1. writing[o] \subseteq 1..MaxFiles /\ MaxFiles \in Nat
  BY BoundsArePositive DEF LocalInv, TypeOK, Files
<1>2. IsFiniteSet(writing[o])
  <2>1. IsFiniteSet(1..MaxFiles)
    BY <1>1, FS_Interval
  <2> QED BY <1>1, <2>1, FS_Subset
<1> QED BY <1>2, FS_CardinalityType, FS_EmptySet

\* The state of one call.
Own(q) == <<phase[q], n[q], next[q], writing[q], remainingWrites[q], posted[q], answers[q]>>

LEMMA OthersKept ==
  ASSUME LocalInv, NEW o \in Ops, \A q \in Ops \ {o} : Own(q)' = Own(q),
         WritesAccounted(o)', CallInv(o)'
  PROVE  \A q \in Ops : WritesAccounted(q)' /\ CallInv(q)'
BY DEF LocalInv, Own, WritesAccounted, CallInv

LEMMA LoadASyncStep ==
  ASSUME LocalInv, NEW o \in Ops, LoadASync(o)
  PROVE  LocalInv'
<1> USE DEF LocalInv
<1>1. Begin(o) /\ UNCHANGED <<n, next, writing, remainingWrites, answers>>
  BY DEF LoadASync, Begin
<1>2. phase' \in [Ops -> Phases] /\ posted' \in [Ops -> BOOLEAN]
  BY DEF LoadASync, Goto, Phases, TypeOK
<1>3. left' \in [Ops -> [Files -> 0..MaxChunks]]
  <2>1. 1 \in Files
    BY BoundsArePositive DEF Files
  <2>2. CASE UNCHANGED left
    BY <2>2 DEF TypeOK
  <2>3. ASSUME NEW k \in 1..MaxChunks, left' = [left EXCEPT ![o][1] = k]
        PROVE  left' \in [Ops -> [Files -> 0..MaxChunks]]
    BY <2>1, <2>3, BoundsArePositive DEF TypeOK
  <2> QED BY <2>2, <2>3 DEF LoadASync
<1>4. TypeOK'
  BY <1>1, <1>2, <1>3, BeginTypes DEF TypeOK
<1>5. /\ phase'[o] \in {"reading", "unreadable"}
      /\ posted'[o] => phase'[o] = "unreadable"
      /\ phase[o] = "idle" /\ answers[o] = << >>
  BY DEF LoadASync, Goto, TypeOK, Begin, CallInv
<1>6. \A q \in Ops \ {o} : Own(q)' = Own(q)
  BY <1>1 DEF LoadASync, Goto, TypeOK, Own
<1>7. WritesAccounted(o)' /\ CallInv(o)'
  BY <1>1, <1>5 DEF WritesAccounted, CallInv
<1>8. CounterInv'
  BY <1>1, <1>2, <1>5, <1>6, BeginCounts DEF Own
<1> QED BY <1>4, <1>6, <1>7, <1>8, OthersKept

LEMMA ReadHandlerStep ==
  ASSUME LocalInv, NEW o \in Ops, ReadHandler(o)
  PROVE  LocalInv'
<1> USE DEF LocalInv
<1>1. o \in Unanswered /\ phase[o] = "reading"
  BY DEF ReadHandler, Unanswered, CallInv
<1>2. phase' = [phase EXCEPT ![o] = "returned"] /\ phase' \in [Ops -> Phases]
  BY DEF ReadHandler, Goto, Phases, TypeOK
<1>3. PICK a \in Answers : Answer(o, a)
  BY DEF ReadHandler, Answers
<1>4. /\ CounterInv' /\ answers' \in [Ops -> Seq(Answers)]
      /\ answers'[o] # << >> /\ \A q \in Ops \ {o} : answers'[q] = answers[q]
      /\ outstandingOperations_' \in Int /\ stopped' \in BOOLEAN
  BY <1>1, <1>2, <1>3, AnswerCounts DEF TypeOK
<1>5. left' \in [Ops -> [Files -> 0..MaxChunks]]
  <2>1. left' = [left EXCEPT ![o][1] = 0] /\ 0 \in 0..MaxChunks
    BY BoundsArePositive DEF ReadHandler
  <2> QED BY <2>1 DEF TypeOK
<1>6. TypeOK'
  BY <1>2, <1>4, <1>5 DEF TypeOK, ReadHandler
<1>7. \A q \in Ops \ {o} : Own(q)' = Own(q)
  BY <1>2, <1>4 DEF ReadHandler, TypeOK, Own
<1>8. WritesAccounted(o)' /\ CallInv(o)'
  <2>1. WritesAccounted(o) /\ CallInv(o)
    OBVIOUS
  <2>2. n[o] = 0 /\ next[o] = 1 /\ writing[o] = {} /\ ~posted[o]
    BY <1>1, <2>1 DEF CallInv
  <2>3. remainingWrites[o] = 0
    BY <2>1, <2>2, FS_EmptySet DEF WritesAccounted
  <2>4. UNCHANGED <<n, next, writing, remainingWrites, posted>> /\ phase'[o] = "returned"
    BY <1>2 DEF ReadHandler, TypeOK
  <2> QED BY <2>1, <2>2, <2>3, <2>4 DEF WritesAccounted, CallInv
<1> QED BY <1>4, <1>6, <1>7, <1>8, OthersKept

LEMMA SaveASyncStep ==
  ASSUME LocalInv, NEW o \in Ops, SaveASync(o)
  PROVE  LocalInv'
<1> USE DEF LocalInv
<1>1. /\ Begin(o) /\ UNCHANGED <<next, left, writing, posted, answers>>
      /\ phase' = [phase EXCEPT ![o] = "looping"] /\ phase' \in [Ops -> Phases]
  BY DEF SaveASync, Begin, Goto, Phases, TypeOK
<1>2. PICK k \in 0..MaxFiles :
        n' = [n EXCEPT ![o] = k] /\ remainingWrites' = [remainingWrites EXCEPT ![o] = k]
  BY DEF SaveASync
<1>3. TypeOK'
  <2>1. n' \in [Ops -> 0..MaxFiles] /\ remainingWrites' \in [Ops -> 0..MaxFiles]
    BY <1>2 DEF TypeOK
  <2> QED BY <1>1, <2>1, BeginTypes DEF TypeOK
<1>4. \A q \in Ops \ {o} : Own(q)' = Own(q)
  BY <1>1, <1>2 DEF TypeOK, Own
<1>5. phase[o] = "idle" /\ answers[o] = << >> /\ next[o] = 1 /\ writing[o] = {} /\ ~posted[o]
  BY <1>1 DEF Begin, CallInv
<1>6. WritesAccounted(o)' /\ CallInv(o)'
  BY <1>1, <1>2, <1>5, FS_EmptySet, BoundsArePositive DEF WritesAccounted, CallInv, TypeOK
<1>7. CounterInv'
  BY <1>1, <1>4, BeginCounts DEF Own, TypeOK
<1> QED BY <1>3, <1>4, <1>6, <1>7, OthersKept

LEMMA SaveASyncNullDataStep ==
  ASSUME LocalInv, NEW o \in Ops, SaveASyncNullData(o)
  PROVE  LocalInv'
<1> USE DEF LocalInv
<1>1. /\ phase[o] = "idle" /\ answers[o] = << >> /\ ~posted[o] /\ writing[o] = {}
      /\ UNCHANGED <<n, next, left, writing, remainingWrites, posted, outstandingOperations_>>
      /\ phase' = [phase EXCEPT ![o] = "threw"] /\ phase' \in [Ops -> Phases]
  BY DEF SaveASyncNullData, CallInv, loopState, Goto, Phases, TypeOK
<1>2. answers'[o] = <<"threw">> /\ \A q \in Ops \ {o} : answers'[q] = answers[q]
  BY <1>1 DEF SaveASyncNullData, TypeOK
<1>3. answers' \in [Ops -> Seq(Answers)]
  BY <1>1 DEF SaveASyncNullData, TypeOK, Answers
<1>4. TypeOK'
  BY <1>1, <1>3 DEF SaveASyncNullData, TypeOK
<1>5. \A q \in Ops \ {o} : Own(q)' = Own(q)
  BY <1>1, <1>2 DEF TypeOK, Own
<1>6. WritesAccounted(o)' /\ CallInv(o)'
  BY <1>1 DEF WritesAccounted, CallInv, TypeOK
<1>7. Unanswered' = Unanswered
  <2>1. answers'[o] # << >>
    BY <1>2
  <2>2. \A q \in Ops : q \in Unanswered' <=> q \in Unanswered
    BY <1>1, <1>2, <2>1 DEF Unanswered, TypeOK
  <2> QED BY <2>2 DEF Unanswered
<1>8. CounterInv'
  <2>1. \A q \in Ops : Len(answers'[q]) <= 1
    <3>1. Len(answers'[o]) <= 1
      BY <1>2
    <3>2. ASSUME NEW q \in Ops, q # o PROVE Len(answers'[q]) <= 1
      BY <1>2, <3>2 DEF CounterInv
    <3> QED BY <3>1, <3>2
  <2>2. stopped' => Unanswered' = {}
    <3>1. outstandingOperations_ = 0 => Unanswered = {}
      BY UnansweredFinite DEF CounterInv
    <3> QED BY <1>7, <3>1 DEF SaveASyncNullData, CounterInv
  <2> QED BY <1>1, <1>7, <2>1, <2>2 DEF CounterInv
<1> QED BY <1>4, <1>5, <1>6, <1>8, OthersKept
LEMMA StartWriteStep ==
  ASSUME LocalInv, NEW o \in Ops, StartWrite(o)
  PROVE  LocalInv'
<1> USE DEF LocalInv
<1>1. /\ phase[o] = "looping" /\ next[o] <= n[o] /\ next[o] \in Files
      /\ UNCHANGED <<phase, n, remainingWrites, posted, answers, outstandingOperations_, stopped>>
  BY BoundsArePositive DEF StartWrite, Looping, TypeOK, Files, same
<1>2. PICK k \in 1..MaxChunks : left' = [left EXCEPT ![o][next[o]] = k]
  BY DEF StartWrite
<1>3. left' \in [Ops -> [Files -> 0..MaxChunks]]
  BY <1>1, <1>2, BoundsArePositive DEF TypeOK
<1>4. /\ writing' = [writing EXCEPT ![o] = @ \cup {next[o]}]
      /\ next' = [next EXCEPT ![o] = @ + 1]
  BY DEF StartWrite
<1>5. writing' \in [Ops -> SUBSET Files] /\ next' \in [Ops -> 1..(MaxFiles + 1)]
  <2>1. next[o] + 1 \in 1..(MaxFiles + 1)
    BY <1>1, BoundsArePositive DEF Files
  <2>2. writing[o] \cup {next[o]} \in SUBSET Files
    BY <1>1 DEF TypeOK
  <2> QED BY <1>4, <2>1, <2>2 DEF TypeOK
<1>6. TypeOK'
  BY <1>1, <1>3, <1>5 DEF TypeOK
<1>7. \A q \in Ops \ {o} : Own(q)' = Own(q)
  BY <1>1, <1>4 DEF TypeOK, Own
<1>8. WritesAccounted(o)'
  <2>1. writing'[o] = writing[o] \cup {next[o]} /\ next'[o] = next[o] + 1
    BY <1>4 DEF TypeOK
  <2>2. WritesAccounted(o)
    OBVIOUS
  <2>3. next[o] \in Nat /\ n[o] \in Nat /\ remainingWrites[o] \in Nat
    BY BoundsArePositive DEF TypeOK
  <2>4. next[o] \notin writing[o]
    BY <2>2, <2>3 DEF WritesAccounted
  <2>5. Cardinality(writing'[o]) = Cardinality(writing[o]) + 1
    <3>1. IsFiniteSet(writing[o])
      BY WritingFinite
    <3> QED BY <2>1, <2>4, <3>1, FS_AddElement
  <2>6. writing'[o] \subseteq 1..(next'[o] - 1)
    BY <1>1, <2>1, <2>2, <2>3 DEF WritesAccounted, Files
  <2>7. n[o] - next[o] + 1 + Cardinality(writing[o])
          = n[o] - next'[o] + 1 + Cardinality(writing'[o])
    BY <2>1, <2>3, <2>5, WritingFinite
  <2>8. next'[o] <= n[o] + 1
    BY <1>1, <2>1, <2>3
  <2> QED BY <1>1, <2>2, <2>6, <2>7, <2>8 DEF WritesAccounted
<1>9. CallInv(o)'
  BY <1>1 DEF CallInv
<1>10. CounterInv'
  BY <1>1, QuietCounts DEF same
<1> QED BY <1>6, <1>7, <1>8, <1>9, <1>10, OthersKept

\* While there are files to open, a save has no answer.
LEMMA LoopingUnanswered ==
  ASSUME LocalInv, NEW o \in Ops, Looping(o)
  PROVE  remainingWrites[o] > 0 /\ o \in Unanswered /\ answers[o] = << >>
<1>1. WritesAccounted(o) /\ CallInv(o) /\ Cardinality(writing[o]) \in Nat
  BY WritingFinite DEF LocalInv
<1>2. next[o] \in Nat /\ n[o] \in Nat
  BY BoundsArePositive DEF LocalInv, TypeOK
<1>3. remainingWrites[o] > 0
  BY <1>1, <1>2 DEF WritesAccounted, Looping
<1> QED BY <1>1, <1>3 DEF CallInv, Looping, Unanswered

LEMMA OpenFailsStep ==
  ASSUME LocalInv, NEW o \in Ops, OpenFails(o)
  PROVE  LocalInv'
<1> USE DEF LocalInv
<1>1. /\ Looping(o) /\ answers[o] = << >>
      /\ UNCHANGED <<n, next, left, writing, remainingWrites>> /\ UNCHANGED same
      /\ phase' = [phase EXCEPT ![o] = "openFailed"]
      /\ posted' = [posted EXCEPT ![o] = TRUE]
  BY LoopingUnanswered DEF OpenFails, Goto, loopState
<1>2. TypeOK'
  BY <1>1 DEF TypeOK, Phases, same
<1>3. \A q \in Ops \ {o} : Own(q)' = Own(q)
  BY <1>1 DEF TypeOK, Own, same
<1>4. WritesAccounted(o)' /\ CallInv(o)'
  BY <1>1 DEF WritesAccounted, CallInv, Looping, TypeOK, same
<1>5. CounterInv'
  BY <1>1, QuietCounts DEF Looping, TypeOK
<1> QED BY <1>2, <1>3, <1>4, <1>5, OthersKept

LEMMA CreateDirectoriesThrowsStep ==
  ASSUME LocalInv, NEW o \in Ops, CreateDirectoriesThrows(o)
  PROVE  LocalInv'
<1> USE DEF LocalInv
<1>1. /\ Looping(o) /\ o \in Unanswered
      /\ UNCHANGED <<n, next, left, writing, remainingWrites, posted>>
      /\ phase' = [phase EXCEPT ![o] = "threw"] /\ phase' \in [Ops -> Phases]
      /\ Answer(o, "threw")
  BY LoopingUnanswered DEF CreateDirectoriesThrows, Goto, loopState, TypeOK, Phases
<1>2. /\ CounterInv' /\ answers' \in [Ops -> Seq(Answers)]
      /\ answers'[o] # << >> /\ \A q \in Ops \ {o} : answers'[q] = answers[q]
      /\ outstandingOperations_' \in Int /\ stopped' \in BOOLEAN
  BY <1>1, AnswerCounts DEF TypeOK, Answers
<1>3. TypeOK'
  BY <1>1, <1>2 DEF TypeOK
<1>4. \A q \in Ops \ {o} : Own(q)' = Own(q)
  BY <1>1, <1>2 DEF TypeOK, Own
<1>5. WritesAccounted(o)' /\ CallInv(o)'
  BY <1>1 DEF WritesAccounted, CallInv, Looping, TypeOK
<1> QED BY <1>2, <1>3, <1>4, <1>5, OthersKept

LEMMA LoopEndsStep ==
  ASSUME LocalInv, NEW o \in Ops, LoopEnds(o)
  PROVE  LocalInv'
<1> USE DEF LocalInv
<1>1. /\ phase[o] = "looping" /\ phase' = [phase EXCEPT ![o] = "returned"]
      /\ UNCHANGED <<n, next, left, writing, remainingWrites, posted>> /\ UNCHANGED same
  BY DEF LoopEnds, Goto, loopState
<1>2. TypeOK'
  BY <1>1 DEF TypeOK, Phases, same
<1>3. \A q \in Ops \ {o} : Own(q)' = Own(q)
  BY <1>1 DEF TypeOK, Own, same
<1>4. WritesAccounted(o)' /\ CallInv(o)'
  BY <1>1 DEF WritesAccounted, CallInv, TypeOK, same
<1>5. CounterInv'
  BY <1>1, QuietCounts DEF TypeOK
<1> QED BY <1>2, <1>3, <1>4, <1>5, OthersKept

LEMMA ChunkStep ==
  ASSUME LocalInv, NEW o \in Ops, NEW f \in Files, Chunk(o, f)
  PROVE  LocalInv'
<1> USE DEF LocalInv
<1>1. UNCHANGED <<phase, n, next, writing, remainingWrites, posted>> /\ UNCHANGED same
  BY DEF Chunk
<1>2. left' \in [Ops -> [Files -> 0..MaxChunks]]
  <2>1. left[o][f] - 1 \in 0..MaxChunks
    BY BoundsArePositive DEF Chunk, TypeOK
  <2> QED BY <2>1 DEF Chunk, TypeOK
<1>3. TypeOK'
  BY <1>1, <1>2 DEF TypeOK, same
<1>4. \A q \in Ops : WritesAccounted(q)' /\ CallInv(q)'
  BY <1>1 DEF WritesAccounted, CallInv, same
<1>5. CounterInv'
  BY <1>1, QuietCounts
<1> QED BY <1>3, <1>4, <1>5
LEMMA WriteHandlerStep ==
  ASSUME LocalInv, NEW o \in Ops, NEW f \in Files, WriteHandler(o, f)
  PROVE  LocalInv'
<1> USE DEF LocalInv
<1>1. /\ f \in writing[o] /\ UNCHANGED <<phase, n, next, posted>>
      /\ writing' = [writing EXCEPT ![o] = @ \ {f}]
      /\ remainingWrites' = [remainingWrites EXCEPT ![o] = @ - 1]
  BY DEF WriteHandler
<1>2. /\ WritesAccounted(o) /\ CallInv(o)
      /\ next[o] \in Nat /\ n[o] \in Nat /\ remainingWrites[o] \in 0..MaxFiles
      /\ IsFiniteSet(writing[o]) /\ Cardinality(writing[o]) \in Nat /\ Cardinality(writing[o]) # 0
  BY <1>1, WritingFinite, BoundsArePositive DEF TypeOK
<1>3. remainingWrites[o] > 0 /\ remainingWrites'[o] = remainingWrites[o] - 1
  BY <1>1, <1>2 DEF WritesAccounted, TypeOK
<1>4. writing'[o] = writing[o] \ {f} /\ Cardinality(writing'[o]) = Cardinality(writing[o]) - 1
  <2>1. writing'[o] = writing[o] \ {f}
    BY <1>1 DEF TypeOK
  <2> QED BY <1>1, <1>2, <2>1, FS_RemoveElement
<1>5. WritesAccounted(o)'
  <2>1. remainingWrites'[o] = n[o] - next[o] + 1 + Cardinality(writing'[o])
    BY <1>2, <1>3, <1>4 DEF WritesAccounted
  <2> QED BY <1>1, <1>2, <1>4, <2>1 DEF WritesAccounted
<1>6. /\ writing' \in [Ops -> SUBSET Files] /\ remainingWrites' \in [Ops -> 0..MaxFiles]
      /\ left' \in [Ops -> [Files -> 0..MaxChunks]]
  <2>1. remainingWrites[o] - 1 \in 0..MaxFiles
    BY <1>2, <1>3, BoundsArePositive
  <2>2. writing[o] \ {f} \in SUBSET Files
    BY DEF TypeOK
  <2>3. left' \in [Ops -> [Files -> 0..MaxChunks]]
    <3>1. CASE UNCHANGED left
      BY <3>1 DEF TypeOK
    <3>2. CASE left' = [left EXCEPT ![o][f] = 0]
      <4>1. 0 \in 0..MaxChunks
        BY BoundsArePositive
      <4> QED BY <3>2, <4>1 DEF TypeOK
    <3> QED BY <3>1, <3>2 DEF WriteHandler
  <2> QED BY <1>1, <2>1, <2>2, <2>3 DEF TypeOK
<1>7. \A q \in Ops \ {o} : writing'[q] = writing[q] /\ remainingWrites'[q] = remainingWrites[q]
  BY <1>1 DEF TypeOK
<1>8. CASE remainingWrites'[o] <= 0
  <2>1. remainingWrites[o] = 1 /\ Answer(o, "written")
    BY <1>2, <1>3, <1>8 DEF WriteHandler
  \* A save that left its loop has files it never opened.
  <2>2. phase[o] \in {"looping", "returned"}
    <3>1. phase[o] \in {"openFailed", "threw"} => remainingWrites[o] > 1
      BY <1>1, <1>2 DEF CallInv, WritesAccounted
    <3>2. phase[o] \notin {"idle", "reading", "unreadable"}
      BY <1>1, <1>2 DEF CallInv
    <3> QED BY <2>1, <3>1, <3>2 DEF TypeOK, Phases
  <2>3. o \in Unanswered /\ ~posted[o]
    BY <1>2, <1>3, <2>2 DEF CallInv, Unanswered
  <2>4. /\ CounterInv' /\ answers' \in [Ops -> Seq(Answers)]
        /\ answers'[o] # << >> /\ \A q \in Ops \ {o} : answers'[q] = answers[q]
        /\ outstandingOperations_' \in Int /\ stopped' \in BOOLEAN
    BY <1>1, <2>1, <2>2, <2>3, AnswerCounts DEF TypeOK, Answers
  <2>5. TypeOK'
    BY <1>1, <1>6, <2>4 DEF TypeOK
  <2>6. \A q \in Ops \ {o} : Own(q)' = Own(q)
    BY <1>1, <1>7, <2>4 DEF Own
  <2>7. CallInv(o)'
    BY <1>1, <1>3, <2>1, <2>2, <2>3 DEF CallInv
  <2> QED BY <1>5, <2>4, <2>5, <2>6, <2>7, OthersKept
<1>9. CASE ~(remainingWrites'[o] <= 0)
  <2>1. UNCHANGED same
    BY <1>9 DEF WriteHandler
  <2>2. TypeOK'
    BY <1>1, <1>6, <2>1 DEF TypeOK, same
  <2>3. \A q \in Ops \ {o} : Own(q)' = Own(q)
    BY <1>1, <1>7, <2>1 DEF Own, same
  <2>4. CallInv(o)'
    BY <1>1, <1>2, <1>3, <1>4, <2>1 DEF CallInv, same
  <2>5. CounterInv'
    BY <1>1, <2>1, QuietCounts
  <2> QED BY <1>5, <2>2, <2>3, <2>4, <2>5, OthersKept
<1> QED BY <1>8, <1>9

LEMMA RunPostedStep ==
  ASSUME LocalInv, NEW o \in Ops, RunPosted(o)
  PROVE  LocalInv'
<1> USE DEF LocalInv
<1>1. /\ phase[o] \in {"unreadable", "openFailed"} /\ o \in Unanswered
      /\ posted' = [posted EXCEPT ![o] = FALSE]
      /\ UNCHANGED <<phase, n, next, left, writing, remainingWrites>>
  BY DEF RunPosted, CallInv, Unanswered, loopState
<1>2. PICK a \in Answers : Answer(o, a)
  BY DEF RunPosted, Answers
<1>3. /\ CounterInv' /\ answers' \in [Ops -> Seq(Answers)]
      /\ answers'[o] # << >> /\ \A q \in Ops \ {o} : answers'[q] = answers[q]
      /\ outstandingOperations_' \in Int /\ stopped' \in BOOLEAN
  BY <1>1, <1>2, AnswerCounts DEF TypeOK
<1>4. TypeOK'
  <2>1. posted' \in [Ops -> BOOLEAN]
    BY <1>1 DEF TypeOK
  <2> QED BY <1>1, <1>3, <2>1 DEF TypeOK
<1>5. \A q \in Ops \ {o} : Own(q)' = Own(q)
  BY <1>1, <1>3 DEF TypeOK, Own
<1>6. WritesAccounted(o)' /\ CallInv(o)'
  BY <1>1 DEF WritesAccounted, CallInv, TypeOK
<1> QED BY <1>3, <1>4, <1>5, <1>6, OthersKept

-----------------------------------------------------------------------------
(* The theorems. *)

\* The inductive invariant holds in every reachable state.
THEOREM LocalInvariant == Spec => []LocalInv
<1>1. ASSUME Init PROVE LocalInv
  <2>1. TypeOK
    <3>1. /\ n \in [Ops -> 0..MaxFiles] /\ next \in [Ops -> 1..(MaxFiles + 1)]
          /\ left \in [Ops -> [Files -> 0..MaxChunks]] /\ remainingWrites \in [Ops -> 0..MaxFiles]
      BY <1>1, BoundsArePositive DEF Init
    <3>2. /\ phase \in [Ops -> Phases] /\ writing \in [Ops -> SUBSET Files]
          /\ posted \in [Ops -> BOOLEAN] /\ answers \in [Ops -> Seq(Answers)]
      BY <1>1 DEF Init, Phases
    <3>3. outstandingOperations_ \in Int
      BY <1>1 DEF Init
    <3>4. stopped \in BOOLEAN
      BY <1>1, Zenon DEF Init
    <3> QED BY <3>1, <3>2, <3>3, <3>4 DEF TypeOK
  <2>2. \A o \in Ops : WritesAccounted(o) /\ CallInv(o)
    BY <1>1, FS_EmptySet DEF Init, WritesAccounted, CallInv
  <2>3. Unanswered = {}
    BY <1>1 DEF Init, Unanswered
  <2>4. CounterInv
    BY <1>1, <2>3, FS_EmptySet DEF Init, CounterInv
  <2> QED BY <2>1, <2>2, <2>4 DEF LocalInv
<1>2. ASSUME LocalInv, [Next]_vars PROVE LocalInv'
  <2>1. CASE UNCHANGED vars
    BY <1>2, <2>1 DEF vars, LocalInv, TypeOK, WritesAccounted, CallInv, CounterInv, Unanswered
  <2>2. ASSUME NEW o \in Ops, LoadASync(o) \/ SaveASync(o) \/ SaveASyncNullData(o)
        PROVE  LocalInv'
    BY <1>2, <2>2, LoadASyncStep, SaveASyncStep, SaveASyncNullDataStep
  <2>3. ASSUME NEW o \in Ops, Loop(o) PROVE LocalInv'
    BY <1>2, <2>3, StartWriteStep, OpenFailsStep, CreateDirectoriesThrowsStep, LoopEndsStep DEF Loop
  <2>4. ASSUME NEW o \in Ops, Handler(o) PROVE LocalInv'
    BY <1>2, <2>4, ReadHandlerStep, RunPostedStep, ChunkStep, WriteHandlerStep DEF Handler
  <2> QED BY <1>2, <2>1, <2>2, <2>3, <2>4 DEF Next
<1> QED BY <1>1, <1>2, PTL DEF Spec

\* FileManager's counter is the number of calls without an answer, and no call has two,
\* for any number of local loads and saves whatever files do not open or cannot be written.
THEOREM CounterIsExact == Spec => []CountsUnanswered
<1>1. LocalInv => CountsUnanswered
  BY DEF LocalInv, CounterInv, CountsUnanswered, Unanswered
<1> QED BY <1>1, LocalInvariant, PTL

\* MNNSaver answers a save that opened all its files only after the last write has ended.
THEOREM AnswerFollowsWrites == Spec => []AnsweredAfterAllWrites
<1>1. LocalInv => AnsweredAfterAllWrites
  <2> SUFFICES ASSUME LocalInv, NEW o \in Ops, phase[o] \in {"looping", "returned"},
                      answers[o] = <<"written">>
               PROVE  writing[o] = {} /\ next[o] = n[o] + 1
    BY DEF AnsweredAfterAllWrites
  <2>1. WritesAccounted(o) /\ CallInv(o) /\ remainingWrites[o] \in Nat
        /\ next[o] \in Nat /\ n[o] \in Nat
    BY BoundsArePositive DEF LocalInv, TypeOK
  <2>2. answers[o] # << >>
    OBVIOUS
  <2>3. remainingWrites[o] = 0
    BY <2>1, <2>2 DEF CallInv
  <2>4. Cardinality(writing[o]) = 0 /\ next[o] = n[o] + 1
    BY <2>1, <2>3, WritingFinite DEF WritesAccounted
  <2> QED BY <2>4, WritingFinite
<1> QED BY <1>1, LocalInvariant, PTL

\* Stopping the context cuts off no read, and only writes of a save that left its loop early.
THEOREM StopCutsAbandoned == Spec => []StopCutsOnlyAbandoned
<1>1. LocalInv => StopCutsOnlyAbandoned
  <2> SUFFICES ASSUME LocalInv, stopped, NEW o \in Ops
               PROVE  /\ phase[o] # "reading"
                      /\ writing[o] # {} => phase[o] \in {"openFailed", "threw"}
    BY DEF StopCutsOnlyAbandoned
  <2>1. o \notin Unanswered /\ CallInv(o) /\ WritesAccounted(o) /\ phase[o] \in Phases
    BY DEF LocalInv, CounterInv, TypeOK
  <2>2. phase[o] # "reading"
    BY <2>1 DEF CallInv, Unanswered
  <2>3. writing[o] # {} => remainingWrites[o] > 0
    <3>1. next[o] \in Nat /\ n[o] \in Nat
      BY BoundsArePositive DEF LocalInv, TypeOK
    <3> QED BY <2>1, <3>1, WritingFinite DEF WritesAccounted
  <2> QED BY <2>1, <2>2, <2>3 DEF CallInv, Unanswered, Phases
<1> QED BY <1>1, LocalInvariant, PTL
=============================================================================
