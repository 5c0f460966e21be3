-------------------------- MODULE FileManagerProofs --------------------------
(***************************************************************************)
(* Proofs about FileManager, for any finite set of operations and any      *)
(* sets of contexts and prefixes.                                          *)
(*                                                                         *)
(* The inductive invariant is TypeOK /\ CountExact /\ NoUnderflow.         *)
(* NoUnderflow alone is not inductive: that a handler finds the counter    *)
(* above zero follows from the handler's own operation being counted.      *)
(***************************************************************************)
EXTENDS FileManager, FiniteSetTheorems, TLAPS

CountingInv == TypeOK /\ CountExact /\ NoUnderflow

-----------------------------------------------------------------------------
(* Lemmas about the set of counted operations. *)

\* The operations that hold a count are finitely many.
LEMMA CountedIsFinite ==
  IsFiniteSet(Counted) /\ Cardinality(Counted) \in Nat
<1>1. Counted \subseteq Ops
  BY DEF Counted
<1>2. IsFiniteSet(Counted)
  BY <1>1, OpsFinite, FS_Subset
<1> QED
  BY <1>2, FS_CardinalityType

\* An operation that starts to hold a count adds one (LoadASync, SaveASync).
LEMMA CountGrows ==
  ASSUME NEW o \in Ops, NEW p \in CountedPhases, phase \in [Ops -> Phases],
         phase[o] \notin CountedPhases, phase' = [phase EXCEPT ![o] = p]
  PROVE  Cardinality(Counted') = Cardinality(Counted) + 1
<1>1. Counted' = Counted \cup {o} /\ o \notin Counted
  BY DEF Counted
<1>2. Cardinality(Counted \cup {o}) = Cardinality(Counted) + 1
  BY <1>1, CountedIsFinite, FS_AddElement
<1> QED
  BY <1>1, <1>2

\* An operation that gives its count back takes one away (handle_read,
\* handle_write), and there was one to take.
LEMMA CountShrinks ==
  ASSUME NEW o \in Ops, NEW p \in Phases \ CountedPhases, phase \in [Ops -> Phases],
         phase[o] \in CountedPhases, phase' = [phase EXCEPT ![o] = p]
  PROVE  /\ Cardinality(Counted') = Cardinality(Counted) - 1
         /\ Cardinality(Counted) >= 1
<1>1. Counted' = Counted \ {o} /\ o \in Counted
  BY DEF Counted
<1>2. Cardinality(Counted) # 0
  BY <1>1, CountedIsFinite, FS_EmptySet
<1>3. Cardinality(Counted \ {o}) = Cardinality(Counted) - 1
  BY <1>1, CountedIsFinite, FS_RemoveElement
<1>4. Cardinality(Counted) >= 1
  BY <1>2, CountedIsFinite
<1> QED
  BY <1>1, <1>3, <1>4

\* A step of an operation that holds a count before and after, or neither,
\* changes nothing.
LEMMA CountStays ==
  ASSUME NEW o \in Ops, NEW p \in Phases, phase \in [Ops -> Phases],
         phase[o] \in CountedPhases <=> p \in CountedPhases,
         phase' = [phase EXCEPT ![o] = p]
  PROVE  Counted' = Counted
BY DEF Counted

-----------------------------------------------------------------------------
(* Type correctness. *)

\* An operation that leaves FileManager's hands keeps the types of phase and req.
LEMMA LeaveTypes ==
  ASSUME TypeOK, NEW o \in Ops, NEW p \in Phases \ InFlightPhases, Leave(o, p)
  PROVE  /\ phase' \in [Ops -> Phases]
         /\ req' \in [Ops -> Requests \cup {NoRequest}]
         /\ \A q \in Ops : req'[q] \in Requests <=> phase'[q] \in InFlightPhases
BY NoRequestIsFresh DEF TypeOK, Leave

\* An operation that goes in flight with request r does too.
LEMMA StartTypes ==
  ASSUME TypeOK, NEW o \in Ops, NEW p \in InFlightPhases, NEW r \in Requests,
         phase' = [phase EXCEPT ![o] = p], req' = [req EXCEPT ![o] = r]
  PROVE  /\ phase' \in [Ops -> Phases]
         /\ req' \in [Ops -> Requests \cup {NoRequest}]
         /\ \A q \in Ops : req'[q] \in Requests <=> phase'[q] \in InFlightPhases
BY DEF TypeOK, Phases, CountedPhases

\* DecrementOutstandingOperations keeps the types of what it writes.
LEMMA DecrementTypes ==
  ASSUME TypeOK, NEW n \in Int, NEW c \in Contexts,
         DecrementOutstandingOperations(n, c)
  PROVE  /\ outstandingOperations_' \in Int
         /\ stopped' \in [Contexts -> BOOLEAN]
         /\ neverHappens' \in BOOLEAN
<1>1. outstandingOperations_' \in Int
  BY DEF DecrementOutstandingOperations
<1>2. stopped' \in [Contexts -> BOOLEAN]
  BY DEF DecrementOutstandingOperations, TypeOK
<1>3. neverHappens' \in BOOLEAN
  BY DEF DecrementOutstandingOperations
<1> QED
  BY <1>1, <1>2, <1>3

\* Dispatching a handler implies the operation has a request and a context.
LEMMA DispatchedHasContext ==
  ASSUME TypeOK, NEW o \in Ops, NEW p \in InFlightPhases, Dispatches(o, p)
  PROVE  req[o] \in Requests /\ req[o].ioc \in Contexts
BY DEF TypeOK, Dispatches, Requests

LEMMA FinalCallTypes ==
  ASSUME TypeOK, NEW o \in Ops, FinalCall(o)
  PROVE  finals' \in [Ops -> Nat]
BY DEF TypeOK, FinalCall

\* TypeOK is inductive.
LEMMA TypeStep == TypeOK /\ [Next]_vars => TypeOK'
<1> SUFFICES ASSUME TypeOK, [Next]_vars PROVE TypeOK'
  OBVIOUS
<1> USE DEF counter, registry
<1>1. CASE InitializeSingletons \/ RegisterParser
  BY <1>1 DEF InitializeSingletons, RegisterParser, TypeOK
<1>2. ASSUME NEW p \in Prefixes, RegisterLoader(p) \/ RegisterSaver(p)
      PROVE  TypeOK'
  BY <1>2 DEF RegisterLoader, RegisterSaver, TypeOK
<1>3. ASSUME NEW o \in Ops, NEW p \in Prefixes,
             LoadASyncUnregistered(o, p) \/ SaveASyncUnregistered(o, p)
      PROVE  TypeOK'
  <2>1. Leave(o, "threw")
    BY <1>3 DEF LoadASyncUnregistered, SaveASyncUnregistered
  <2> QED
    BY <1>3, <2>1, LeaveTypes
    DEF LoadASyncUnregistered, SaveASyncUnregistered, TypeOK, Phases,
        CountedPhases, InFlightPhases
<1>4. ASSUME NEW o \in Ops, NEW p \in Prefixes, NEW r \in Requests, LoadASync(o, p, r)
      PROVE  TypeOK'
  <2>1. "loading" \in InFlightPhases
    BY DEF InFlightPhases
  <2>2. /\ phase' \in [Ops -> Phases]
        /\ req' \in [Ops -> Requests \cup {NoRequest}]
        /\ \A q \in Ops : req'[q] \in Requests <=> phase'[q] \in InFlightPhases
    BY <1>4, <2>1, StartTypes DEF LoadASync
  <2> QED
    BY <1>4, <2>2 DEF LoadASync, TypeOK, IncrementOutstandingOperations
<1>5. ASSUME NEW o \in Ops, NEW p \in Prefixes, LoadASyncThrows(o, p)
      PROVE  TypeOK'
  BY <1>5, LeaveTypes
  DEF LoadASyncThrows, TypeOK, Phases, CountedPhases, InFlightPhases,
      IncrementOutstandingOperations
<1>6. ASSUME NEW o \in Ops, NEW p \in Prefixes, NEW c \in Contexts, SaveASync(o, p, c)
      PROVE  TypeOK'
  <2>1. [ioc |-> c, savetype |-> NoSave, parse |-> FALSE] \in Requests
    BY DEF Requests
  <2>2. "writing" \in InFlightPhases
    BY DEF InFlightPhases
  <2>3. /\ phase' \in [Ops -> Phases]
        /\ req' \in [Ops -> Requests \cup {NoRequest}]
        /\ \A q \in Ops : req'[q] \in Requests <=> phase'[q] \in InFlightPhases
    BY <1>6, <2>1, <2>2, StartTypes DEF SaveASync
  <2>4. /\ outstandingOperations_' = outstandingOperations_ + 1
        /\ UNCHANGED <<registry, stopped, finals, neverHappens, crashed>>
    BY <1>6 DEF SaveASync, IncrementOutstandingOperations
  <2> QED
    BY <2>3, <2>4 DEF TypeOK
<1>7. ASSUME NEW o \in Ops, NEW p \in Prefixes, NEW c \in Contexts,
             SaveASyncThrows(o, p, c)
      PROVE  TypeOK'
  <2>1. outstandingOperations_ + 1 \in Int
    BY DEF TypeOK
  <2>2. Leave(o, "threw") /\ DecrementOutstandingOperations(outstandingOperations_ + 1, c)
    BY <1>7 DEF SaveASyncThrows, IncrementOutstandingOperations
  <2> QED
    BY <1>7, <2>1, <2>2, LeaveTypes, DecrementTypes
    DEF SaveASyncThrows, TypeOK, Phases, CountedPhases, InFlightPhases
<1>8. ASSUME NEW o \in Ops, HandleReadDone(o) \/ HandleWriteOfLoad(o) \/ HandleWrite(o)
      PROVE  TypeOK'
  <2>1. req[o].ioc \in Contexts
    BY <1>8, DispatchedHasContext
    DEF HandleReadDone, HandleWriteOfLoad, HandleWrite, InFlightPhases
  <2>2. /\ Leave(o, "done")
        /\ DecrementOutstandingOperations(outstandingOperations_, req[o].ioc)
        /\ FinalCall(o) \/ finals' = finals
        /\ UNCHANGED <<registry, crashed>>
    BY <1>8 DEF HandleReadDone, HandleWriteOfLoad, HandleWrite
  <2>3. outstandingOperations_ \in Int
    BY DEF TypeOK
  <2>4. finals' \in [Ops -> Nat]
    BY <2>2, FinalCallTypes DEF TypeOK
  <2> QED
    BY <2>1, <2>2, <2>3, <2>4, LeaveTypes, DecrementTypes
    DEF TypeOK, Phases, CountedPhases, InFlightPhases
<1>9. ASSUME NEW o \in Ops, HandleReadSave(o)
      PROVE  TypeOK'
  <2>1. finals' \in [Ops -> Nat]
    BY <1>9, FinalCallTypes DEF HandleReadSave
  <2> QED
    BY <1>9, <2>1
    DEF HandleReadSave, Dispatches, TypeOK, Phases, CountedPhases, InFlightPhases
<1>10. ASSUME NEW o \in Ops, HandleReadSaveThrows(o)
       PROVE  TypeOK'
  BY <1>10, LeaveTypes
  DEF HandleReadSaveThrows, TypeOK, Phases, CountedPhases, InFlightPhases
<1>11. ASSUME NEW o \in Ops, HandleReadUnregistered(o)
       PROVE  TypeOK'
  BY <1>11 DEF HandleReadUnregistered, TypeOK
<1>12. ASSUME NEW c \in Contexts, Restart(c)
       PROVE  TypeOK'
  BY <1>12 DEF Restart, TypeOK
<1>13. CASE UNCHANGED vars
  BY <1>13 DEF vars, TypeOK
<1> QED
  BY <1>1, <1>2, <1>3, <1>4, <1>5, <1>6, <1>7, <1>8, <1>9, <1>10, <1>11, <1>12, <1>13
  DEF Next, Call, Handler

\* Every reachable state is well typed, and an operation has a request exactly
\* while it is in flight: handle_read and handle_write always find the context
\* they are to stop.
THEOREM TypeCorrect == Spec => []TypeOK
<1>1. ASSUME Init PROVE TypeOK
  <2>1. phase \in [Ops -> Phases]
    BY <1>1 DEF Init, Phases
  <2>2. \A o \in Ops : req[o] \in Requests <=> phase[o] \in InFlightPhases
    BY <1>1, NoRequestIsFresh DEF Init, InFlightPhases
  <2>3. stopped \in [Contexts -> BOOLEAN] /\ neverHappens \in BOOLEAN /\ crashed \in BOOLEAN
    BY <1>1, Zenon DEF Init
  <2>4. req \in [Ops -> Requests \cup {NoRequest}] /\ finals \in [Ops -> Nat]
    BY <1>1 DEF Init
  <2> QED
    BY <1>1, <2>1, <2>2, <2>3, <2>4 DEF Init, TypeOK
<1> QED
  BY <1>1, TypeStep, PTL DEF Spec

-----------------------------------------------------------------------------
(* The counter. *)

\* What a handler that ends an operation does to the counter: its own operation
\* is counted, so the counter is above zero.
LEMMA HandlerEnds ==
  ASSUME CountingInv, NEW o \in Ops, NEW c \in Contexts, phase[o] \in CountedPhases,
         Leave(o, "done"), DecrementOutstandingOperations(outstandingOperations_, c)
  PROVE  /\ outstandingOperations_ >= 1
         /\ outstandingOperations_' = outstandingOperations_ - 1
         /\ CountExact' /\ NoUnderflow'
<1>1. "done" \in Phases \ CountedPhases
  BY DEF Phases, CountedPhases, InFlightPhases
<1>2. /\ Cardinality(Counted') = Cardinality(Counted) - 1
      /\ Cardinality(Counted) >= 1
  BY <1>1, CountShrinks DEF CountingInv, TypeOK, Leave
<1>3. outstandingOperations_ >= 1 /\ outstandingOperations_ \in Int
  BY <1>2 DEF CountingInv, TypeOK, CountExact
<1>4. outstandingOperations_' = outstandingOperations_ - 1
  BY <1>3 DEF DecrementOutstandingOperations
<1>5. ~(outstandingOperations_ <= 0)
  BY <1>3
<1>6. NoUnderflow'
  BY <1>5, Zenon DEF DecrementOutstandingOperations, CountingInv, NoUnderflow
<1> QED
  BY <1>2, <1>3, <1>4, <1>6 DEF CountingInv, CountExact

\* CountExact and NoUnderflow are inductive relative to TypeOK.
LEMMA CountingStep ==
  ASSUME CountingInv, [Next]_vars
  PROVE  CountExact' /\ NoUnderflow'
<1> USE DEF counter, registry
<1>0. /\ phase \in [Ops -> Phases]
      /\ outstandingOperations_ \in Int
      /\ CountExact /\ NoUnderflow /\ TypeOK
  BY DEF CountingInv, TypeOK
<1>a. {"idle", "done", "threw"} \cap CountedPhases = {}
  BY DEF CountedPhases, InFlightPhases
<1>b. {"loading", "storing", "writing", "lost"} \subseteq CountedPhases
  BY DEF CountedPhases, InFlightPhases
<1>c. CountedPhases \subseteq Phases /\ "threw" \in Phases
  BY DEF Phases
<1>1. CASE UNCHANGED <<phase, outstandingOperations_, neverHappens>>
  BY <1>0, <1>1 DEF CountExact, Counted, NoUnderflow
<1>2. ASSUME NEW o \in Ops, NEW p \in Prefixes,
             LoadASyncUnregistered(o, p) \/ SaveASyncUnregistered(o, p)
      PROVE  CountExact' /\ NoUnderflow'
  <2>1. phase[o] = "idle" /\ phase' = [phase EXCEPT ![o] = "threw"]
    BY <1>2 DEF LoadASyncUnregistered, SaveASyncUnregistered, Leave
  <2>2. Counted' = Counted
    BY <2>1, <1>0, <1>a, <1>c, CountStays
  <2> QED
    BY <1>0, <1>2, <2>2
    DEF LoadASyncUnregistered, SaveASyncUnregistered, CountExact, NoUnderflow
<1>3. ASSUME NEW o \in Ops, NEW p \in CountedPhases, phase[o] = "idle",
             phase' = [phase EXCEPT ![o] = p],
             outstandingOperations_' = outstandingOperations_ + 1,
             neverHappens' = neverHappens
      PROVE  CountExact' /\ NoUnderflow'
  <2>1. Cardinality(Counted') = Cardinality(Counted) + 1
    BY <1>0, <1>3, <1>a, CountGrows
  <2> QED
    BY <1>0, <1>3, <2>1 DEF CountExact, NoUnderflow
<1>4. ASSUME NEW o \in Ops, NEW p \in Prefixes, NEW r \in Requests, LoadASync(o, p, r)
      PROVE  CountExact' /\ NoUnderflow'
  BY <1>3, <1>4, <1>b DEF LoadASync, IncrementOutstandingOperations
<1>5. ASSUME NEW o \in Ops, NEW p \in Prefixes, LoadASyncThrows(o, p)
      PROVE  CountExact' /\ NoUnderflow'
  BY <1>3, <1>5, <1>b DEF LoadASyncThrows, Leave, IncrementOutstandingOperations
<1>6. ASSUME NEW o \in Ops, NEW p \in Prefixes, NEW c \in Contexts, SaveASync(o, p, c)
      PROVE  CountExact' /\ NoUnderflow'
  BY <1>3, <1>6, <1>b DEF SaveASync, IncrementOutstandingOperations
<1>7. ASSUME NEW o \in Ops, NEW p \in Prefixes, NEW c \in Contexts,
             SaveASyncThrows(o, p, c)
      PROVE  CountExact' /\ NoUnderflow'
  <2>1. phase[o] = "idle" /\ phase' = [phase EXCEPT ![o] = "threw"]
    BY <1>7 DEF SaveASyncThrows, Leave
  <2>2. Counted' = Counted
    BY <2>1, <1>0, <1>a, <1>c, CountStays
  <2>3. outstandingOperations_ >= 0
    BY <1>0, CountedIsFinite DEF CountExact
  <2>4. ~(outstandingOperations_ + 1 <= 0)
    BY <1>0, <2>3
  <2>5. /\ DecrementOutstandingOperations(outstandingOperations_ + 1, c)
        /\ outstandingOperations_' = outstandingOperations_
    BY <1>0, <1>7, <2>4
    DEF SaveASyncThrows, DecrementOutstandingOperations, IncrementOutstandingOperations
  <2>6. NoUnderflow'
    BY <1>0, <2>4, <2>5, Zenon DEF DecrementOutstandingOperations, NoUnderflow
  <2> QED
    BY <1>0, <2>2, <2>5, <2>6 DEF CountExact
<1>8. ASSUME NEW o \in Ops, HandleReadDone(o) \/ HandleWriteOfLoad(o) \/ HandleWrite(o)
      PROVE  CountExact' /\ NoUnderflow'
  <2>1. /\ \E p \in InFlightPhases : Dispatches(o, p)
        /\ Leave(o, "done")
        /\ DecrementOutstandingOperations(outstandingOperations_, req[o].ioc)
    BY <1>8 DEF HandleReadDone, HandleWriteOfLoad, HandleWrite, InFlightPhases
  <2>2. req[o].ioc \in Contexts /\ phase[o] \in CountedPhases
    BY <1>0, <2>1, DispatchedHasContext DEF Dispatches, CountedPhases
  <2> QED
    BY <2>1, <2>2, HandlerEnds
<1>9. ASSUME NEW o \in Ops, HandleReadSave(o) \/ HandleReadSaveThrows(o)
      PROVE  CountExact' /\ NoUnderflow'
  <2>1. PICK p \in {"storing", "lost"} : phase' = [phase EXCEPT ![o] = p]
    BY <1>9 DEF HandleReadSave, HandleReadSaveThrows, Leave
  <2>2. phase[o] = "loading"
    BY <1>9 DEF HandleReadSave, HandleReadSaveThrows, Dispatches
  <2>3. Counted' = Counted
    BY <2>1, <2>2, <1>0, <1>b, <1>c, CountStays
  <2> QED
    BY <1>0, <1>9, <2>3 DEF HandleReadSave, HandleReadSaveThrows, CountExact, NoUnderflow
<1> QED
  BY <1>1, <1>2, <1>4, <1>5, <1>6, <1>7, <1>8, <1>9
  DEF Next, Call, Handler, vars, InitializeSingletons, RegisterParser, RegisterLoader, RegisterSaver,
      HandleReadUnregistered, Restart

\* CountingInv holds of every behaviour.
LEMMA CountingInvariant == Spec => []CountingInv
<1>1. ASSUME Init PROVE CountExact /\ NoUnderflow
  <2>1. Counted = {}
    BY <1>1 DEF Init, Counted, CountedPhases, InFlightPhases
  <2> QED
    BY <1>1, <2>1, FS_EmptySet DEF Init, CountExact, NoUnderflow
<1>2. ASSUME CountingInv, [Next]_vars PROVE CountingInv'
  BY <1>2, TypeStep, CountingStep DEF CountingInv
<1>3. TypeOK /\ CountExact /\ NoUnderflow => CountingInv
  BY DEF CountingInv
<1>4. Init /\ TypeOK => CountingInv
  BY <1>1, <1>3
<1> QED
  BY <1>2, <1>4, TypeCorrect, PTL DEF Spec

\* The counter always equals the number of operations that hold a count, however
\* loads, saves after loads, failures and exceptions interleave.
THEOREM CounterIsExact == Spec => []CountExact
BY CountingInvariant, PTL DEF CountingInv

\* The branch logged as "This should never happen" is unreachable as long as every
\* loader and saver invokes its handler once.
THEOREM CounterNeverUnderflows == Spec => []NoUnderflow
BY CountingInvariant, PTL DEF CountingInv

-----------------------------------------------------------------------------
(* Stopping contexts. *)

\* A counter that reaches zero means no operation is in flight any more.
LEMMA ZeroMeansIdle ==
  ASSUME CountExact', outstandingOperations_' = 0
  PROVE  InFlight' = {}
<1>1. Counted' \subseteq Ops
  BY DEF Counted
<1>2. IsFiniteSet(Counted')
  BY <1>1, OpsFinite, FS_Subset
<1>3. Counted' = {}
  BY <1>2, FS_EmptySet DEF CountExact
<1> QED
  BY <1>3 DEF Counted, InFlight, CountedPhases

\* A context goes from running to stopped only in a step that empties the counter.
LEMMA StopNeedsZero ==
  ASSUME CountingInv, [Next]_vars,
         NEW c \in Contexts, ~stopped[c], stopped'[c]
  PROVE  outstandingOperations_' = 0
<1> USE DEF counter, registry
<1>0. TypeOK /\ outstandingOperations_ \in Int /\ CountExact
  BY DEF CountingInv, TypeOK
<1>1. ~UNCHANGED stopped
  OBVIOUS
<1>2. outstandingOperations_ >= 0
  BY <1>0, CountedIsFinite DEF CountExact
<1>3. ASSUME NEW d \in Contexts, NEW n \in Int, n >= 1,
             DecrementOutstandingOperations(n, d)
      PROVE  outstandingOperations_' = 0
  BY <1>1, <1>3 DEF DecrementOutstandingOperations
<1>4. ASSUME NEW o \in Ops, NEW p \in Prefixes, NEW d \in Contexts,
             SaveASyncThrows(o, p, d)
      PROVE  outstandingOperations_' = 0
  BY <1>0, <1>2, <1>3, <1>4 DEF SaveASyncThrows, IncrementOutstandingOperations
<1>5. ASSUME NEW o \in Ops, HandleReadDone(o) \/ HandleWriteOfLoad(o) \/ HandleWrite(o)
      PROVE  outstandingOperations_' = 0
  <2>1. /\ \E p \in InFlightPhases : Dispatches(o, p)
        /\ Leave(o, "done")
        /\ DecrementOutstandingOperations(outstandingOperations_, req[o].ioc)
    BY <1>5 DEF HandleReadDone, HandleWriteOfLoad, HandleWrite, InFlightPhases
  <2>2. req[o].ioc \in Contexts /\ phase[o] \in CountedPhases
    BY <1>0, <2>1, DispatchedHasContext DEF Dispatches, CountedPhases
  <2>3. outstandingOperations_ >= 1
    BY <2>1, <2>2, HandlerEnds
  <2> QED
    BY <1>0, <1>3, <2>1, <2>2, <2>3
<1>6. ASSUME NEW d \in Contexts, Restart(d) PROVE FALSE
  BY <1>0, <1>6 DEF Restart, TypeOK
<1> QED
  BY <1>1, <1>4, <1>5, <1>6
  DEF Next, Call, Handler, vars, InitializeSingletons, RegisterParser, RegisterLoader, RegisterSaver,
      LoadASyncUnregistered, LoadASync, LoadASyncThrows, SaveASyncUnregistered,
      SaveASync, HandleReadSave, HandleReadSaveThrows, HandleReadUnregistered

\* DecrementOutstandingOperations never stops a context while an operation is in
\* flight on any context, so no completion handler is stranded by the stop.
THEOREM StopsStrandNothing == Spec => StopStrandsNothing
<1>1. ASSUME CountingInv, CountingInv', [Next]_vars
      PROVE  [(\E c \in Contexts : ~stopped[c] /\ stopped'[c]) => InFlight' = {}]_vars
  <2>1. CountExact'
    BY <1>1 DEF CountingInv
  <2> QED
    BY <1>1, <2>1, StopNeedsZero, ZeroMeansIdle
<1> QED
  BY <1>1, CountingInvariant, PTL DEF Spec, StopStrandsNothing

\* When the last operation completes the context it ran on is stopped at once.
THEOREM LastCompletionStops == Spec => LastOneStops
<1> DEFINE P == \A o \in InFlight : Counted' = {} => stopped'[req[o].ioc]
<1>1. ASSUME CountingInv, Next PROVE P
  <2> SUFFICES ASSUME NEW o \in InFlight, Counted' = {}
               PROVE  stopped'[req[o].ioc]
    OBVIOUS
  <2> USE DEF counter, registry
  <2>0. TypeOK /\ CountExact /\ o \in Ops
    BY <1>1 DEF CountingInv, InFlight
  <2>1. phase[o] \in CountedPhases /\ phase'[o] \notin CountedPhases
    BY <2>0 DEF InFlight, Counted, CountedPhases
  <2>2. phase[o] # "idle"
    BY <2>1 DEF CountedPhases, InFlightPhases
  <2>3. HandleReadDone(o) \/ HandleWriteOfLoad(o) \/ HandleWrite(o)
    <3>1. ASSUME NEW q \in Ops, NEW p, phase' = [phase EXCEPT ![q] = p], q # o
          PROVE  FALSE
      BY <2>0, <2>1, <3>1 DEF TypeOK
    <3>2. ~UNCHANGED phase
      BY <2>1
    <3>3. ASSUME NEW q \in Ops, Call(q) PROVE FALSE
      <4>1. phase[q] = "idle" /\ \E p : phase' = [phase EXCEPT ![q] = p]
        BY <3>3 DEF Call, LoadASyncUnregistered, LoadASync, LoadASyncThrows,
           SaveASyncUnregistered, SaveASync, SaveASyncThrows, Leave
      <4> QED
        BY <2>2, <3>1, <4>1
    <3>4. PICK q \in Ops : Handler(q)
      BY <1>1, <3>2, <3>3
      DEF Next, InitializeSingletons, RegisterParser, RegisterLoader, RegisterSaver, Restart
    <3>5. q = o
      BY <3>1, <3>2, <3>4
      DEF Handler, HandleReadDone, HandleReadSave, HandleReadSaveThrows,
          HandleReadUnregistered, HandleWriteOfLoad, HandleWrite, Leave
    <3>6. ~HandleReadSave(o) /\ ~HandleReadSaveThrows(o)
      BY <2>0, <2>1
      DEF HandleReadSave, HandleReadSaveThrows, Leave, TypeOK, CountedPhases, InFlightPhases
    <3> QED
      BY <3>2, <3>4, <3>5, <3>6 DEF Handler, HandleReadUnregistered
  <2>4. /\ \E p \in InFlightPhases : Dispatches(o, p)
        /\ Leave(o, "done")
        /\ DecrementOutstandingOperations(outstandingOperations_, req[o].ioc)
    BY <2>3 DEF HandleReadDone, HandleWriteOfLoad, HandleWrite, InFlightPhases
  <2>5. req[o].ioc \in Contexts
    BY <2>0, <2>4, DispatchedHasContext
  <2>6. /\ outstandingOperations_' = outstandingOperations_ - 1
        /\ CountExact'
    BY <1>1, <2>0, <2>1, <2>4, <2>5, HandlerEnds
  <2>7. outstandingOperations_ \in Int /\ outstandingOperations_' = 0
    BY <2>0, <2>6, FS_EmptySet DEF CountExact, TypeOK
  <2>8. outstandingOperations_ = 1
    BY <2>6, <2>7
  <2> QED
    BY <2>0, <2>4, <2>5, <2>8 DEF DecrementOutstandingOperations, TypeOK
<1>2. ASSUME CountingInv, [Next]_vars PROVE [P]_vars
  BY <1>1, <1>2
<1> QED
  BY <1>2, CountingInvariant, PTL DEF Spec, LastOneStops

-----------------------------------------------------------------------------
(* The caller's final callback. *)

\* finalcall is invoked exactly once for an operation that completes and never
\* for one that leaves by an exception.
THEOREM FinalCallExactlyOnce == Spec => []FinalCallOnce
<1>1. Init => FinalCallOnce
  BY DEF Init, FinalCallOnce
<1>2. ASSUME TypeOK, FinalCallOnce, [Next]_vars PROVE FinalCallOnce'
  <2>0. phase \in [Ops -> Phases] /\ finals \in [Ops -> Nat]
    BY <1>2 DEF TypeOK
  <2>1. CASE UNCHANGED <<phase, finals>>
    BY <1>2, <2>1 DEF FinalCallOnce
  <2>2. ASSUME NEW o \in Ops, NEW p, phase[o] \notin {"storing", "done"},
               p \notin {"storing", "done"},
               phase' = [phase EXCEPT ![o] = p], finals' = finals
        PROVE  FinalCallOnce'
    BY <1>2, <2>0, <2>2 DEF FinalCallOnce
  <2>3. ASSUME NEW o \in Ops, NEW p \in {"storing", "done"},
               phase[o] \in {"loading", "writing"}, phase' = [phase EXCEPT ![o] = p],
               FinalCall(o)
        PROVE  FinalCallOnce'
    BY <1>2, <2>0, <2>3 DEF FinalCallOnce, FinalCall
  <2>4. ASSUME NEW o \in Ops, Call(o) PROVE FinalCallOnce'
    <3>1. /\ phase[o] = "idle" /\ finals' = finals
          /\ \E p \in {"threw", "loading", "lost", "writing"} :
                phase' = [phase EXCEPT ![o] = p]
      BY <2>4 DEF Call, LoadASyncUnregistered, LoadASync, LoadASyncThrows,
         SaveASyncUnregistered, SaveASync, SaveASyncThrows, Leave
    <3> QED
      BY <2>2, <3>1
  <2>5. ASSUME NEW o \in Ops, HandleReadDone(o) \/ HandleReadSave(o) \/ HandleWrite(o)
        PROVE  FinalCallOnce'
    BY <2>3, <2>5 DEF HandleReadDone, HandleReadSave, HandleWrite, Dispatches, Leave
  <2>6. ASSUME NEW o \in Ops, HandleReadSaveThrows(o) PROVE FinalCallOnce'
    BY <2>2, <2>6 DEF HandleReadSaveThrows, Dispatches, Leave
  <2>7. ASSUME NEW o \in Ops, HandleWriteOfLoad(o) PROVE FinalCallOnce'
    BY <1>2, <2>0, <2>7 DEF HandleWriteOfLoad, Dispatches, Leave, FinalCallOnce
  <2> QED
    BY <1>2, <2>1, <2>4, <2>5, <2>6, <2>7
    DEF Next, Handler, vars, InitializeSingletons, RegisterParser, RegisterLoader, RegisterSaver,
        HandleReadUnregistered, Restart
<1> QED
  BY <1>1, <1>2, TypeCorrect, PTL DEF Spec
=============================================================================
