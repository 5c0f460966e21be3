-------------------------- MODULE IPFSDeviceProofs --------------------------
(***************************************************************************)
(* Proofs about IPFSDevice, for any number of loads and contexts: a        *)
(* completion is never duplicated and is lost only where IPFSDevice says   *)
(* so, and only a load of the singleton can lose it to a rival's retry or  *)
(* be stranded by a context that is not its own.                           *)
(***************************************************************************)
EXTENDS IPFSDevice, TLAPS

\* A device is only given to a load that was started.
DeviceInv == \A l \in Loads : device[l] # "none" => ioc[l] # NoContext

\* A wait is aborted only by another load of the singleton.
RivalInv ==
  \A l \in Loads : "aborted" \in pending[l] \/ lost[l] = "aborted" =>
    device[l] = "shared" /\ \E m \in Loads \ {l} : device[m] = "shared"

\* The context of a load that is under way is run, until an exception leaves one.
OwnContextRuns ==
  \A l \in Loads : pending[l] # {} =>
    running[ioc[l]] \/ \E m \in Loads : lost[m] = "threw"

\* The inductive invariant.
DeliveryInv ==
  TypeOK /\ OneCompletion /\ DeviceInv /\ OneWaiter /\ RivalInv /\ OwnContextRuns

-----------------------------------------------------------------------------
(* The shapes of a step. *)

Calls(l, c) ==
  /\ \E d \in {"none", "direct", "own", "shared"}, w \in {"start", "request"} \cup Answers :
       Call(l, c, d, w)
  /\ instance' \in {"none", "started", "unstarted"}
  /\ instanceIoc' \in IF instance' = "none" THEN {NoContext} ELSE Contexts

Moves(l) ==
  /\ \E w \in Work, v \in Work \ {"wait", "aborted"} : w \in pending[l] /\ Move(l, w, {v})
  /\ UNCHANGED <<same, answers, lost>>

Throws(l) == \E w \in {"start", "due"} : StartFindingPeersThrows(l, w)

Reads(l) == \E a \in Answers : HandleRead(l, a)

\* Every step is a call, the move of a completion from one work item to the next, one
\* of the four steps that do something else, or a stutter.
LEMMA StepShapes ==
  ASSUME TypeOK, [Next]_vars
  PROVE  \/ \E l \in Loads, c \in Contexts : Calls(l, c)
         \/ \E l \in Loads : \/ Moves(l) \/ Throws(l) \/ Reads(l)
                             \/ StartFindingPeersWithRetry(l) \/ RetryAborted(l)
         \/ \E c \in Contexts : RunReturns(c)
         \/ UNCHANGED vars
<1>1. ASSUME NEW l \in Loads, NEW c \in Contexts, LoadASync(l, c)
      PROVE  Calls(l, c)
  <2>1. CASE LoadASyncInvalidURL(l, c)
    BY <2>1 DEF LoadASyncInvalidURL, Calls, TypeOK, Answers
  <2>2. CASE LoadASyncExternal(l, c)
    BY <2>2 DEF LoadASyncExternal, Calls, TypeOK, Answers
  <2>3. CASE LoadASyncShared(l, c)
    <3>1. CASE GetInstanceFails(c) /\ Call(l, c, "none", "CANNOT_LISTEN")
      BY <3>1 DEF GetInstanceFails, Calls, TypeOK, Answers
    <3>2. CASE GetInstance(c) /\ Call(l, c, "none", "BAD_CID")
      BY <3>2 DEF GetInstance, Calls, TypeOK, Answers
    <3>3. CASE GetInstance(c) /\ Call(l, c, "shared", "start")
      BY <3>3 DEF GetInstance, Calls, TypeOK, Answers
    <3> QED BY <2>3, <3>1, <3>2, <3>3 DEF LoadASyncShared
  <2> QED BY <1>1, <2>1, <2>2, <2>3 DEF LoadASync
<1>2. ASSUME NEW l \in Loads, Callback(l)
      PROVE  Moves(l) \/ StartFindingPeersWithRetry(l)
  <2>1. CASE ProvidersError(l)
    BY <2>1 DEF ProvidersError, CalledBack, Moves, Work, Awaited, Answers
  <2>2. CASE ProvidersFound(l)
    BY <2>2 DEF ProvidersFound, CalledBack, Moves, Work, Awaited, Answers
  <2>3. CASE ContentResult(l)
    BY <2>3 DEF ContentResult, CalledBack, Moves, Work, Awaited, Answers
  <2> QED BY <1>2, <2>1, <2>2, <2>3 DEF Callback
<1>3. ASSUME NEW l \in Loads, Handler(l)
      PROVE  Moves(l) \/ Throws(l) \/ Reads(l) \/ RetryAborted(l)
  <2>1. ASSUME NEW w \in {"start", "due"}, StartFindingPeers(l, w)
        PROVE  Moves(l)
    BY <2>1 DEF StartFindingPeers, Searches, OnContext, Moves, Work, Awaited, Timed, Answers
  <2>2. CASE RetryDue(l)
    BY <2>2 DEF RetryDue, Moves, Work, Timed, Answers
  <2>3. CASE RequestBlockMain(l)
    BY <2>3 DEF RequestBlockMain, OnContext, Moves, Work, Awaited, Answers
  <2> QED BY <1>3, <2>1, <2>2, <2>3 DEF Handler, Throws, Reads
<1> QED BY <1>1, <1>2, <1>3 DEF Next

-----------------------------------------------------------------------------
(* Each part of the invariant. *)

\* Type correctness is preserved by every step.
LEMMA TypeStep ==
  ASSUME TypeOK, [Next]_vars
  PROVE  TypeOK'
<1> USE DEF TypeOK
<1>1. ASSUME NEW l \in Loads, NEW c \in Contexts, Calls(l, c)
      PROVE  TypeOK'
  BY <1>1 DEF Calls, Call, Work
<1>2. ASSUME NEW l \in Loads, Moves(l)
      PROVE  TypeOK'
  BY <1>2 DEF Moves, Move, same
<1>3. ASSUME NEW l \in Loads, Throws(l)
      PROVE  TypeOK'
  <2> PICK w \in {"start", "due"} : StartFindingPeersThrows(l, w)
    BY <1>3 DEF Throws
  <2> PICK c : running' = [running EXCEPT ![c] = FALSE]
    BY DEF StartFindingPeersThrows
  <2>1. running' \in [Contexts -> BOOLEAN]
    OBVIOUS
  <2>2. pending' \in [Loads -> SUBSET Work] /\ lost' \in [Loads -> {"no", "aborted", "threw"}]
    BY DEF StartFindingPeersThrows, Move
  <2> QED BY <2>1, <2>2 DEF StartFindingPeersThrows
<1>4. ASSUME NEW l \in Loads, Reads(l)
      PROVE  TypeOK'
  <2> PICK a \in Answers : HandleRead(l, a)
    BY <1>4 DEF Reads
  <2>1. Append(answers[l], a) \in Seq(Answers)
    OBVIOUS
  <2> QED BY <2>1 DEF HandleRead, Move
<1>5. ASSUME NEW l \in Loads, StartFindingPeersWithRetry(l)
      PROVE  TypeOK'
  BY <1>5 DEF StartFindingPeersWithRetry, same, Work, Timed
<1>6. ASSUME NEW l \in Loads, RetryAborted(l)
      PROVE  TypeOK'
  BY <1>6 DEF RetryAborted, Move, same
<1>7. ASSUME NEW c \in Contexts, RunReturns(c)
      PROVE  TypeOK'
  BY <1>7 DEF RunReturns
<1>8. CASE UNCHANGED vars
  BY <1>8 DEF vars
<1> QED BY <1>1, <1>2, <1>3, <1>4, <1>5, <1>6, <1>7, <1>8, StepShapes

\* A load that is under way has exactly one work item, has not been answered and has
\* lost nothing.
LEMMA OneItem ==
  ASSUME OneCompletion, NEW l \in Loads, NEW w, w \in pending[l]
  PROVE  /\ pending[l] = {w} /\ answers[l] = << >> /\ lost[l] = "no"
         /\ ioc[l] # NoContext
BY DEF OneCompletion, NotStarted, UnderWay, Answered, Lost, Started

\* Completions are conserved.
LEMMA CompletionStep ==
  ASSUME TypeOK, OneCompletion, [Next]_vars
  PROVE  OneCompletion'
<1> DEFINE Token(l) == NotStarted(l) \/ (ioc[l] # NoContext /\ (UnderWay(l) \/ Answered(l) \/ Lost(l)))
<1>0. (\A l \in Loads : Token(l)) /\ ((\A l \in Loads : Token(l)') => OneCompletion')
  BY DEF OneCompletion, Started, NotStarted, UnderWay, Answered, Lost
<1> SUFFICES ASSUME NEW m \in Loads PROVE Token(m)'
  BY <1>0
<1> USE DEF NotStarted, UnderWay, Answered, Lost
<1>a. Token(m)
  BY <1>0
<1>b. ASSUME pending'[m] = pending[m], answers'[m] = answers[m], lost'[m] = lost[m],
             ioc'[m] = ioc[m]
      PROVE  Token(m)'
  BY <1>a, <1>b
<1>1. ASSUME NEW l \in Loads, NEW c \in Contexts, Calls(l, c)
      PROVE  Token(m)'
  <2> PICK d \in {"none", "direct", "own", "shared"}, w \in {"start", "request"} \cup Answers :
         Call(l, c, d, w)
    BY <1>1 DEF Calls
  <2>1. CASE m = l
    <3>1. pending'[m] = {w} /\ w \in Work
      BY <2>1 DEF Call, TypeOK, Work
    <3>2. ioc'[m] = c /\ c # NoContext
      BY <2>1, NoContextIsFresh DEF Call, TypeOK
    <3>3. answers'[m] = << >> /\ lost'[m] = "no"
      BY <2>1, <1>a DEF Call
    <3> QED BY <3>1, <3>2, <3>3
  <2>2. CASE m # l
    BY <2>2, <1>b DEF Call, TypeOK
  <2> QED BY <2>1, <2>2
<1>2. ASSUME NEW l \in Loads, Moves(l)
      PROVE  Token(m)'
  <2> PICK w \in Work, v \in Work \ {"wait", "aborted"} : w \in pending[l] /\ Move(l, w, {v})
    BY <1>2 DEF Moves
  <2>0. UNCHANGED <<answers, lost, ioc>>
    BY <1>2 DEF Moves, same
  <2>1. CASE m = l
    <3>1. pending[l] = {w} /\ answers[l] = << >> /\ lost[l] = "no" /\ ioc[l] # NoContext
      BY OneItem
    <3>2. pending'[m] = {v}
      BY <2>1, <3>1 DEF Move, TypeOK
    <3> QED BY <2>0, <2>1, <3>1, <3>2
  <2>2. CASE m # l
    BY <2>0, <2>2, <1>b DEF Move, TypeOK
  <2> QED BY <2>1, <2>2
<1>3. ASSUME NEW l \in Loads, NEW w, w \in pending[l], Move(l, w, {}),
             NEW r \in {"aborted", "threw"}, lost' = [lost EXCEPT ![l] = r],
             UNCHANGED <<answers, ioc>>
      PROVE  Token(m)'
  <2>1. CASE m = l
    <3>1. pending[l] = {w} /\ answers[l] = << >> /\ ioc[l] # NoContext
      BY <1>3, OneItem
    <3>2. pending'[m] = {} /\ lost'[m] = r
      BY <1>3, <2>1, <3>1 DEF Move, TypeOK
    <3> QED BY <1>3, <2>1, <3>1, <3>2
  <2>2. CASE m # l
    BY <1>3, <2>2, <1>b DEF Move, TypeOK
  <2> QED BY <2>1, <2>2
<1>4. ASSUME NEW l \in Loads, Throws(l)
      PROVE  Token(m)'
  <2> PICK w \in {"start", "due"} : StartFindingPeersThrows(l, w)
    BY <1>4 DEF Throws
  <2>1. w \in pending[l] /\ Move(l, w, {}) /\ lost' = [lost EXCEPT ![l] = "threw"]
        /\ UNCHANGED <<answers, ioc>>
    BY DEF StartFindingPeersThrows, Searches, OnContext
  <2> QED BY <2>1, <1>3
<1>5. ASSUME NEW l \in Loads, Reads(l)
      PROVE  Token(m)'
  <2> PICK a \in Answers : HandleRead(l, a)
    BY <1>5 DEF Reads
  <2>1. CASE m = l
    <3>1. pending[l] = {a} /\ answers[l] = << >> /\ lost[l] = "no" /\ ioc[l] # NoContext
      BY OneItem DEF HandleRead, OnContext
    <3>2. pending'[m] = {} /\ ioc' = ioc /\ lost' = lost
      BY <2>1, <3>1 DEF HandleRead, Move, TypeOK
    <3>3. answers'[m] = <<a>>
      BY <2>1, <3>1 DEF HandleRead, TypeOK
    <3> QED BY <2>1, <3>1, <3>2, <3>3
  <2>2. CASE m # l
    BY <2>2, <1>b DEF HandleRead, Move, TypeOK
  <2> QED BY <2>1, <2>2
<1>6. ASSUME NEW l \in Loads, StartFindingPeersWithRetry(l)
      PROVE  Token(m)'
  <2>0. UNCHANGED <<answers, lost, ioc>>
    BY <1>6 DEF StartFindingPeersWithRetry, same
  <2>1. CASE m = l
    <3>1. pending[l] = {"find"} /\ answers[l] = << >> /\ lost[l] = "no" /\ ioc[l] # NoContext
      BY <1>6, OneItem DEF StartFindingPeersWithRetry, CalledBack
    <3>2. pending'[m] = {"wait"}
      BY <1>6, <2>1, <3>1 DEF StartFindingPeersWithRetry
    <3> QED BY <2>0, <2>1, <3>1, <3>2 DEF Work, Timed
  <2>2. CASE m # l /\ m \in WaitingWith(l)
    <3>1. pending[m] = {"wait"} /\ answers[m] = << >> /\ lost[m] = "no" /\ ioc[m] # NoContext
      BY <2>2, OneItem DEF WaitingWith
    <3>2. pending'[m] = {"aborted"}
      BY <1>6, <2>2, <3>1 DEF StartFindingPeersWithRetry
    <3> QED BY <2>0, <3>1, <3>2 DEF Work, Timed
  <2>3. CASE m # l /\ m \notin WaitingWith(l)
    BY <1>6, <2>0, <2>3, <1>b DEF StartFindingPeersWithRetry
  <2> QED BY <2>1, <2>2, <2>3
<1>7. ASSUME NEW l \in Loads, RetryAborted(l)
      PROVE  Token(m)'
  BY <1>7, <1>3 DEF RetryAborted, same
<1>8. ASSUME NEW c \in Contexts, RunReturns(c)
      PROVE  Token(m)'
  BY <1>8, <1>b DEF RunReturns
<1>9. CASE UNCHANGED vars
  BY <1>9, <1>b DEF vars
<1> QED BY <1>1, <1>2, <1>4, <1>5, <1>6, <1>7, <1>8, <1>9, StepShapes

\* Devices stay with the loads they were given to.
LEMMA DeviceStep ==
  ASSUME TypeOK, DeviceInv, [Next]_vars
  PROVE  /\ DeviceInv'
         /\ \A l \in Loads : device[l] # "none" => device'[l] = device[l]
<1> USE DEF TypeOK, DeviceInv
<1>1. ASSUME NEW l \in Loads, NEW c \in Contexts, Calls(l, c)
      PROVE  /\ DeviceInv'
             /\ \A m \in Loads : device[m] # "none" => device'[m] = device[m]
  BY <1>1, NoContextIsFresh DEF Calls, Call
<1>2. ASSUME UNCHANGED <<ioc, device>>
      PROVE  /\ DeviceInv'
             /\ \A m \in Loads : device[m] # "none" => device'[m] = device[m]
  BY <1>2
<1>3. (\E l \in Loads, c \in Contexts : Calls(l, c)) \/ UNCHANGED <<ioc, device>>
  BY StepShapes DEF Moves, Throws, StartFindingPeersThrows, Reads, HandleRead,
       StartFindingPeersWithRetry, RetryAborted, RunReturns, same, vars
<1> QED BY <1>1, <1>2, <1>3

\* Where an item of work may appear in a step: a wait begins only in
\* StartFindingPeersWithRetry, which aborts those in progress on the same timer.
LEMMA NewItems ==
  ASSUME TypeOK, OneCompletion, [Next]_vars, NEW m \in Loads
  PROVE  /\ "wait" \in pending'[m] /\ "wait" \notin pending[m]
              => StartFindingPeersWithRetry(m)
         /\ "aborted" \in pending'[m] /\ "aborted" \notin pending[m]
              => \E l \in Loads \ {m} : SharesTimer(l, m)
         /\ lost'[m] = "aborted" /\ lost[m] # "aborted"
              => "aborted" \in pending[m]
<1> USE DEF TypeOK
<1>1. ASSUME NEW l \in Loads, NEW c \in Contexts, Calls(l, c)
      PROVE  "wait" \in pending'[m] \/ "aborted" \in pending'[m] => pending'[m] = pending[m]
  BY <1>1 DEF Calls, Call, Answers
<1>2. ASSUME NEW l \in Loads, Moves(l)
      PROVE  /\ "wait" \in pending'[m] => "wait" \in pending[m]
             /\ "aborted" \in pending'[m] => "aborted" \in pending[m]
  BY <1>2 DEF Moves, Move
<1>3. ASSUME NEW l \in Loads, Throws(l) \/ Reads(l) \/ RetryAborted(l)
      PROVE  pending'[m] \subseteq pending[m]
  BY <1>3 DEF Throws, StartFindingPeersThrows, Reads, HandleRead, RetryAborted, Move
<1>4. ASSUME NEW l \in Loads, StartFindingPeersWithRetry(l)
      PROVE  /\ "wait" \in pending'[m] /\ "wait" \notin pending[m] => l = m
             /\ "aborted" \in pending'[m] /\ "aborted" \notin pending[m]
                  => l # m /\ SharesTimer(l, m)
  BY <1>4 DEF StartFindingPeersWithRetry, WaitingWith
<1>5. ASSUME NEW c \in Contexts, RunReturns(c) \/ UNCHANGED vars
      PROVE  pending'[m] = pending[m] /\ lost'[m] = lost[m]
  BY <1>5 DEF RunReturns, vars
<1>6. ASSUME NEW l \in Loads, RetryAborted(l)
      PROVE  lost'[m] = "aborted" /\ lost[m] # "aborted" => "aborted" \in pending[m]
  BY <1>6 DEF RetryAborted
<1>7. ASSUME NEW l \in Loads, NEW c \in Contexts, Calls(l, c)
      PROVE  lost'[m] = lost[m]
  BY <1>7 DEF Calls, Call
<1>8. ASSUME NEW l \in Loads, Moves(l) \/ Reads(l) \/ StartFindingPeersWithRetry(l)
      PROVE  lost'[m] = lost[m]
  BY <1>8 DEF Moves, Reads, HandleRead, StartFindingPeersWithRetry
<1>9. ASSUME NEW l \in Loads, Throws(l)
      PROVE  lost'[m] = "aborted" => lost[m] = "aborted"
  BY <1>9 DEF Throws, StartFindingPeersThrows
<1>10. CASE UNCHANGED vars
  BY <1>10 DEF vars
<1>11. CASE \E l \in Loads, c \in Contexts : Calls(l, c)
  BY <1>11, <1>1, <1>7
<1>12. CASE \E l \in Loads : Moves(l) \/ Throws(l) \/ Reads(l) \/ RetryAborted(l)
  BY <1>12, <1>2, <1>3, <1>6, <1>8, <1>9
<1>13. CASE \E l \in Loads : StartFindingPeersWithRetry(l)
  BY <1>13, <1>4, <1>8
<1>14. CASE \E c \in Contexts : RunReturns(c)
  BY <1>14, <1>5
<1> QED BY <1>10, <1>11, <1>12, <1>13, <1>14, StepShapes

\* A wait that begins is the only one on its timer.
LEMMA WaiterStep ==
  ASSUME TypeOK, OneCompletion, DeviceInv, OneWaiter, [Next]_vars
  PROVE  OneWaiter'
<1> SUFFICES ASSUME NEW l \in Loads, NEW m \in Loads, l # m,
                    "wait" \in pending'[l], "wait" \in pending'[m], SharesTimer(l, m)'
             PROVE  FALSE
  BY DEF OneWaiter, SharesTimer
<1>1. ASSUME NEW x \in Loads, NEW y \in Loads, x # y, StartFindingPeersWithRetry(x),
             SharesTimer(x, y), "wait" \in pending'[y]
      PROVE  FALSE
  BY <1>1 DEF StartFindingPeersWithRetry, WaitingWith
<1>2. ASSUME NEW x \in Loads, StartFindingPeersWithRetry(x)
      PROVE  device' = device
  BY <1>2 DEF StartFindingPeersWithRetry, same
<1>3. CASE "wait" \notin pending[l]
  <2>1. StartFindingPeersWithRetry(l)
    BY <1>3, NewItems
  <2>2. SharesTimer(l, m)
    BY <2>1, <1>2 DEF SharesTimer
  <2> QED BY <2>1, <2>2, <1>1
<1>4. CASE "wait" \notin pending[m]
  <2>1. StartFindingPeersWithRetry(m)
    BY <1>4, NewItems
  <2>2. SharesTimer(m, l)
    BY <2>1, <1>2 DEF SharesTimer
  <2> QED BY <2>1, <2>2, <1>1
<1>5. CASE "wait" \in pending[l] /\ "wait" \in pending[m]
  <2>1. ioc[l] # NoContext /\ ioc[m] # NoContext
    BY <1>5, OneItem
  <2>2. device'[l] = device[l] /\ device'[m] = device[m]
    <3>1. ASSUME NEW x \in Loads, NEW c \in Contexts, Calls(x, c)
          PROVE  device'[l] = device[l] /\ device'[m] = device[m]
      BY <3>1, <2>1 DEF Calls, Call, TypeOK
    <3>2. (\E x \in Loads, c \in Contexts : Calls(x, c)) \/ UNCHANGED device
      BY StepShapes DEF Moves, Throws, StartFindingPeersThrows, Reads, HandleRead,
           StartFindingPeersWithRetry, RetryAborted, RunReturns, same, vars
    <3> QED BY <3>1, <3>2
  <2> QED BY <1>5, <2>2 DEF OneWaiter, SharesTimer
<1> QED BY <1>3, <1>4, <1>5

\* A wait is aborted by another load of the singleton only.
LEMMA RivalStep ==
  ASSUME TypeOK, OneCompletion, DeviceInv, RivalInv, [Next]_vars
  PROVE  RivalInv'
<1> SUFFICES ASSUME NEW m \in Loads, "aborted" \in pending'[m] \/ lost'[m] = "aborted"
             PROVE  device'[m] = "shared" /\ \E l \in Loads \ {m} : device'[l] = "shared"
  BY DEF RivalInv
<1>1. device[m] = "shared" /\ \E l \in Loads \ {m} : device[l] = "shared"
  BY NewItems DEF RivalInv, SharesTimer
<1> QED BY <1>1, DeviceStep

\* The context of a load that is under way goes on being run: a context is stopped
\* when no other load is unanswered, or has none left.
LEMMA ContextStep ==
  ASSUME TypeOK, OneCompletion, OwnContextRuns, [Next]_vars
  PROVE  OwnContextRuns'
<1> SUFFICES ASSUME NEW m \in Loads, pending'[m] # {},
                    \A x \in Loads : lost'[x] # "threw"
             PROVE  running'[ioc'[m]]
  BY DEF OwnContextRuns
<1> USE DEF TypeOK
<1>1. ASSUME NEW l \in Loads, NEW c \in Contexts, Calls(l, c)
      PROVE  running'[ioc'[m]]
  <2>1. ioc'[l] = c /\ running'[c] /\ lost' = lost
    BY <1>1 DEF Calls, Call
  <2>2. CASE m # l
    <3>1. pending[m] # {} /\ ioc'[m] = ioc[m]
      BY <1>1, <2>2 DEF Calls, Call
    <3>2. running[ioc[m]]
      BY <2>1, <3>1 DEF OwnContextRuns
    <3>3. ioc[m] # NoContext
      BY <3>1, OneItem
    <3> QED BY <1>1, <3>1, <3>2, <3>3 DEF Calls, Call
  <2> QED BY <2>1, <2>2
<1>2. ASSUME pending[m] # {}, UNCHANGED <<running, ioc>>,
             \A x \in Loads : lost[x] = "threw" => lost'[x] = "threw"
      PROVE  running'[ioc'[m]]
  BY <1>2 DEF OwnContextRuns
<1>3. ASSUME NEW l \in Loads, Moves(l) \/ StartFindingPeersWithRetry(l)
      PROVE  running'[ioc'[m]]
  <2>1. pending[m] # {}
    BY <1>3 DEF Moves, Move, StartFindingPeersWithRetry, CalledBack, WaitingWith
  <2>2. UNCHANGED <<running, ioc, lost>>
    BY <1>3 DEF Moves, StartFindingPeersWithRetry, same
  <2> QED BY <2>1, <2>2, <1>2
<1>4. ASSUME NEW l \in Loads, RetryAborted(l)
      PROVE  running'[ioc'[m]]
  <2>1. lost[l] = "no"
    BY <1>4, OneItem DEF RetryAborted
  <2> QED BY <2>1, <1>4, <1>2 DEF RetryAborted, Move, same
<1>5. ASSUME NEW l \in Loads, Throws(l)
      PROVE  FALSE
  BY <1>5 DEF Throws, StartFindingPeersThrows
<1>6. ASSUME NEW l \in Loads, Reads(l)
      PROVE  running'[ioc'[m]]
  <2> PICK a \in Answers : HandleRead(l, a)
    BY <1>6 DEF Reads
  <2>1. pending[l] = {a}
    BY OneItem DEF HandleRead, OnContext
  <2>2. m # l /\ pending'[m] = pending[m]
    BY <2>1 DEF HandleRead, Move
  <2>3. m \in Unanswered
    BY <2>2, OneItem DEF Unanswered, Started
  <2>4. running[ioc[m]] /\ Unanswered # {l}
    BY <2>2, <2>3 DEF HandleRead, OwnContextRuns
  <2> QED BY <2>4 DEF HandleRead
<1>7. ASSUME NEW c \in Contexts, RunReturns(c)
      PROVE  running'[ioc'[m]]
  <2>1. m \in Unanswered
    BY <1>7, OneItem DEF RunReturns, Unanswered, Started
  <2>2. ioc[m] # c /\ running[ioc[m]]
    BY <2>1, <1>7 DEF RunReturns, OwnContextRuns
  <2> QED BY <2>2, <1>7 DEF RunReturns
<1>8. CASE UNCHANGED vars
  BY <1>8, <1>2 DEF vars
<1> QED BY <1>1, <1>3, <1>4, <1>5, <1>6, <1>7, <1>8, StepShapes

\* What the singleton's context does not run waits on the singleton, and a load under
\* way on that context would keep it running.
LEMMA StrandingCause ==
  ASSUME OneCompletion, OwnContextRuns
  PROVE  StrandedOnlyBySingleton
<1> SUFFICES ASSUME NEW l \in Loads, Stranded(l), \A m \in Loads : lost[m] # "threw"
             PROVE  /\ device[l] = "shared" /\ pending[l] \subseteq Awaited \cup Timed
                    /\ \A m \in Loads : ioc[m] = instanceIoc => pending[m] = {}
  BY DEF StrandedOnlyBySingleton
<1>1. \A m \in Loads : pending[m] # {} => running[ioc[m]]
  BY DEF OwnContextRuns
<1> PICK w \in pending[l] : \/ w \in Awaited /\ ~CalledBack(l, w)
                            \/ w \in Timed /\ ~running[TimerIoc(l)]
                            \/ w \notin Awaited \cup Timed /\ ~running[ioc[l]]
  BY DEF Stranded
<1>2. pending[l] = {w}
  BY OneItem
<1>3. device[l] = "shared" /\ ~running[instanceIoc] /\ w \in Awaited \cup Timed
  BY <1>1 DEF CalledBack, TimerIoc
<1> QED BY <1>1, <1>2, <1>3

-----------------------------------------------------------------------------
(* The theorems. *)

\* The inductive invariant holds in every reachable state.
THEOREM DeliveryInvariant == Spec => []DeliveryInv
<1>1. Init => DeliveryInv
  BY DEF Init, DeliveryInv, TypeOK, OneCompletion, NotStarted, DeviceInv, OneWaiter,
         RivalInv, OwnContextRuns
<1>2. DeliveryInv /\ [Next]_vars => DeliveryInv'
  BY TypeStep, CompletionStep, DeviceStep, WaiterStep, RivalStep, ContextStep
     DEF DeliveryInv
<1> QED BY <1>1, <1>2, PTL DEF Spec

\* IPFSDevice and IPFSLoader keep every variable in its type.
THEOREM TypeCorrect == Spec => []TypeOK
<1>1. DeliveryInv => TypeOK
  BY DEF DeliveryInv
<1> QED BY <1>1, DeliveryInvariant, PTL

\* From LoadASync to handle_read exactly one work item stands for the completion of a
\* load, whatever the DHT, bitswap, the timers and the other loads do.
THEOREM CompletionConserved == Spec => []OneCompletion
<1>1. DeliveryInv => OneCompletion
  BY DEF DeliveryInv
<1> QED BY <1>1, DeliveryInvariant, PTL

\* dhtretry_ never has two waits in progress.
THEOREM SingleWaiter == Spec => []OneWaiter
<1>1. DeliveryInv => OneWaiter
  BY DEF DeliveryInv
<1> QED BY <1>1, DeliveryInvariant, PTL

\* Only a load of the singleton loses its completion to an aborted retry, and only
\* when another load shares the singleton.
THEOREM LossNeedsRival == Spec => []LostOnlyToRival
<1>1. DeliveryInv => LostOnlyToRival
  BY DEF DeliveryInv, RivalInv, LostOnlyToRival
<1> QED BY <1>1, DeliveryInvariant, PTL

\* A load with a device of its own is stranded by nothing but an exception that leaves
\* io_context::run; one of the singleton also while it waits for the DHT, the Bitswap or
\* the timer of a context on which no load is under way any more.
THEOREM StrandingNeedsSingleton == Spec => []StrandedOnlyBySingleton
<1>1. DeliveryInv => StrandedOnlyBySingleton
  BY StrandingCause DEF DeliveryInv
<1> QED BY <1>1, DeliveryInvariant, PTL
=============================================================================
