----------------------------- MODULE HTTPDevice -----------------------------
(***************************************************************************)
(* One https load: HTTPLoader::LoadASync and the HTTPDevice it creates     *)
(* (src/src/HTTPLoader.cpp, src/src/HTTPCommon.cpp).  Connect, TLS         *)
(* handshake, GET request and response run one after the other, each under *)
(* a deadline timer whose handler cancels the socket.                      *)
(*                                                                         *)
(* The hard part is what boost::asio leaves to its users: a timer that has *)
(* already expired when it is cancelled still runs its handler, and        *)
(* cancelling a socket only aborts the operation that is waiting on it at  *)
(* that moment, not one whose completion is already queued.                *)
(***************************************************************************)
EXTENDS Integers, Sequences

CONSTANT MaxEndpoints   \* a bound on the addresses a host name resolves to

ASSUME MaxEndpointsIsPositive == MaxEndpoints \in Nat \ {0}

VARIABLES
  phase,       \* the step of the download
  endpoints,   \* addresses async_connect may still try, the current one included
  op,          \* the socket operation of this phase
  deadline,    \* deadline[d]: the timer of connect, handshake and read
  httpAnswers, \* what handle_read was called with, oldest first
  late         \* history: the operation was begun after its deadline had expired

httpVars == <<phase, endpoints, op, deadline, httpAnswers, late>>

(***************************************************************************)
(* A socket operation waits on the socket, or its handler is queued: after *)
(* a part of a composed operation (step), with success, with an error of   *)
(* the peer, or with operation_aborted.                                    *)
(***************************************************************************)
Ops == {"none", "waiting", "step", "ok", "error", "aborted"}
Failed == {"error", "aborted"}

\* A timer is off, armed, due (its handler is queued), has expired (the handler
\* ran without an error) or was cancelled in time.
Timers == {"connect", "handshake", "read"}
TimerStates == {"off", "armed", "due", "expired", "cancelled"}

Phases == {"start", "posted", "connecting", "handshaking", "writing", "reading", "finished"}

\* The timer that guards a phase; write and read share one.
Guard(p) == CASE p = "connecting" -> "connect"
              [] p = "handshaking" -> "handshake"
              [] OTHER -> "read"

Guarded == {"connecting", "handshaking", "writing", "reading"}

HttpErrors == {"INVALID_URL", "COULD_NOT_RESOLVE", "CONNECT_ERROR", "HANDSHAKE_ERROR",
               "REQ_FAILED", "CON_INTERRUPT", "NO_HEADER", "TIMEOUT"}
HttpAnswers == HttpErrors \cup {"data", "threw"}

HttpInit ==
  /\ phase = "start"
  /\ endpoints = 0
  /\ op = "none"
  /\ deadline = [d \in Timers |-> "off"]
  /\ httpAnswers = << >>
  /\ late = FALSE

\* ArmDeadline: a new timer.
ArmDeadline(dl, d) == [dl EXCEPT ![d] = "armed"]

\* Mutant: the timer is left running.
CancelNothing(dl, d) == dl

\* CancelDeadline: too late for a timer whose handler is queued.
CancelDeadline(dl, d) == [dl EXCEPT ![d] = IF @ = "armed" THEN "cancelled" ELSE @]

\* The next operation waits on the socket, under the timer d.
Begin(d) ==
  /\ op' = "waiting"
  /\ late' = (deadline'[d] = "expired")

Answer(a) ==
  /\ httpAnswers' = Append(httpAnswers, a)
  /\ phase' = "finished"
  /\ op' = "none"
  /\ UNCHANGED <<endpoints, late>>

\* A phase ends in an error: TIMEOUT if its own deadline handler has run.
Fail(e) ==
  LET d == Guard(phase)
  IN  /\ deadline' = CancelDeadline(deadline, d)
      /\ Answer(IF deadline[d] = "expired" THEN "TIMEOUT" ELSE e)

-----------------------------------------------------------------------------
(* HTTPLoader::LoadASync and StartHTTPDownload, on the caller's thread. *)

\* parseHTTPUrl or the resolver fails: the answer is posted to the io_context.
PostFailure ==
  /\ phase = "start"
  /\ phase' = "posted"
  /\ UNCHANGED <<endpoints, op, deadline, httpAnswers, late>>

HttpRunPosted ==
  /\ phase = "posted"
  /\ \E e \in {"INVALID_URL", "COULD_NOT_RESOLVE"} : Answer(e)
  /\ UNCHANGED deadline

\* SSL_set_tlsext_host_name fails: the exception leaves LoadASync.
SetSNIFails ==
  /\ phase = "start"
  /\ Answer("threw")
  /\ UNCHANGED deadline

\* Mutant: the failure is posted, but the function does not return.
StartHTTPDownloadGoesOn ==
  /\ phase = "start"
  /\ phase' = "connecting"
  /\ endpoints' \in 1..MaxEndpoints
  /\ deadline' = ArmDeadline(deadline, "connect")
  /\ Begin("connect")
  /\ httpAnswers' = <<"COULD_NOT_RESOLVE">>

StartHTTPDownload ==
  /\ phase = "start"
  /\ phase' = "connecting"
  /\ endpoints' \in 1..MaxEndpoints
  /\ deadline' = ArmDeadline(deadline, "connect")
  /\ Begin("connect")
  /\ UNCHANGED httpAnswers

-----------------------------------------------------------------------------
(* The environment: the peer and the clock. *)

\* The operation waiting on the socket completes; its handler is queued.  TLS
\* operations and the read are composed of several socket operations.
PeerActs(r) ==
  /\ op = "waiting"
  /\ r = "step" => phase # "connecting"
  /\ op' = r
  /\ UNCHANGED <<phase, endpoints, deadline, httpAnswers, late>>

TimerDue(d) ==
  /\ deadline[d] = "armed"
  /\ deadline' = [deadline EXCEPT ![d] = "due"]
  /\ UNCHANGED <<phase, endpoints, op, httpAnswers, late>>

-----------------------------------------------------------------------------
(* Handlers, on the thread of the io_context. *)

\* Mutant: the deadline handler records its expiry and forgets the socket.
DeadlineHandlerNoCancel(d) ==
  /\ deadline[d] = "due"
  /\ deadline' = [deadline EXCEPT ![d] = "expired"]
  /\ UNCHANGED <<phase, endpoints, op, httpAnswers, late>>

\* The lambda of ArmDeadline: whatever waits on the socket now is aborted.
DeadlineHandler(d) ==
  /\ deadline[d] = "due"
  /\ deadline' = [deadline EXCEPT ![d] = "expired"]
  /\ op' = IF op = "waiting" THEN "aborted" ELSE op
  /\ UNCHANGED <<phase, endpoints, httpAnswers, late>>

\* A composed operation goes on with its next part.
Continue ==
  /\ op = "step"
  /\ UNCHANGED <<phase, endpoints, deadline, httpAnswers>>
  /\ Begin(Guard(phase))

\* async_connect closes the socket and tries the next address, after an abort too.
TryNextEndpoint ==
  /\ phase = "connecting"
  /\ op \in Failed /\ endpoints > 1
  /\ endpoints' = endpoints - 1
  /\ UNCHANGED <<phase, deadline, httpAnswers>>
  /\ Begin("connect")

HttpConnected ==
  /\ phase = "connecting"
  /\ op = "ok"
  /\ deadline' = ArmDeadline(CancelDeadline(deadline, "connect"), "handshake")
  /\ phase' = "handshaking"
  /\ Begin("handshake")
  /\ UNCHANGED <<endpoints, httpAnswers>>

ConnectFailed ==
  /\ phase = "connecting"
  /\ op \in Failed /\ endpoints = 1
  /\ Fail("CONNECT_ERROR")

\* The handshake's handler calls StartHTTPGet.
StartHTTPGet ==
  /\ phase = "handshaking"
  /\ op = "ok"
  /\ deadline' = ArmDeadline(CancelDeadline(deadline, "handshake"), "read")
  /\ phase' = "writing"
  /\ Begin("read")
  /\ UNCHANGED <<endpoints, httpAnswers>>

HandshakeFailed ==
  /\ phase = "handshaking"
  /\ op \in Failed
  /\ Fail("HANDSHAKE_ERROR")

\* The request is written: the read starts under the deadline that is running.
HttpWritten ==
  /\ phase = "writing"
  /\ op = "ok"
  /\ phase' = "reading"
  /\ UNCHANGED <<endpoints, deadline, httpAnswers>>
  /\ Begin("read")

HttpWriteFailed ==
  /\ phase = "writing"
  /\ op \in Failed
  /\ Fail("REQ_FAILED")

\* The read ends (at eof): with a header the rest is the file.
ReadHandler ==
  /\ phase = "reading"
  /\ op = "ok"
  /\ deadline' = CancelDeadline(deadline, "read")
  /\ Answer("data") \/ Answer("NO_HEADER")

ReadFailed ==
  /\ phase = "reading"
  /\ op \in Failed
  /\ Fail("CON_INTERRUPT")

Handlers ==
  \/ HttpRunPosted \/ Continue \/ TryNextEndpoint
  \/ HttpConnected \/ ConnectFailed \/ StartHTTPGet \/ HandshakeFailed
  \/ HttpWritten \/ HttpWriteFailed \/ ReadHandler \/ ReadFailed

HttpNext ==
  \/ PostFailure \/ SetSNIFails \/ StartHTTPDownload
  \/ \E r \in {"step", "ok", "error"} : PeerActs(r)
  \/ \E d \in Timers : TimerDue(d) \/ DeadlineHandler(d)
  \/ Handlers

(***************************************************************************)
(* Fairness: timers go off and the io_context runs queued handlers.  The   *)
(* peer is not fair: it may stay silent, or send forever.                  *)
(***************************************************************************)
HttpFairness ==
  /\ WF_httpVars(Handlers)
  /\ \A d \in Timers : WF_httpVars(TimerDue(d)) /\ WF_httpVars(DeadlineHandler(d))

HttpSpec == HttpInit /\ [][HttpNext]_httpVars /\ HttpFairness

-----------------------------------------------------------------------------
(* Properties. *)

\* Every variable has its type.
HttpTypeOK ==
  /\ phase \in Phases
  /\ endpoints \in 0..MaxEndpoints
  /\ op \in Ops
  /\ deadline \in [Timers -> TimerStates]
  /\ httpAnswers \in Seq(HttpAnswers)
  /\ late \in BOOLEAN

\* handle_read is called at most once for a load, on every path through connect,
\* handshake, request and response, whatever the timers do (module OneShot).
HttpContract == INSTANCE OneShot WITH Answers <- HttpAnswers, answers <- httpAnswers
AnsweredOnce == HttpContract!Spec

\* A running timer guards the phase the download is in: every path out of a phase
\* cancels its deadline, so that once handle_read was called nothing is left that
\* would keep the io_context busy or touch the socket later.
OnlyCurrentDeadlineArmed ==
  /\ \A d \in Timers : deadline[d] = "armed" => phase \in Guarded /\ Guard(phase) = d
  /\ httpAnswers # << >> => phase = "finished" /\ op = "none"

\* The operation in progress has no deadline: it was begun after the handler of its
\* timer had run, which found only a completion queued or aborted one address of several.
\* An operation that was waiting when the handler ran is not excused.
Unguarded == phase \in Guarded /\ op = "waiting" /\ late

\* Every load that was started is answered although the peer owes nothing, unless its
\* operation has become unguarded: that race is the only way a silent peer can keep a
\* load waiting forever.
AnsweredUnlessUnguarded ==
  phase # "start" ~> (httpAnswers # << >> \/ Unguarded)
=============================================================================
