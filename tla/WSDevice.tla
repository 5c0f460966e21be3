------------------------------ MODULE WSDevice ------------------------------
(***************************************************************************)
(* wss loads: WSLoader::LoadASync and WSDevice (src/src/WSLoader.cpp,      *)
(* src/src/WSCommon.cpp), with the counter of FileManager that handle_read *)
(* gives back.  The loads run on one io_context, each on its own device;   *)
(* there is no deadline, and two paths do not answer exactly once: a       *)
(* resolver failure is posted without a return, and a failed write is only *)
(* logged.                                                                 *)
(***************************************************************************)
EXTENDS Integers, Sequences, FiniteSets

CONSTANT Loads   \* calls of LoadASync with a wss url, one after the other or together

ASSUME LoadsFinite == IsFiniteSet(Loads)

VARIABLES
  pending,      \* pending[l]: the operation in progress, and the answers posted
  resolved,     \* resolved[l]: the host name of load l was resolved
  wsAnswers,    \* wsAnswers[l]: what handle_read was called with
  silent,       \* silent[l]: the write failed and nobody was told
  outstandingOperations_,
  stopped       \* the io_context was stopped

wsVars == <<pending, resolved, wsAnswers, silent, outstandingOperations_, stopped>>

Operations == {"connect", "handshake", "ws_handshake", "write", "read"}
WsErrors == {"INVALID_URL", "COULD_NOT_RESOLVE", "CONNECT_ERROR", "HANDSHAKE_ERROR",
             "WS_HANDSHAKE_ERROR", "NO_EOF"}
WsAnswers == WsErrors \cup {"data"}

Started(l) == pending[l] # {} \/ wsAnswers[l] # << >> \/ silent[l]

WsInit ==
  /\ pending = [l \in Loads |-> {}]
  /\ resolved = [l \in Loads |-> TRUE]
  /\ wsAnswers = [l \in Loads |-> << >>]
  /\ silent = [l \in Loads |-> FALSE]
  /\ outstandingOperations_ = 0
  /\ stopped = FALSE

\* FileManager::LoadASync counts the load before the loader is called; the caller
\* runs the context, again if an earlier load had it stopped.
Start(l, work) ==
  /\ ~Started(l)
  /\ pending' = [pending EXCEPT ![l] = work]
  /\ outstandingOperations_' = outstandingOperations_ + 1
  /\ stopped' = FALSE
  /\ UNCHANGED <<wsAnswers, silent>>

LoadASyncInvalidURL(l) ==
  /\ Start(l, {"INVALID_URL"})
  /\ UNCHANGED resolved

StartWSDownload(l) ==
  /\ Start(l, {"connect"})
  /\ UNCHANGED resolved

\* The resolver fails: the answer is posted, and async_connect is called all the
\* same, with no address to connect to.
StartWSDownloadUnresolved(l) ==
  /\ Start(l, {"COULD_NOT_RESOLVE", "connect"})
  /\ resolved' = [resolved EXCEPT ![l] = FALSE]

-----------------------------------------------------------------------------
(* Handlers, on the thread of the io_context. *)

\* Mutant: the context is stopped with one operation outstanding.
HandleReadStopsEarly(l, a) ==
  LET n == outstandingOperations_
  IN  /\ wsAnswers' = [wsAnswers EXCEPT ![l] = Append(@, a)]
      /\ outstandingOperations_' = IF n <= 0 THEN n ELSE n - 1
      /\ stopped' = (n <= 2)

\* FileManager's handle_read gives the count back and stops the context at zero.
HandleRead(l, a) ==
  LET n == outstandingOperations_
  IN  /\ wsAnswers' = [wsAnswers EXCEPT ![l] = Append(@, a)]
      /\ outstandingOperations_' = IF n <= 0 THEN n ELSE n - 1
      /\ stopped' = (n <= 1)

\* An answer that was posted.
WsRunPosted(l, a) ==
  /\ ~stopped
  /\ a \in pending[l]
  /\ pending' = [pending EXCEPT ![l] = @ \ {a}]
  /\ HandleRead(l, a)
  /\ UNCHANGED <<resolved, silent>>

\* Operation op of load l has succeeded and the next one begins.
Proceed(l, op, next) ==
  /\ ~stopped
  /\ op \in pending[l]
  /\ pending' = [pending EXCEPT ![l] = (@ \ {op}) \cup {next}]
  /\ UNCHANGED <<resolved, wsAnswers, silent, outstandingOperations_, stopped>>

\* Operation op of load l ends the download with answer a.
Finish(l, op, a) ==
  /\ ~stopped
  /\ op \in pending[l]
  /\ pending' = [pending EXCEPT ![l] = @ \ {op}]
  /\ HandleRead(l, a)
  /\ UNCHANGED <<resolved, silent>>

WsConnected(l) ==
  \/ resolved[l] /\ Proceed(l, "connect", "handshake")
  \/ Finish(l, "connect", "CONNECT_ERROR")

\* Mutant: a failed handshake is answered and the download goes on.
HandshakenGoesOn(l) ==
  \/ Proceed(l, "handshake", "ws_handshake")
  \/ /\ ~stopped /\ "handshake" \in pending[l]
     /\ pending' = [pending EXCEPT ![l] = (@ \ {"handshake"}) \cup {"ws_handshake"}]
     /\ HandleRead(l, "HANDSHAKE_ERROR")
     /\ UNCHANGED <<resolved, silent>>

Handshaken(l) ==
  \/ Proceed(l, "handshake", "ws_handshake")
  \/ Finish(l, "handshake", "HANDSHAKE_ERROR")

\* Mutant: the error of the websocket handshake is logged only.
WSHandshakenSilently(l) ==
  \/ Proceed(l, "ws_handshake", "write")
  \/ /\ ~stopped /\ "ws_handshake" \in pending[l]
     /\ pending' = [pending EXCEPT ![l] = @ \ {"ws_handshake"}]
     /\ UNCHANGED <<resolved, wsAnswers, silent, outstandingOperations_, stopped>>

WSHandshaken(l) ==
  \/ Proceed(l, "ws_handshake", "write")
  \/ Finish(l, "ws_handshake", "WS_HANDSHAKE_ERROR")

WsWritten(l) == Proceed(l, "write", "read")

\* The write fails: logged, and handle_read is dropped.
WsWriteFailed(l) ==
  /\ ~stopped
  /\ "write" \in pending[l]
  /\ pending' = [pending EXCEPT ![l] = @ \ {"write"}]
  /\ silent' = [silent EXCEPT ![l] = TRUE]
  /\ UNCHANGED <<resolved, wsAnswers, outstandingOperations_, stopped>>

ReadDone(l) == Finish(l, "read", "data") \/ Finish(l, "read", "NO_EOF")

Handler(l) ==
  \/ \E a \in WsAnswers : WsRunPosted(l, a)
  \/ WsConnected(l) \/ Handshaken(l) \/ WSHandshaken(l)
  \/ WsWritten(l) \/ WsWriteFailed(l) \/ ReadDone(l)

WsNext ==
  \E l \in Loads :
    \/ LoadASyncInvalidURL(l) \/ StartWSDownload(l) \/ StartWSDownloadUnresolved(l)
    \/ Handler(l)

(***************************************************************************)
(* Fairness: the context runs its handlers, and the peer lets every        *)
(* operation end.  The device sets no deadline, so that without the second *)
(* part a silent peer would keep any load waiting.                         *)
(***************************************************************************)
WsSpec == WsInit /\ [][WsNext]_wsVars /\ \A l \in Loads : WF_wsVars(Handler(l))

-----------------------------------------------------------------------------
(* Properties. *)

\* Every variable has its type.
WsTypeOK ==
  /\ pending \in [Loads -> SUBSET (Operations \cup WsAnswers)]
  /\ resolved \in [Loads -> BOOLEAN]
  /\ wsAnswers \in [Loads -> Seq(WsAnswers)]
  /\ silent \in [Loads -> BOOLEAN]
  /\ outstandingOperations_ \in 0..Cardinality(Loads)
  /\ stopped \in BOOLEAN

\* handle_read is called a second time only for a load whose host name did not
\* resolve, and then once with each of the two errors: no path of a download that
\* did start answers twice.
TwiceOnlyUnresolved ==
  \A l \in Loads : Len(wsAnswers[l]) > 1 =>
    /\ ~resolved[l]
    /\ wsAnswers[l] \in {<<"COULD_NOT_RESOLVE", "CONNECT_ERROR">>,
                         <<"CONNECT_ERROR", "COULD_NOT_RESOLVE">>}

\* A load is answered unless its write failed, or the context was stopped under it
\* by the second answer of another load: every other path of the download ends in
\* handle_read.
AnsweredUnlessWriteFailed ==
  \A l \in Loads :
    Started(l) ~> (wsAnswers[l] # << >> \/ silent[l] \/ stopped)

\* The context is stopped under a load in progress only by the second answer of a load
\* whose host name did not resolve, never because the counter missed the load.
StrandedOnlyByUnresolved ==
  stopped /\ (\E l \in Loads : pending[l] # {} /\ wsAnswers[l] = << >>)
    => \E m \in Loads : ~resolved[m] /\ Len(wsAnswers[m]) = 2
=============================================================================
