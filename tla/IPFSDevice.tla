----------------------------- MODULE IPFSDevice -----------------------------
(***************************************************************************)
(* ipfs loads: IPFSLoader::LoadASync and the IPFSDevice that serves them   *)
(* (src/src/IPFSLoader.cpp, src/src/IPFSCommon.cpp).                       *)
(*                                                                         *)
(* A load with an external bitswap gets a device of its own; every other   *)
(* load shares the singleton that getInstance creates on the io_context of *)
(* the first of them.  A device looks for providers in its DHT, tries      *)
(* again when there is none yet, then asks bitswap for the content.  It    *)
(* has ONE retry timer, dhtretry_, and asio's rule for it: expires_from_now *)
(* aborts the wait in progress.                                            *)
(*                                                                         *)
(* The completion of a load is a token that moves between work items: what *)
(* is queued or under way for it.  The DHT and bitswap are external: their *)
(* callbacks come once, at any time, with any outcome, but those of the    *)
(* singleton are handlers of the context it was created on, like its timer *)
(* (IpfsDHT and Bitswap are given that io_context), and come only while it *)
(* is run.  An external bitswap and DHT run on a context of their owner,   *)
(* who is assumed to run it.                                               *)
(***************************************************************************)
EXTENDS Naturals, Sequences

CONSTANTS
  Loads,      \* calls of LoadASync
  Contexts,   \* the io_contexts they run on
  NoContext   \* the context of a load that was not started

ASSUME NoContextIsFresh == NoContext \notin Contexts

VARIABLES
  instance,     \* IPFSDevice::instance_: none, started, or kept though dht_->Start failed
  instanceIoc,  \* the context its timer, its DHT and its Bitswap run on
  running,      \* running[c]: a thread runs context c
  ioc,          \* ioc[l]: the context of load l
  device,       \* device[l]: its device, and whether that has a DHT
  pending,      \* pending[l]: the work items of load l
  answers,      \* answers[l]: what handle_read was called with
  lost          \* lost[l]: how its completion was dropped, or "no"

vars == <<instance, instanceIoc, running, ioc, device, pending, answers, lost>>

(***************************************************************************)
(* Work items: posted to the load's context (start, request and the        *)
(* answers), waiting for a callback of DHT or bitswap (find, content), and *)
(* the timer's (wait, or its handler queued: due, aborted).                *)
(***************************************************************************)
Answers == {"INVALID_URL", "BAD_CID", "CANNOT_LISTEN", "CANNOT_DECODE", "data"}
Timed   == {"wait", "due", "aborted"}
Awaited == {"find", "content"}
Work    == {"start", "request"} \cup Awaited \cup Timed \cup Answers

Started == {l \in Loads : ioc[l] # NoContext}
Unanswered == {l \in Started : answers[l] = << >>}

Init ==
  /\ instance = "none" /\ instanceIoc = NoContext
  /\ running = [c \in Contexts |-> FALSE]
  /\ ioc = [l \in Loads |-> NoContext]
  /\ device = [l \in Loads |-> "none"]
  /\ pending = [l \in Loads |-> {}]
  /\ answers = [l \in Loads |-> << >>]
  /\ lost = [l \in Loads |-> "no"]

\* Work item w of load l has run; the items ws follow from it.
Move(l, w, ws) == pending' = [pending EXCEPT ![l] = (@ \ {w}) \cup ws]

\* An item of load l that only its own context can run.
OnContext(l, w) == w \in pending[l] /\ running[ioc[l]]

-----------------------------------------------------------------------------
(* LoadASync, on the caller's thread.  The application runs the context it *)
(* passes.                                                                 *)

Call(l, c, d, w) ==
  /\ ioc[l] = NoContext
  /\ ioc' = [ioc EXCEPT ![l] = c]
  /\ running' = [running EXCEPT ![c] = TRUE]
  /\ device' = [device EXCEPT ![l] = d]
  /\ pending' = [pending EXCEPT ![l] = {w}]
  /\ UNCHANGED <<answers, lost>>

LoadASyncInvalidURL(l, c) ==
  /\ Call(l, c, "none", "INVALID_URL")
  /\ UNCHANGED <<instance, instanceIoc>>

\* With an external bitswap: a bad CID, a device that cannot be made, or one of
\* the load's own, with the external DHT or without.
LoadASyncExternal(l, c) ==
  /\ \/ Call(l, c, "none", "BAD_CID")
     \/ Call(l, c, "none", "CANNOT_LISTEN")
     \/ Call(l, c, "own", "start")
     \/ Call(l, c, "direct", "request")
  /\ UNCHANGED <<instance, instanceIoc>>

\* getInstance succeeds: the existing instance, started or not, or a new one.
GetInstance(c) ==
  /\ instance' = IF instance = "none" THEN "started" ELSE instance
  /\ instanceIoc' = IF instance = "none" THEN c ELSE instanceIoc

\* getInstance fails: host_->listen fails and the instance is dropped, or
\* dht_->Start fails and it stays.
GetInstanceFails(c) ==
  /\ instance = "none"
  /\ \/ UNCHANGED <<instance, instanceIoc>>
     \/ instance' = "unstarted" /\ instanceIoc' = c

\* Without an external bitswap the singleton is made before the CID is looked at.
LoadASyncShared(l, c) ==
  \/ GetInstanceFails(c) /\ Call(l, c, "none", "CANNOT_LISTEN")
  \/ GetInstance(c) /\ Call(l, c, "none", "BAD_CID")
  \/ GetInstance(c) /\ Call(l, c, "shared", "start")

-----------------------------------------------------------------------------
(* The device. *)

\* Mutant: one timer for all devices.
SharesAnyTimer(l, m) == TRUE

\* Every load on the singleton uses its one timer.
SharesTimer(l, m) == l = m \/ (device[l] = "shared" /\ device[m] = "shared")

\* The loads whose wait is in progress on the timer of load l's device.
WaitingWith(l) == {m \in Loads : "wait" \in pending[m] /\ SharesTimer(l, m)}

TimerIoc(l) == IF device[l] = "shared" THEN instanceIoc ELSE ioc[l]

\* The DHT or the bitswap of load l's device can call back for item w.
CalledBack(l, w) == w \in pending[l] /\ (device[l] = "shared" => running[instanceIoc])

\* A handler that may start the search: the one LoadASync posts, or the timer's.
Searches(l, w) ==
  \/ w = "start" /\ OnContext(l, w)
  \/ w = "due" /\ w \in pending[l] /\ running[TimerIoc(l)]

same == <<instance, instanceIoc, running, ioc, device>>

\* FindProviders is under way, or cannot start and the failure is posted.
StartFindingPeers(l, w) ==
  /\ Searches(l, w)
  /\ Move(l, w, {"find"}) \/ Move(l, w, {"CANNOT_DECODE"})
  /\ UNCHANGED <<same, answers, lost>>

\* PeerId::fromHash(...).value() throws for a CID that is no peer id: the exception
\* leaves io_context::run, the completion goes with the handler and the context is
\* not run until the application does so again.
StartFindingPeersThrows(l, w) ==
  /\ Searches(l, w)
  /\ Move(l, w, {})
  /\ lost' = [lost EXCEPT ![l] = "threw"]
  /\ running' = [running EXCEPT ![IF w = "due" THEN TimerIoc(l) ELSE ioc[l]] = FALSE]
  /\ UNCHANGED <<instance, instanceIoc, ioc, device, answers>>

\* Mutant: the error is logged and the completion swallowed.
ProvidersErrorSwallowed(l) ==
  /\ CalledBack(l, "find")
  /\ Move(l, "find", {})
  /\ UNCHANGED <<same, answers, lost>>

\* The DHT calls back with an error.
ProvidersError(l) ==
  /\ CalledBack(l, "find")
  /\ Move(l, "find", {"CANNOT_DECODE"})
  /\ UNCHANGED <<same, answers, lost>>

\* The DHT calls back with providers: they are added and bitswap is asked.
ProvidersFound(l) ==
  /\ CalledBack(l, "find")
  /\ Move(l, "find", {"content"})
  /\ UNCHANGED <<same, answers, lost>>

\* The DHT calls back with an empty list: expires_from_now aborts the waits in
\* progress on the device's timer, async_wait begins one for this load.
StartFindingPeersWithRetry(l) ==
  /\ CalledBack(l, "find")
  /\ pending' = [m \in Loads |->
       IF m = l THEN (pending[m] \ {"find"}) \cup {"wait"}
       ELSE IF m \in WaitingWith(l) THEN (pending[m] \ {"wait"}) \cup {"aborted"}
       ELSE pending[m]]
  /\ UNCHANGED <<same, answers, lost>>

\* Ten seconds later.
RetryDue(l) ==
  /\ "wait" \in pending[l] /\ running[TimerIoc(l)]
  /\ Move(l, "wait", {"due"})
  /\ UNCHANGED <<same, answers, lost>>

\* The handler of an aborted wait only logs.
RetryAborted(l) ==
  /\ "aborted" \in pending[l] /\ running[TimerIoc(l)]
  /\ Move(l, "aborted", {})
  /\ lost' = [lost EXCEPT ![l] = "aborted"]
  /\ UNCHANGED <<same, answers>>

RequestBlockMain(l) ==
  /\ OnContext(l, "request")
  /\ Move(l, "request", {"content"})
  /\ UNCHANGED <<same, answers, lost>>

\* Mutant: a failure is posted and the handler goes on to convert nothing.
ContentResultTwice(l) ==
  /\ CalledBack(l, "content")
  /\ Move(l, "content", {"CANNOT_DECODE", "data"})
  /\ UNCHANGED <<same, answers, lost>>

\* bitswap calls back: content that converts, or an error of either.
ContentResult(l) ==
  /\ CalledBack(l, "content")
  /\ \E a \in {"CANNOT_DECODE", "data"} : Move(l, "content", {a})
  /\ UNCHANGED <<same, answers, lost>>

\* Mutant: the context is stopped while operations are outstanding.
HandleReadStops(l, a) ==
  /\ OnContext(l, a)
  /\ Move(l, a, {})
  /\ answers' = [answers EXCEPT ![l] = Append(@, a)]
  /\ running' = [running EXCEPT ![ioc[l]] = FALSE]
  /\ UNCHANGED <<instance, instanceIoc, ioc, device, lost>>

\* A posted answer runs: FileManager's handle_read, which stops this context when
\* no other operation is outstanding.
HandleRead(l, a) ==
  /\ OnContext(l, a)
  /\ Move(l, a, {})
  /\ answers' = [answers EXCEPT ![l] = Append(@, a)]
  /\ running' = [running EXCEPT ![ioc[l]] = Unanswered # {l}]
  /\ UNCHANGED <<instance, instanceIoc, ioc, device, lost>>

\* The application stops running a context when the loads it started on it have
\* been answered, whatever the singleton still has to do on it for other loads.
RunReturns(c) ==
  /\ running[c]
  /\ \A l \in Unanswered : ioc[l] # c
  /\ running' = [running EXCEPT ![c] = FALSE]
  /\ UNCHANGED <<instance, instanceIoc, ioc, device, pending, answers, lost>>

LoadASync(l, c) ==
  LoadASyncInvalidURL(l, c) \/ LoadASyncExternal(l, c) \/ LoadASyncShared(l, c)

\* The callbacks of DHT and bitswap.
Callback(l) ==
  \/ ProvidersError(l) \/ ProvidersFound(l) \/ StartFindingPeersWithRetry(l)
  \/ ContentResult(l)

\* What the threads that run the contexts do for load l.
Handler(l) ==
  \/ \E w \in {"start", "due"} : StartFindingPeers(l, w) \/ StartFindingPeersThrows(l, w)
  \/ RetryDue(l) \/ RetryAborted(l)
  \/ RequestBlockMain(l)
  \/ \E a \in Answers : HandleRead(l, a)

Next ==
  \/ \E l \in Loads, c \in Contexts : LoadASync(l, c)
  \/ \E l \in Loads : Callback(l) \/ Handler(l)
  \/ \E c \in Contexts : RunReturns(c)

(***************************************************************************)
(* Fairness: a context that is run runs its handlers, and DHT and bitswap  *)
(* call back once for each request while the context they run on is run;   *)
(* nothing is assumed of the outcome, nor of a context that is not run.    *)
(***************************************************************************)
Fairness == \A l \in Loads : WF_vars(Callback(l)) /\ WF_vars(Handler(l))

Spec == Init /\ [][Next]_vars /\ Fairness

-----------------------------------------------------------------------------
(* Properties. *)

\* Every variable has its type, and an instance has a context.
TypeOK ==
  /\ instance \in {"none", "started", "unstarted"}
  /\ instanceIoc \in IF instance = "none" THEN {NoContext} ELSE Contexts
  /\ running \in [Contexts -> BOOLEAN]
  /\ ioc \in [Loads -> Contexts \cup {NoContext}]
  /\ device \in [Loads -> {"none", "direct", "own", "shared"}]
  /\ pending \in [Loads -> SUBSET Work]
  /\ answers \in [Loads -> Seq(Answers)]
  /\ lost \in [Loads -> {"no", "aborted", "threw"}]

NotStarted(l) == ioc[l] = NoContext /\ pending[l] = {} /\ answers[l] = << >> /\ lost[l] = "no"
UnderWay(l)   == (\E w \in Work : pending[l] = {w}) /\ answers[l] = << >> /\ lost[l] = "no"
Answered(l)   == pending[l] = {} /\ (\E a \in Answers : answers[l] = <<a>>) /\ lost[l] = "no"
Lost(l)       == pending[l] = {} /\ answers[l] = << >> /\ lost[l] # "no"

\* The completion of a load is never duplicated and vanishes on no path but the two
\* recorded in lost: from LoadASync to handle_read, through every retry, exactly one
\* work item stands for it.
OneCompletion ==
  \A l \in Loads : NotStarted(l) \/ (l \in Started /\ (UnderWay(l) \/ Answered(l) \/ Lost(l)))

\* At most one load waits on a device's timer; it is what makes the loser of a
\* retry race lose its completion rather than share the next expiry.
OneWaiter ==
  \A l, m \in Loads :
    "wait" \in pending[l] /\ "wait" \in pending[m] /\ SharesTimer(l, m) => l = m

\* A load loses its completion to an aborted wait only on the singleton, and only
\* to another load of the singleton: a load with its own device is safe however
\* many others retry at the same time.
LostOnlyToRival ==
  \A l \in Loads : lost[l] = "aborted" =>
    device[l] = "shared" /\ \E m \in Loads \ {l} : device[m] = "shared"

\* Nobody runs the context that the load's next handler or callback needs.
Stranded(l) ==
  \E w \in pending[l] :
    \/ w \in Awaited /\ ~CalledBack(l, w)
    \/ w \in Timed /\ ~running[TimerIoc(l)]
    \/ w \notin Awaited \cup Timed /\ ~running[ioc[l]]

\* A load is stranded only by the singleton, whose timer, DHT and Bitswap are bound to
\* the context of the load that happened to create it, and then only when no load of
\* that context is under way any more; or after an exception left a context.  Stopping
\* a context never strands a load of its own.
StrandedOnlyBySingleton ==
  \A l \in Loads : Stranded(l) =>
    \/ /\ device[l] = "shared" /\ pending[l] \subseteq Awaited \cup Timed
       /\ \A m \in Loads : ioc[m] = instanceIoc => pending[m] = {}
    \/ \E m \in Loads : lost[m] = "threw"

Settled(l) == answers[l] # << >> \/ lost[l] # "no" \/ Stranded(l)

\* Nothing else can keep a caller waiting: a load is answered, lost, stranded, or
\* begins another retry; and a retry ends in a new search.
NeverStuck ==
  \A l \in Loads :
    /\ ioc[l] # NoContext ~> (Settled(l) \/ "wait" \in pending[l])
    /\ "wait" \in pending[l] ~> (Settled(l) \/ "find" \in pending[l])

\* "Always deliver a completion to the caller" (IPFSCommon.cpp, StartFindingPeers):
\* no path of the retry drops it.
CompletionAlwaysDelivered == \A l \in Loads : lost[l] # "aborted"
=============================================================================
