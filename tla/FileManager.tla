----------------------------- MODULE FileManager -----------------------------
(***************************************************************************)
(* The asynchronous core of AsyncIOManager (src/src/FileManager.cpp): the  *)
(* registries of loaders and savers, the global counter of outstanding     *)
(* operations and the io_contexts it stops.                                *)
(*                                                                         *)
(* An operation is one call of LoadASync or SaveASync.  It runs on the     *)
(* io_context the caller passes; its completion handlers (handle_read,     *)
(* handle_write) run on that context's thread, and only while the context  *)
(* is not stopped.  Loaders and savers are represented by the contract     *)
(* they give FileManager (module OneShot): a call either throws before it  *)
(* starts anything, or invokes its handler exactly once, later.            *)
(*                                                                         *)
(* A handler is one atomic step: the thread that runs it is the only one   *)
(* touching the counter meanwhile.  Module OutstandingCounter drops that   *)
(* assumption.                                                             *)
(***************************************************************************)
EXTENDS Integers, FiniteSets

CONSTANTS
  Ops,        \* the operations the application may start, each once
  Contexts,   \* the boost::asio::io_contexts operations run on
  Prefixes,   \* URL prefixes and savetypes the application may name
  NoSave,     \* "save" was false: the load stores nothing
  NoRequest   \* the request of an operation that is not in flight

\* What a load's handlers are given: the context, the savetype if save is set, and
\* whether the data shall be parsed.
Requests == [ioc : Contexts, savetype : Prefixes \cup {NoSave}, parse : BOOLEAN]

ASSUME OpsFinite     == IsFiniteSet(Ops)
ASSUME NoSaveIsFresh == NoSave \notin Prefixes
ASSUME NoRequestIsFresh == NoRequest \notin Requests

VARIABLES
  loaders,                \* prefixes with a registered FileLoader
  savers,                 \* prefixes with a registered FileSaver
  parsers,                \* suffixes with a registered FileParser; only "mnn" matters
  outstandingOperations_, \* the counter
  stopped,                \* stopped[c]: io_context c has been stopped
  phase,                  \* how far each operation got
  req,                    \* its request while it is in flight
  finals,                 \* how often the caller's finalcall was invoked
  neverHappens,           \* the "This should never happen" branch was taken
  crashed                 \* the process died on an unchecked map iterator

vars == <<loaders, savers, parsers, outstandingOperations_, stopped, phase, req, finals,
          neverHappens, crashed>>

registry == <<loaders, savers, parsers>>
counter == <<outstandingOperations_, stopped, neverHappens>>

(***************************************************************************)
(* Phases of an operation:                                                 *)
(*   loading  LoadASync: the loader is at work                             *)
(*   storing  LoadASync with save: the loaded data is being saved          *)
(*   writing  SaveASync: the saver is at work                              *)
(*   done     the counter was given back                                   *)
(*   threw    the call left by an exception and holds no count             *)
(*   lost     an exception left an operation counted with nobody left to   *)
(*            give the count back                                          *)
(***************************************************************************)
InFlightPhases == {"loading", "storing", "writing"}
CountedPhases  == InFlightPhases \cup {"lost"}
Phases == CountedPhases \cup {"idle", "done", "threw"}

InFlight == {o \in Ops : phase[o] \in InFlightPhases}
Counted  == {o \in Ops : phase[o] \in CountedPhases}

\* Operations whose completion has to run on context c.
PendingOn(c) == {o \in InFlight : req[o].ioc = c}

Init ==
  /\ loaders = {} /\ savers = {} /\ parsers = {}
  /\ outstandingOperations_ = 0
  /\ stopped = [c \in Contexts |-> FALSE]
  /\ phase = [o \in Ops |-> "idle"]
  /\ req = [o \in Ops |-> NoRequest]
  /\ finals = [o \in Ops |-> 0]
  /\ neverHappens = FALSE
  /\ crashed = FALSE

-----------------------------------------------------------------------------
(* Registration. *)

RegisterLoader(p) ==
  /\ ~crashed
  /\ loaders' = loaders \cup {p}
  /\ UNCHANGED <<savers, parsers, counter, phase, req, finals, crashed>>

RegisterSaver(p) ==
  /\ ~crashed
  /\ savers' = savers \cup {p}
  /\ UNCHANGED <<loaders, parsers, counter, phase, req, finals, crashed>>

RegisterParser ==
  /\ ~crashed
  /\ parsers' = {"mnn"}
  /\ UNCHANGED <<loaders, savers, counter, phase, req, finals, crashed>>

\* MNNLoader, HTTPLoader, IPFSLoader, IPFSSaver, MNNSaver and SFTPSaver register
\* themselves; WSLoader, SFTPLoader and MNNParser are commented out.
InitializeSingletons ==
  /\ ~crashed
  /\ loaders' = loaders \cup ({"file", "https", "ipfs"} \cap Prefixes)
  /\ savers' = savers \cup ({"ipfs", "file", "mnn", "sftp"} \cap Prefixes)
  /\ UNCHANGED <<parsers, counter, phase, req, finals, crashed>>

-----------------------------------------------------------------------------
(* The counter.  n is its value when the function is entered. *)

IncrementOutstandingOperations(n) == n + 1

\* Mutant: the context is stopped one operation too early.
DecrementStopsEarly(n, c) ==
  /\ outstandingOperations_' = IF n <= 0 THEN n ELSE n - 1
  /\ stopped' = IF n <= 2 THEN [stopped EXCEPT ![c] = TRUE] ELSE stopped
  /\ neverHappens' = (neverHappens \/ n <= 0)

\* Mutant: the last completion does not stop the context.
DecrementNeverStops(n, c) ==
  /\ outstandingOperations_' = IF n <= 0 THEN n ELSE n - 1
  /\ stopped' = IF n <= 0 THEN [stopped EXCEPT ![c] = TRUE] ELSE stopped
  /\ neverHappens' = (neverHappens \/ n <= 0)

\* An empty counter is logged as "should never happen" and left alone; either
\* way a counter that is empty afterwards stops the context it was given.
DecrementOutstandingOperations(n, c) ==
  /\ outstandingOperations_' = IF n <= 0 THEN n ELSE n - 1
  /\ stopped' = IF n <= 1 THEN [stopped EXCEPT ![c] = TRUE] ELSE stopped
  /\ neverHappens' = (neverHappens \/ n <= 0)

\* The operation leaves FileManager's hands in phase p.
Leave(o, p) ==
  /\ phase' = [phase EXCEPT ![o] = p]
  /\ req' = [req EXCEPT ![o] = NoRequest]

FinalCall(o) == finals' = [finals EXCEPT ![o] = @ + 1]

-----------------------------------------------------------------------------
(* LoadASync. *)

\* No loader for the prefix: range_error before anything is counted.
LoadASyncUnregistered(o, p) ==
  /\ ~crashed
  /\ phase[o] = "idle"
  /\ p \notin loaders
  /\ Leave(o, "threw")
  /\ UNCHANGED <<registry, counter, finals, crashed>>

\* Counted, and the loader accepted the request.
LoadASync(o, p, r) ==
  /\ ~crashed
  /\ phase[o] = "idle"
  /\ p \in loaders
  /\ outstandingOperations_' =
       IncrementOutstandingOperations(outstandingOperations_)
  /\ phase' = [phase EXCEPT ![o] = "loading"]
  /\ req' = [req EXCEPT ![o] = r]
  /\ UNCHANGED <<registry, stopped, finals, neverHappens, crashed>>

\* The loader throws out of its LoadASync (HTTPDevice does when it cannot set
\* SNI).  There is no try block here: the count stays.
LoadASyncThrows(o, p) ==
  /\ ~crashed
  /\ phase[o] = "idle"
  /\ p \in loaders
  /\ outstandingOperations_' =
       IncrementOutstandingOperations(outstandingOperations_)
  /\ Leave(o, "lost")
  /\ UNCHANGED <<registry, stopped, finals, neverHappens, crashed>>

\* The thread of o's context dispatches a completion handler of o.
Dispatches(o, p) ==
  /\ ~crashed
  /\ phase[o] = p
  /\ ~stopped[req[o].ioc]

\* handle_read with a failure, whatever was asked for, or with data and save not
\* set: the counter first, then the caller's finalcall.
HandleReadDone(o) ==
  /\ Dispatches(o, "loading")
  /\ DecrementOutstandingOperations(outstandingOperations_, req[o].ioc)
  /\ Leave(o, "done")
  /\ FinalCall(o)
  /\ UNCHANGED <<registry, crashed>>

\* handle_read with data to save: the saver is started, and finalcall is invoked
\* at once, before the save ends.
HandleReadSave(o) ==
  /\ Dispatches(o, "loading")
  /\ req[o].savetype \in savers
  /\ phase' = [phase EXCEPT ![o] = "storing"]
  /\ FinalCall(o)
  /\ UNCHANGED <<registry, counter, req, crashed>>

\* The saver throws (MNNSaver does): the exception leaves handle_read and
\* io_context::run(), past the finalcall and past every decrement.
HandleReadSaveThrows(o) ==
  /\ Dispatches(o, "loading")
  /\ req[o].savetype \in savers
  /\ Leave(o, "lost")
  /\ UNCHANGED <<registry, counter, finals, crashed>>

\* savers.find( savetype ) and parsers.find( "mnn" ) are dereferenced without a check.
\* What end()->second does is undefined: for the saver, which is called through it,
\* the process dies; for the parser, which is not used, it may also go on.
HandleReadUnregistered(o) ==
  /\ Dispatches(o, "loading")
  /\ \/ req[o].savetype \in Prefixes \ savers
     \/ req[o].parse /\ parsers = {}
  /\ crashed' = TRUE
  /\ UNCHANGED <<registry, counter, phase, req, finals>>

\* Mutant: the stored copy's completion invokes finalcall a second time.
HandleWriteOfLoadFinal(o) ==
  /\ Dispatches(o, "storing")
  /\ DecrementOutstandingOperations(outstandingOperations_, req[o].ioc)
  /\ Leave(o, "done")
  /\ FinalCall(o)
  /\ UNCHANGED <<registry, crashed>>

\* Mutant: the handle_write given to the saver is empty.
HandleWriteOfLoadEmpty(o) ==
  /\ Dispatches(o, "storing")
  /\ UNCHANGED vars

\* The handle_write that handle_read gives the saver.
HandleWriteOfLoad(o) ==
  /\ Dispatches(o, "storing")
  /\ DecrementOutstandingOperations(outstandingOperations_, req[o].ioc)
  /\ Leave(o, "done")
  /\ UNCHANGED <<registry, finals, crashed>>

-----------------------------------------------------------------------------
(* SaveASync. *)

SaveASyncUnregistered(o, p) ==
  /\ ~crashed
  /\ phase[o] = "idle"
  /\ p \notin savers
  /\ Leave(o, "threw")
  /\ UNCHANGED <<registry, counter, finals, crashed>>

SaveASync(o, p, c) ==
  /\ ~crashed
  /\ phase[o] = "idle"
  /\ p \in savers
  /\ outstandingOperations_' =
       IncrementOutstandingOperations(outstandingOperations_)
  /\ phase' = [phase EXCEPT ![o] = "writing"]
  /\ req' = [req EXCEPT ![o] = [ioc |-> c, savetype |-> NoSave, parse |-> FALSE]]
  /\ UNCHANGED <<registry, stopped, finals, neverHappens, crashed>>

\* Mutant: the catch block is missing, as it is in LoadASync.
SaveASyncThrowsLeaks(o, p, c) ==
  /\ ~crashed
  /\ phase[o] = "idle"
  /\ p \in savers
  /\ outstandingOperations_' =
       IncrementOutstandingOperations(outstandingOperations_)
  /\ Leave(o, "threw")
  /\ UNCHANGED <<registry, stopped, finals, neverHappens, crashed>>

\* The saver throws: the catch block takes the count back, which stops the
\* context if this was the only operation, and rethrows.
SaveASyncThrows(o, p, c) ==
  /\ ~crashed
  /\ phase[o] = "idle"
  /\ p \in savers
  /\ DecrementOutstandingOperations(
       IncrementOutstandingOperations(outstandingOperations_), c)
  /\ Leave(o, "threw")
  /\ UNCHANGED <<registry, finals, crashed>>

\* SaveASync's handle_write.
HandleWrite(o) ==
  /\ Dispatches(o, "writing")
  /\ DecrementOutstandingOperations(outstandingOperations_, req[o].ioc)
  /\ Leave(o, "done")
  /\ FinalCall(o)
  /\ UNCHANGED <<registry, crashed>>

-----------------------------------------------------------------------------
\* The application restarts a stopped context to run more work on it.
Restart(c) ==
  /\ ~crashed
  /\ stopped[c]
  /\ stopped' = [stopped EXCEPT ![c] = FALSE]
  /\ UNCHANGED <<registry, outstandingOperations_, phase, req, finals,
                 neverHappens, crashed>>

Handler(o) ==
  \/ HandleReadDone(o)
  \/ HandleReadSave(o) \/ HandleReadSaveThrows(o) \/ HandleReadUnregistered(o)
  \/ HandleWriteOfLoad(o) \/ HandleWrite(o)

Call(o) ==
  \E p \in Prefixes :
    \/ LoadASyncUnregistered(o, p)
    \/ \E r \in Requests : LoadASync(o, p, r)
    \/ LoadASyncThrows(o, p)
    \/ SaveASyncUnregistered(o, p)
    \/ \E c \in Contexts : SaveASync(o, p, c) \/ SaveASyncThrows(o, p, c)

Next ==
  \/ InitializeSingletons \/ RegisterParser
  \/ \E p \in Prefixes : RegisterLoader(p) \/ RegisterSaver(p)
  \/ \E o \in Ops : Call(o) \/ Handler(o)
  \/ \E c \in Contexts : Restart(c)

(***************************************************************************)
(* Fairness: a loader or saver that was started invokes its handler, and   *)
(* the application runs a context as long as it has operations on it: it   *)
(* restarts one that was stopped while work is pending.  No call of the    *)
(* application is fair.                                                    *)
(***************************************************************************)
Fairness ==
  /\ \A o \in Ops : WF_vars(Handler(o))
  /\ \A c \in Contexts : WF_vars(PendingOn(c) # {} /\ Restart(c))

Spec == Init /\ [][Next]_vars /\ Fairness

-----------------------------------------------------------------------------
(* Properties. *)

\* Every variable has its type; an operation has a request exactly while it is
\* in flight, so handle_read and handle_write always have a context to stop.
TypeOK ==
  /\ loaders \subseteq Prefixes /\ savers \subseteq Prefixes /\ parsers \subseteq {"mnn"}
  /\ outstandingOperations_ \in Int
  /\ stopped \in [Contexts -> BOOLEAN]
  /\ phase \in [Ops -> Phases]
  /\ req \in [Ops -> Requests \cup {NoRequest}]
  /\ \A o \in Ops : req[o] \in Requests <=> phase[o] \in InFlightPhases
  /\ finals \in [Ops -> Nat]
  /\ neverHappens \in BOOLEAN /\ crashed \in BOOLEAN

\* The counter equals the number of operations that still hold a count: those in
\* flight and those an exception lost.  Neither a save that follows a load, nor a
\* failed load, nor SaveASync's catch block counts twice or not at all.
CountExact == outstandingOperations_ = Cardinality(Counted)

\* DecrementOutstandingOperations never finds the counter empty: the branch it
\* logs as "This should never happen" is unreachable when every loader and saver
\* invokes its handler once.
NoUnderflow == ~neverHappens

\* finalcall is invoked exactly once for an operation that completes (for a load
\* with save: when the load ends, not when the save does), and never for one that
\* left by an exception.
FinalCallOnce ==
  \A o \in Ops : finals[o] = IF phase[o] \in {"storing", "done"} THEN 1 ELSE 0

\* FileManager stops a context only when no operation is in flight on any
\* context: a stop never strands a completion that is still to come.
StopStrandsNothing ==
  [][(\E c \in Contexts : ~stopped[c] /\ stopped'[c]) => InFlight' = {}]_vars

\* When the last operation completes, and none was lost, the context it ran on is
\* stopped in the same step.
LastOneStops ==
  [][\A o \in InFlight :
       Counted' = {} => stopped'[req[o].ioc]]_vars

\* Every operation that was started completes, is lost to an exception or dies
\* with the process, provided contexts with pending operations are run.
OperationsComplete ==
  \A o \in Ops : o \in InFlight ~> (phase[o] \in {"done", "lost"} \/ crashed)
=============================================================================
