------------------------- MODULE OutstandingCounter -------------------------
(***************************************************************************)
(* outstandingOperations_ as the machine sees it.  FileManager declares it *)
(* as a plain int (src/include/FileManager.hpp:54): LoadASync increments   *)
(* it on the application's thread while completion handlers decrement it   *)
(* on the threads that run the io_contexts, without a lock.  Module        *)
(* FileManager takes each handler as one step; here an increment and a     *)
(* decrement are the load and the store the compiler emits for them, and   *)
(* the threads interleave between the two.                                 *)
(*                                                                         *)
(* One application thread starts MaxOps operations, one after the other;   *)
(* Threads each run a context and complete operations, one at a time.      *)
(***************************************************************************)
EXTENDS Integers, FiniteSets

CONSTANTS
  Threads,  \* the threads that run the io_contexts, one context each
  MaxOps    \* how many operations the application starts (a bound)


VARIABLES
  outstandingOperations_, \* the shared int
  toStart,                \* operations the application has still to start
  appReg,                 \* the application's register, NoReg outside an increment
  ready,                  \* ready[t]: operations on t whose handler has not run
  reg,                    \* reg[t]: t's register, NoReg outside a decrement
  stopped,                \* stopped[t]: t's context was stopped
  neverHappens            \* the "This should never happen" branch was taken

vars == <<outstandingOperations_, toStart, appReg, ready, reg, stopped, neverHappens>>

NoReg == -1

Init ==
  /\ outstandingOperations_ = 0
  /\ toStart = MaxOps
  /\ appReg = NoReg
  /\ ready = [t \in Threads |-> 0]
  /\ reg = [t \in Threads |-> NoReg]
  /\ stopped = [t \in Threads |-> FALSE]
  /\ neverHappens = FALSE

\* LoadASync: IncrementOutstandingOperations loads the counter ...
IncrementLoad ==
  /\ toStart > 0 /\ appReg = NoReg
  /\ appReg' = outstandingOperations_
  /\ UNCHANGED <<outstandingOperations_, toStart, ready, reg, stopped, neverHappens>>

\* ... and stores it back; then the loader starts the operation on t's context.
IncrementStore(t) ==
  /\ appReg # NoReg
  /\ outstandingOperations_' = appReg + 1
  /\ appReg' = NoReg
  /\ toStart' = toStart - 1
  /\ ready' = [ready EXCEPT ![t] = @ + 1]
  /\ UNCHANGED <<reg, stopped, neverHappens>>

\* A completion handler on t: DecrementOutstandingOperations loads the counter.
\* An empty one is logged, and the context stopped.
DecrementLoad(t) ==
  /\ ~stopped[t] /\ ready[t] > 0 /\ reg[t] = NoReg
  /\ IF outstandingOperations_ <= 0
       THEN /\ neverHappens' = TRUE
            /\ stopped' = [stopped EXCEPT ![t] = TRUE]
            /\ ready' = [ready EXCEPT ![t] = @ - 1]
            /\ UNCHANGED reg
       ELSE /\ reg' = [reg EXCEPT ![t] = outstandingOperations_]
            /\ UNCHANGED <<ready, stopped, neverHappens>>
  /\ UNCHANGED <<outstandingOperations_, toStart, appReg>>

\* Otherwise it stores the decremented value, and stops the context at zero.
DecrementStore(t) ==
  /\ reg[t] # NoReg
  /\ outstandingOperations_' = reg[t] - 1
  /\ stopped' = IF reg[t] = 1 THEN [stopped EXCEPT ![t] = TRUE] ELSE stopped
  /\ reg' = [reg EXCEPT ![t] = NoReg]
  /\ ready' = [ready EXCEPT ![t] = @ - 1]
  /\ UNCHANGED <<toStart, appReg, neverHappens>>

\* The application restarts a stopped context to run what it started on it.
Restart(t) ==
  /\ stopped[t] /\ ready[t] > 0
  /\ stopped' = [stopped EXCEPT ![t] = FALSE]
  /\ UNCHANGED <<outstandingOperations_, toStart, appReg, ready, reg, neverHappens>>

Next ==
  \/ IncrementLoad
  \/ \E t \in Threads : IncrementStore(t) \/ DecrementLoad(t) \/ DecrementStore(t)
                         \/ Restart(t)

Spec == Init /\ [][Next]_vars

\* The comment in DecrementOutstandingOperations: finding the counter empty "should
\* never happen", since every decrement has its own increment before it.
NoUnderflow == ~neverHappens
=============================================================================
