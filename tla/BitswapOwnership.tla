-------------------------- MODULE BitswapOwnership --------------------------
(***************************************************************************)
(* Which Bitswap node IPFS loads and saves use.  FileManager::setBitswap   *)
(* and clearBitswap hold bitswapMutex_ and write five places one after the *)
(* other: cacheDir_, then the loader's externalBitswap_ and externalDht_,  *)
(* then the saver's two (src/src/FileManager.cpp:244-327,                  *)
(* src/src/IPFSLoader.cpp:219-238, src/src/IPFSSaver.cpp:31-50).           *)
(* IPFSLoader::LoadASync and IPFSSaver::SaveASync read their two pointers  *)
(* without the mutex, one atomic load each.                                *)
(*                                                                         *)
(* The IPFS loader and saver are registered before the first call          *)
(* (InitializeSingletons): a setBitswap before that only sets cacheDir_.   *)
(***************************************************************************)
EXTENDS Integers

CONSTANTS
  Callers,   \* threads that call setBitswap, clearBitswap, getCacheDir
  Readers,   \* threads inside IPFSLoader::LoadASync or IPFSSaver::SaveASync
  Bitswaps,  \* Bitswap instances, each owned by one node of the application
  Dhts,      \* DHT instances
  Null,      \* the null shared_ptr and the empty cache directory
  Free       \* bitswapMutex_ is not held

ASSUME NullIsFresh == Null \notin Bitswaps /\ Null \notin Dhts
ASSUME FreeIsFresh == Free \notin Callers

VARIABLES
  bitswapMutex_,   \* Free, or the caller that holds it
  cacheDir_,       \* named by the Bitswap instance it comes from
  loaderBitswap,   \* IPFSLoader::externalBitswap_
  loaderDht,       \* IPFSLoader::externalDht_
  saverBitswap,    \* IPFSSaver::externalBitswap_
  saverDht,        \* IPFSSaver::externalDht_
  pc,              \* pc[t]: where caller t is
  arg,             \* arg[t]: its bitswap and dht arguments
  cleared,         \* cleared[t]: clearBitswap's local
  rd,              \* rd[r]: what reader r has loaded, and the slots in force meanwhile
  committed,       \* history: the slot that the calls which have returned left
  intended         \* history: the slot that the call in progress is to leave

places == <<cacheDir_, loaderBitswap, loaderDht, saverBitswap, saverDht>>
history == <<committed, intended>>
vars == <<bitswapMutex_, places, pc, arg, cleared, rd, history>>

Slot(c, b, d) == [bitswap |-> b, dht |-> d, cacheDir |-> c]
Args == [bitswap : Bitswaps \cup {Null}, dht : Dhts \cup {Null}]
NoArgs == [bitswap |-> Null, dht |-> Null]

Slots == [bitswap : Bitswaps \cup {Null}, dht : Dhts \cup {Null},
          cacheDir : Bitswaps \cup {Null}]

\* A reader: nothing loaded yet, the Bitswap pointer of the loader or the saver
\* loaded, or both pointers; seen are the slots in force since the first load.
ReadStates == [at : {"idle", "half", "full"}, of : {"loader", "saver"},
               bitswap : Bitswaps \cup {Null}, dht : Dhts \cup {Null},
               seen : SUBSET Slots]
NoRead == [at |-> "idle", of |-> "loader", bitswap |-> Null, dht |-> Null, seen |-> {}]

Init ==
  /\ bitswapMutex_ = Free
  /\ cacheDir_ = Null
  /\ loaderBitswap = Null /\ loaderDht = Null
  /\ saverBitswap = Null /\ saverDht = Null
  /\ pc = [t \in Callers |-> "idle"]
  /\ arg = [t \in Callers |-> NoArgs]
  /\ cleared = [t \in Callers |-> FALSE]
  /\ rd = [r \in Readers |-> NoRead]
  /\ committed = Slot(Null, Null, Null) /\ intended = committed

Goto(t, l) == pc' = [pc EXCEPT ![t] = l]

\* A call that is to leave the slot new takes the mutex; readers between their two
\* loads may meet the old slot or the new one from now on.
Lock(t, new) ==
  /\ bitswapMutex_ = Free
  /\ bitswapMutex_' = t
  /\ intended' = new /\ UNCHANGED committed
  /\ rd' = [r \in Readers |-> IF rd[r].at = "half"
                              THEN [rd[r] EXCEPT !.seen = @ \cup {new}] ELSE rd[r]]

\* The lock_guard's destructor: the call returns, and its locals are gone.
Unlock(t) ==
  /\ bitswapMutex_' = Free
  /\ Goto(t, "idle")
  /\ arg' = [arg EXCEPT ![t] = NoArgs]
  /\ cleared' = [cleared EXCEPT ![t] = FALSE]
  /\ committed' = intended /\ UNCHANGED intended

-----------------------------------------------------------------------------
(* setBitswap. *)

\* Takes the mutex and sets cacheDir_.
SetLock(t, a) ==
  /\ pc[t] = "idle"
  /\ Lock(t, Slot(a.bitswap, a.bitswap, a.dht))
  /\ arg' = [arg EXCEPT ![t] = a]
  /\ cacheDir_' = a.bitswap
  /\ Goto(t, "setLoader")
  /\ UNCHANGED <<loaderBitswap, loaderDht, saverBitswap, saverDht, cleared>>

\* IPFSLoader::setBitswap: two atomic stores.
SetLoaderBitswap(t) ==
  /\ pc[t] = "setLoader"
  /\ loaderBitswap' = arg[t].bitswap
  /\ Goto(t, "setLoaderDht")
  /\ UNCHANGED <<bitswapMutex_, cacheDir_, loaderDht, saverBitswap, saverDht, arg,
                 cleared, rd, history>>

\* Mutant: a null DHT is not stored, so the previous node's stays.
SetLoaderDhtKeeps(t) ==
  /\ pc[t] = "setLoaderDht"
  /\ loaderDht' = IF arg[t].dht = Null THEN loaderDht ELSE arg[t].dht
  /\ Goto(t, "setSaver")
  /\ UNCHANGED <<bitswapMutex_, cacheDir_, loaderBitswap, saverBitswap, saverDht, arg,
                 cleared, rd, history>>

SetLoaderDht(t) ==
  /\ pc[t] = "setLoaderDht"
  /\ loaderDht' = arg[t].dht
  /\ Goto(t, "setSaver")
  /\ UNCHANGED <<bitswapMutex_, cacheDir_, loaderBitswap, saverBitswap, saverDht, arg,
                 cleared, rd, history>>

\* IPFSSaver::setBitswap: two atomic stores.
SetSaverBitswap(t) ==
  /\ pc[t] = "setSaver"
  /\ saverBitswap' = arg[t].bitswap
  /\ Goto(t, "setSaverDht")
  /\ UNCHANGED <<bitswapMutex_, cacheDir_, loaderBitswap, loaderDht, saverDht, arg,
                 cleared, rd, history>>

SetSaverDht(t) ==
  /\ pc[t] = "setSaverDht"
  /\ saverDht' = arg[t].dht
  /\ Unlock(t)
  /\ UNCHANGED <<cacheDir_, loaderBitswap, loaderDht, saverBitswap, rd>>

-----------------------------------------------------------------------------
(* clearBitswap( b ); a null b returns at once. *)

ClearLock(t, b) ==
  /\ pc[t] = "idle"
  /\ Lock(t, IF intended.bitswap = b THEN Slot(Null, Null, Null) ELSE intended)
  /\ arg' = [arg EXCEPT ![t] = [bitswap |-> b, dht |-> Null]]
  /\ Goto(t, "clearLoader")
  /\ UNCHANGED <<places, cleared>>

\* Mutant: an unconditional store instead of the compare-exchange.
ClearLoaderAlways(t) ==
  /\ pc[t] = "clearLoader"
  /\ loaderBitswap' = Null
  /\ Goto(t, "clearLoaderDht")
  /\ UNCHANGED <<bitswapMutex_, cacheDir_, loaderDht, saverBitswap, saverDht, arg,
                 cleared, rd, history>>

\* IPFSLoader::clearBitswap: compare-exchange, then the DHT if it succeeded.
ClearLoader(t) ==
  /\ pc[t] = "clearLoader"
  /\ IF loaderBitswap = arg[t].bitswap
       THEN loaderBitswap' = Null /\ Goto(t, "clearLoaderDht")
       ELSE UNCHANGED loaderBitswap /\ Goto(t, "clearSaver")
  /\ UNCHANGED <<bitswapMutex_, cacheDir_, loaderDht, saverBitswap, saverDht, arg,
                 cleared, rd, history>>

ClearLoaderDht(t) ==
  /\ pc[t] = "clearLoaderDht"
  /\ loaderDht' = Null
  /\ cleared' = [cleared EXCEPT ![t] = TRUE]
  /\ Goto(t, "clearSaver")
  /\ UNCHANGED <<bitswapMutex_, cacheDir_, loaderBitswap, saverBitswap, saverDht, arg,
                 rd, history>>

\* IPFSSaver::clearBitswap.
ClearSaver(t) ==
  /\ pc[t] = "clearSaver"
  /\ IF saverBitswap = arg[t].bitswap
       THEN saverBitswap' = Null /\ Goto(t, "clearSaverDht")
       ELSE UNCHANGED saverBitswap /\ Goto(t, "clearCache")
  /\ UNCHANGED <<bitswapMutex_, cacheDir_, loaderBitswap, loaderDht, saverDht, arg,
                 cleared, rd, history>>

\* Mutant: the saver's DHT is left behind.
ClearSaverDhtForgotten(t) ==
  /\ pc[t] = "clearSaverDht"
  /\ saverDht' = saverDht
  /\ cleared' = [cleared EXCEPT ![t] = TRUE]
  /\ Goto(t, "clearCache")
  /\ UNCHANGED <<bitswapMutex_, cacheDir_, loaderBitswap, loaderDht, saverBitswap, arg,
                 rd, history>>

ClearSaverDht(t) ==
  /\ pc[t] = "clearSaverDht"
  /\ saverDht' = Null
  /\ cleared' = [cleared EXCEPT ![t] = TRUE]
  /\ Goto(t, "clearCache")
  /\ UNCHANGED <<bitswapMutex_, cacheDir_, loaderBitswap, loaderDht, saverBitswap, arg,
                 rd, history>>

\* if ( cleared ) cacheDir_.clear(), and the mutex is released.
ClearCache(t) ==
  /\ pc[t] = "clearCache"
  /\ cacheDir_' = IF cleared[t] THEN Null ELSE cacheDir_
  /\ Unlock(t)
  /\ UNCHANGED <<loaderBitswap, loaderDht, saverBitswap, saverDht, rd>>

-----------------------------------------------------------------------------
(* Readers: IPFSLoader::LoadASync, and IPFSSaver::SaveASync on its own pair.  *)

\* atomic_load( &externalBitswap_ ); null falls back to the singleton device (a load)
\* or ends the call (a save).
ReadBitswap(r, of) ==
  LET b == IF of = "loader" THEN loaderBitswap ELSE saverBitswap
  IN  /\ rd[r].at # "half"
      /\ rd' = [rd EXCEPT ![r] =
           IF b = Null THEN NoRead
           ELSE [at |-> "half", of |-> of, bitswap |-> b, dht |-> Null,
                 seen |-> {committed, intended}]]
      /\ UNCHANGED <<bitswapMutex_, places, pc, arg, cleared, history>>

\* atomic_load( &externalDht_ ), later in the same call.
ReadDht(r) ==
  /\ rd[r].at = "half"
  /\ rd' = [rd EXCEPT ![r] =
       [@ EXCEPT !.at = "full",
                 !.dht = IF rd[r].of = "loader" THEN loaderDht ELSE saverDht]]
  /\ UNCHANGED <<bitswapMutex_, places, pc, arg, cleared, history>>

Next ==
  \/ \E t \in Callers :
       \/ \E a \in Args : SetLock(t, a)
       \/ \E b \in Bitswaps : ClearLock(t, b)
       \/ SetLoaderBitswap(t) \/ SetLoaderDht(t)
       \/ SetSaverBitswap(t) \/ SetSaverDht(t)
       \/ ClearLoader(t) \/ ClearLoaderDht(t)
       \/ ClearSaver(t) \/ ClearSaverDht(t) \/ ClearCache(t)
  \/ \E r \in Readers : (\E of \in {"loader", "saver"} : ReadBitswap(r, of)) \/ ReadDht(r)

Spec == Init /\ [][Next]_vars

-----------------------------------------------------------------------------
(* Properties. *)

SetLabels == {"setLoader", "setLoaderDht", "setSaver", "setSaverDht"}
ClearLabels == {"clearLoader", "clearLoaderDht", "clearSaver", "clearSaverDht",
                "clearCache"}
Labels == SetLabels \cup ClearLabels \cup {"idle"}

\* Every variable has its type, and exactly the caller inside a call holds the mutex.
TypeOK ==
  /\ bitswapMutex_ \in Callers \cup {Free}
  /\ cacheDir_ \in Bitswaps \cup {Null}
  /\ loaderBitswap \in Bitswaps \cup {Null} /\ loaderDht \in Dhts \cup {Null}
  /\ saverBitswap \in Bitswaps \cup {Null} /\ saverDht \in Dhts \cup {Null}
  /\ pc \in [Callers -> Labels]
  /\ arg \in [Callers -> Args]
  /\ cleared \in [Callers -> BOOLEAN]
  /\ rd \in [Readers -> ReadStates]
  /\ committed \in Slots /\ intended \in Slots
  /\ \A t \in Callers : bitswapMutex_ = t <=> pc[t] # "idle"

\* Whenever no call is in progress, loader, saver and cache directory belong to the
\* same Bitswap node, and loader and saver use the same DHT.
AgreeAtRest ==
  bitswapMutex_ = Free =>
    /\ loaderBitswap = saverBitswap /\ loaderDht = saverDht
    /\ cacheDir_ = loaderBitswap

\* The abstract slot: the places while no call is in progress, and until a call
\* returns what they were when it took the mutex.
SlotView == IF bitswapMutex_ = Free
              THEN Slot(cacheDir_, loaderBitswap, loaderDht) ELSE committed

CallView ==
  [t \in Callers |->
     [op |-> CASE pc[t] = "idle" -> "none"
               [] pc[t] \in SetLabels -> "set"
               [] OTHER -> "clear",
      bitswap |-> IF pc[t] = "idle" THEN Null ELSE arg[t].bitswap,
      dht |-> IF pc[t] = "idle" THEN Null ELSE arg[t].dht]]

\* The five writes of a call take effect as one: setBitswap replaces the slot,
\* clearBitswap empties it only if it still holds the caller's instance.
Abstract == INSTANCE BitswapSlot WITH slot <- SlotView, call <- CallView
CallsAreAtomic == Abstract!Spec

\* LoadASync and SaveASync read their two pointers without the mutex, so a call that
\* overlaps them can tear the pair; the tear is bounded.  Each pointer comes from a
\* slot that was in force while they were read: never a DHT of a node replaced, or a
\* Bitswap cleared, before the read began, and both from the one slot when no call
\* overlapped.
ReadsAreCurrent ==
  \A r \in Readers :
    /\ rd[r].at # "idle" => \E s \in rd[r].seen : rd[r].bitswap = s.bitswap
    /\ rd[r].at = "full" => \E s \in rd[r].seen : rd[r].dht = s.dht

\* A node's instance leaves the loader or the saver for null only in a call about
\* that instance (or setBitswap( nullptr )): handing over to a newer node opens no
\* gap in which loads fall back to the singleton device.
OnlyOwnerClears ==
  [][\A t \in Callers :
       bitswapMutex_ = t =>
         /\ loaderBitswap # Null /\ loaderBitswap' = Null =>
              arg[t].bitswap \in {loaderBitswap, Null}
         /\ saverBitswap # Null /\ saverBitswap' = Null =>
              arg[t].bitswap \in {saverBitswap, Null}]_vars
=============================================================================
