----------------------- MODULE BitswapOwnershipProofs -----------------------
(***************************************************************************)
(* Proofs about BitswapOwnership, for any sets of callers, readers,        *)
(* Bitswap and DHT instances: the places agree whenever the mutex is free, *)
(* the calls implement the atomic slot of BitswapSlot, readers use no      *)
(* pointer from before they began, and nobody but its owner clears a node. *)
(*                                                                         *)
(* AgreeAtRest says nothing while a call is in progress, so it is not      *)
(* inductive: WriterInv adds, for every label of a call, which places the  *)
(* holder of the mutex has already written and which still have the value  *)
(* they had when it took the mutex, and BetweenInv that no place is ever   *)
(* outside the old slot and the new one.                                   *)
(***************************************************************************)
EXTENDS BitswapOwnership, TLAPS

\* Nothing has been written since the mutex was taken, and the places agreed then.
Untouched ==
  /\ committed = Slot(cacheDir_, loaderBitswap, loaderDht)
  /\ loaderBitswap = saverBitswap /\ loaderDht = saverDht
  /\ cacheDir_ = loaderBitswap

\* With no call in progress the places hold the slot the last one left.
RestInv ==
  bitswapMutex_ = Free =>
    committed = intended /\ intended = Slot(cacheDir_, loaderBitswap, loaderDht)

EmptySlot == Slot(Null, Null, Null)
LoaderEmpty == loaderBitswap = Null /\ loaderDht = Null
SaverEmpty  == saverBitswap = Null /\ saverDht = Null

SettingInv(t) ==
  /\ pc[t] \in SetLabels => intended = Slot(arg[t].bitswap, arg[t].bitswap, arg[t].dht)
  /\ pc[t] \in SetLabels => cacheDir_ = arg[t].bitswap
  /\ pc[t] \in SetLabels \ {"setLoader"} => loaderBitswap = arg[t].bitswap
  /\ pc[t] \in {"setSaver", "setSaverDht"} => loaderDht = arg[t].dht
  /\ pc[t] = "setSaverDht" => saverBitswap = arg[t].bitswap

ClearingInv(t) ==
  /\ pc[t] \in ClearLabels =>
       intended = IF committed.bitswap = arg[t].bitswap THEN EmptySlot ELSE committed
  /\ pc[t] = "clearLoader" => Untouched /\ ~cleared[t]
  /\ pc[t] = "clearLoaderDht" =>
       /\ loaderBitswap = Null
       /\ committed.bitswap = arg[t].bitswap /\ saverBitswap = arg[t].bitswap
  /\ pc[t] = "clearSaver" =>
       \/ /\ cleared[t] /\ LoaderEmpty
          /\ committed.bitswap = arg[t].bitswap /\ saverBitswap = arg[t].bitswap
       \/ ~cleared[t] /\ Untouched /\ committed.bitswap # arg[t].bitswap
  /\ pc[t] = "clearSaverDht" =>
       LoaderEmpty /\ saverBitswap = Null /\ committed.bitswap = arg[t].bitswap
  /\ pc[t] = "clearCache" =>
       \/ /\ cleared[t] /\ LoaderEmpty /\ SaverEmpty
          /\ committed.bitswap = arg[t].bitswap
       \/ ~cleared[t] /\ Untouched /\ committed.bitswap # arg[t].bitswap

WriterInv == \A t \in Callers : SettingInv(t) /\ ClearingInv(t)

\* clearBitswap's local is false outside of a call.
IdleInv == \A t \in Callers : pc[t] = "idle" => ~cleared[t]

OwnershipInv == TypeOK /\ AgreeAtRest /\ RestInv /\ WriterInv /\ IdleInv

-----------------------------------------------------------------------------
(* TypeOK is inductive. *)

\* A step of caller t that leaves the mutex alone keeps pc and the mutex in step.
LEMMA GotoTypes ==
  ASSUME TypeOK, NEW t \in Callers, NEW l \in Labels \ {"idle"}, pc[t] # "idle",
         Goto(t, l), bitswapMutex_' = bitswapMutex_
  PROVE  /\ pc' \in [Callers -> Labels]
         /\ bitswapMutex_' \in Callers \cup {Free}
         /\ \A u \in Callers : bitswapMutex_' = u <=> pc'[u] # "idle"
BY DEF TypeOK, Goto

LEMMA LockTypes ==
  ASSUME TypeOK, NEW t \in Callers, NEW l \in Labels \ {"idle"}, pc[t] = "idle",
         NEW new \in Slots, Goto(t, l), Lock(t, new)
  PROVE  /\ pc' \in [Callers -> Labels]
         /\ bitswapMutex_' \in Callers \cup {Free}
         /\ \A u \in Callers : bitswapMutex_' = u <=> pc'[u] # "idle"
         /\ committed' \in Slots /\ intended' \in Slots
         /\ rd' \in [Readers -> ReadStates]
<1>1. /\ pc' \in [Callers -> Labels]
      /\ bitswapMutex_' \in Callers \cup {Free}
      /\ \A u \in Callers : bitswapMutex_' = u <=> pc'[u] # "idle"
  BY FreeIsFresh DEF TypeOK, Goto, Lock
<1>2. committed' \in Slots /\ intended' \in Slots
  BY DEF TypeOK, Lock
<1>3. rd' \in [Readers -> ReadStates]
  <2>1. ASSUME NEW r \in Readers
        PROVE  rd[r] \in ReadStates /\ [rd[r] EXCEPT !.seen = @ \cup {new}] \in ReadStates
    <3>1. rd[r] \in ReadStates
      BY DEF TypeOK
    <3> QED BY <3>1 DEF ReadStates
  <2> QED BY <2>1 DEF Lock
<1> QED
  BY <1>1, <1>2, <1>3

LEMMA UnlockTypes ==
  ASSUME TypeOK, NEW t \in Callers, pc[t] # "idle", Unlock(t)
  PROVE  /\ pc' \in [Callers -> Labels]
         /\ bitswapMutex_' \in Callers \cup {Free}
         /\ \A u \in Callers : bitswapMutex_' = u <=> pc'[u] # "idle"
         /\ arg' \in [Callers -> Args] /\ cleared' \in [Callers -> BOOLEAN]
         /\ committed' \in Slots /\ intended' \in Slots
<1>1. pc' \in [Callers -> Labels] /\ bitswapMutex_' \in Callers \cup {Free}
  BY DEF TypeOK, Unlock, Goto, Labels
<1>3. NoArgs \in Args
  BY DEF NoArgs, Args
<1>4. arg' \in [Callers -> Args] /\ committed' \in Slots /\ intended' \in Slots
  BY <1>3 DEF TypeOK, Unlock
<1>5. cleared' \in [Callers -> BOOLEAN]
  BY DEF TypeOK, Unlock
<1>2. \A u \in Callers : bitswapMutex_' = u <=> pc'[u] # "idle"
  BY FreeIsFresh DEF TypeOK, Unlock, Goto
<1> QED
  BY <1>1, <1>2, <1>4, <1>5

LEMMA TypeStep == TypeOK /\ [Next]_vars => TypeOK'
<1> SUFFICES ASSUME TypeOK, [Next]_vars PROVE TypeOK'
  OBVIOUS
<1> USE DEF places
<1>1. ASSUME NEW t \in Callers, NEW a \in Args, SetLock(t, a)
      PROVE  TypeOK'
  <2>1. "setLoader" \in Labels \ {"idle"}
    BY DEF Labels, SetLabels
  <2>2. a.bitswap \in Bitswaps \cup {Null} /\ arg' \in [Callers -> Args]
    BY <1>1 DEF SetLock, Args, TypeOK
  <2>3. Slot(a.bitswap, a.bitswap, a.dht) \in Slots
    BY DEF Args, Slot, Slots
  <2> QED
    BY <1>1, <2>1, <2>2, <2>3, LockTypes DEF SetLock, TypeOK
<1>2. ASSUME NEW t \in Callers, NEW b \in Bitswaps, ClearLock(t, b)
      PROVE  TypeOK'
  <2>1. "clearLoader" \in Labels \ {"idle"}
    BY DEF Labels, ClearLabels
  <2>2. [bitswap |-> b, dht |-> Null] \in Args
    BY DEF Args
  <2>3. (IF intended.bitswap = b THEN Slot(Null, Null, Null) ELSE intended) \in Slots
    BY DEF TypeOK, Slot, Slots
  <2> QED
    BY <1>2, <2>1, <2>2, <2>3, LockTypes DEF ClearLock, TypeOK
<1>3. ASSUME NEW t \in Callers,
             \/ SetLoaderBitswap(t) \/ SetLoaderDht(t) \/ SetSaverBitswap(t)
             \/ ClearLoader(t) \/ ClearLoaderDht(t) \/ ClearSaver(t) \/ ClearSaverDht(t)
      PROVE  TypeOK'
  <2>1. /\ pc[t] # "idle" /\ bitswapMutex_' = bitswapMutex_
        /\ \E l \in Labels \ {"idle"} : Goto(t, l)
    BY <1>3 DEF SetLoaderBitswap, SetLoaderDht, SetSaverBitswap, ClearLoader,
       ClearLoaderDht, ClearSaver, ClearSaverDht, Labels, SetLabels, ClearLabels
  <2>2. arg[t].bitswap \in Bitswaps \cup {Null} /\ arg[t].dht \in Dhts \cup {Null}
    BY DEF TypeOK, Args
  <2> QED
    BY <1>3, <2>1, <2>2, GotoTypes
    DEF SetLoaderBitswap, SetLoaderDht, SetSaverBitswap, ClearLoader,
        ClearLoaderDht, ClearSaver, ClearSaverDht, TypeOK, history
<1>4. ASSUME NEW t \in Callers, SetSaverDht(t) \/ ClearCache(t)
      PROVE  TypeOK'
  <2>1. arg[t].dht \in Dhts \cup {Null}
    BY DEF TypeOK, Args
  <2> QED
    BY <1>4, <2>1, UnlockTypes DEF SetSaverDht, ClearCache, TypeOK
<1>5. ASSUME NEW r \in Readers, NEW of \in {"loader", "saver"}, ReadBitswap(r, of)
      PROVE  TypeOK'
  <2> DEFINE b == IF of = "loader" THEN loaderBitswap ELSE saverBitswap
             q == [at |-> "half", of |-> of, bitswap |-> b, dht |-> Null,
                   seen |-> {committed, intended}]
  <2>1. NoRead \in ReadStates /\ q \in ReadStates
    BY DEF TypeOK, ReadStates, NoRead
  <2>2. rd' \in [Readers -> ReadStates]
    BY <1>5, <2>1 DEF ReadBitswap, TypeOK
  <2> QED
    BY <1>5, <2>2 DEF ReadBitswap, TypeOK, history
<1>7. ASSUME NEW r \in Readers, ReadDht(r)
      PROVE  TypeOK'
  <2> DEFINE d == IF rd[r].of = "loader" THEN loaderDht ELSE saverDht
  <2>1. rd[r] \in ReadStates /\ d \in Dhts \cup {Null}
    BY DEF TypeOK
  <2>2. [rd[r] EXCEPT !.at = "full", !.dht = d] \in ReadStates
    BY <2>1 DEF ReadStates
  <2>3. rd' \in [Readers -> ReadStates]
    BY <1>7, <2>2 DEF ReadDht, TypeOK
  <2> QED
    BY <1>7, <2>3 DEF ReadDht, TypeOK, history
<1>6. CASE UNCHANGED vars
  BY <1>6 DEF vars, TypeOK, history
<1> QED
  BY <1>1, <1>2, <1>3, <1>4, <1>5, <1>6, <1>7 DEF Next

-----------------------------------------------------------------------------
(* The places. *)

\* While t is inside a call every other caller is idle.
LEMMA OthersIdle ==
  ASSUME TypeOK, NEW t \in Callers, pc[t] # "idle"
  PROVE  bitswapMutex_ = t /\ \A u \in Callers \ {t} : pc[u] = "idle"
BY DEF TypeOK

\* Idle callers promise nothing, so WriterInv has to be shown of the holder only.
LEMMA WriterOnly ==
  ASSUME NEW t \in Callers, \A u \in Callers \ {t} : pc'[u] = "idle",
         (SettingInv(t) /\ ClearingInv(t))'
  PROVE  WriterInv'
BY DEF WriterInv, SettingInv, ClearingInv, SetLabels, ClearLabels

\* AgreeAtRest, RestInv and WriterInv are inductive relative to TypeOK and IdleInv.
LEMMA PlacesStep ==
  ASSUME OwnershipInv, [Next]_vars
  PROVE  AgreeAtRest' /\ RestInv' /\ WriterInv'
<1> USE DEF places, history
<1>0. TypeOK /\ AgreeAtRest /\ RestInv /\ WriterInv /\ IdleInv
  BY DEF OwnershipInv
<1>1. ASSUME NEW t \in Callers, NEW a \in Args, SetLock(t, a)
      PROVE  AgreeAtRest' /\ RestInv' /\ WriterInv'
  <2>1. /\ bitswapMutex_' = t /\ pc'[t] = "setLoader" /\ arg'[t] = a
        /\ cacheDir_' = a.bitswap /\ intended' = Slot(a.bitswap, a.bitswap, a.dht)
        /\ \A u \in Callers \ {t} : pc'[u] = "idle"
    BY <1>0, <1>1, FreeIsFresh DEF SetLock, Lock, Goto, TypeOK
  <2>2. (SettingInv(t) /\ ClearingInv(t))'
    BY <2>1 DEF SettingInv, ClearingInv, SetLabels, ClearLabels
  <2> QED
    BY <2>1, <2>2, WriterOnly, FreeIsFresh DEF AgreeAtRest, RestInv
<1>2. ASSUME NEW t \in Callers, NEW b \in Bitswaps, ClearLock(t, b)
      PROVE  AgreeAtRest' /\ RestInv' /\ WriterInv'
  <2>1. /\ bitswapMutex_' = t /\ pc'[t] = "clearLoader" /\ ~cleared'[t]
        /\ \A u \in Callers \ {t} : pc'[u] = "idle"
    BY <1>0, <1>2, FreeIsFresh DEF ClearLock, Lock, Goto, TypeOK, IdleInv
  <2>2. Untouched'
    BY <1>0, <1>2 DEF ClearLock, Lock, AgreeAtRest, RestInv, Untouched, Slot
  <2>4. intended' = IF committed'.bitswap = arg'[t].bitswap THEN EmptySlot ELSE committed'
    BY <1>0, <1>2 DEF ClearLock, Lock, RestInv, EmptySlot, TypeOK
  <2>3. (SettingInv(t) /\ ClearingInv(t))'
    BY <2>1, <2>2, <2>4 DEF SettingInv, ClearingInv, SetLabels
  <2> QED
    BY <2>1, <2>3, WriterOnly, FreeIsFresh DEF AgreeAtRest, RestInv
<1>3. ASSUME NEW t \in Callers, pc[t] # "idle", bitswapMutex_' = bitswapMutex_,
             \E l \in Labels : Goto(t, l),
             (SettingInv(t) /\ ClearingInv(t))'
      PROVE  AgreeAtRest' /\ RestInv' /\ WriterInv'
  <2>1. bitswapMutex_' = t /\ \A u \in Callers \ {t} : pc'[u] = "idle"
    BY <1>0, <1>3, OthersIdle DEF Goto, TypeOK
  <2> QED
    BY <1>3, <2>1, WriterOnly, FreeIsFresh DEF AgreeAtRest, RestInv
<1>4. ASSUME NEW t \in Callers,
             SetLoaderBitswap(t) \/ SetLoaderDht(t) \/ SetSaverBitswap(t)
      PROVE  AgreeAtRest' /\ RestInv' /\ WriterInv'
  <2>1. SettingInv(t) /\ pc \in [Callers -> Labels]
    BY <1>0 DEF WriterInv, TypeOK
  <2>2. (SettingInv(t) /\ ClearingInv(t))'
    BY <1>4, <2>1 DEF SetLoaderBitswap, SetLoaderDht, SetSaverBitswap, SettingInv,
       ClearingInv, SetLabels, ClearLabels, Goto
  <2> QED
    BY <1>3, <1>4, <2>2
    DEF SetLoaderBitswap, SetLoaderDht, SetSaverBitswap, Labels, SetLabels
<1>5. ASSUME NEW t \in Callers, ClearLoader(t)
      PROVE  AgreeAtRest' /\ RestInv' /\ WriterInv'
  <2>1. Untouched /\ ~cleared[t] /\ pc \in [Callers -> Labels] /\ pc[t] = "clearLoader"
    BY <1>0, <1>5 DEF WriterInv, ClearingInv, ClearLoader, TypeOK
  <2>4. intended' = IF committed'.bitswap = arg'[t].bitswap THEN EmptySlot ELSE committed'
    BY <1>0, <1>5 DEF WriterInv, ClearingInv, ClearLabels, ClearLoader, EmptySlot, Slot
  <2>2. CASE loaderBitswap = arg[t].bitswap
    <3>1. /\ pc'[t] = "clearLoaderDht" /\ loaderBitswap' = Null
          /\ committed'.bitswap = arg'[t].bitswap /\ saverBitswap' = arg'[t].bitswap
      BY <1>5, <2>1, <2>2 DEF ClearLoader, Goto, Untouched, Slot
    <3> QED
      BY <1>3, <1>5, <2>2, <2>4, <3>1
      DEF ClearLoader, SettingInv, ClearingInv, Labels, ClearLabels, SetLabels
  <2>3. CASE loaderBitswap # arg[t].bitswap
    <3>1. /\ pc'[t] = "clearSaver" /\ ~cleared'[t] /\ Untouched'
          /\ committed'.bitswap # arg'[t].bitswap
      BY <1>5, <2>1, <2>3 DEF ClearLoader, Goto, Untouched, Slot
    <3> QED
      BY <1>3, <1>5, <2>3, <2>4, <3>1
      DEF ClearLoader, SettingInv, ClearingInv, Labels, ClearLabels, SetLabels
  <2> QED
    BY <2>2, <2>3
<1>6. ASSUME NEW t \in Callers, ClearLoaderDht(t)
      PROVE  AgreeAtRest' /\ RestInv' /\ WriterInv'
  <2>1. /\ pc'[t] = "clearSaver" /\ cleared'[t] /\ LoaderEmpty'
        /\ committed'.bitswap = arg'[t].bitswap /\ saverBitswap' = arg'[t].bitswap
    BY <1>0, <1>6
    DEF ClearLoaderDht, Goto, WriterInv, ClearingInv, LoaderEmpty, TypeOK
  <2>2. intended' = IF committed'.bitswap = arg'[t].bitswap THEN EmptySlot ELSE committed'
    BY <1>0, <1>6 DEF WriterInv, ClearingInv, ClearLabels, ClearLoaderDht, EmptySlot, Slot
  <2> QED
    BY <1>3, <1>6, <2>1, <2>2
    DEF ClearLoaderDht, SettingInv, ClearingInv, Labels, ClearLabels, SetLabels
<1>7. ASSUME NEW t \in Callers, ClearSaver(t)
      PROVE  AgreeAtRest' /\ RestInv' /\ WriterInv'
  <2>1. pc \in [Callers -> Labels] /\ pc[t] = "clearSaver" /\ ClearingInv(t)
    BY <1>0, <1>7 DEF WriterInv, ClearSaver, TypeOK
  <2>4. intended' = IF committed'.bitswap = arg'[t].bitswap THEN EmptySlot ELSE committed'
    BY <1>0, <1>7 DEF WriterInv, ClearingInv, ClearLabels, ClearSaver, EmptySlot, Slot
  <2>2. CASE saverBitswap = arg[t].bitswap
    <3>1. /\ pc'[t] = "clearSaverDht" /\ LoaderEmpty' /\ saverBitswap' = Null
          /\ committed'.bitswap = arg'[t].bitswap
      BY <1>7, <2>1, <2>2
      DEF ClearSaver, Goto, ClearingInv, LoaderEmpty, Untouched, Slot
    <3> QED
      BY <1>3, <1>7, <2>2, <2>4, <3>1
      DEF ClearSaver, SettingInv, ClearingInv, Labels, ClearLabels, SetLabels
  <2>3. CASE saverBitswap # arg[t].bitswap
    <3>1. /\ pc'[t] = "clearCache" /\ ~cleared'[t] /\ Untouched'
          /\ committed'.bitswap # arg'[t].bitswap
      BY <1>7, <2>1, <2>3 DEF ClearSaver, Goto, ClearingInv, Untouched, Slot
    <3> QED
      BY <1>3, <1>7, <2>3, <2>4, <3>1
      DEF ClearSaver, SettingInv, ClearingInv, Labels, ClearLabels, SetLabels
  <2> QED
    BY <2>2, <2>3
<1>8. ASSUME NEW t \in Callers, ClearSaverDht(t)
      PROVE  AgreeAtRest' /\ RestInv' /\ WriterInv'
  <2>1. /\ pc'[t] = "clearCache" /\ cleared'[t] /\ LoaderEmpty' /\ SaverEmpty'
        /\ committed'.bitswap = arg'[t].bitswap
    BY <1>0, <1>8
    DEF ClearSaverDht, Goto, WriterInv, ClearingInv, LoaderEmpty, SaverEmpty, TypeOK
  <2>2. intended' = IF committed'.bitswap = arg'[t].bitswap THEN EmptySlot ELSE committed'
    BY <1>0, <1>8 DEF WriterInv, ClearingInv, ClearLabels, ClearSaverDht, EmptySlot, Slot
  <2> QED
    BY <1>3, <1>8, <2>1, <2>2
    DEF ClearSaverDht, SettingInv, ClearingInv, Labels, ClearLabels, SetLabels
<1>9. ASSUME NEW t \in Callers, SetSaverDht(t) \/ ClearCache(t)
      PROVE  AgreeAtRest' /\ RestInv' /\ WriterInv'
  <2>1. pc[t] # "idle" /\ Unlock(t)
    BY <1>9 DEF SetSaverDht, ClearCache
  <2>2. \A u \in Callers : pc'[u] = "idle"
    BY <1>0, <2>1, OthersIdle DEF Unlock, Goto, TypeOK
  <2>3. WriterInv'
    BY <2>2 DEF WriterInv, SettingInv, ClearingInv, SetLabels, ClearLabels
  <2>4. CASE SetSaverDht(t)
    BY <1>0, <2>3, <2>4
    DEF SetSaverDht, Unlock, AgreeAtRest, RestInv, WriterInv, SettingInv, SetLabels
  <2>5. CASE ClearCache(t)
    <3>1. \/ cleared[t] /\ LoaderEmpty /\ SaverEmpty /\ intended = EmptySlot
          \/ ~cleared[t] /\ Untouched /\ intended = committed
      BY <1>0, <2>5 DEF ClearCache, WriterInv, ClearingInv, ClearLabels
    <3>2. /\ cacheDir_' = (IF cleared[t] THEN Null ELSE cacheDir_)
          /\ UNCHANGED <<loaderBitswap, loaderDht, saverBitswap, saverDht>>
          /\ committed' = intended /\ intended' = intended
      BY <2>5 DEF ClearCache, Unlock
    <3> QED
      BY <2>3, <3>1, <3>2
      DEF AgreeAtRest, RestInv, LoaderEmpty, SaverEmpty, Untouched, EmptySlot
  <2> QED
    BY <1>9, <2>4, <2>5
<1>10. CASE UNCHANGED <<bitswapMutex_, places, pc, arg, cleared, history>>
  BY <1>0, <1>10
  DEF AgreeAtRest, RestInv, WriterInv, SettingInv, ClearingInv, Untouched, LoaderEmpty,
      SaverEmpty, EmptySlot
<1> QED
  BY <1>1, <1>2, <1>4, <1>5, <1>6, <1>7, <1>8, <1>9, <1>10
  DEF Next, vars, ReadBitswap, ReadDht

\* IdleInv is inductive: clearBitswap's local goes with the call.
LEMMA IdleStep ==
  ASSUME TypeOK, IdleInv, [Next]_vars
  PROVE  IdleInv'
<1> USE DEF places, history
<1>1. ASSUME NEW t \in Callers, pc'[t] # "idle" \/ ~cleared'[t],
             \A u \in Callers \ {t} : pc'[u] = pc[u] /\ cleared'[u] = cleared[u]
      PROVE  IdleInv'
  BY <1>1 DEF IdleInv
<1>2. ASSUME NEW t \in Callers, Unlock(t) PROVE IdleInv'
  <2>1. ~cleared'[t]
    BY <1>2, Zenon DEF Unlock, TypeOK
  <2> QED
    BY <1>1, <1>2, <2>1 DEF Unlock, Goto, TypeOK
<1>3. ASSUME NEW t \in Callers, NEW l \in Labels \ {"idle"}, Goto(t, l),
             \A u \in Callers \ {t} : cleared'[u] = cleared[u]
      PROVE  IdleInv'
  BY <1>1, <1>3 DEF Goto, TypeOK
<1>4. ASSUME NEW t \in Callers,
             \/ \E a \in Args : SetLock(t, a)
             \/ \E b \in Bitswaps : ClearLock(t, b)
             \/ SetLoaderBitswap(t) \/ SetLoaderDht(t) \/ SetSaverBitswap(t)
             \/ ClearLoader(t) \/ ClearLoaderDht(t) \/ ClearSaver(t) \/ ClearSaverDht(t)
      PROVE  IdleInv'
  <2>1. PICK l \in Labels \ {"idle"} : Goto(t, l)
    BY <1>4 DEF SetLock, ClearLock, SetLoaderBitswap, SetLoaderDht, SetSaverBitswap,
       ClearLoader, ClearLoaderDht, ClearSaver, ClearSaverDht, Labels, SetLabels, ClearLabels
  <2>2. \A u \in Callers \ {t} : cleared'[u] = cleared[u]
    BY <1>4 DEF SetLock, ClearLock, SetLoaderBitswap, SetLoaderDht, SetSaverBitswap,
       ClearLoader, ClearLoaderDht, ClearSaver, ClearSaverDht, TypeOK
  <2> QED
    BY <1>3, <2>1, <2>2
<1>5. CASE UNCHANGED <<pc, cleared>>
  BY <1>5 DEF IdleInv
<1> QED
  BY <1>2, <1>4, <1>5
  DEF Next, vars, SetSaverDht, ClearCache, ReadBitswap, ReadDht

\* OwnershipInv holds of every behaviour.
LEMMA OwnershipInvariant == Spec => []OwnershipInv
<1>1. ASSUME Init PROVE OwnershipInv
  <2>1. NoArgs \in Args /\ NoRead \in ReadStates
    BY DEF NoArgs, Args, NoRead, ReadStates
  <2>2. cleared \in [Callers -> BOOLEAN]
    BY <1>1, Zenon DEF Init
  <2>3. TypeOK
    BY <1>1, <2>1, <2>2, FreeIsFresh DEF Init, TypeOK, Labels, Slot, Slots
  <2>4. AgreeAtRest /\ RestInv
    BY <1>1 DEF Init, AgreeAtRest, RestInv
  <2>5. WriterInv
    BY <1>1 DEF Init, WriterInv, SettingInv, ClearingInv, SetLabels, ClearLabels
  <2>6. IdleInv
    BY <1>1, Zenon DEF Init, IdleInv
  <2> QED
    BY <2>3, <2>4, <2>5, <2>6 DEF OwnershipInv
<1>2. ASSUME OwnershipInv, [Next]_vars PROVE OwnershipInv'
  BY <1>2, TypeStep, PlacesStep, IdleStep DEF OwnershipInv
<1> QED
  BY <1>1, <1>2, PTL DEF Spec

\* Whenever no setBitswap or clearBitswap is in progress, loader, saver and cache
\* directory belong to the same node, and loader and saver use the same DHT.
THEOREM PlacesAgreeAtRest == Spec => []AgreeAtRest
BY OwnershipInvariant, PTL DEF OwnershipInv

-----------------------------------------------------------------------------
(* The refinement: a call begins, for the slot, when it takes the mutex, and   *)
(* takes effect when it releases it.                                           *)

\* What a caller inside a call looks like to the abstract slot.
LEMMA CallOf ==
  ASSUME NEW t \in Callers
  PROVE  /\ pc[t] \in SetLabels =>
              CallView[t] = [op |-> "set", bitswap |-> arg[t].bitswap,
                             dht |-> arg[t].dht]
         /\ pc[t] \in ClearLabels =>
              CallView[t] = [op |-> "clear", bitswap |-> arg[t].bitswap,
                             dht |-> arg[t].dht]
         /\ pc[t] = "idle" => CallView[t] = Abstract!NoCall
BY DEF CallView, SetLabels, ClearLabels, Abstract!NoCall

\* CallView is a function on Callers, before and after a step.
LEMMA CallViewIsFunction ==
  /\ CallView = [u \in Callers |-> CallView[u]]
  /\ CallView' = [u \in Callers |-> CallView'[u]]
BY DEF CallView

\* A step inside a call is invisible.
LEMMA InsideStutters ==
  ASSUME TypeOK, NEW t \in Callers, NEW l \in Labels, Goto(t, l),
         \/ pc[t] \in SetLabels /\ l \in SetLabels
         \/ pc[t] \in ClearLabels /\ l \in ClearLabels,
         UNCHANGED <<bitswapMutex_, arg, committed>>
  PROVE  UNCHANGED <<SlotView, CallView>>
<1>1. bitswapMutex_ # Free
  BY OthersIdle, FreeIsFresh DEF SetLabels, ClearLabels
<1>2. SlotView' = SlotView
  BY <1>1 DEF SlotView
<1>3. \A u \in Callers : CallView'[u] = CallView[u]
  BY DEF CallView, Goto, TypeOK, SetLabels, ClearLabels
<1>4. CallView' = CallView
  BY <1>3, CallViewIsFunction
<1> QED
  BY <1>2, <1>4

\* Taking the mutex begins the call.
LEMMA LockBegins ==
  ASSUME TypeOK, RestInv, NEW t \in Callers, NEW a \in Args, NEW new,
         NEW l \in {"setLoader", "clearLoader"},
         pc[t] = "idle", Lock(t, new), Goto(t, l), arg' = [arg EXCEPT ![t] = a]
  PROVE  Abstract!Next
<1> DEFINE k == [op |-> IF l = "setLoader" THEN "set" ELSE "clear",
                 bitswap |-> a.bitswap, dht |-> a.dht]
<1>1. k \in Abstract!Calls
  BY DEF Abstract!Calls, Args
<1>2. SlotView' = SlotView
  BY FreeIsFresh DEF SlotView, Lock, RestInv
<1>3. CallView[t] = Abstract!NoCall
  BY CallOf
<1>4. CallView'[t] = k
  BY DEF CallView, Goto, TypeOK, SetLabels
<1>5. \A u \in Callers \ {t} : CallView'[u] = CallView[u]
  BY DEF CallView, Goto, TypeOK
<1>6. CallView' = [CallView EXCEPT ![t] = k]
  BY <1>4, <1>5, CallViewIsFunction
<1> QED
  BY <1>1, <1>2, <1>3, <1>6 DEF Abstract!Next, Abstract!Begin

\* Releasing it returns from the call.
LEMMA UnlockReturns ==
  ASSUME TypeOK, NEW t \in Callers, Unlock(t)
  PROVE  /\ CallView' = [CallView EXCEPT ![t] = Abstract!NoCall]
         /\ SlotView' = Slot(cacheDir_', loaderBitswap', loaderDht')
<1>0. pc'[t] = "idle"
  BY DEF Unlock, Goto, TypeOK
<1>1. CallView'[t] = Abstract!NoCall
  BY <1>0 DEF CallView, Abstract!NoCall, SetLabels
<1>2. \A u \in Callers \ {t} : CallView'[u] = CallView[u]
  BY DEF CallView, Unlock, Goto, TypeOK
<1>3. CallView' = [CallView EXCEPT ![t] = Abstract!NoCall]
  BY <1>1, <1>2, CallViewIsFunction
<1> QED
  BY <1>3 DEF SlotView, Unlock, Slot

\* setBitswap and clearBitswap implement the atomic slot: each call takes effect as a
\* whole, and clearBitswap only if the slot still holds the caller's own instance.
THEOREM CallsImplementSlot == Spec => CallsAreAtomic
<1>1. ASSUME Init PROVE Abstract!Init
  <2>1. SlotView = Abstract!EmptySlot
    BY <1>1 DEF Init, SlotView, Slot, Abstract!EmptySlot
  <2>2. \A t \in Callers : CallView[t] = Abstract!NoCall
    BY <1>1, CallOf DEF Init
  <2>3. CallView = [t \in Callers |-> Abstract!NoCall]
    BY <2>2, CallViewIsFunction
  <2> QED
    BY <2>1, <2>3 DEF Abstract!Init
<1>2. ASSUME OwnershipInv, [Next]_vars
      PROVE  [Abstract!Next]_<<SlotView, CallView>>
  <2> USE DEF places, history
  <2>0. TypeOK /\ RestInv /\ WriterInv
    BY <1>2 DEF OwnershipInv
  <2>1. ASSUME NEW t \in Callers, NEW a \in Args, SetLock(t, a)
        PROVE  Abstract!Next
    BY <2>0, <2>1, LockBegins DEF SetLock
  <2>2. ASSUME NEW t \in Callers, NEW b \in Bitswaps, ClearLock(t, b)
        PROVE  Abstract!Next
    <3>1. [bitswap |-> b, dht |-> Null] \in Args
      BY DEF Args
    <3> QED
      BY <2>0, <2>2, <3>1, LockBegins DEF ClearLock
  <2>3. ASSUME NEW t \in Callers,
               \/ SetLoaderBitswap(t) \/ SetLoaderDht(t) \/ SetSaverBitswap(t)
               \/ ClearLoader(t) \/ ClearLoaderDht(t) \/ ClearSaver(t) \/ ClearSaverDht(t)
        PROVE  UNCHANGED <<SlotView, CallView>>
    <3>1. PICK l \in Labels :
            /\ UNCHANGED <<bitswapMutex_, arg, committed>>
            /\ Goto(t, l)
            /\ \/ pc[t] \in SetLabels /\ l \in SetLabels
               \/ pc[t] \in ClearLabels /\ l \in ClearLabels
      BY <2>3 DEF SetLoaderBitswap, SetLoaderDht, SetSaverBitswap, ClearLoader,
         ClearLoaderDht, ClearSaver, ClearSaverDht, Labels, SetLabels, ClearLabels
    <3> QED
      BY <2>0, <3>1, InsideStutters
  <2>4. ASSUME NEW t \in Callers, SetSaverDht(t) PROVE Abstract!Set(t)
    <3>1. CallView[t] = [op |-> "set", bitswap |-> arg[t].bitswap, dht |-> arg[t].dht]
      BY <2>4, CallOf DEF SetSaverDht, SetLabels
    <3>2. /\ CallView' = [CallView EXCEPT ![t] = Abstract!NoCall]
          /\ SlotView' = Slot(cacheDir_', loaderBitswap', loaderDht')
      BY <2>0, <2>4, UnlockReturns DEF SetSaverDht
    <3>3. /\ cacheDir_' = arg[t].bitswap /\ loaderBitswap' = arg[t].bitswap
          /\ loaderDht' = arg[t].dht
      BY <2>0, <2>4 DEF SetSaverDht, WriterInv, SettingInv, SetLabels
    <3> QED
      BY <3>1, <3>2, <3>3 DEF Abstract!Set, Abstract!Return, Slot
  <2>5. ASSUME NEW t \in Callers, ClearCache(t) PROVE Abstract!Clear(t)
    <3>1. CallView[t] = [op |-> "clear", bitswap |-> arg[t].bitswap, dht |-> arg[t].dht]
      BY <2>5, CallOf DEF ClearCache, ClearLabels
    <3>2. /\ CallView' = [CallView EXCEPT ![t] = Abstract!NoCall]
          /\ SlotView' = Slot(cacheDir_', loaderBitswap', loaderDht')
      BY <2>0, <2>5, UnlockReturns DEF ClearCache
    <3>3. SlotView = committed
      BY <2>0, <2>5, OthersIdle, FreeIsFresh DEF ClearCache, SlotView
    <3>4. \/ /\ cleared[t] /\ LoaderEmpty /\ committed.bitswap = arg[t].bitswap
          \/ ~cleared[t] /\ Untouched /\ committed.bitswap # arg[t].bitswap
      BY <2>0, <2>5 DEF ClearCache, WriterInv, ClearingInv
    <3> QED
      BY <2>5, <3>1, <3>2, <3>3, <3>4
      DEF ClearCache, LoaderEmpty, Untouched, Slot, Abstract!Clear, Abstract!Return,
          Abstract!EmptySlot
  <2>6. CASE UNCHANGED <<bitswapMutex_, places, pc, arg, cleared, history>>
    BY <2>6 DEF SlotView, CallView, Slot
  <2> QED
    BY <1>2, <2>1, <2>2, <2>3, <2>4, <2>5, <2>6
    DEF Next, vars, ReadBitswap, ReadDht, Abstract!Next
<1> QED
  BY <1>1, <1>2, OwnershipInvariant, PTL DEF Spec, CallsAreAtomic, Abstract!Spec

-----------------------------------------------------------------------------
(* Readers, and hand-over from one node to the next. *)

\* Every pointer in place belongs to the slot before the call in progress or to the one
\* it is to leave.
BetweenInv ==
  /\ {loaderBitswap, saverBitswap} \subseteq {committed.bitswap, intended.bitswap}
  /\ {loaderDht, saverDht} \subseteq {committed.dht, intended.dht}

LEMMA BetweenStep ==
  ASSUME OwnershipInv, BetweenInv, [Next]_vars
  PROVE  BetweenInv'
<1> USE DEF places, history
<1>0. TypeOK /\ AgreeAtRest /\ RestInv /\ WriterInv
  BY DEF OwnershipInv
<1>1. ASSUME NEW t \in Callers, NEW new, Lock(t, new),
             UNCHANGED <<loaderBitswap, loaderDht, saverBitswap, saverDht>>
      PROVE  BetweenInv'
  BY <1>0, <1>1 DEF Lock, AgreeAtRest, RestInv, Slot, BetweenInv
<1>2. ASSUME NEW t \in Callers,
             SetLoaderBitswap(t) \/ SetLoaderDht(t) \/ SetSaverBitswap(t)
      PROVE  BetweenInv'
  <2>1. intended.bitswap = arg[t].bitswap /\ intended.dht = arg[t].dht
    BY <1>0, <1>2
    DEF SetLoaderBitswap, SetLoaderDht, SetSaverBitswap, WriterInv, SettingInv, SetLabels, Slot
  <2> QED
    BY <1>2, <2>1 DEF SetLoaderBitswap, SetLoaderDht, SetSaverBitswap, BetweenInv
<1>3. ASSUME NEW t \in Callers,
             ClearLoader(t) \/ ClearLoaderDht(t) \/ ClearSaver(t) \/ ClearSaverDht(t)
      PROVE  BetweenInv'
  <2>1. CASE committed.bitswap = arg[t].bitswap
    <3>1. intended.bitswap = Null /\ intended.dht = Null
      BY <1>0, <1>3, <2>1
      DEF ClearLoader, ClearLoaderDht, ClearSaver, ClearSaverDht, WriterInv, ClearingInv,
          ClearLabels, EmptySlot, Slot
    <3> QED
      BY <1>3, <3>1
      DEF ClearLoader, ClearLoaderDht, ClearSaver, ClearSaverDht, BetweenInv
  <2>2. CASE committed.bitswap # arg[t].bitswap
    <3>1. UNCHANGED <<loaderBitswap, loaderDht, saverBitswap, saverDht, history>>
      BY <1>0, <1>3, <2>2
      DEF ClearLoader, ClearLoaderDht, ClearSaver, ClearSaverDht, WriterInv, ClearingInv,
          Untouched, Slot
    <3> QED
      BY <3>1 DEF BetweenInv
  <2> QED
    BY <2>1, <2>2
<1>4. ASSUME NEW t \in Callers, SetSaverDht(t) \/ ClearCache(t) PROVE BetweenInv'
  <2>1. bitswapMutex_' = Free
    BY <1>4 DEF SetSaverDht, ClearCache, Unlock
  <2>2. AgreeAtRest' /\ RestInv'
    BY PlacesStep
  <2> QED
    BY <2>1, <2>2 DEF AgreeAtRest, RestInv, Slot, BetweenInv
<1>5. CASE UNCHANGED <<places, history>>
  BY <1>5 DEF BetweenInv
<1> QED
  BY <1>1, <1>2, <1>3, <1>4, <1>5
  DEF Next, vars, SetLock, ClearLock, ReadBitswap, ReadDht

\* A reader between its two loads has counted the slots now in force as seen.
ReaderInv ==
  \A r \in Readers : rd[r].at = "half" => {committed, intended} \subseteq rd[r].seen

LEMMA ReaderStep ==
  ASSUME OwnershipInv, BetweenInv, ReaderInv, ReadsAreCurrent, [Next]_vars
  PROVE  ReaderInv' /\ ReadsAreCurrent'
<1> USE DEF places, history
<1>0. rd \in [Readers -> ReadStates]
  BY DEF OwnershipInv, TypeOK
<1>1. ASSUME NEW t \in Callers, NEW new, Lock(t, new) PROVE ReaderInv' /\ ReadsAreCurrent'
  <2>1. committed' = committed /\ intended' = new /\ committed = intended
    BY <1>1 DEF Lock, OwnershipInv, RestInv
  <2>2. ASSUME NEW r \in Readers
        PROVE  /\ rd'[r].at = rd[r].at /\ rd'[r].bitswap = rd[r].bitswap
               /\ rd'[r].dht = rd[r].dht /\ rd[r].seen \subseteq rd'[r].seen
               /\ rd[r].at = "half" => new \in rd'[r].seen
    <3>1. rd[r] \in ReadStates
      BY <1>0
    <3> QED
      BY <1>1, <3>1 DEF Lock, ReadStates
  <2>3. ReaderInv'
    BY <2>1, <2>2 DEF ReaderInv
  <2>4. ReadsAreCurrent'
    BY <2>2 DEF ReadsAreCurrent
  <2> QED
    BY <2>3, <2>4
<1>2. ASSUME UNCHANGED rd, {committed', intended'} \subseteq {committed, intended}
      PROVE  ReaderInv' /\ ReadsAreCurrent'
  BY <1>2 DEF ReaderInv, ReadsAreCurrent
<1>3. ASSUME NEW r \in Readers, NEW of \in {"loader", "saver"}, ReadBitswap(r, of)
      PROVE  ReaderInv' /\ ReadsAreCurrent'
  <2>1. /\ \/ rd'[r].at = "idle"
           \/ /\ rd'[r].at = "half" /\ rd'[r].seen = {committed, intended}
              /\ rd'[r].bitswap \in {loaderBitswap, saverBitswap}
        /\ \A q \in Readers \ {r} : rd'[q] = rd[q]
        /\ UNCHANGED history
    BY <1>0, <1>3 DEF ReadBitswap, NoRead
  <2>2. rd'[r].at = "half" => \E s \in rd'[r].seen : rd'[r].bitswap = s.bitswap
    BY <2>1 DEF BetweenInv
  <2> QED
    BY <2>1, <2>2 DEF ReaderInv, ReadsAreCurrent
<1>4. ASSUME NEW r \in Readers, ReadDht(r) PROVE ReaderInv' /\ ReadsAreCurrent'
  <2>0. rd[r] \in ReadStates
    BY <1>0
  <2>1. /\ rd'[r].at = "full" /\ rd[r].at = "half" /\ rd'[r].seen = rd[r].seen
        /\ rd'[r].bitswap = rd[r].bitswap /\ rd'[r].dht \in {loaderDht, saverDht}
        /\ \A q \in Readers \ {r} : rd'[q] = rd[q]
        /\ UNCHANGED history
    BY <1>0, <1>4, <2>0 DEF ReadDht, ReadStates
  <2>2. \E s \in rd'[r].seen : rd'[r].dht = s.dht
    BY <2>1 DEF BetweenInv, ReaderInv
  <2>3. \E s \in rd'[r].seen : rd'[r].bitswap = s.bitswap
    BY <2>1 DEF ReadsAreCurrent
  <2> QED
    BY <2>1, <2>2, <2>3 DEF ReaderInv, ReadsAreCurrent
<1>5. ASSUME NEW t \in Callers,
             \/ SetLoaderBitswap(t) \/ SetLoaderDht(t) \/ SetSaverBitswap(t) \/ SetSaverDht(t)
             \/ ClearLoader(t) \/ ClearLoaderDht(t) \/ ClearSaver(t) \/ ClearSaverDht(t)
             \/ ClearCache(t)
      PROVE  UNCHANGED rd /\ {committed', intended'} \subseteq {committed, intended}
  BY <1>5 DEF SetLoaderBitswap, SetLoaderDht, SetSaverBitswap, SetSaverDht, ClearLoader,
              ClearLoaderDht, ClearSaver, ClearSaverDht, ClearCache, Unlock
<1>6. CASE UNCHANGED vars
  BY <1>2, <1>6 DEF vars
<1> QED
  BY <1>1, <1>2, <1>3, <1>4, <1>5, <1>6 DEF Next, SetLock, ClearLock

\* A load or save that reads its two pointers without the mutex uses a pair of which
\* each half was in force while it read, whatever calls overlap it: the torn pair is one
\* of neighbouring slots, never a pointer replaced or cleared before the read began.
THEOREM ReadersAreCurrent == Spec => []ReadsAreCurrent
<1>1. ASSUME Init PROVE BetweenInv /\ ReaderInv /\ ReadsAreCurrent
  <2>1. BetweenInv
    BY <1>1 DEF Init, BetweenInv, Slot
  <2>2. \A r \in Readers : rd[r].at = "idle"
    BY <1>1 DEF Init, NoRead
  <2> QED
    BY <2>1, <2>2 DEF ReaderInv, ReadsAreCurrent
<1>2. ASSUME OwnershipInv, BetweenInv, ReaderInv, ReadsAreCurrent, [Next]_vars
      PROVE  BetweenInv' /\ ReaderInv' /\ ReadsAreCurrent'
  BY <1>2, BetweenStep, ReaderStep
<1> QED
  BY <1>1, <1>2, OwnershipInvariant, PTL DEF Spec

\* A node's instance leaves the loader or the saver for null only in a call about that
\* instance, or in setBitswap( nullptr ).
THEOREM NoGapAtHandOver == Spec => OnlyOwnerClears
<1>1. ASSUME OwnershipInv, [Next]_vars, NEW t \in Callers, bitswapMutex_ = t
      PROVE  /\ loaderBitswap # Null /\ loaderBitswap' = Null =>
                  arg[t].bitswap \in {loaderBitswap, Null}
             /\ saverBitswap # Null /\ saverBitswap' = Null =>
                  arg[t].bitswap \in {saverBitswap, Null}
  <2> USE DEF places, history
  <2>1. ASSUME NEW u \in Callers, pc[u] # "idle" PROVE u = t
    BY <1>1, <2>1 DEF OwnershipInv, TypeOK
  <2>2. ASSUME NEW u \in Callers, SetLoaderBitswap(u)
        PROVE  loaderBitswap' = arg[t].bitswap /\ saverBitswap' = saverBitswap
    BY <2>1, <2>2 DEF SetLoaderBitswap
  <2>3. ASSUME NEW u \in Callers, SetSaverBitswap(u)
        PROVE  saverBitswap' = arg[t].bitswap /\ loaderBitswap' = loaderBitswap
    BY <2>1, <2>3 DEF SetSaverBitswap
  <2>4. ASSUME NEW u \in Callers, ClearLoader(u)
        PROVE  /\ loaderBitswap = arg[t].bitswap \/ loaderBitswap' = loaderBitswap
               /\ saverBitswap' = saverBitswap
    BY <2>1, <2>4 DEF ClearLoader
  <2>5. ASSUME NEW u \in Callers, ClearSaver(u)
        PROVE  /\ saverBitswap = arg[t].bitswap \/ saverBitswap' = saverBitswap
               /\ loaderBitswap' = loaderBitswap
    BY <2>1, <2>5 DEF ClearSaver
  <2>6. CASE UNCHANGED <<loaderBitswap, saverBitswap>>
    BY <2>6
  <2>7. \/ UNCHANGED <<loaderBitswap, saverBitswap>>
        \/ \E u \in Callers : \/ SetLoaderBitswap(u) \/ SetSaverBitswap(u)
                              \/ ClearLoader(u) \/ ClearSaver(u)
    BY <1>1 DEF Next, vars, SetLock, ClearLock, SetLoaderDht, SetSaverDht, ClearLoaderDht,
                ClearSaverDht, ClearCache, ReadBitswap, ReadDht
  <2> QED
    BY <2>2, <2>3, <2>4, <2>5, <2>6, <2>7
<1>2. ASSUME OwnershipInv, [Next]_vars
      PROVE  [\A t \in Callers :
                bitswapMutex_ = t =>
                  /\ loaderBitswap # Null /\ loaderBitswap' = Null =>
                       arg[t].bitswap \in {loaderBitswap, Null}
                  /\ saverBitswap # Null /\ saverBitswap' = Null =>
                       arg[t].bitswap \in {saverBitswap, Null}]_vars
  BY <1>1, <1>2
<1> QED
  BY <1>2, OwnershipInvariant, PTL DEF Spec, OnlyOwnerClears
=============================================================================
