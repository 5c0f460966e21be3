----------------------------- MODULE BitswapSlot -----------------------------
(***************************************************************************)
(* What FileManager::setBitswap and clearBitswap promise: one slot that    *)
(* holds the Bitswap node in use, its DHT and its cache directory.  A call *)
(* takes effect at one instant: setBitswap replaces the slot, clearBitswap *)
(* empties it if it still holds the caller's own instance and otherwise    *)
(* does nothing.  BitswapOwnership is shown to implement this.             *)
(***************************************************************************)
CONSTANTS
  Callers,   \* threads that make calls
  Bitswaps,  \* Bitswap instances an application may own
  Dhts,      \* DHT instances
  Null       \* the null shared_ptr, and the empty cache directory

VARIABLES
  slot,      \* the Bitswap, its DHT and its cache directory (named by the Bitswap)
  call       \* call[t]: the call t is making

Calls == [op : {"set", "clear"}, bitswap : Bitswaps \cup {Null}, dht : Dhts \cup {Null}]
NoCall == [op |-> "none", bitswap |-> Null, dht |-> Null]

EmptySlot == [bitswap |-> Null, dht |-> Null, cacheDir |-> Null]

Init ==
  /\ slot = EmptySlot
  /\ call = [t \in Callers |-> NoCall]

Begin(t, k) ==
  /\ call[t] = NoCall
  /\ call' = [call EXCEPT ![t] = k]
  /\ UNCHANGED slot

Return(t) == call' = [call EXCEPT ![t] = NoCall]

Set(t) ==
  /\ call[t].op = "set"
  /\ slot' = [bitswap |-> call[t].bitswap, dht |-> call[t].dht,
              cacheDir |-> call[t].bitswap]
  /\ Return(t)

Clear(t) ==
  /\ call[t].op = "clear"
  /\ slot' = IF slot.bitswap = call[t].bitswap THEN EmptySlot ELSE slot
  /\ Return(t)

Next == \E t \in Callers : (\E k \in Calls : Begin(t, k)) \/ Set(t) \/ Clear(t)

Spec == Init /\ [][Next]_<<slot, call>>
=============================================================================
