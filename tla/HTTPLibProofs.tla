---------------------------- MODULE HTTPLibProofs ----------------------------
(***************************************************************************)
(* Proofs about the client and the server of include/httplib.h, for any    *)
(* number of threads, connections, calls, redirects and stops: a request   *)
(* owns the socket it uses, no socket is lost, and an answer reaches the   *)
(* request it answers unless a body was left unread on the connection.     *)
(***************************************************************************)
EXTENDS HTTPLib, FiniteSetTheorems, SequenceTheorems, TLAPS

Messages == [kind : {"plain", "with_body", "body"}, id : Nat, close : BOOLEAN]
Responses == [id : Nat, close : BOOLEAN, redirect : BOOLEAN, whole : BOOLEAN]

ConnStates ==
    [cli : {"none", "open", "shut", "closed"},
     srv : {"none", "backlog", "loop", "keep_alive", "closed"},
     up : Seq(Messages), down : Seq(Responses), count : Int]

Requests ==
    [pc : {"send", "write", "read", "close", "close_redirect", "redirect",
           "redirecting", "exit"},
     use : 0 .. MaxConns, body : BOOLEAN, id : Nat, redirects : Nat, ret : BOOLEAN]

ShapeInv ==
    /\ conn \in [Conns -> ConnStates]
    /\ keep_alive_ \in BOOLEAN /\ shouldClose \in BOOLEAN
    /\ sock \in 0 .. MaxConns
    /\ owner \in Threads \cup {None}
    /\ stack \in Seq(Requests)
    /\ written \in Nat

(***************************************************************************)
(* Only the innermost request is anywhere but in its redirect, and each    *)
(* request that has passed send_'s first part is in flight.                *)
(***************************************************************************)
StackInv ==
    /\ \A i \in 1 .. (Len(stack) - 1) : stack[i].pc = "redirecting"
    /\ stack # <<>> => Top.pc # "redirecting"
    /\ owner = None <=> stack = <<>>
    /\ inFlight = IF At("send") THEN Len(stack) - 1 ELSE Len(stack)
    /\ inFlight > 0 => fromThread = owner

(***************************************************************************)
(* socket_ is the one descriptor the client has, a request in progress     *)
(* uses it, and if it is shut down somebody is going to close it.          *)
(***************************************************************************)
SocketInv ==
    /\ \A c \in Conns : conn[c].cli \in {"open", "shut"} <=> c = sock
    /\ \A c \in Conns : conn[c].cli = "none" =>
         conn[c].srv = "none" /\ conn[c].up = <<>> /\ conn[c].down = <<>>
    /\ At("write") \/ At("read") => sock = Top.use /\ sock # INVALID_SOCKET
    /\ sock # INVALID_SOCKET /\ conn[sock].cli = "shut" =>
         stack # <<>> /\ (shouldClose \/ At("write") \/ (At("exit") /\ ~Top.ret))

(***************************************************************************)
(* What is between the ends of a connection: nothing, unless a request     *)
(* waits for its answer or has failed; then at most its own message or an  *)
(* answer to it.                                                           *)
(***************************************************************************)
Quiet(c) == conn[c].up = <<>> /\ conn[c].down = <<>>

Asked(c, id) ==
    /\ conn[c].down = <<>>
    /\ \E m \in Messages : conn[c].up = <<m>> /\ m.id = id /\ m.kind # "body"

Answered(c, id) ==
    /\ conn[c].up = <<>>
    /\ \E r \in Responses : conn[c].down = <<r>> /\ (r.whole => r.id = id)

ExchangeInv ==
    sock # INVALID_SOCKET /\ sock \notin unread =>
      /\ stack = <<>> => Quiet(sock)
      /\ stack # <<>> /\ Top.pc \notin {"read", "exit"} => Quiet(sock)
      /\ At("exit") /\ Top.ret => Quiet(sock)
      /\ At("read") => Quiet(sock) \/ Asked(sock, Top.id) \/ Answered(sock, Top.id)

\* The inductive invariant.
HTTPInv ==
    /\ ShapeInv /\ StackInv /\ SocketInv /\ ExchangeInv
    /\ crossed \subseteq unread

-----------------------------------------------------------------------------
(* The requests of the thread that holds request_mutex_. *)

LEMMA SocketsAreConns ==
  /\ MaxConns \in Nat /\ MaxRedirects \in Nat
  /\ \A c \in 0 .. MaxConns : c # INVALID_SOCKET <=> c \in Conns
  /\ Conns \subseteq 0 .. MaxConns
BY MaxConnsAssumption, ClientAssumption DEF Conns, INVALID_SOCKET

\* What closing, opening and shutting down do to the state of a connection.
LEMMA ConnStateChanges ==
  ASSUME NEW q \in ConnStates
  PROVE  /\ [q EXCEPT !.cli = "closed", !.down = <<>>] \in ConnStates
         /\ [q EXCEPT !.cli = "open", !.srv = "backlog"] \in ConnStates
         /\ [q EXCEPT !.cli = "shut"] \in ConnStates
<1>1. <<>> \in Seq(Responses)
  BY EmptySeq
<1> QED BY <1>1 DEF ConnStates

LEMMA TopIsRequest ==
  ASSUME ShapeInv, stack # <<>>
  PROVE  /\ Len(stack) \in Nat \ {0} /\ Len(stack) \in 1 .. Len(stack)
         /\ Top \in Requests
<1>1. Len(stack) \in Nat \ {0} /\ Len(stack) \in 1 .. Len(stack)
  BY EmptySeq DEF ShapeInv
<1> QED BY <1>1, ElementOfSeq DEF ShapeInv, Top

\* A step that changes the innermost request only.
LEMMA TopChanges ==
  ASSUME ShapeInv, StackInv, stack # <<>>, NEW f \in Requests, stack' = WithTop(f)
  PROVE  /\ stack' \in Seq(Requests) /\ stack' # <<>>
         /\ Len(stack') = Len(stack) /\ Top' = f
         /\ \A i \in 1 .. (Len(stack') - 1) : stack'[i].pc = "redirecting"
<1>1. Len(stack) \in Nat \ {0} /\ Len(stack) \in 1 .. Len(stack) /\ stack \in Seq(Requests)
  BY TopIsRequest DEF ShapeInv
<1>2. /\ stack' \in Seq(Requests) /\ Len(stack') = Len(stack)
      /\ \A j \in 1 .. Len(stack) : stack'[j] = IF j = Len(stack) THEN f ELSE stack[j]
  BY <1>1, ExceptSeq DEF WithTop
<1>3. stack' # <<>>
  BY <1>1, <1>2, EmptySeq
<1>4. Top' = f
  BY <1>1, <1>2 DEF Top
<1>5. ASSUME NEW i \in 1 .. (Len(stack') - 1) PROVE stack'[i].pc = "redirecting"
  <2>1. i \in 1 .. (Len(stack) - 1) /\ i \in 1 .. Len(stack) /\ i # Len(stack)
    BY <1>1, <1>2
  <2> QED BY <1>2, <2>1 DEF StackInv
<1> QED BY <1>2, <1>3, <1>4, <1>5

\* A redirect to the client's own host: the innermost request has one inside it.
LEMMA TopRedirects ==
  ASSUME ShapeInv, StackInv, stack # <<>>, NEW f \in Requests, NEW g \in Requests,
         f.pc = "redirecting", stack' = Append(WithTop(f), g)
  PROVE  /\ stack' \in Seq(Requests) /\ stack' # <<>>
         /\ Len(stack') = Len(stack) + 1 /\ Top' = g
         /\ \A i \in 1 .. (Len(stack') - 1) : stack'[i].pc = "redirecting"
<1> DEFINE w == WithTop(f)
<1>1. Len(stack) \in Nat \ {0} /\ Len(stack) \in 1 .. Len(stack) /\ stack \in Seq(Requests)
  BY TopIsRequest DEF ShapeInv
<1>2. /\ w \in Seq(Requests) /\ Len(w) = Len(stack)
      /\ \A j \in 1 .. Len(stack) : w[j] = IF j = Len(stack) THEN f ELSE stack[j]
  BY <1>1, ExceptSeq DEF WithTop
<1> HIDE DEF w
<1>3. stack' = Append(w, g)
  BY DEF w
<1>4. /\ stack' \in Seq(Requests) /\ Len(stack') = Len(stack) + 1
      /\ \A j \in 1 .. Len(stack) : stack'[j] = w[j]
      /\ stack'[Len(stack) + 1] = g
  BY <1>1, <1>2, <1>3, AppendProperties
<1>5. stack' # <<>>
  BY <1>1, <1>4, EmptySeq
<1>6. Top' = g
  BY <1>4 DEF Top
<1>7. ASSUME NEW i \in 1 .. (Len(stack') - 1) PROVE stack'[i].pc = "redirecting"
  <2>1. i \in 1 .. Len(stack) /\ (i # Len(stack) => i \in 1 .. (Len(stack) - 1))
    BY <1>1, <1>4
  <2>2. stack'[i] = IF i = Len(stack) THEN f ELSE stack[i]
    BY <1>2, <1>4, <2>1
  <2> QED BY <2>1, <2>2 DEF StackInv
<1> QED BY <1>4, <1>5, <1>6, <1>7

\* send_ returns: the request it was made for goes to its scope_exit.
LEMMA TopReturns ==
  ASSUME ShapeInv, StackInv, stack # <<>>, NEW ret \in BOOLEAN, Return(ret)
  PROVE  /\ stack' \in Seq(Requests) /\ owner' \in Threads \cup {None}
         /\ Len(stack') = Len(stack) - 1
         /\ \A i \in 1 .. (Len(stack') - 1) : stack'[i].pc = "redirecting"
         /\ stack' # <<>> => Top'.pc = "exit" /\ Top'.ret = ret /\ owner' = owner
         /\ owner' = None <=> stack' = <<>>
<1>1. Len(stack) \in Nat \ {0} /\ stack \in Seq(Requests)
  BY TopIsRequest DEF ShapeInv
<1>2. CASE Len(stack) = 1
  BY <1>1, <1>2, EmptySeq DEF Return
<1>3. CASE Len(stack) # 1
  <2> DEFINE k == Len(stack) - 1
             w == Front(stack)
             f == [w[k] EXCEPT !.ret = ret, !.pc = "exit"]
  <2>1. k \in Nat \ {0} /\ k \in 1 .. k
    <3>1. \A m \in Nat \ {0} : m # 1 => m - 1 \in Nat \ {0} /\ m - 1 \in 1 .. (m - 1)
      OBVIOUS
    <3> QED BY <1>1, <1>3, <3>1
  <2>2. /\ w \in Seq(Requests) /\ Len(w) = k
        /\ \A j \in 1 .. k : w[j] = stack[j]
    <3>1. \A j \in 1 .. k : stack[j] \in Requests
      BY <1>1, ElementOfSeq
    <3>2. w = SubSeq(stack, 1, k)
      BY DEF Front
    <3> QED BY <2>1, <3>1, <3>2, SubSeqProperties
  <2>3. f \in Requests /\ f.pc = "exit" /\ f.ret = ret
    <3>1. w[k] \in Requests
      BY <2>1, <2>2, ElementOfSeq
    <3> QED BY <3>1 DEF Requests
  <2>4. stack' = [w EXCEPT ![k] = f] /\ owner' = owner
    <3>1. stack' = [w EXCEPT ![k].ret = ret, ![k].pc = "exit"] /\ owner' = owner
      BY <1>3 DEF Return
    <3>2. [w EXCEPT ![k].ret = ret, ![k].pc = "exit"] = [w EXCEPT ![k] = f]
      BY <2>1, <2>2, LenProperties
    <3> QED BY <3>1, <3>2
  <2>5. /\ stack' \in Seq(Requests) /\ Len(stack') = k
        /\ \A j \in 1 .. k : stack'[j] = IF j = k THEN f ELSE w[j]
    <3> HIDE DEF k, w, f
    <3> QED BY <2>1, <2>2, <2>3, <2>4, ExceptSeq
  <2>6. stack' # <<>>
    BY <2>1, <2>5, EmptySeq
  <2>7. Top' = f
    BY <2>1, <2>5 DEF Top
  <2>8. ASSUME NEW i \in 1 .. (Len(stack') - 1) PROVE stack'[i].pc = "redirecting"
    <3>1. i \in 1 .. k /\ i # k /\ i \in 1 .. (Len(stack) - 1)
      BY <2>1, <2>5
    <3>2. stack'[i] = stack[i]
      BY <2>2, <2>5, <3>1
    <3> QED BY <3>1, <3>2 DEF StackInv
  <2>9. owner # None /\ owner \in Threads \cup {None}
    BY DEF StackInv, ShapeInv
  <2> QED BY <2>3, <2>4, <2>5, <2>6, <2>7, <2>8, <2>9
<1> QED BY <1>2, <1>3

-----------------------------------------------------------------------------
(* The client's steps. *)

\* socket_ is closed and forgotten while no request writes or reads: nothing is
\* left to say about it.
LEMMA ClosingStep ==
  ASSUME HTTPInv, conn' = Closed(conn, sock), sock' = INVALID_SOCKET,
         ~At("write")', ~At("read")'
  PROVE  /\ conn' \in [Conns -> ConnStates] /\ sock' \in 0 .. MaxConns
         /\ SocketInv' /\ ExchangeInv'
<1> USE DEF HTTPInv
<1>1. conn \in [Conns -> ConnStates] /\ sock \in 0 .. MaxConns
  BY DEF ShapeInv
<1>2. \A c \in Conns : c # INVALID_SOCKET
  BY SocketsAreConns
<1>4. CASE sock = INVALID_SOCKET
  <2>1. conn' = conn
    BY <1>4 DEF Closed
  <2> QED BY <1>1, <1>2, <1>4, <2>1 DEF SocketInv, ExchangeInv
<1>5. CASE sock # INVALID_SOCKET
  <2>1. sock \in Conns /\ conn' = [conn EXCEPT ![sock].cli = "closed", ![sock].down = <<>>]
    BY <1>1, <1>5, SocketsAreConns DEF Closed
  <2>2. conn' \in [Conns -> ConnStates]
    <3>1. [conn[sock] EXCEPT !.cli = "closed", !.down = <<>>] \in ConnStates
      BY <1>1, <2>1, ConnStateChanges
    <3>2. conn' = [conn EXCEPT ![sock] = [conn[sock] EXCEPT !.cli = "closed", !.down = <<>>]]
      BY <1>1, <2>1
    <3> QED BY <1>1, <3>1, <3>2
  <2>3. \A c \in Conns : /\ c # sock => conn'[c] = conn[c]
                         /\ c = sock => conn'[c].cli = "closed"
    BY <1>1, <2>1 DEF ConnStates
  <2>4. SocketInv'
    BY <1>2, <2>3 DEF SocketInv
  <2>5. ExchangeInv'
    BY DEF ExchangeInv
  <2>6. 0 \in 0 .. MaxConns
    BY SocketsAreConns
  <2> QED BY <2>2, <2>4, <2>5, <2>6 DEF INVALID_SOCKET
<1> QED BY <1>4, <1>5

LEMMA CallStep ==
  ASSUME HTTPInv, NEW t \in Threads, NEW body \in BOOLEAN, Call(t, body), UNCHANGED unread
  PROVE  HTTPInv'
<1> USE DEF HTTPInv
<1> DEFINE q == Request(body, MaxRedirects)
<1>1. /\ owner = None /\ owner' = t /\ stack' = <<q>>
      /\ UNCHANGED <<conn, keep_alive_, sock, inFlight, fromThread, shouldClose,
                     written, crossed, unread>>
  BY DEF Call
<1>2. stack = <<>> /\ t # None
  BY <1>1, ClientAssumption DEF StackInv
<1>3. q \in Requests /\ q.pc = "send"
  <2>1. 0 \in 0 .. MaxConns /\ 0 \in Nat /\ MaxRedirects \in Nat
    BY SocketsAreConns
  <2> QED BY <2>1 DEF Request, Requests, INVALID_SOCKET
<1> HIDE DEF q
<1>4. stack' \in Seq(Requests) /\ Len(stack') = 1 /\ Top' = q /\ stack' # <<>>
  BY <1>1, <1>3 DEF Top
<1>5. ShapeInv'
  BY <1>1, <1>4 DEF ShapeInv
<1>6. inFlight = 0
  BY <1>2 DEF StackInv, At
<1>7. StackInv'
  BY <1>1, <1>2, <1>3, <1>4, <1>6 DEF StackInv, At
<1>8. SocketInv'
  BY <1>1, <1>2, <1>3, <1>4 DEF SocketInv, At
<1>9. ExchangeInv'
  BY <1>1, <1>2, <1>3, <1>4 DEF ExchangeInv, Quiet, At
<1> QED BY <1>1, <1>5, <1>7, <1>8, <1>9

\* The facts of a step that leaves the depth of the stack alone.
LEMMA SameDepth ==
  ASSUME HTTPInv, stack # <<>>, NEW f \in Requests, stack' = WithTop(f),
         f.pc # "send", f.pc # "redirecting", UNCHANGED owner,
         IF At("send") THEN inFlight' = inFlight + 1 /\ fromThread' = owner
                       ELSE UNCHANGED <<inFlight, fromThread>>
  PROVE  /\ stack' \in Seq(Requests) /\ stack' # <<>> /\ Top' = f
         /\ StackInv'
<1> USE DEF HTTPInv
<1>1. /\ stack' \in Seq(Requests) /\ stack' # <<>>
      /\ Len(stack') = Len(stack) /\ Top' = f
      /\ \A i \in 1 .. (Len(stack') - 1) : stack'[i].pc = "redirecting"
  BY TopChanges
<1>2. Len(stack) \in Nat \ {0}
  BY TopIsRequest
<1>3. ~At("send")'
  BY <1>1 DEF At
<1>4. inFlight' = Len(stack')
  <2>1. CASE At("send")
    BY <1>1, <1>2, <2>1 DEF StackInv
  <2>2. CASE ~At("send")
    BY <1>1, <1>2, <2>2 DEF StackInv
  <2> QED BY <2>1, <2>2
<1>5. fromThread' = owner'
  <2>1. CASE At("send")
    BY <2>1
  <2>2. CASE ~At("send")
    BY <1>2, <2>2 DEF StackInv
  <2> QED BY <2>1, <2>2
<1> QED BY <1>1, <1>3, <1>4, <1>5 DEF StackInv

LEMMA ReusesStep ==
  ASSUME HTTPInv, Send_, ReusesSocket, UNCHANGED unread
  PROVE  HTTPInv'
<1> USE DEF HTTPInv
<1> DEFINE f == [Top EXCEPT !.pc = "write", !.use = sock]
<1>1. /\ At("send") /\ stack # <<>> /\ Top.pc = "send"
      /\ shouldClose' = FALSE /\ inFlight' = inFlight + 1 /\ fromThread' = owner
      /\ stack' = WithTop(f)
      /\ UNCHANGED <<conn, keep_alive_, sock, owner, written, crossed, unread>>
  BY DEF Send_, ReusesSocket, InFlightOn, At
<1>2. sock # INVALID_SOCKET
  BY DEF ReusesSocket, Alive
<1>3. f \in Requests /\ f.pc = "write" /\ f.use = sock
  BY <1>1, TopIsRequest DEF Requests, ShapeInv
<1> HIDE DEF f
<1>4. stack' \in Seq(Requests) /\ stack' # <<>> /\ Top' = f /\ StackInv'
  BY <1>1, <1>3, SameDepth
<1>5. ShapeInv'
  BY <1>1, <1>4 DEF ShapeInv
<1>6. SocketInv'
  BY <1>1, <1>2, <1>3, <1>4 DEF SocketInv, At
<1>7. ExchangeInv'
  BY <1>1, <1>3, <1>4 DEF ExchangeInv, Quiet, At
<1> QED BY <1>1, <1>4, <1>5, <1>6, <1>7

\* A connection that was never used becomes socket_, in place of the closed one.
LEMMA ConnectsStep ==
  ASSUME HTTPInv, At("send"), shouldClose' = FALSE, NEW c \in Conns, Connectable(c),
         conn' = Connected(Closed(conn, sock), c), InFlightOn(c),
         UNCHANGED <<keep_alive_, written, crossed, unread>>
  PROVE  HTTPInv'
<1> USE DEF HTTPInv
<1> DEFINE f == [Top EXCEPT !.pc = "write", !.use = c]
           cs == Closed(conn, sock)
<1>1. /\ stack # <<>> /\ Top.pc = "send"
      /\ inFlight' = inFlight + 1 /\ fromThread' = owner /\ sock' = c
      /\ stack' = WithTop(f) /\ UNCHANGED owner
  BY DEF InFlightOn, At
<1>2. c \in 0 .. MaxConns /\ c # INVALID_SOCKET
  BY SocketsAreConns
<1>3. f \in Requests /\ f.pc = "write" /\ f.use = c
  BY <1>1, <1>2, TopIsRequest DEF Requests
<1>4. conn \in [Conns -> ConnStates] /\ sock \in 0 .. MaxConns
  BY EmptySeq DEF ShapeInv
<1>5. conn[c].cli = "none" /\ conn[c].up = <<>> /\ conn[c].down = <<>> /\ c # sock
  BY DEF Connectable, SocketInv
<1>6. /\ cs \in [Conns -> ConnStates] /\ cs[c] = conn[c]
      /\ \A d \in Conns : /\ d # sock => cs[d] = conn[d]
                          /\ d = sock => cs[d].cli = "closed"
  <2>1. CASE sock = INVALID_SOCKET
    BY <1>4, <2>1, SocketsAreConns DEF Closed
  <2>2. CASE sock # INVALID_SOCKET
    <3>1. sock \in Conns /\ cs = [conn EXCEPT ![sock].cli = "closed", ![sock].down = <<>>]
      BY <1>4, <2>2, SocketsAreConns DEF Closed
    <3>2. cs \in [Conns -> ConnStates]
      <4>1. [conn[sock] EXCEPT !.cli = "closed", !.down = <<>>] \in ConnStates
        BY <1>4, <3>1, ConnStateChanges
      <4>2. cs = [conn EXCEPT ![sock] = [conn[sock] EXCEPT !.cli = "closed", !.down = <<>>]]
        BY <1>4, <3>1
      <4> QED BY <1>4, <4>1, <4>2
    <3> QED BY <1>4, <1>5, <3>1, <3>2 DEF ConnStates
  <2> QED BY <2>1, <2>2
<1> HIDE DEF cs, f
<1>7. conn' = [cs EXCEPT ![c].cli = "open", ![c].srv = "backlog"]
  BY DEF Connected, cs
<1>8. conn' \in [Conns -> ConnStates]
  <2>1. [cs[c] EXCEPT !.cli = "open", !.srv = "backlog"] \in ConnStates
    BY <1>6, ConnStateChanges
  <2>2. conn' = [cs EXCEPT ![c] = [cs[c] EXCEPT !.cli = "open", !.srv = "backlog"]]
    BY <1>6, <1>7
  <2> QED BY <1>6, <2>1, <2>2
<1>9. /\ conn'[c].cli = "open" /\ conn'[c].up = <<>> /\ conn'[c].down = <<>>
      /\ \A d \in Conns \ {c} : conn'[d] = cs[d]
  BY <1>5, <1>6, <1>7 DEF ConnStates
<1>10. stack' \in Seq(Requests) /\ stack' # <<>> /\ Top' = f /\ StackInv'
  BY <1>1, <1>3, SameDepth
<1>11. ShapeInv'
  BY <1>1, <1>2, <1>8, <1>10 DEF ShapeInv
<1>12. SocketInv'
  <2>1. \A d \in Conns : conn'[d].cli \in {"open", "shut"} <=> d = c
    BY <1>6, <1>9 DEF SocketInv
  <2>2. \A d \in Conns : conn'[d].cli = "none" =>
           conn'[d].srv = "none" /\ conn'[d].up = <<>> /\ conn'[d].down = <<>>
    BY <1>6, <1>9 DEF SocketInv
  <2> QED BY <1>1, <1>2, <1>3, <1>9, <1>10, <2>1, <2>2 DEF SocketInv, At
<1>13. ExchangeInv'
  BY <1>1, <1>3, <1>9, <1>10 DEF ExchangeInv, Quiet, At
<1> QED BY <1>10, <1>11, <1>12, <1>13

\* No connection could be made: the request returns without having been in flight.
LEMMA ConnectFailsStep ==
  ASSUME HTTPInv, At("send"), shouldClose' = FALSE, conn' = Closed(conn, sock),
         sock' = INVALID_SOCKET, Return(FALSE),
         UNCHANGED <<keep_alive_, inFlight, fromThread, written, crossed, unread>>
  PROVE  HTTPInv'
<1> USE DEF HTTPInv
<1>1. stack # <<>> /\ Len(stack) \in Nat \ {0}
  BY TopIsRequest DEF At
<1>2. /\ stack' \in Seq(Requests) /\ owner' \in Threads \cup {None}
      /\ Len(stack') = Len(stack) - 1
      /\ \A i \in 1 .. (Len(stack') - 1) : stack'[i].pc = "redirecting"
      /\ stack' # <<>> => Top'.pc = "exit" /\ owner' = owner
      /\ owner' = None <=> stack' = <<>>
  BY <1>1, TopReturns
<1>3. ~At("write")' /\ ~At("read")' /\ ~At("send")'
  BY <1>2 DEF At
<1>4. /\ conn' \in [Conns -> ConnStates] /\ sock' \in 0 .. MaxConns
      /\ SocketInv' /\ ExchangeInv'
  BY <1>3, ClosingStep
<1>5. ShapeInv'
  BY <1>2, <1>4 DEF ShapeInv
<1>6. inFlight' = Len(stack') /\ (inFlight' > 0 => stack' # <<>>)
  <2>1. inFlight' = Len(stack')
    BY <1>1, <1>2 DEF StackInv
  <2> QED BY <1>2, <2>1, EmptySeq
<1>7. inFlight' > 0 => fromThread' = owner'
  BY <1>2, <1>6 DEF StackInv
<1>8. StackInv'
  BY <1>2, <1>3, <1>6, <1>7 DEF StackInv
<1> QED BY <1>4, <1>5, <1>8

LEMMA SendStep ==
  ASSUME HTTPInv, Send_, UNCHANGED unread
  PROVE  HTTPInv'
<1>1. /\ At("send") /\ shouldClose' = FALSE
      /\ UNCHANGED <<keep_alive_, written, crossed>>
  BY DEF Send_
<1>2. CASE ReusesSocket
  BY <1>2, ReusesStep
<1>3. CASE Reconnects
  BY <1>1, <1>3, ConnectsStep, ConnectFailsStep DEF Reconnects
<1> QED BY <1>2, <1>3 DEF Send_

LEMMA WriteRequestStep ==
  ASSUME HTTPInv, WriteRequest, UNCHANGED unread
  PROVE  HTTPInv'
<1> USE DEF HTTPInv
<1> DEFINE f == [Top EXCEPT !.pc = "read", !.id = written + 1]
           m == [kind |-> IF Top.body THEN "with_body" ELSE "plain",
                 id |-> written + 1, close |-> ~keep_alive_]
<1>1. /\ At("write") /\ stack # <<>> /\ Top.pc = "write"
      /\ written' = written + 1 /\ ClientWrites(Top.use, m)
      /\ stack' = WithTop(f)
      /\ UNCHANGED <<keep_alive_, sock, inFlight, fromThread, shouldClose, owner,
                     crossed, unread>>
  BY DEF WriteRequest, At
<1>2. /\ sock = Top.use /\ sock # INVALID_SOCKET /\ sock \in Conns /\ written + 1 \in Nat
      /\ conn \in [Conns -> ConnStates] /\ Top \in Requests
  BY <1>1, SocketsAreConns, TopIsRequest DEF SocketInv, ShapeInv
<1>3. f \in Requests /\ f.pc = "read" /\ f.id = written + 1
  BY <1>2 DEF Requests
<1>4. m \in Messages /\ m.id = written + 1 /\ m.kind # "body"
  BY <1>2 DEF Messages, ShapeInv, Requests
<1>5. conn[sock].cli = "open"
  BY <1>1, <1>2 DEF ClientWrites
<1>6. conn' = conn \/ conn' = [conn EXCEPT ![sock].up = Append(@, m)]
  BY <1>1, <1>2 DEF ClientWrites
<1> HIDE DEF f, m
<1>7. conn[sock].up \in Seq(Messages) /\ Append(conn[sock].up, m) \in Seq(Messages)
  BY <1>2, <1>4, AppendProperties DEF ConnStates
<1>8. /\ conn' \in [Conns -> ConnStates] /\ conn'[sock].cli = "open"
      /\ conn'[sock].down = conn[sock].down
      /\ conn'[sock].up = conn[sock].up \/ conn'[sock].up = Append(conn[sock].up, m)
      /\ \A c \in Conns \ {sock} : conn'[c] = conn[c]
  <2>1. CASE conn' = conn
    BY <1>2, <1>5, <2>1
  <2>2. CASE conn' = [conn EXCEPT ![sock].up = Append(@, m)]
    <3>1. [conn[sock] EXCEPT !.up = Append(@, m)] \in ConnStates
      BY <1>2, <1>7 DEF ConnStates
    <3> QED BY <1>2, <1>5, <2>2, <3>1 DEF ConnStates
  <2> QED BY <1>6, <2>1, <2>2
<1>9. stack' \in Seq(Requests) /\ stack' # <<>> /\ Top' = f /\ StackInv'
  BY <1>1, <1>3, SameDepth DEF At
<1>10. ShapeInv'
  BY <1>1, <1>2, <1>8, <1>9 DEF ShapeInv
<1>11. SocketInv'
  <2>1. Top'.use = sock
    BY <1>2, <1>9 DEF f, Requests
  <2>2. \A c \in Conns : conn'[c].cli = conn[c].cli
    BY <1>5, <1>8
  <2>3. \A c \in Conns : conn'[c].cli = "none" => conn'[c] = conn[c]
    BY <1>8
  <2> QED BY <1>1, <1>2, <1>8, <2>1, <2>2, <2>3 DEF SocketInv
<1>12. sock \notin unread => Quiet(sock)' \/ Asked(sock, written)'
  <2>1. SUFFICES ASSUME sock \notin unread PROVE Quiet(sock)' \/ Asked(sock, written)'
    OBVIOUS
  <2>2. Quiet(sock)
    BY <1>1, <1>2, <2>1 DEF ExchangeInv
  <2>3. Append(<<>>, m) = <<m>>
    OBVIOUS
  <2>4. conn'[sock].down = <<>> /\ (conn'[sock].up = <<>> \/ conn'[sock].up = <<m>>)
    BY <1>8, <2>2, <2>3 DEF Quiet
  <2> QED BY <1>1, <1>4, <2>4 DEF Quiet, Asked
<1>13. ExchangeInv'
  <2>1. Top'.id = written' /\ Top'.pc = "read"
    BY <1>1, <1>3, <1>9
  <2> QED BY <1>1, <1>9, <1>12, <2>1 DEF ExchangeInv, At
<1> QED BY <1>1, <1>9, <1>10, <1>11, <1>13

LEMMA FailsStep ==
  ASSUME HTTPInv, Fails, UNCHANGED unread
  PROVE  HTTPInv'
<1> USE DEF HTTPInv
<1> DEFINE f == [Top EXCEPT !.pc = "exit", !.ret = FALSE]
<1>1. /\ stack # <<>> /\ Top.pc \in {"write", "read"} /\ stack' = WithTop(f)
      /\ UNCHANGED <<conn, keep_alive_, sock, inFlight, fromThread, shouldClose, owner,
                     written, crossed, unread>>
  BY DEF Fails, At
<1>2. f \in Requests /\ f.pc = "exit" /\ f.ret = FALSE
  BY <1>1, TopIsRequest DEF Requests
<1> HIDE DEF f
<1>3. stack' \in Seq(Requests) /\ stack' # <<>> /\ Top' = f /\ StackInv'
  BY <1>1, <1>2, SameDepth DEF At
<1>4. ShapeInv'
  BY <1>1, <1>3 DEF ShapeInv
<1>5. SocketInv'
  BY <1>1, <1>2, <1>3 DEF SocketInv, At
<1>6. ExchangeInv'
  BY <1>1, <1>2, <1>3 DEF ExchangeInv, At
<1> QED BY <1>1, <1>3, <1>4, <1>5, <1>6

LEMMA ReadResponseStep ==
  ASSUME HTTPInv, ReadResponse, UNCHANGED unread
  PROVE  HTTPInv'
<1> USE DEF HTTPInv
<1> DEFINE r == Head(conn[sock].down)
           f == [Top EXCEPT !.ret = TRUE,
                   !.pc = CASE r.close -> IF r.redirect THEN "close_redirect" ELSE "close"
                            [] r.redirect -> "redirect"
                            [] OTHER -> "exit"]
<1>1. At("read") /\ stack # <<>> /\ Top.pc = "read"
  BY DEF ReadResponse, At
<1>2. /\ sock = Top.use /\ sock # INVALID_SOCKET /\ sock \in Conns
      /\ conn \in [Conns -> ConnStates] /\ Top \in Requests
  BY <1>1, SocketsAreConns, TopIsRequest DEF SocketInv, ShapeInv
<1>3. /\ conn[sock].down # <<>> /\ r.whole
      /\ conn' = [conn EXCEPT ![sock].down = Tail(@)]
      /\ crossed' = IF r.id = Top.id THEN crossed ELSE crossed \cup {sock}
      /\ stack' = WithTop(f)
      /\ UNCHANGED <<keep_alive_, sock, inFlight, fromThread, shouldClose, owner,
                     written, unread>>
  BY <1>2 DEF ReadResponse
<1>4. conn[sock].down \in Seq(Responses) /\ Tail(conn[sock].down) \in Seq(Responses) /\ r \in Responses
  <2>1. conn[sock].down \in Seq(Responses)
    BY <1>2 DEF ConnStates
  <2> QED BY <1>3, <2>1, HeadTailProperties
<1>5. f \in Requests /\ f.pc \in {"close_redirect", "close", "redirect", "exit"} /\ f.ret = TRUE
  BY <1>2, <1>4 DEF Requests, Responses
<1> HIDE DEF f
<1>6. stack' \in Seq(Requests) /\ stack' # <<>> /\ Top' = f /\ StackInv'
  BY <1>1, <1>3, <1>5, SameDepth DEF At
<1>7. conn' \in [Conns -> ConnStates]
  <2>1. [conn[sock] EXCEPT !.down = Tail(@)] \in ConnStates
    BY <1>2, <1>4 DEF ConnStates
  <2> QED BY <1>2, <1>3, <2>1
<1>8. /\ conn'[sock].cli = conn[sock].cli /\ conn'[sock].up = conn[sock].up
      /\ conn'[sock].down = Tail(conn[sock].down)
      /\ \A c \in Conns \ {sock} : conn'[c] = conn[c]
  BY <1>2, <1>3 DEF ConnStates
<1>9. ShapeInv'
  BY <1>3, <1>6, <1>7 DEF ShapeInv
<1>10. SocketInv'
  <2>1. conn[sock].cli \in {"open", "shut"}
    BY <1>2 DEF SocketInv
  <2>2. \A c \in Conns : /\ conn'[c].cli = conn[c].cli
                         /\ conn'[c].cli = "none" => conn'[c] = conn[c]
    BY <1>8, <2>1
  <2>3. conn[sock].cli = "shut" => shouldClose
    BY <1>1, <1>2 DEF SocketInv, At
  <2> QED BY <1>2, <1>3, <1>5, <1>6, <2>2, <2>3 DEF SocketInv, At
<1>11. sock \notin unread => r.id = Top.id /\ Quiet(sock)'
  <2>1. SUFFICES ASSUME sock \notin unread PROVE r.id = Top.id /\ Quiet(sock)'
    OBVIOUS
  <2>2. Answered(sock, Top.id)
    BY <1>1, <1>2, <1>3, <2>1 DEF ExchangeInv, Quiet, Asked
  <2>3. PICK q \in Responses : conn[sock].down = <<q>> /\ (q.whole => q.id = Top.id)
    BY <2>2 DEF Answered
  <2>4. r = q /\ Tail(conn[sock].down) = <<>>
    BY <2>3
  <2>5. conn[sock].up = <<>>
    BY <2>2 DEF Answered
  <2> QED BY <1>3, <1>8, <2>3, <2>4, <2>5 DEF Quiet
<1>12. ExchangeInv'
  BY <1>3, <1>5, <1>6, <1>11 DEF ExchangeInv, At
<1>13. crossed' \subseteq unread'
  BY <1>3, <1>11
<1> QED BY <1>6, <1>9, <1>10, <1>12, <1>13

LEMMA CloseOnResponseStep ==
  ASSUME HTTPInv, CloseOnResponse, UNCHANGED unread
  PROVE  HTTPInv'
<1> USE DEF HTTPInv
<1> DEFINE f == [Top EXCEPT !.pc = IF At("close") THEN "exit" ELSE "redirect"]
<1>1. /\ stack # <<>> /\ Top.pc \in {"close", "close_redirect"} /\ stack' = WithTop(f)
      /\ conn' = Closed(conn, sock) /\ sock' = INVALID_SOCKET
      /\ UNCHANGED <<keep_alive_, inFlight, fromThread, shouldClose, owner,
                     written, crossed, unread>>
  BY DEF CloseOnResponse, At
<1>2. f \in Requests /\ f.pc \in {"exit", "redirect"}
  BY <1>1, TopIsRequest DEF Requests
<1> HIDE DEF f
<1>3. stack' \in Seq(Requests) /\ stack' # <<>> /\ Top' = f /\ StackInv'
  BY <1>1, <1>2, SameDepth DEF At
<1>4. ~At("write")' /\ ~At("read")'
  BY <1>2, <1>3 DEF At
<1>5. /\ conn' \in [Conns -> ConnStates] /\ sock' \in 0 .. MaxConns
      /\ SocketInv' /\ ExchangeInv'
  BY <1>1, <1>4, ClosingStep
<1>6. ShapeInv'
  BY <1>1, <1>3, <1>5 DEF ShapeInv
<1> QED BY <1>1, <1>3, <1>5, <1>6

\* The redirect is not followed on this client.
LEMMA RedirectEndsStep ==
  ASSUME HTTPInv, At("redirect"), NEW ret \in BOOLEAN,
         stack' = WithTop([Top EXCEPT !.pc = "exit", !.ret = ret]),
         UNCHANGED <<conn, keep_alive_, sock, inFlight, fromThread, shouldClose, owner,
                     written, crossed, unread>>
  PROVE  HTTPInv'
<1> USE DEF HTTPInv
<1> DEFINE f == [Top EXCEPT !.pc = "exit", !.ret = ret]
<1>1. stack # <<>> /\ Top.pc = "redirect"
  BY DEF At
<1>2. f \in Requests /\ f.pc = "exit"
  BY <1>1, TopIsRequest DEF Requests
<1>3. stack' = WithTop(f)
  OBVIOUS
<1> HIDE DEF f
<1>4. stack' \in Seq(Requests) /\ stack' # <<>> /\ Top' = f /\ StackInv'
  BY <1>1, <1>2, <1>3, SameDepth DEF At
<1>5. ShapeInv'
  BY <1>4 DEF ShapeInv
<1>6. SocketInv'
  BY <1>1, <1>2, <1>4 DEF SocketInv, At
<1>7. ExchangeInv'
  BY <1>1, <1>2, <1>4 DEF ExchangeInv, Quiet, At
<1> QED BY <1>4, <1>5, <1>6, <1>7

LEMMA RedirectStep ==
  ASSUME HTTPInv, Redirect, UNCHANGED unread
  PROVE  HTTPInv'
<1> USE DEF HTTPInv
<1>1. /\ At("redirect") /\ stack # <<>> /\ Top.pc = "redirect"
      /\ UNCHANGED <<conn, keep_alive_, sock, inFlight, fromThread, shouldClose, owner,
                     written, crossed, unread>>
  BY DEF Redirect, At
<1>2. CASE \E ret \in BOOLEAN : stack' = WithTop([Top EXCEPT !.pc = "exit", !.ret = ret])
  BY <1>1, <1>2, RedirectEndsStep
<1>3. CASE /\ Top.redirects > 0
           /\ \E body \in {Top.body, FALSE} :
                stack' = Append(WithTop([Top EXCEPT !.pc = "redirecting"]),
                                Request(body, Top.redirects - 1))
  <2>1. Top \in Requests /\ Len(stack) \in Nat \ {0}
    BY <1>1, TopIsRequest
  <2>2. PICK body \in BOOLEAN :
          stack' = Append(WithTop([Top EXCEPT !.pc = "redirecting"]),
                          Request(body, Top.redirects - 1))
    BY <1>3, <2>1 DEF Requests
  <2> DEFINE f == [Top EXCEPT !.pc = "redirecting"]
             g == Request(body, Top.redirects - 1)
  <2>3. f \in Requests /\ f.pc = "redirecting"
    BY <2>1 DEF Requests
  <2>4. g \in Requests /\ g.pc = "send"
    <3>1. 0 \in 0 .. MaxConns /\ Top.redirects - 1 \in Nat
      BY <1>3, <2>1, SocketsAreConns DEF Requests
    <3> QED BY <3>1 DEF Request, Requests, INVALID_SOCKET
  <2>5. stack' = Append(WithTop(f), g)
    BY <2>2
  <2> HIDE DEF f, g
  <2>6. /\ stack' \in Seq(Requests) /\ stack' # <<>>
        /\ Len(stack') = Len(stack) + 1 /\ Top' = g
        /\ \A i \in 1 .. (Len(stack') - 1) : stack'[i].pc = "redirecting"
    BY <1>1, <2>3, <2>4, <2>5, TopRedirects
  <2>7. ShapeInv'
    BY <1>1, <2>6 DEF ShapeInv
  <2>8. StackInv'
    <3>1. inFlight' = Len(stack') - 1
      BY <1>1, <2>1, <2>6 DEF StackInv, At
    <3>2. At("send")'
      BY <2>4, <2>6 DEF At
    <3>3. inFlight' > 0 => fromThread' = owner'
      BY <1>1 DEF StackInv
    <3>4. owner' # None
      BY <1>1 DEF StackInv
    <3> QED BY <2>4, <2>6, <3>1, <3>2, <3>3, <3>4 DEF StackInv
  <2>9. SocketInv'
    BY <1>1, <2>4, <2>6 DEF SocketInv, At
  <2>10. ExchangeInv'
    BY <1>1, <2>4, <2>6 DEF ExchangeInv, Quiet, At
  <2> QED BY <1>1, <2>7, <2>8, <2>9, <2>10
<1> QED BY <1>2, <1>3 DEF Redirect

\* The request that returns was in flight and is no longer.
LEMMA ScopeExitStep ==
  ASSUME HTTPInv, ScopeExit, UNCHANGED unread
  PROVE  HTTPInv'
<1> USE DEF HTTPInv
<1>1. /\ At("exit") /\ stack # <<>> /\ Top.pc = "exit" /\ Return(Top.ret)
      /\ inFlight' = inFlight - 1
      /\ fromThread' = IF inFlight' <= 0 THEN None ELSE fromThread
      /\ UNCHANGED <<keep_alive_, shouldClose, written, crossed, unread>>
  BY DEF ScopeExit, ExitClosing, At
<1>2. Top.ret \in BOOLEAN /\ Len(stack) \in Nat \ {0}
  BY <1>1, TopIsRequest DEF Requests
<1>3. /\ stack' \in Seq(Requests) /\ owner' \in Threads \cup {None}
      /\ Len(stack') = Len(stack) - 1
      /\ \A i \in 1 .. (Len(stack') - 1) : stack'[i].pc = "redirecting"
      /\ stack' # <<>> => Top'.pc = "exit" /\ Top'.ret = Top.ret /\ owner' = owner
      /\ owner' = None <=> stack' = <<>>
  BY <1>1, <1>2, TopReturns
<1>4. ~At("write")' /\ ~At("read")' /\ ~At("send")'
  BY <1>3 DEF At
<1>5. inFlight' = Len(stack') /\ (inFlight' > 0 => stack' # <<>>) /\ inFlight > 0
  <2>1. inFlight = Len(stack)
    BY <1>1 DEF StackInv, At
  <2>2. inFlight' = Len(stack')
    BY <1>1, <1>2, <1>3, <2>1
  <2> QED BY <1>2, <1>3, <2>1, <2>2, EmptySeq
<1>6. inFlight' > 0 => fromThread' = owner'
  BY <1>1, <1>3, <1>5 DEF StackInv
<1>7. StackInv'
  BY <1>3, <1>4, <1>5, <1>6 DEF StackInv
<1>8. CASE CloseAtExit
  <2>1. conn' = Closed(conn, sock) /\ sock' = INVALID_SOCKET
    BY <1>8 DEF ScopeExit, ExitClosing
  <2>2. /\ conn' \in [Conns -> ConnStates] /\ sock' \in 0 .. MaxConns
        /\ SocketInv' /\ ExchangeInv'
    BY <1>4, <2>1, ClosingStep
  <2>3. ShapeInv'
    BY <1>1, <1>3, <2>2 DEF ShapeInv
  <2> QED BY <1>1, <1>7, <2>2, <2>3
<1>9. CASE ~CloseAtExit
  <2>1. UNCHANGED <<conn, sock>> /\ ~shouldClose /\ Top.ret
    BY <1>9 DEF ScopeExit, ExitClosing, CloseAtExit
  <2>2. ShapeInv'
    BY <1>1, <1>3, <2>1 DEF ShapeInv
  <2>3. sock # INVALID_SOCKET => conn[sock].cli # "shut"
    BY <1>1, <2>1 DEF SocketInv, At
  <2>4. SocketInv'
    BY <1>4, <2>1, <2>3 DEF SocketInv
  <2>5. sock # INVALID_SOCKET /\ sock \notin unread => Quiet(sock)
    BY <1>1, <2>1 DEF ExchangeInv
  <2>6. ExchangeInv'
    BY <1>1, <1>4, <2>1, <2>5 DEF ExchangeInv, Quiet
  <2> QED BY <1>1, <1>7, <2>2, <2>4, <2>6
<1> QED BY <1>8, <1>9

\* stop() during a request: the socket is shut down for the request to close.
LEMMA StopInFlightStep ==
  ASSUME HTTPInv, inFlight > 0, conn' = Shutdown(conn, sock), shouldClose' = TRUE,
         UNCHANGED <<keep_alive_, sock, inFlight, fromThread, owner, stack, written,
                     crossed, unread>>
  PROVE  HTTPInv'
<1> USE DEF HTTPInv
<1>1. stack # <<>>
  BY EmptySeq DEF StackInv, At
<1>2. StackInv'
  BY DEF StackInv, Top, At
<1>3. conn \in [Conns -> ConnStates] /\ sock \in 0 .. MaxConns
  BY DEF ShapeInv
<1>4. /\ conn' \in [Conns -> ConnStates]
      /\ \A c \in Conns : /\ c # sock => conn'[c] = conn[c]
                          /\ conn'[c].up = conn[c].up /\ conn'[c].down = conn[c].down
      /\ sock \in Conns => conn'[sock].cli \in {"open", "shut"}
  <2>1. CASE sock # INVALID_SOCKET /\ conn[sock].cli = "open"
    <3>1. sock \in Conns /\ conn' = [conn EXCEPT ![sock].cli = "shut"]
      BY <1>3, <2>1, SocketsAreConns DEF Shutdown
    <3>2. [conn[sock] EXCEPT !.cli = "shut"] \in ConnStates
      BY <1>3, <3>1, ConnStateChanges
    <3> QED BY <1>3, <3>1, <3>2 DEF ConnStates
  <2>2. CASE ~(sock # INVALID_SOCKET /\ conn[sock].cli = "open")
    <3>1. conn' = conn
      BY <2>2 DEF Shutdown
    <3> QED BY <1>3, <3>1 DEF SocketInv
  <2> QED BY <2>1, <2>2
<1>5. ShapeInv'
  BY <1>4 DEF ShapeInv
<1>6. SocketInv'
  <2>1. \A c \in Conns : conn'[c].cli \in {"open", "shut"} <=> c = sock
    BY <1>4 DEF SocketInv
  <2>2. \A c \in Conns : conn'[c].cli = "none" => conn'[c] = conn[c]
    BY <1>4
  <2> QED BY <1>1, <2>1, <2>2 DEF SocketInv, Top, At
<1>7. sock # INVALID_SOCKET => sock \in Conns
  BY <1>3, SocketsAreConns
<1>8. ExchangeInv'
  BY <1>4, <1>7 DEF ExchangeInv, Quiet, Asked, Answered, Top, At
<1> QED BY <1>2, <1>5, <1>6, <1>8

\* stop() and the destructor with no request in flight.
LEMMA IdleCloseStep ==
  ASSUME HTTPInv, ~(inFlight > 0), conn' = Closed(conn, sock), sock' = INVALID_SOCKET,
         UNCHANGED <<keep_alive_, shouldClose, inFlight, fromThread, owner, stack, written,
                     crossed, unread>>
  PROVE  HTTPInv'
<1> USE DEF HTTPInv
<1>1. StackInv'
  BY DEF StackInv, Top, At
<1>2. ~At("write") /\ ~At("read")
  BY TopIsRequest DEF StackInv, At
<1>3. ~At("write")' /\ ~At("read")'
  BY <1>2 DEF At, Top
<1>4. /\ conn' \in [Conns -> ConnStates] /\ sock' \in 0 .. MaxConns
      /\ SocketInv' /\ ExchangeInv'
  BY <1>3, ClosingStep
<1>5. ShapeInv'
  BY <1>4 DEF ShapeInv
<1> QED BY <1>1, <1>4, <1>5

LEMMA StopStep ==
  ASSUME HTTPInv, Stop \/ Destroy, UNCHANGED unread
  PROVE  HTTPInv'
<1>1. CASE Stop /\ inFlight > 0
  BY <1>1, StopInFlightStep DEF Stop
<1>2. CASE Stop /\ ~(inFlight > 0)
  BY <1>2, IdleCloseStep DEF Stop
<1>3. CASE Destroy
  <2>1. stack = <<>>
    BY <1>3 DEF Destroy, HTTPInv, StackInv
  <2>2. ~(inFlight > 0)
    BY <2>1 DEF HTTPInv, StackInv, At
  <2> QED BY <1>3, <2>2, IdleCloseStep DEF Destroy
<1> QED BY <1>1, <1>2, <1>3

LEMMA ClientNextStep ==
  ASSUME HTTPInv, ClientNext, UNCHANGED unread
  PROVE  HTTPInv'
<1>1. CASE ClientStep
  BY <1>1, SendStep, WriteRequestStep, FailsStep, ReadResponseStep,
     CloseOnResponseStep, RedirectStep, ScopeExitStep DEF ClientStep
<1>2. ASSUME NEW t \in Threads,
             Get(t) \/ Options(t) \/ Post(t) \/ Put(t) \/ Patch(t) \/ Delete(t)
      PROVE  HTTPInv'
  <2>1. PICK body \in BOOLEAN : Call(t, body)
    BY <1>2 DEF Get, Options, Post, Put, Patch, Delete
  <2> QED BY <2>1, CallStep
<1>3. CASE Stop \/ Destroy
  BY <1>3, StopStep
<1> QED BY <1>1, <1>2, <1>3 DEF ClientNext

-----------------------------------------------------------------------------
(* The server's steps. *)

\* What a step of the server's worker on connection c may do to what is between
\* the ends: it drops or takes the first message and may answer what it took, with
\* that message's number.
Served(c) ==
    /\ conn[c].cli # "none" /\ conn'[c].cli = conn[c].cli
    /\ \A d \in Conns \ {c} : conn'[d] = conn[d]
    /\ c \notin unread' =>
         \/ conn'[c].up = conn[c].up /\ conn'[c].down = conn[c].down
         \/ conn'[c].up = <<>> /\ conn'[c].down = conn[c].down
         \/ /\ conn[c].up # <<>> /\ conn'[c].up \in {<<>>, Tail(conn[c].up)}
            /\ \/ conn'[c].down = conn[c].down
               \/ \E r \in Responses : /\ conn'[c].down = Append(conn[c].down, r)
                                       /\ r.whole => r.id = Head(conn[c].up).id
         \/ conn[c].up # <<>> /\ Head(conn[c].up).kind = "body"

\* ServerClosed keeps the client's end and what is on its way to it.
LEMMA ServerClosedProperties ==
  ASSUME NEW c \in Conns, NEW cs \in [Conns -> ConnStates]
  PROVE  /\ ServerClosed(cs, c) \in [Conns -> ConnStates]
         /\ ServerClosed(cs, c)[c].cli = cs[c].cli
         /\ ServerClosed(cs, c)[c].up = <<>>
         /\ ServerClosed(cs, c)[c].down = cs[c].down
         /\ \A d \in Conns \ {c} : ServerClosed(cs, c)[d] = cs[d]
<1> DEFINE x == [cs[c] EXCEPT !.srv = "closed", !.up = <<>>, !.count = 0]
<1>1. ServerClosed(cs, c) = [cs EXCEPT ![c] = x]
  BY DEF ServerClosed
<1>2. /\ x \in ConnStates /\ x.cli = cs[c].cli /\ x.up = <<>> /\ x.down = cs[c].down
  <2>1. <<>> \in Seq(Messages) /\ 0 \in Int
    BY EmptySeq
  <2> QED BY <2>1 DEF ConnStates
<1> HIDE DEF x
<1> QED BY <1>1, <1>2

LEMMA BackInLoop ==
  ASSUME NEW y \in ConnStates, NEW k \in Int
  PROVE  LET x == [y EXCEPT !.srv = "loop", !.count = k]
         IN  x \in ConnStates /\ x.cli = y.cli /\ x.up = y.up /\ x.down = y.down
BY DEF ConnStates

\* Whatever comes of writing a response, at most that response is added.
LEMMA RespondsProperties ==
  ASSUME NEW c \in Conns, NEW cs \in [Conns -> ConnStates], NEW id \in Nat,
         NEW last \in BOOLEAN, NEW redirect \in BOOLEAN, Responds(cs, c, id, last, redirect)
  PROVE  /\ conn' \in [Conns -> ConnStates]
         /\ conn'[c].cli = cs[c].cli /\ conn'[c].up \in {<<>>, cs[c].up}
         /\ \/ conn'[c].down = cs[c].down
            \/ \E r \in Responses : /\ conn'[c].down = Append(cs[c].down, r)
                                    /\ r.whole => r.id = id
         /\ \A d \in Conns \ {c} : conn'[d] = cs[d]
<1>1. PICK w \in WriteOutcomes :
        LET r    == IF w.whole
                    THEN [id |-> id, close |-> last \/ cs[c].count = 1,
                          redirect |-> redirect, whole |-> TRUE]
                    ELSE CutShort
            sent == IF cs[c].cli = "open"
                    THEN [cs EXCEPT ![c].down = Append(@, r)]
                    ELSE cs
        IN  conn' = IF w.ret /\ ~last
                    THEN [sent EXCEPT ![c].srv = "loop", ![c].count = @ - 1]
                    ELSE ServerClosed(sent, c)
  BY DEF Responds
<1> DEFINE r    == IF w.whole
                   THEN [id |-> id, close |-> last \/ cs[c].count = 1,
                         redirect |-> redirect, whole |-> TRUE]
                   ELSE CutShort
           sent == IF cs[c].cli = "open"
                   THEN [cs EXCEPT ![c].down = Append(@, r)]
                   ELSE cs
<1>2. r \in Responses /\ (r.whole => r.id = id)
  BY DEF WriteOutcomes, Responses, CutShort
<1>3. \/ conn' = [sent EXCEPT ![c].srv = "loop", ![c].count = @ - 1]
      \/ conn' = ServerClosed(sent, c)
  BY <1>1
<1> HIDE DEF r
<1>4. cs[c].down \in Seq(Responses) /\ Append(cs[c].down, r) \in Seq(Responses)
  BY <1>2, AppendProperties DEF ConnStates
<1>5. /\ sent \in [Conns -> ConnStates]
      /\ sent[c].cli = cs[c].cli /\ sent[c].up = cs[c].up
      /\ sent[c].down = cs[c].down \/ sent[c].down = Append(cs[c].down, r)
      /\ \A d \in Conns \ {c} : sent[d] = cs[d]
  <2>1. CASE cs[c].cli = "open"
    <3>1. [cs[c] EXCEPT !.down = Append(@, r)] \in ConnStates
      BY <1>4 DEF ConnStates
    <3>2. sent = [cs EXCEPT ![c] = [cs[c] EXCEPT !.down = Append(@, r)]]
      BY <2>1
    <3> QED BY <3>1, <3>2 DEF ConnStates
  <2>2. CASE cs[c].cli # "open"
    BY <2>2
  <2> QED BY <2>1, <2>2
<1> HIDE DEF sent
<1>6. CASE conn' = [sent EXCEPT ![c].srv = "loop", ![c].count = @ - 1]
  <2> DEFINE x == [sent[c] EXCEPT !.srv = "loop", !.count = @ - 1]
  <2>1. sent[c].count - 1 \in Int
    BY <1>5 DEF ConnStates
  <2>2. x \in ConnStates /\ x.cli = sent[c].cli /\ x.up = sent[c].up /\ x.down = sent[c].down
    BY <1>5, <2>1, BackInLoop
  <2>3. conn' = [sent EXCEPT ![c] = x]
    BY <1>5, <1>6
  <2> HIDE DEF x
  <2> QED BY <1>2, <1>5, <2>2, <2>3
<1>7. CASE conn' = ServerClosed(sent, c)
  BY <1>2, <1>5, <1>7, ServerClosedProperties
<1> QED BY <1>3, <1>6, <1>7

\* A worker's step that changes only its own place in the loop, or closes.
LEMMA LoopServes ==
  ASSUME HTTPInv, NEW c \in Conns, UNCHANGED unread,
         Accept(c) \/ ServeLoop(c) \/ KeepAliveTimeout(c) \/ EndOfStream(c)
  PROVE  conn' \in [Conns -> ConnStates] /\ Served(c)
<1>1. conn \in [Conns -> ConnStates]
  BY DEF HTTPInv, ShapeInv
<1>2. conn[c].srv # "none" /\ conn[c].cli # "none"
  BY DEF HTTPInv, SocketInv, Accept, ServeLoop, KeepAliveTimeout, EndOfStream
<1>3. CASE conn' = ServerClosed(conn, c)
  BY <1>1, <1>2, <1>3, ServerClosedProperties DEF Served
<1>4. CASE \E k \in Nat : conn' = [conn EXCEPT ![c].srv = "loop", ![c].count = k]
  <2>1. PICK k \in Nat : conn' = [conn EXCEPT ![c].srv = "loop", ![c].count = k]
    BY <1>4
  <2> DEFINE x == [conn[c] EXCEPT !.srv = "loop", !.count = k]
  <2>2. x \in ConnStates /\ x.cli = conn[c].cli /\ x.up = conn[c].up /\ x.down = conn[c].down
    <3>1. conn[c] \in ConnStates /\ k \in Int
      BY <1>1
    <3> QED BY <3>1, BackInLoop
  <2>3. conn' = [conn EXCEPT ![c] = x]
    BY <1>1, <2>1
  <2> HIDE DEF x
  <2> QED BY <1>1, <1>2, <2>2, <2>3 DEF Served
<1>5. CASE conn' = [conn EXCEPT ![c].srv = "keep_alive"]
  <2>1. [conn[c] EXCEPT !.srv = "keep_alive"] \in ConnStates
    BY <1>1 DEF ConnStates
  <2> QED BY <1>1, <1>2, <1>5, <2>1 DEF Served, ConnStates
<1> QED BY <1>3, <1>4, <1>5, KeepAliveMaxAssumption
     DEF Accept, ServeLoop, KeepAliveTimeout, EndOfStream

\* The first message is taken and answered.
LEMMA TakesFirst ==
  ASSUME HTTPInv, NEW c \in Conns, conn[c].srv = "keep_alive", conn[c].up # <<>>,
         NEW last \in BOOLEAN, NEW redirect \in BOOLEAN, NEW id \in Nat,
         id = Head(conn[c].up).id \/ Head(conn[c].up).kind = "body",
         Responds([conn EXCEPT ![c].up = Tail(@)], c, id, last, redirect)
  PROVE  conn' \in [Conns -> ConnStates] /\ Served(c)
<1> DEFINE cs == [conn EXCEPT ![c].up = Tail(@)]
<1>1. conn \in [Conns -> ConnStates] /\ conn[c].up \in Seq(Messages)
  BY DEF HTTPInv, ShapeInv, ConnStates
<1>2. Tail(conn[c].up) \in Seq(Messages)
  BY <1>1, HeadTailProperties
<1>3. [conn[c] EXCEPT !.up = Tail(@)] \in ConnStates
  BY <1>1, <1>2 DEF ConnStates
<1>4. /\ cs \in [Conns -> ConnStates] /\ cs[c].cli = conn[c].cli
      /\ cs[c].up = Tail(conn[c].up) /\ cs[c].down = conn[c].down
      /\ \A d \in Conns \ {c} : cs[d] = conn[d]
  BY <1>1, <1>3 DEF ConnStates
<1>5. Responds(cs, c, id, last, redirect)
  OBVIOUS
<1> HIDE DEF cs
<1>6. conn[c].cli # "none"
  BY DEF HTTPInv, SocketInv
<1>7. /\ conn' \in [Conns -> ConnStates]
      /\ conn'[c].cli = cs[c].cli /\ conn'[c].up \in {<<>>, cs[c].up}
      /\ \/ conn'[c].down = cs[c].down
         \/ \E r \in Responses : /\ conn'[c].down = Append(cs[c].down, r)
                                 /\ r.whole => r.id = id
      /\ \A d \in Conns \ {c} : conn'[d] = cs[d]
  <2>1. cs \in [Conns -> ConnStates]
    BY <1>4
  <2> QED BY <1>5, <2>1, RespondsProperties, SMTT(30)
<1> QED BY <1>4, <1>6, <1>7 DEF Served

\* The request's head is answered and its body stays.
LEMMA LeavesBody ==
  ASSUME HTTPInv, NEW c \in Conns, conn[c].srv = "keep_alive", conn[c].up # <<>>,
         NEW last \in BOOLEAN, NEW id \in Nat, c \in unread',
         Responds([conn EXCEPT ![c].up[1].kind = "body"], c, id, last, FALSE)
  PROVE  conn' \in [Conns -> ConnStates] /\ Served(c)
<1> DEFINE cs == [conn EXCEPT ![c].up[1].kind = "body"]
           up == conn[c].up
           m  == [up[1] EXCEPT !.kind = "body"]
<1>1. conn \in [Conns -> ConnStates] /\ up \in Seq(Messages)
  BY DEF HTTPInv, ShapeInv, ConnStates
<1>2. 1 \in 1 .. Len(up) /\ up[1] \in Messages
  <2>1. Len(up) \in Nat \ {0}
    BY <1>1, EmptySeq
  <2>2. 1 \in 1 .. Len(up)
    BY <2>1
  <2> QED BY <1>1, <2>2, ElementOfSeq
<1>3. m \in Messages
  BY <1>2 DEF Messages
<1>4. [up EXCEPT ![1] = m] \in Seq(Messages)
  BY <1>1, <1>2, <1>3, ExceptSeq
<1>5. [conn[c] EXCEPT !.up = [up EXCEPT ![1] = m]] \in ConnStates
  BY <1>1, <1>4 DEF ConnStates
<1>6. cs = [conn EXCEPT ![c] = [conn[c] EXCEPT !.up = [up EXCEPT ![1] = m]]]
  OBVIOUS
<1>7. /\ cs \in [Conns -> ConnStates] /\ cs[c].cli = conn[c].cli
      /\ \A d \in Conns \ {c} : cs[d] = conn[d]
  BY <1>1, <1>5, <1>6 DEF ConnStates
<1>8. Responds(cs, c, id, last, FALSE)
  OBVIOUS
<1> HIDE DEF cs
<1>9. conn[c].cli # "none"
  BY DEF HTTPInv, SocketInv
<1>10. /\ conn' \in [Conns -> ConnStates] /\ conn'[c].cli = cs[c].cli
       /\ \A d \in Conns \ {c} : conn'[d] = cs[d]
  <2>1. cs \in [Conns -> ConnStates]
    BY <1>7
  <2>2. ASSUME NEW redirect \in BOOLEAN, Responds(cs, c, id, last, redirect)
        PROVE  /\ conn' \in [Conns -> ConnStates] /\ conn'[c].cli = cs[c].cli
               /\ \A d \in Conns \ {c} : conn'[d] = cs[d]
    BY <2>1, <2>2, RespondsProperties, SMTT(30)
  <2> QED BY <1>8, <2>2
<1> QED BY <1>7, <1>9, <1>10 DEF Served

\* A 204 and the body its client skips.
LEMMA SkipsBody ==
  ASSUME HTTPInv, NEW c \in Conns, NoContent(c)
  PROVE  conn' \in [Conns -> ConnStates] /\ Served(c) /\ unread \subseteq unread'
<1> DEFINE m == Head(conn[c].up)
           r == [id |-> m.id, close |-> m.close \/ conn[c].count = 1,
                 redirect |-> FALSE, whole |-> TRUE]
           down(w) == Append(Append(conn[c].down, r), SkippedBody(w))
           sent(w) == [conn EXCEPT ![c].up = Tail(@),
                                   ![c].down = Append(Append(@, r), SkippedBody(w))]
<1>1. /\ conn \in [Conns -> ConnStates] /\ conn[c].up \in Seq(Messages) /\ conn[c].up # <<>>
      /\ conn[c].down \in Seq(Responses) /\ conn[c].cli # "none"
  BY DEF HTTPInv, ShapeInv, ConnStates, NoContent, FirstIs
<1>2. Tail(conn[c].up) \in Seq(Messages) /\ m \in Messages
  BY <1>1, HeadTailProperties
<1>3. r \in Responses
  BY <1>2 DEF Messages, Responses
<1>4. PICK w \in BOOLEAN : \/ conn' = ServerClosed(sent(w), c)
                           \/ conn' = [sent(w) EXCEPT ![c].srv = "loop", ![c].count = @ - 1]
  BY DEF NoContent
<1>5. SkippedBody(w) \in Responses
  BY DEF SkippedBody, Responses
<1> HIDE DEF r
<1>6. down(w) \in Seq(Responses)
  BY <1>1, <1>3, <1>5, AppendProperties
<1> DEFINE y == [conn[c] EXCEPT !.up = Tail(@), !.down = down(w)]
<1>7. sent(w) = [conn EXCEPT ![c] = y]
  OBVIOUS
<1> HIDE DEF down
<1>8. y \in ConnStates /\ y.cli = conn[c].cli
  BY <1>1, <1>2, <1>6 DEF ConnStates
<1> HIDE DEF y, sent
<1>9. /\ sent(w) \in [Conns -> ConnStates] /\ sent(w)[c].cli = conn[c].cli
      /\ \A d \in Conns \ {c} : sent(w)[d] = conn[d]
  BY <1>1, <1>7, <1>8
<1>10. /\ conn' \in [Conns -> ConnStates] /\ conn'[c].cli = conn[c].cli
       /\ \A d \in Conns \ {c} : conn'[d] = conn[d]
  <2>1. CASE conn' = ServerClosed(sent(w), c)
    BY <1>9, <2>1, ServerClosedProperties
  <2>2. CASE conn' = [sent(w) EXCEPT ![c].srv = "loop", ![c].count = @ - 1]
    <3> DEFINE x == [sent(w)[c] EXCEPT !.srv = "loop", !.count = @ - 1]
    <3>1. sent(w)[c].count - 1 \in Int
      BY <1>9 DEF ConnStates
    <3>2. x \in ConnStates /\ x.cli = sent(w)[c].cli
      BY <1>9, <3>1, BackInLoop
    <3>3. conn' = [sent(w) EXCEPT ![c] = x]
      BY <1>9, <2>2
    <3> HIDE DEF x
    <3> QED BY <1>9, <3>2, <3>3
  <2> QED BY <1>4, <2>1, <2>2
<1>11. c \in unread' /\ unread \subseteq unread'
  BY DEF NoContent
<1> QED BY <1>1, <1>10, <1>11 DEF Served

LEMMA ServeEffect ==
  ASSUME HTTPInv, NEW c \in Conns, Serve(c)
  PROVE  conn' \in [Conns -> ConnStates] /\ Served(c) /\ unread \subseteq unread'
<1>1. CASE Accept(c) \/ ServeLoop(c) \/ KeepAliveTimeout(c) \/ EndOfStream(c)
  BY <1>1, LoopServes DEF Accept, ServeLoop, KeepAliveTimeout, EndOfStream
<1> DEFINE m == Head(conn[c].up)
<1>2. conn[c].up # <<>> => m \in Messages /\ m.id \in Nat /\ m.close \in BOOLEAN
  <2>1. conn[c].up \in Seq(Messages)
    BY DEF HTTPInv, ShapeInv, ConnStates
  <2>2. conn[c].up # <<>> => m \in Messages
    BY <2>1, HeadTailProperties
  <2>3. \A y \in Messages : y.id \in Nat /\ y.close \in BOOLEAN
    BY DEF Messages
  <2> QED BY <2>2, <2>3
<1>3. CASE Routed(c)
  BY <1>2, <1>3, TakesFirst DEF Routed, FirstIs
<1>4. CASE Rejected(c)
  <2>1. PICK last \in {m.close, FALSE} :
          \/ /\ Responds([conn EXCEPT ![c].up = Tail(@)], c, m.id, last, FALSE)
             /\ unread' = unread
          \/ /\ m.kind = "with_body"
             /\ Responds([conn EXCEPT ![c].up[1].kind = "body"], c, m.id, last, FALSE)
             /\ unread' = unread \cup {c}
    BY <1>4 DEF Rejected
  <2>2. conn[c].srv = "keep_alive" /\ conn[c].up # <<>> /\ last \in BOOLEAN
    BY <1>2, <1>4 DEF Rejected, FirstIs
  <2> QED BY <1>2, <2>1, <2>2, TakesFirst, LeavesBody
<1>5. CASE Misread(c)
  <2>1. /\ conn[c].srv = "keep_alive" /\ conn[c].up # <<>> /\ m.kind = "body"
        /\ UNCHANGED unread
    BY <1>5 DEF Misread, FirstIs
  <2>2. CASE Responds([conn EXCEPT ![c].up = Tail(@)], c, 0, FALSE, FALSE)
    BY <2>1, <2>2, TakesFirst
  <2>3. CASE conn' = ServerClosed(conn, c)
    <3>1. conn[c].cli # "none" /\ conn \in [Conns -> ConnStates]
      BY <2>1 DEF HTTPInv, SocketInv, ShapeInv
    <3> QED BY <2>1, <2>3, <3>1, ServerClosedProperties DEF Served
  <2> QED BY <1>5, <2>1, <2>2, <2>3 DEF Misread
<1>6. CASE NoContent(c)
  BY <1>6, SkipsBody
<1> QED BY <1>1, <1>3, <1>4, <1>5, <1>6 DEF Serve

\* An exchange survives the server's step on its connection, as long as no body was
\* left unread there.
LEMMA ServeStep ==
  ASSUME HTTPInv, NEW c \in Conns, Serve(c), UNCHANGED clientVars
  PROVE  HTTPInv'
<1> USE DEF HTTPInv
<1>1. conn' \in [Conns -> ConnStates] /\ Served(c) /\ unread \subseteq unread'
  BY ServeEffect
<1>2. /\ UNCHANGED <<keep_alive_, sock, inFlight, fromThread, shouldClose, owner, stack,
                     written, crossed>>
      /\ Top' = Top /\ \A pc : At(pc)' = At(pc)
  BY DEF clientVars, Top, At
<1>3. ShapeInv'
  BY <1>1, <1>2 DEF ShapeInv
<1>4. StackInv'
  BY <1>2 DEF StackInv
<1>5. SocketInv'
  <2>1. \A d \in Conns : /\ conn'[d].cli = conn[d].cli
                         /\ conn'[d].cli = "none" => conn'[d] = conn[d]
    BY <1>1 DEF Served
  <2>2. sock # INVALID_SOCKET => sock \in Conns
    BY SocketsAreConns DEF ShapeInv
  <2> QED BY <1>2, <2>1, <2>2 DEF SocketInv
<1>6. ExchangeInv'
  <2>1. SUFFICES ASSUME sock # INVALID_SOCKET, sock \notin unread'
                 PROVE  /\ Quiet(sock) => Quiet(sock)'
                        /\ Asked(sock, Top.id) \/ Answered(sock, Top.id) =>
                             Quiet(sock)' \/ Asked(sock, Top.id)' \/ Answered(sock, Top.id)'
    BY <1>1, <1>2 DEF ExchangeInv
  <2>2. sock \in Conns
    BY <2>1, SocketsAreConns DEF ShapeInv
  <2>3. CASE sock # c
    <3>1. conn'[sock] = conn[sock]
      BY <1>1, <2>2, <2>3 DEF Served
    <3> QED BY <1>2, <3>1 DEF Quiet, Asked, Answered
  <2>4. CASE sock = c
    <3>1. conn[c].up = <<>> => conn'[c].up = <<>> /\ conn'[c].down = conn[c].down
      BY <1>1, <2>1, <2>4 DEF Served
    <3>2. Quiet(sock) => Quiet(sock)'
      BY <1>2, <2>4, <3>1 DEF Quiet
    <3>3. Answered(sock, Top.id) => Answered(sock, Top.id)'
      BY <1>2, <2>4, <3>1 DEF Answered
    <3>4. ASSUME Asked(sock, Top.id)
          PROVE  Quiet(sock)' \/ Asked(sock, Top.id)' \/ Answered(sock, Top.id)'
      <4>1. PICK m \in Messages : conn[c].up = <<m>> /\ m.id = Top.id /\ m.kind # "body"
        BY <2>4, <3>4 DEF Asked
      <4>2. Head(conn[c].up) = m /\ Tail(conn[c].up) = <<>> /\ conn[c].down = <<>>
        BY <2>4, <3>4, <4>1 DEF Asked
      <4>3. CASE conn'[c].up = conn[c].up /\ conn'[c].down = conn[c].down
        BY <1>2, <2>4, <3>4, <4>3 DEF Asked
      <4>4. CASE conn'[c].up = <<>> /\ conn'[c].down = <<>>
        BY <1>2, <2>4, <4>4 DEF Quiet
      <4>5. CASE conn'[c].up = <<>> /\ \E r \in Responses :
                   conn'[c].down = Append(<<>>, r) /\ (r.whole => r.id = Top.id)
        <5>1. PICK r \in Responses : conn'[c].down = Append(<<>>, r) /\ (r.whole => r.id = Top.id)
          BY <4>5
        <5>2. conn'[c].down = <<r>>
          BY <5>1
        <5> QED BY <1>2, <2>4, <4>5, <5>1, <5>2 DEF Answered
      <4> QED BY <1>1, <2>1, <2>4, <4>1, <4>2, <4>3, <4>4, <4>5 DEF Served
    <3> QED BY <3>2, <3>3, <3>4
  <2> QED BY <2>3, <2>4
<1>7. crossed' \subseteq unread'
  BY <1>1, <1>2
<1> QED BY <1>3, <1>4, <1>5, <1>6, <1>7

LEMMA StopServerStep ==
  ASSUME HTTPInv, StopServer, UNCHANGED clientVars
  PROVE  HTTPInv'
<1> USE DEF HTTPInv
<1>1. conn \in [Conns -> ConnStates]
  BY DEF ShapeInv
<1>2. /\ UNCHANGED <<keep_alive_, sock, inFlight, fromThread, shouldClose, owner, stack,
                     written, crossed, unread>>
      /\ Top' = Top /\ \A pc : At(pc)' = At(pc)
  BY DEF StopServer, clientVars, Top, At
<1>3. conn' = [c \in Conns |-> IF conn[c].srv = "backlog"
                               THEN [conn[c] EXCEPT !.srv = "closed"] ELSE conn[c]]
  BY DEF StopServer
<1>4. ASSUME NEW c \in Conns
      PROVE  /\ conn'[c] \in ConnStates /\ conn'[c].cli = conn[c].cli
             /\ conn'[c].up = conn[c].up /\ conn'[c].down = conn[c].down
             /\ conn[c].srv = "none" => conn'[c].srv = "none"
  <2>1. conn[c] \in ConnStates
    BY <1>1
  <2>2. CASE conn[c].srv = "backlog"
    <3>1. conn'[c] = [conn[c] EXCEPT !.srv = "closed"]
      BY <1>3, <2>2
    <3> QED BY <2>1, <2>2, <3>1 DEF ConnStates
  <2>3. CASE conn[c].srv # "backlog"
    <3>1. conn'[c] = conn[c]
      BY <1>3, <2>3
    <3> QED BY <2>1, <3>1
  <2> QED BY <2>2, <2>3
<1>5. conn' \in [Conns -> ConnStates]
  <2>1. conn' = [c \in Conns |-> conn'[c]]
    BY <1>3
  <2> QED BY <1>4, <2>1
<1>6. sock # INVALID_SOCKET => sock \in Conns
  BY SocketsAreConns DEF ShapeInv
<1>7. ShapeInv'
  BY <1>2, <1>5 DEF ShapeInv
<1>8. StackInv'
  BY <1>2 DEF StackInv
<1>9. SocketInv'
  BY <1>2, <1>4, <1>6 DEF SocketInv
<1>10. ExchangeInv'
  BY <1>2, <1>4, <1>6 DEF ExchangeInv, Quiet, Asked, Answered
<1> QED BY <1>2, <1>7, <1>8, <1>9, <1>10

-----------------------------------------------------------------------------
(* The theorems. *)

\* The inductive invariant of the client, the server and what is between them.
THEOREM HTTPInvariant == Spec => []HTTPInv
<1>1. Init => HTTPInv
  <2> SUFFICES ASSUME Init PROVE HTTPInv
    OBVIOUS
  <2> USE DEF Init, SocketInit, ClientInit, ServerInit
  <2>1. /\ 0 \in 0 .. MaxConns /\ 0 \in Nat /\ 0 \in Int
        /\ <<>> \in Seq(Requests) /\ <<>> \in Seq(Messages) /\ <<>> \in Seq(Responses)
        /\ \A c \in Conns : c # INVALID_SOCKET
    BY SocketsAreConns, EmptySeq
  <2>2. Unused \in ConnStates
    BY <2>1 DEF Unused, ConnStates
  <2>3. \A c \in Conns : conn[c] = Unused
    OBVIOUS
  <2>4. ShapeInv
    BY <2>1, <2>2 DEF ShapeInv, INVALID_SOCKET
  <2>5. Len(stack) = 0
    BY EmptySeq
  <2>6. StackInv
    BY <2>5 DEF StackInv, At
  <2>7. SocketInv
    BY <2>1, <2>3 DEF SocketInv, At, Unused
  <2>8. ExchangeInv
    BY DEF ExchangeInv
  <2> QED BY <2>4, <2>6, <2>7, <2>8 DEF HTTPInv
<1>2. HTTPInv /\ [Next]_vars => HTTPInv'
  <2> SUFFICES ASSUME HTTPInv, [Next]_vars PROVE HTTPInv'
    OBVIOUS
  <2>1. CASE ClientNext /\ UNCHANGED unread
    BY <2>1, ClientNextStep
  <2>2. CASE ServerNext /\ UNCHANGED clientVars
    BY <2>2, ServeStep, StopServerStep DEF ServerNext
  <2>3. CASE UNCHANGED vars
    <3>1. /\ UNCHANGED <<conn, keep_alive_, sock, inFlight, fromThread, shouldClose, owner,
                         stack, written, crossed, unread>>
          /\ Top' = Top /\ \A pc : At(pc)' = At(pc)
      BY <2>3 DEF vars, clientVars, Top, At
    <3>2. ShapeInv' /\ StackInv' /\ SocketInv'
      BY <3>1 DEF HTTPInv, ShapeInv, StackInv, SocketInv
    <3>3. ExchangeInv'
      BY <3>1 DEF HTTPInv, ExchangeInv, Quiet, Asked, Answered
    <3> QED BY <3>1, <3>2, <3>3 DEF HTTPInv
  <2> QED BY <2>1, <2>2, <2>3 DEF Next
<1> QED BY <1>1, <1>2, PTL DEF Spec

\* A request that writes or reads does so on a descriptor that is still its own, and
\* socket_requests_in_flight_ counts the nested requests of the one thread that has any.
THEOREM SocketOwned == Spec => []RequestOwnsItsSocket
<1>1. HTTPInv => RequestOwnsItsSocket
  <2> SUFFICES ASSUME HTTPInv PROVE RequestOwnsItsSocket
    OBVIOUS
  <2> USE DEF HTTPInv
  <2>1. At("write") \/ At("read") => sock = Top.use /\ conn[sock].cli # "closed"
    <3>1. sock # INVALID_SOCKET => sock \in Conns
      BY SocketsAreConns DEF ShapeInv
    <3> QED BY <3>1 DEF SocketInv
  <2>2. inFlight = Cardinality({i \in DOMAIN stack : stack[i].pc # "send"})
    <3> DEFINE F == {i \in DOMAIN stack : stack[i].pc # "send"}
    <3>1. Len(stack) \in Nat /\ DOMAIN stack = 1 .. Len(stack)
      BY LenProperties DEF ShapeInv
    <3>2. CASE At("send")
      <4>1. stack # <<>> /\ Top.pc = "send" /\ Len(stack) \in Nat \ {0}
        BY <3>2, TopIsRequest DEF At
      <4>2. F = 1 .. (Len(stack) - 1)
        <5>1. \A i \in 1 .. Len(stack) : i # Len(stack) => i \in 1 .. (Len(stack) - 1)
          BY <4>1
        <5>2. 1 .. (Len(stack) - 1) \subseteq 1 .. Len(stack)
          BY <4>1
        <5>3. ~(Len(stack) \in 1 .. (Len(stack) - 1))
          BY <4>1
        <5> QED BY <3>1, <4>1, <5>1, <5>2, <5>3 DEF StackInv, Top
      <4>3. Cardinality(1 .. (Len(stack) - 1)) = Len(stack) - 1
        <5>1. \A k \in Nat \ {0} : Cardinality(1 .. (k - 1)) = k - 1
          BY FS_Interval
        <5> QED BY <4>1, <5>1
      <4> QED BY <3>2, <4>2, <4>3 DEF StackInv
    <3>3. CASE ~At("send")
      <4>1. F = 1 .. Len(stack)
        <5>1. ASSUME NEW i \in 1 .. Len(stack) PROVE stack[i].pc # "send"
          <6>1. CASE i = Len(stack)
            <7>1. stack # <<>>
              BY <5>1, EmptySeq
            <7> QED BY <3>3, <6>1, <7>1 DEF At, Top
          <6>2. CASE i # Len(stack)
            <7>1. \A k \in Nat : \A j \in 1 .. k : j # k => j \in 1 .. (k - 1)
              OBVIOUS
            <7>2. i \in 1 .. (Len(stack) - 1)
              BY <3>1, <6>2, <7>1
            <7> QED BY <7>2 DEF StackInv
          <6> QED BY <6>1, <6>2
        <5> QED BY <3>1, <5>1
      <4>2. Cardinality(1 .. Len(stack)) = Len(stack)
        <5>1. \A k \in Nat : Cardinality(1 .. k) = k
          BY FS_Interval
        <5> QED BY <3>1, <5>1
      <4> QED BY <3>3, <4>1, <4>2 DEF StackInv
    <3> QED BY <3>2, <3>3
  <2> QED BY <2>1, <2>2 DEF RequestOwnsItsSocket, StackInv
<1> QED BY <1>1, HTTPInvariant, PTL

\* What the client has open is socket_, and between requests that is never a socket
\* stop() has shut down.
THEOREM SocketKept == Spec => []NoSocketLost
<1>1. HTTPInv => NoSocketLost
  <2> SUFFICES ASSUME HTTPInv PROVE NoSocketLost
    OBVIOUS
  <2>1. sock # INVALID_SOCKET => sock \in Conns
    BY SocketsAreConns DEF HTTPInv, ShapeInv
  <2> QED BY <2>1 DEF HTTPInv, SocketInv, StackInv, NoSocketLost
<1> QED BY <1>1, HTTPInvariant, PTL

\* An answer reaches the request it answers on every connection on which neither end
\* has left a body unread.
THEOREM AnswersMatch == Spec => []AnswersMatchUnlessBodyUnread
<1>1. HTTPInv => AnswersMatchUnlessBodyUnread
  BY DEF HTTPInv, AnswersMatchUnlessBodyUnread
<1> QED BY <1>1, HTTPInvariant, PTL
=============================================================================
