---------------------------- MODULE HTTPLibSocket ----------------------------
(***************************************************************************)
(* The sockets under include/httplib.h: connections between a client and   *)
(* a server of that library, and whether the server still listens.  A      *)
(* connection keeps, for each end, whether the program has it open, and,   *)
(* for each direction, what has been written and not read.                 *)
(*                                                                         *)
(* One message stands for the bytes of one request, of the body of a       *)
(* request whose head was read without it, or of one response: what the    *)
(* properties tell apart is which request an answer belongs to.            *)
(***************************************************************************)
EXTENDS Integers, Sequences, FiniteSets

CONSTANT MaxConns       \* connections a behaviour may open

ASSUME MaxConnsAssumption == MaxConns \in Nat \ {0}

VARIABLES
    conn,          \* [Conns -> state of that connection]
    svr_sock_      \* TRUE while it is not INVALID_SOCKET

INVALID_SOCKET == 0

Conns == 1 .. MaxConns

Unused == [cli |-> "none", srv |-> "none", up |-> <<>>, down |-> <<>>,
           count |-> 0]

SocketInit == conn = [c \in Conns |-> Unused] /\ svr_sock_ = TRUE

(***************************************************************************)
(* create_client_socket: the first address that answers gives the socket;  *)
(* a connection waits in the listener's backlog until it is accepted.      *)
(***************************************************************************)
Connectable(c) ==
    /\ svr_sock_
    /\ conn[c].cli = "none"
    /\ \A d \in Conns : d < c => conn[d].cli # "none"

Connected(cs, c) == [cs EXCEPT ![c].cli = "open", ![c].srv = "backlog"]

(***************************************************************************)
(* shutdown(SHUT_RDWR) ends both directions and keeps the descriptor;      *)
(* close gives the descriptor back.  Both leave INVALID_SOCKET alone.      *)
(***************************************************************************)
Shutdown(cs, c) ==
    IF c # INVALID_SOCKET /\ cs[c].cli = "open"
    THEN [cs EXCEPT ![c].cli = "shut"]
    ELSE cs

Closed(cs, c) ==
    IF c # INVALID_SOCKET
    THEN [cs EXCEPT ![c].cli = "closed", ![c].down = <<>>]
    ELSE cs

(***************************************************************************)
(* is_socket_alive: nothing to read counts as alive, and so does a byte to *)
(* peek at; an end of stream does not.  After a shutdown what had arrived  *)
(* may or may not still be readable.                                       *)
(***************************************************************************)
Alive(c) ==
    IF c = INVALID_SOCKET \/ (conn[c].down = <<>> /\ conn[c].cli = "shut")
    THEN {FALSE}
    ELSE IF conn[c].cli = "shut"
         THEN BOOLEAN
         ELSE {conn[c].down # <<>> \/ conn[c].srv # "closed"}

(***************************************************************************)
(* SocketStream::write at the client's end: what is written to a server    *)
(* that has closed its end is lost without an error if a byte is still to  *)
(* be read.                                                                *)
(***************************************************************************)
ClientWrites(c, m) ==
    /\ conn[c].cli = "open"
    /\ TRUE \in Alive(c)
    /\ conn' = IF conn[c].srv = "closed"
               THEN conn
               ELSE [conn EXCEPT ![c].up = Append(@, m)]

(***************************************************************************)
(* select_read at the server's end: there is data, or the end of stream    *)
(* the client's shutdown or close has sent.                                *)
(***************************************************************************)
ServerReadable(c) == conn[c].up # <<>> \/ conn[c].cli # "open"

(***************************************************************************)
(* shutdown and close at the server's end.                                 *)
(***************************************************************************)
ServerClosed(cs, c) ==
    [cs EXCEPT ![c].srv = "closed", ![c].up = <<>>, ![c].count = 0]
=============================================================================
