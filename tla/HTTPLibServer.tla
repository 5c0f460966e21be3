---------------------------- MODULE HTTPLibServer ----------------------------
(***************************************************************************)
(* The server's end of a connection of include/httplib.h: what             *)
(* process_and_close_socket does with a socket the listener has accepted,  *)
(* until it closes it.  Each connection has a worker of the thread pool    *)
(* for itself, and another thread may call Server::stop().                 *)
(*                                                                         *)
(* Reading a request, its handler and writing the response are one step:   *)
(* what the client does meanwhile is visible to nobody until the response  *)
(* is written, and a response to a client that is gone is dropped whenever *)
(* that happens.                                                           *)
(***************************************************************************)
EXTENDS HTTPLibSocket

CONSTANT KeepAliveMax     \* keep_alive_max_count_

ASSUME KeepAliveMaxAssumption == KeepAliveMax \in Nat \ {0}

VARIABLE unread    \* connections on which a body was left unread, by either end

ServerInit == unread = {}

(***************************************************************************)
(* The listener accepts a connection and a worker takes its job.           *)
(***************************************************************************)
Accept(c) ==
    /\ conn[c].srv = "backlog"
    /\ conn' = [conn EXCEPT ![c].srv = "loop", ![c].count = KeepAliveMax]
    /\ UNCHANGED <<svr_sock_, unread>>

(***************************************************************************)
(* process_server_socket_core: the test of its loop, then keep_alive,      *)
(* which waits for something to read or for its timeout.  A loop that ends *)
(* closes the socket.                                                      *)
(***************************************************************************)
ServeLoop(c) ==
    /\ conn[c].srv = "loop"
    /\ conn' = IF svr_sock_ /\ conn[c].count > 0
               THEN [conn EXCEPT ![c].srv = "keep_alive"]
               ELSE ServerClosed(conn, c)
    /\ UNCHANGED <<svr_sock_, unread>>

\* A bug in which the timeout goes round the loop.
KeepAliveTimeoutRetries(c) ==
    /\ conn[c].srv = "keep_alive" /\ ~ServerReadable(c)
    /\ conn' = [conn EXCEPT ![c].srv = "loop"]
    /\ UNCHANGED <<svr_sock_, unread>>

KeepAliveTimeout(c) ==
    /\ conn[c].srv = "keep_alive" /\ ~ServerReadable(c)
    /\ conn' = ServerClosed(conn, c)
    /\ UNCHANGED <<svr_sock_, unread>>

(***************************************************************************)
(* What writing a response comes to, whether all of it has been written    *)
(* and whether that is reported: any of the four.  Shutting down ends the  *)
(* loop over a content provider with success, a provider may fail after    *)
(* its last byte, and the result of writing the head is not looked at.     *)
(***************************************************************************)
WriteOutcomes == [whole : BOOLEAN, ret : BOOLEAN]

\* A response of which something is missing: what it says is never used.
CutShort == [id |-> 0, close |-> FALSE, redirect |-> FALSE, whole |-> FALSE]

(***************************************************************************)
(* write_response_core and the end of the round.  cs is conn with the      *)
(* request taken; last says that the request asked for the connection to   *)
(* be closed.  A client that is gone gets nothing.                         *)
(***************************************************************************)
Responds(cs, c, id, last, redirect) ==
    \E w \in WriteOutcomes :
      LET r    == IF w.whole
                  THEN [id |-> id, close |-> last \/ cs[c].count = 1,
                        redirect |-> redirect, whole |-> TRUE]
                  ELSE CutShort
          sent == IF cs[c].cli = "open"
                  THEN [cs EXCEPT ![c].down = Append(@, r)]
                  ELSE cs
      IN  conn' = IF w.ret /\ ~last
                  THEN [sent EXCEPT ![c].srv = "loop", ![c].count = @ - 1]
                  ELSE ServerClosed(sent, c)

(***************************************************************************)
(* process_request, by what it makes of the first bytes: a request whose   *)
(* content is read and that a handler or a file answers,                   *)
(***************************************************************************)
FirstIs(c, kinds) ==
    /\ conn[c].srv = "keep_alive"
    /\ conn[c].up # <<>> /\ Head(conn[c].up).kind \in kinds

Routed(c) ==
    /\ FirstIs(c, {"plain", "with_body"})
    /\ \E redirect \in BOOLEAN :
         Responds([conn EXCEPT ![c].up = Tail(@)], c,
                  Head(conn[c].up).id, Head(conn[c].up).close, redirect)
    /\ UNCHANGED <<svr_sock_, unread>>

(***************************************************************************)
(* a request whose handler answers 204 and sets a body all the same: both  *)
(* are written, and the client takes the head for the whole response and   *)
(* leaves what its stream did not buffer with it (httplib.h:7285), which   *)
(* may or may not look like a response to the next request's reader,       *)
(***************************************************************************)
SkippedBody(whole) == [id |-> 0, close |-> FALSE, redirect |-> FALSE, whole |-> whole]

NoContent(c) ==
    /\ FirstIs(c, {"plain", "with_body"}) /\ conn[c].cli = "open"
    /\ \E whole \in BOOLEAN :
         LET m    == Head(conn[c].up)
             r    == [id |-> m.id, close |-> m.close \/ conn[c].count = 1,
                      redirect |-> FALSE, whole |-> TRUE]
             sent == [conn EXCEPT ![c].up = Tail(@),
                                  ![c].down = Append(Append(@, r), SkippedBody(whole))]
         IN  conn' = IF m.close
                     THEN ServerClosed(sent, c)
                     ELSE [sent EXCEPT ![c].srv = "loop", ![c].count = @ - 1]
    /\ unread' = unread \cup {c}
    /\ UNCHANGED svr_sock_

(***************************************************************************)
(* a request rejected before routing (414, 416, Expect) or while its       *)
(* content is read (400, 413, 415), and answered with its body unread: the *)
(* bytes that were in the stream's buffer are gone with it, the bytes      *)
(* still in the socket stay for the next round.  Only a request whose      *)
(* headers were read can ask for the connection to be closed;              *)
(***************************************************************************)
Rejected(c) ==
    /\ FirstIs(c, {"plain", "with_body"})
    /\ LET m == Head(conn[c].up)
       IN  \E last \in {m.close, FALSE} :
             \/ /\ Responds([conn EXCEPT ![c].up = Tail(@)], c, m.id, last, FALSE)
                /\ unread' = unread
             \/ /\ m.kind = "with_body"
                /\ Responds([conn EXCEPT ![c].up[1].kind = "body"], c, m.id, last, FALSE)
                /\ unread' = unread \cup {c}
    /\ UNCHANGED svr_sock_

(***************************************************************************)
(* such a body, whose first line is answered with 400 or never ends, and   *)
(***************************************************************************)
Misread(c) ==
    /\ FirstIs(c, {"body"})
    /\ \/ Responds([conn EXCEPT ![c].up = Tail(@)], c, 0, FALSE, FALSE)
       \/ conn' = ServerClosed(conn, c)
    /\ UNCHANGED <<svr_sock_, unread>>

(***************************************************************************)
(* the end of stream.                                                      *)
(***************************************************************************)
EndOfStream(c) ==
    /\ conn[c].srv = "keep_alive"
    /\ conn[c].up = <<>> /\ ServerReadable(c)
    /\ conn' = ServerClosed(conn, c)
    /\ UNCHANGED <<svr_sock_, unread>>

(***************************************************************************)
(* Server::stop takes svr_sock_ and closes it: connections that nobody     *)
(* accepted are reset, the others end at their next test of it.            *)
(***************************************************************************)
StopServer ==
    /\ svr_sock_ /\ svr_sock_' = FALSE
    /\ conn' = [c \in Conns |->
                  IF conn[c].srv = "backlog"
                  THEN [conn[c] EXCEPT !.srv = "closed"]
                  ELSE conn[c]]
    /\ UNCHANGED unread

Serve(c) ==
    \/ Accept(c) \/ ServeLoop(c) \/ KeepAliveTimeout(c)
    \/ Routed(c) \/ NoContent(c) \/ Rejected(c) \/ Misread(c) \/ EndOfStream(c)

ServerNext == StopServer \/ \E c \in Conns : Serve(c)
=============================================================================
