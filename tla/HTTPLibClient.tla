---------------------------- MODULE HTTPLibClient ----------------------------
(***************************************************************************)
(* ClientImpl of include/httplib.h: one keep-alive socket shared by every  *)
(* thread that sends a request, by stop() and by the destructor.           *)
(*                                                                         *)
(* request_mutex_ is recursive: its owner may send again inside a request, *)
(* which is how a redirect is followed, so the owner has a stack of        *)
(* requests.  socket_mutex_ is held for one step of this module at a time, *)
(* and another thread may call stop() between any two of them.             *)
(*                                                                         *)
(* The default build is modelled: no CPPHTTPLIB_OPENSSL_SUPPORT, hence no  *)
(* TLS, no digest authentication and no second send_ in send.              *)
(***************************************************************************)
EXTENDS HTTPLibSocket, SequencesExt

CONSTANTS
    Threads,         \* threads that call Get, Post, ...
    MaxCalls,        \* bound on the calls of a behaviour
    MaxRedirects,    \* redirect_count_ of a fresh request
    MaxStops,        \* bound on the calls of stop()
    None             \* no thread

ASSUME ClientAssumption ==
    /\ None \notin Threads
    /\ {MaxCalls, MaxRedirects, MaxStops} \subseteq Nat

VARIABLES
    keep_alive_,     \* the client's setting
    sock,            \* socket_
    inFlight,        \* socket_requests_in_flight_
    fromThread,      \* socket_requests_are_from_thread_
    shouldClose,     \* socket_should_be_closed_when_request_is_done_
    owner,           \* the holder of request_mutex_
    stack,           \* its requests, the innermost one last
    calls,           \* calls made so far
    written,         \* requests written so far: numbers the next one
    stops,           \* calls of stop() so far
    destroyed,       \* ~ClientImpl has run
    crossed          \* connections that gave a request another one's answer

clientVars == <<keep_alive_, sock, inFlight, fromThread, shouldClose, owner,
                stack, calls, written, stops, destroyed, crossed>>

(***************************************************************************)
(* A request in progress: where send_ and handle_request are with it, the  *)
(* socket its SocketStream was built on, whether it has a body, its number *)
(* once written, the redirects it may still follow, and ret.               *)
(***************************************************************************)
Request(body, redirects) ==
    [pc |-> "send", use |-> INVALID_SOCKET, body |-> body, id |-> 0,
     redirects |-> redirects, ret |-> FALSE]

Top == stack[Len(stack)]

At(pc) == stack # <<>> /\ Top.pc = pc

WithTop(f) == [stack EXCEPT ![Len(stack)] = f]

ClientInit ==
    /\ keep_alive_ \in BOOLEAN
    /\ sock = INVALID_SOCKET /\ inFlight = 0 /\ fromThread = None
    /\ shouldClose = FALSE
    /\ owner = None /\ stack = <<>>
    /\ calls = 0 /\ written = 0 /\ stops = 0
    /\ destroyed = FALSE /\ crossed = {}

(***************************************************************************)
(* send takes request_mutex_ and calls send_.                              *)
(***************************************************************************)
Call(t, body) ==
    /\ owner = None /\ ~destroyed
    /\ calls < MaxCalls /\ calls' = calls + 1
    /\ owner' = t
    /\ stack' = <<Request(body, MaxRedirects)>>
    /\ UNCHANGED <<conn, svr_sock_, keep_alive_, sock, inFlight, fromThread,
                   shouldClose, written, stops, destroyed, crossed>>

(***************************************************************************)
(* The calls of the interface: Get, Head and Options send no body, Post,   *)
(* Put and Patch send one, Delete may.                                     *)
(***************************************************************************)
Get(t) == Call(t, FALSE)

Options(t) == Call(t, FALSE)

Post(t) == Call(t, TRUE)

Put(t) == Call(t, TRUE)

Patch(t) == Call(t, TRUE)

Delete(t) == \E body \in BOOLEAN : Call(t, body)

(***************************************************************************)
(* send_ or redirect returns ret: to the request whose redirect this was,  *)
(* or to the caller, which releases request_mutex_.                        *)
(***************************************************************************)
Return(ret) ==
    IF Len(stack) = 1
    THEN owner' = None /\ stack' = <<>>
    ELSE /\ owner' = owner
         /\ stack' = [Front(stack) EXCEPT ![Len(stack) - 1].ret = ret,
                                          ![Len(stack) - 1].pc = "exit"]

(***************************************************************************)
(* send_ up to the release of socket_mutex_: the flag is reset, a dead     *)
(* socket is closed and replaced, and the request is counted as in flight. *)
(***************************************************************************)
InFlightOn(c) ==
    /\ sock' = c
    /\ inFlight' = inFlight + 1
    /\ fromThread' = owner
    /\ owner' = owner
    /\ stack' = WithTop([Top EXCEPT !.pc = "write", !.use = c])

ReusesSocket ==
    /\ TRUE \in Alive(sock)
    /\ InFlightOn(sock)
    /\ UNCHANGED conn

\* A bug in which the dead socket is forgotten and not closed.
ReconnectsForgets ==
    /\ FALSE \in Alive(sock)
    /\ \/ \E c \in Conns :
            /\ Connectable(c)
            /\ conn' = Connected(conn, c)
            /\ InFlightOn(c)
       \/ /\ conn' = conn
          /\ sock' = INVALID_SOCKET
          /\ Return(FALSE)
          /\ UNCHANGED <<inFlight, fromThread>>

Reconnects ==
    /\ FALSE \in Alive(sock)
    /\ \/ \E c \in Conns :
            /\ Connectable(c)
            /\ conn' = Connected(Closed(conn, sock), c)
            /\ InFlightOn(c)
       \/ /\ conn' = Closed(conn, sock)
          /\ sock' = INVALID_SOCKET
          /\ Return(FALSE)
          /\ UNCHANGED <<inFlight, fromThread>>

Send_ ==
    /\ At("send")
    /\ shouldClose' = FALSE
    /\ ReusesSocket \/ Reconnects
    /\ UNCHANGED <<svr_sock_, keep_alive_, calls, written, stops, destroyed, crossed>>

(***************************************************************************)
(* write_request.  It may fail at any byte (an empty path, a write         *)
(* timeout, a content provider that gives up): then send_ goes to its      *)
(* scope_exit with ret false.                                              *)
(***************************************************************************)
WriteRequest ==
    /\ At("write")
    /\ written' = written + 1
    /\ ClientWrites(Top.use, [kind |-> IF Top.body THEN "with_body" ELSE "plain",
                              id |-> written + 1, close |-> ~keep_alive_])
    /\ stack' = WithTop([Top EXCEPT !.pc = "read", !.id = written + 1])
    /\ UNCHANGED <<svr_sock_, keep_alive_, sock, inFlight, fromThread, shouldClose,
                   owner, calls, stops, destroyed, crossed>>

Fails ==
    /\ At("write") \/ At("read")
    /\ stack' = WithTop([Top EXCEPT !.pc = "exit", !.ret = FALSE])
    /\ UNCHANGED <<conn, svr_sock_, keep_alive_, sock, inFlight, fromThread,
                   shouldClose, owner, calls, written, stops, destroyed, crossed>>

(***************************************************************************)
(* read_response_line, read_headers and read_content: a response that was  *)
(* cut short fails (Fails, as do a timeout, an end of stream and a         *)
(* receiver that cancels); a whole one is taken for this request's answer. *)
(* The body of a 204 is not read: it is a message of its own, which stays  *)
(* for the next request (NoContent of HTTPLibServer).                      *)
(***************************************************************************)
ReadResponse ==
    /\ At("read")
    /\ LET c == Top.use
           r == Head(conn[c].down)
       IN  /\ conn[c].down # <<>> /\ r.whole
           /\ conn' = [conn EXCEPT ![c].down = Tail(@)]
           /\ crossed' = IF r.id = Top.id THEN crossed ELSE crossed \cup {c}
           /\ stack' = WithTop([Top EXCEPT
                !.ret = TRUE,
                !.pc = CASE r.close    -> IF r.redirect THEN "close_redirect" ELSE "close"
                         [] r.redirect -> "redirect"
                         [] OTHER      -> "exit"])
    /\ UNCHANGED <<svr_sock_, keep_alive_, sock, inFlight, fromThread, shouldClose,
                   owner, calls, written, stops, destroyed>>

(***************************************************************************)
(* handle_request: the server announced "Connection: close".               *)
(***************************************************************************)
CloseOnResponse ==
    /\ At("close") \/ At("close_redirect")
    /\ conn' = Closed(conn, sock)
    /\ sock' = INVALID_SOCKET
    /\ stack' = WithTop([Top EXCEPT !.pc = IF At("close") THEN "exit" ELSE "redirect"])
    /\ UNCHANGED <<svr_sock_, keep_alive_, inFlight, fromThread, shouldClose, owner,
                   calls, written, stops, destroyed, crossed>>

(***************************************************************************)
(* redirect: out of redirects or without a usable location it fails; to    *)
(* this client's own host and port it sends again on this client, inside   *)
(* the request being answered; to another host a client of its own sends,  *)
(* with sockets this client never sees.  A 303 drops the body.             *)
(***************************************************************************)
Redirect ==
    /\ At("redirect")
    /\ \/ \E ret \in (IF Top.redirects = 0 THEN {FALSE} ELSE BOOLEAN) :
            stack' = WithTop([Top EXCEPT !.pc = "exit", !.ret = ret])
       \/ /\ Top.redirects > 0
          /\ \E body \in {Top.body, FALSE} :
               stack' = Append(WithTop([Top EXCEPT !.pc = "redirecting"]),
                               Request(body, Top.redirects - 1))
    /\ UNCHANGED <<conn, svr_sock_, keep_alive_, sock, inFlight, fromThread,
                   shouldClose, owner, calls, written, stops, destroyed, crossed>>

(***************************************************************************)
(* The scope_exit of send_: the request is no longer in flight, and the    *)
(* socket is closed if stop() asked for it, if the connection is not kept  *)
(* alive, or if the request failed.                                        *)
(***************************************************************************)
CloseAtExit == shouldClose \/ ~keep_alive_ \/ ~Top.ret

ExitClosing(closes) ==
    /\ At("exit")
    /\ inFlight' = inFlight - 1
    /\ fromThread' = IF inFlight' <= 0 THEN None ELSE fromThread
    /\ conn' = IF closes THEN Closed(conn, sock) ELSE conn
    /\ sock' = IF closes THEN INVALID_SOCKET ELSE sock
    /\ Return(Top.ret)
    /\ UNCHANGED <<svr_sock_, keep_alive_, shouldClose, calls, written, stops,
                   destroyed, crossed>>

\* A bug in which a failed request keeps its connection.
ScopeExitKeepsFailed == ExitClosing(shouldClose \/ ~keep_alive_)

ScopeExit == ExitClosing(CloseAtExit)

(***************************************************************************)
(* stop(), from any thread: while a request is in flight the socket is     *)
(* only shut down and the request told to close it.                        *)
(***************************************************************************)
\* A bug in which stop() closes the socket under a request.
StopCloses ==
    /\ stops < MaxStops /\ ~destroyed
    /\ stops' = stops + 1
    /\ conn' = Closed(conn, sock) /\ sock' = INVALID_SOCKET
    /\ UNCHANGED <<svr_sock_, keep_alive_, inFlight, fromThread, shouldClose, owner,
                   stack, calls, written, destroyed, crossed>>

Stop ==
    /\ stops < MaxStops /\ ~destroyed
    /\ stops' = stops + 1
    /\ IF inFlight > 0
       THEN /\ conn' = Shutdown(conn, sock)
            /\ shouldClose' = TRUE
            /\ sock' = sock
       ELSE /\ conn' = Closed(conn, sock)
            /\ sock' = INVALID_SOCKET
            /\ shouldClose' = shouldClose
    /\ UNCHANGED <<svr_sock_, keep_alive_, inFlight, fromThread, owner, stack,
                   calls, written, destroyed, crossed>>

(***************************************************************************)
(* ~ClientImpl, once no thread uses the client.                            *)
(***************************************************************************)
Destroy ==
    /\ owner = None /\ ~destroyed
    /\ destroyed' = TRUE
    /\ conn' = Closed(conn, sock) /\ sock' = INVALID_SOCKET
    /\ UNCHANGED <<svr_sock_, keep_alive_, inFlight, fromThread, shouldClose, owner,
                   stack, calls, written, stops, crossed>>

\* What the thread that holds request_mutex_ does without being asked.
ClientStep ==
    \/ Send_ \/ WriteRequest \/ Fails \/ ReadResponse
    \/ CloseOnResponse \/ Redirect \/ ScopeExit

ClientNext ==
    \/ ClientStep
    \/ \E t \in Threads :
         Get(t) \/ Options(t) \/ Post(t) \/ Put(t) \/ Patch(t) \/ Delete(t)
    \/ Stop \/ Destroy

(***************************************************************************)
(* close_socket asserts that no other thread's request uses the socket it  *)
(* closes, "since rarely the OS may reassign the socket id": a request     *)
(* that writes or reads does so on a descriptor that is still its own,     *)
(* whatever stop() and the responses do, and the count of requests in      *)
(* flight is that of its thread's nested requests.                         *)
(***************************************************************************)
RequestOwnsItsSocket ==
    /\ At("write") \/ At("read") => sock = Top.use /\ conn[sock].cli # "closed"
    /\ inFlight = Cardinality({i \in DOMAIN stack : stack[i].pc # "send"})
    /\ inFlight > 0 => fromThread = owner
=============================================================================
