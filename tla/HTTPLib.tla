------------------------------- MODULE HTTPLib -------------------------------
(***************************************************************************)
(* A client and a server of include/httplib.h on the two ends of the same  *)
(* connections.  No file of the repository includes that header; it is     *)
(* shipped under include/ for applications.                                *)
(***************************************************************************)
EXTENDS HTTPLibClient, HTTPLibServer

vars == <<conn, svr_sock_, clientVars, unread>>

Init == SocketInit /\ ClientInit /\ ServerInit

Next ==
    \/ ClientNext /\ UNCHANGED unread
    \/ ServerNext /\ UNCHANGED clientVars

(***************************************************************************)
(* Threads run: the holder of request_mutex_ and each connection's worker  *)
(* take their next step in the end.  The timeouts of keep_alive,           *)
(* select_read and select_write are finite, so a wait is a step.  Nothing  *)
(* obliges a thread to call, to stop or to destroy.                        *)
(***************************************************************************)
Fairness ==
    /\ WF_vars(ClientStep /\ UNCHANGED unread)
    /\ \A c \in Conns : WF_vars(Serve(c) /\ UNCHANGED clientVars)

Spec == Init /\ [][Next]_vars /\ Fairness

(***************************************************************************)
(* An answer reaches the request it answers, across the reuse of a kept    *)
(* alive connection, failed requests, stop() and redirects, unless the     *)
(* server left a request's body unread on that connection (it then answers *)
(* the body as if it were a request, one answer too many) or the client    *)
(* the body of a 204 (it then reads it as the next answer).                *)
(***************************************************************************)
AnswersMatchUnlessBodyUnread == crossed \subseteq unread

(***************************************************************************)
(* No descriptor is lost: what the client has open is socket_, and once no *)
(* request is under way that is not a socket stop() has shut down, although *)
(* a redirect resets the flag stop() sets.                                 *)
(***************************************************************************)
NoSocketLost ==
    /\ \A c \in Conns : conn[c].cli \in {"open", "shut"} => c = sock
    /\ owner = None /\ sock # INVALID_SOCKET => conn[sock].cli = "open"

(***************************************************************************)
(* The server closes every connection it accepted, whether the client      *)
(* closes it, keeps it open and idle, or is stopped in the middle of a     *)
(* request.                                                                *)
(***************************************************************************)
ServerLetsGo == \A c \in Conns : conn[c].srv = "loop" ~> conn[c].srv = "closed"
=============================================================================
