------------------------------ MODULE Acceptor ------------------------------
(***************************************************************************)
(* How a mydss server takes connections: net::Acceptor                     *)
(* (src/src/net/acceptor.cpp) and server::Server (src/src/server/          *)
(* server.cpp) on the thread of net::Loop, against clients that connect    *)
(* between any two system calls.                                           *)
(*                                                                         *)
(* The acceptor keeps a list of requests, each a Conn that waits for a     *)
(* socket and a handler bound to it.  The one handler of the server,       *)
(* Server::OnAccept, starts a session on the Conn and asks for the next    *)
(* accept, which calls the handler again as long as clients wait.  A Conn  *)
(* is its number here, in the order of Conn::New.  What a session does     *)
(* when it starts is the subject of Session.                               *)
(***************************************************************************)
EXTENDS Loop, Naturals, Sequences

CONSTANTS
  Clients,   \* the clients that connect, each once
  NoClient,  \* no client: accept failed
  Failures   \* may accept4 fail with an error other than EAGAIN?

ASSUME ClientsAssumption == NoClient \notin Clients /\ Failures \in BOOLEAN

VARIABLES
  \* The kernel's side of the listening socket.
  arrived,  \* the clients that connected, in order (history)
  backlog,  \* those that are not accepted yet
  rdy,      \* is the descriptor on the ready list of the epoll instance?
  \* The loop's side of it.
  listen,
  \* Acceptor and Server.
  reqs,     \* reqs_: the Conns that wait for a socket
  made,     \* how many Conns there are
  served,   \* the sessions that were started: their Conn and its client
  failed,   \* did an accept fail? (history)
  \* The thread: where it is and its locals.
  pc,
  base,     \* what the handlers return to: "start" (main) or "event" (OnAccept)
  conn,     \* the Conn that is being accepted
  got       \* the client it was given

kernelVars == <<arrived, backlog, rdy>>
vars == <<kernelVars, listen, reqs, made, served, failed, pc, base, conn, got>>

Sessions == [conn : Nat, client : Clients]

TypeOK ==
  /\ arrived \in Seq(Clients) /\ backlog \in Seq(Clients)
  /\ rdy \in BOOLEAN
  /\ listen \in Descriptors
  /\ reqs \in Seq(Nat) /\ made \in Nat
  /\ served \in Seq(Sessions)
  /\ failed \in BOOLEAN
  /\ pc \in {"wait", "accept", "async", "watch", "session", "pop", "down"}
  /\ base \in {"start", "event"}
  /\ conn \in Nat
  /\ got \in Clients \cup {NoClient}

\* Server::Start: the socket listens, and AsyncAccept is called for a Conn.
Init ==
  /\ arrived = <<>> /\ backlog = <<>> /\ rdy = FALSE
  /\ listen = Unknown
  /\ reqs = <<>> /\ made = 1
  /\ served = <<>> /\ failed = FALSE
  /\ pc = "async" /\ base = "start" /\ conn = 1 /\ got = NoClient

-----------------------------------------------------------------------------

\* A client connects: it is in the backlog, which is an edge.
Arrive(c) ==
  /\ pc # "down"
  /\ \A i \in 1 .. Len(arrived) : arrived[i] # c
  /\ arrived' = Append(arrived, c)
  /\ backlog' = Append(backlog, c)
  /\ rdy' = (rdy \/ "IN" \in listen.mask)
  /\ UNCHANGED <<listen, reqs, made, served, failed, pc, base, conn, got>>

\* Acceptor::Accept: a client is there, and the Conn is connected to it;
Accepts ==
  /\ backlog # <<>>
  /\ got' = Head(backlog) /\ backlog' = Tail(backlog)
  /\ pc' = "session"
  /\ UNCHANGED failed

\* or accept4 fails, for instance for want of descriptors;
Fails ==
  /\ Failures
  /\ got' = NoClient /\ failed' = TRUE
  /\ pc' = "session"
  /\ UNCHANGED backlog

\* or there is nobody (EAGAIN).
Blocks(place) ==
  /\ backlog = <<>>
  /\ pc' = place
  /\ UNCHANGED <<backlog, got, failed>>

\* Where control goes when the handler, or the AsyncAccept in it, returns.
Returned == IF base = "event" THEN "pop" ELSE "wait"

\* Variant with a mistake: EAGAIN is given to the handler too.
AsyncAcceptReportsEagain ==
  /\ pc = "async"
  /\ IF reqs # <<>>
     THEN /\ reqs' = Append(reqs, conn)
          /\ pc' = Returned
          /\ UNCHANGED <<backlog, got, failed>>
     ELSE /\ Accepts \/ Fails \/ Blocks("session")
          /\ UNCHANGED reqs
  /\ UNCHANGED <<arrived, rdy, listen, made, served, base, conn>>

\* Acceptor::AsyncAccept behind requests that wait, or with its own accept.
\* Only EAGAIN makes it wait: any other outcome is for the handler.
AsyncAccept ==
  /\ pc = "async"
  /\ IF reqs # <<>>
     THEN /\ reqs' = Append(reqs, conn)
          /\ pc' = Returned
          /\ UNCHANGED <<backlog, got, failed>>
     ELSE /\ Accepts \/ Fails \/ Blocks("watch")
          /\ UNCHANGED reqs
  /\ UNCHANGED <<arrived, rdy, listen, made, served, base, conn>>

\* Variant with a mistake: the request is not queued.
WatchForgetsRequest ==
  /\ pc = "watch"
  /\ LET answer == SetInEvent(listen, "OnAccept")
     IN /\ listen' = answer.fd
        /\ rdy' = (rdy \/ (answer.polled /\ backlog # <<>>))
  /\ pc' = Returned
  /\ UNCHANGED <<arrived, backlog, reqs, made, served, failed, base, conn, got>>

\* The end of AsyncAccept.  If the watch fails, the handler is called and the
\* request stays.
Watch ==
  /\ pc = "watch"
  /\ reqs' = Append(reqs, conn)
  /\ LET answer == SetInEvent(listen, "OnAccept")
     IN /\ listen' = answer.fd
        /\ rdy' = (rdy \/ (answer.polled /\ backlog # <<>>))
        /\ IF answer.ok THEN pc' = Returned /\ UNCHANGED got
           ELSE pc' = "session" /\ got' = NoClient
  /\ UNCHANGED <<arrived, backlog, made, served, failed, base, conn>>

\* Variant with a mistake: a session without a socket starts and goes on.
OnAcceptedAnyway ==
  /\ pc = "session"
  /\ served' = Append(served, [conn |-> conn, client |-> got])
  /\ made' = made + 1 /\ conn' = made + 1
  /\ pc' = "async"
  /\ UNCHANGED <<kernelVars, listen, reqs, failed, base, got>>

\* Server::OnAccept, which does not look at the status.  A session on a Conn
\* without a socket reads from descriptor -1 when it starts, and aborts.
OnAccepted ==
  /\ pc = "session"
  /\ IF got = NoClient
     THEN pc' = "down" /\ UNCHANGED <<served, made, conn>>
     ELSE /\ served' = Append(served, [conn |-> conn, client |-> got])
          /\ made' = made + 1 /\ conn' = made + 1
          /\ pc' = "async"
  /\ UNCHANGED <<kernelVars, listen, reqs, failed, base, got>>

\* The loop of Acceptor::OnAccept, for the request at the front of the list.
OnAccept ==
  /\ pc = "accept"
  /\ Accepts \/ Fails \/ Blocks("wait")
  /\ conn' = Head(reqs)
  /\ UNCHANGED <<arrived, rdy, listen, reqs, made, served, base>>

\* Variant with a mistake: the last request is removed.
PopBack ==
  /\ pc = "pop"
  /\ reqs' = SubSeq(reqs, 1, Len(reqs) - 1)
  /\ pc' = "accept"
  /\ UNCHANGED <<kernelVars, listen, made, served, failed, base, conn, got>>

\* Variant with a mistake: one client is accepted for an event.
PopAndWait ==
  /\ pc = "pop"
  /\ reqs' = Tail(reqs)
  /\ pc' = "wait"
  /\ UNCHANGED <<kernelVars, listen, made, served, failed, base, conn, got>>

\* The handler has returned: its request is removed, and for want of another
\* the event is given up.
Pop ==
  /\ pc = "pop"
  /\ reqs' = Tail(reqs)
  /\ IF Tail(reqs) = <<>>
     THEN pc' = "wait" /\ listen' = SetInEvent(listen, "none").fd
     ELSE pc' = "accept" /\ UNCHANGED listen
  /\ UNCHANGED <<kernelVars, made, served, failed, base, conn, got>>

\* epoll_wait: the descriptor has nothing to report after all, or its handler
\* is called.
Drop ==
  /\ pc = "wait" /\ rdy
  /\ backlog = <<>>
  /\ rdy' = FALSE
  /\ UNCHANGED <<arrived, backlog, listen, reqs, made, served, failed, pc, base, conn, got>>

Dispatch ==
  /\ pc = "wait" /\ rdy
  /\ backlog # <<>> /\ listen.first = "OnAccept"
  /\ rdy' = FALSE
  /\ pc' = "accept" /\ base' = "event"
  /\ UNCHANGED <<arrived, backlog, listen, reqs, made, served, failed, conn, got>>

Handler == AsyncAccept \/ Watch \/ OnAccepted \/ OnAccept \/ Pop

Next == (\E c \in Clients : Arrive(c)) \/ Drop \/ Dispatch \/ Handler

Spec == Init /\ [][Next]_vars

\* The thread goes on in a handler, and epoll_wait returns what is ready.
FairSpec == Spec /\ WF_vars(Handler) /\ WF_vars(Drop \/ Dispatch)

-----------------------------------------------------------------------------

\* The descriptor as it is while the server waits for clients.
Watched == [known |-> TRUE, first |-> "OnAccept", second |-> "none",
            watched |-> TRUE, mask |-> {"IN"}]

\* Between events exactly one accept is pending and the loop watches for it:
\* the handler asks for the next one while its own request is in the list,
\* and the list never runs empty (the end of Acceptor::OnAccept, where
\* SetInEvent fails, is unreachable).
AcceptPending == pc = "wait" => Len(reqs) = 1 /\ listen = Watched

\* A client that connects between the EAGAIN of accept4 and the watch, or while
\* OnAccept runs, is not overlooked: between events epoll will report it.
NoLostConnect == pc = "wait" /\ backlog # <<>> => rdy

\* Clients are served in the order in which they came, each by one session on
\* a Conn of its own; at most one has been accepted and has no session yet.
ServedInOrder ==
  /\ \A i, j \in 1 .. Len(served) : i # j => served[i].conn # served[j].conn
  /\ \A i \in 1 .. Len(served) : served[i].client = arrived[i]
  /\ LET taken == IF pc = "session" /\ got # NoClient THEN 1 ELSE 0
     IN /\ Len(arrived) = Len(served) + taken + Len(backlog)
        /\ taken = 1 => got = arrived[Len(served) + 1]

\* Only an accept that fails with an error other than EAGAIN ends the process.
DownOnlyByFailure == pc = "down" => failed

\* Every client that connects is served, or the process has ended.
EveryClientServed ==
  \A c \in Clients :
    (\E i \in 1 .. Len(arrived) : arrived[i] = c)
      ~> (\E i \in 1 .. Len(served) : served[i].client = c) \/ pc = "down"

=============================================================================
