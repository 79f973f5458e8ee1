------------------------------- MODULE Session -------------------------------
(***************************************************************************)
(* The connections of a mydss server: net::Conn (src/src/net/conn.cpp) and *)
(* server::Session (src/src/server/session.cpp) run by net::Loop           *)
(* (src/src/net/loop.cpp) on one thread, against clients that send, stop   *)
(* sending, reset, and read at their own pace between any two system       *)
(* calls of the server.                                                    *)
(*                                                                         *)
(* What clients send is abstracted to requests, and a request to what it   *)
(* makes the session do: send a number of reply pieces ("cmd"), send one   *)
(* and close ("quit"), or fail to parse ("bad").  A piece is PieceSize     *)
(* units long, and a unit on the wire carries the number of its piece and  *)
(* its place in the piece, which tells loss, order and repetition apart.   *)
(***************************************************************************)
EXTENDS Loop, Naturals, Sequences

CONSTANTS
  Conns,       \* the connections that clients open
  NoConn,      \* no connection: the thread is not running a handler
  PieceCounts, \* how many reply pieces a command may send
  PieceSize,   \* units in a reply piece
  Capacity,    \* units that fit in the send buffer of a socket
  MaxRequests, \* bound: requests that a client sends in all
  Quits,       \* do clients send QUIT and malformed requests?
  Faults,      \* what clients do beside sending and reading
  Debug        \* are the assertions compiled in (xmake mode.debug)?

ASSUME ConnsAssumption == NoConn \notin Conns
ASSUME SizesAssumption ==
  /\ PieceCounts \subseteq Nat
  /\ PieceSize \in Nat \ {0}
  /\ Capacity \in Nat \ {0}
  /\ MaxRequests \in Nat
ASSUME SwitchesAssumption ==
  /\ Quits \in BOOLEAN
  /\ Debug \in BOOLEAN
  /\ Faults \subseteq {"shut", "reset"}

Commands == [kind : {"cmd"}, pieces : PieceCounts]
Quit == [kind |-> "quit", pieces |-> 1]
Bad == [kind |-> "bad", pieces |-> 1]
Requests == Commands \cup (IF Quits THEN {Quit, Bad} ELSE {})

VARIABLES
  \* The clients and the kernel's side of each connection.
  peer,    \* what the client has done: away, open, shut or reset
  arrived, \* the number of requests it has sent
  inbuf,   \* requests received and not read
  room,    \* units free in the send buffer
  wire,    \* units ever written, in order (history)
  rdy,     \* is the descriptor on the ready list of the epoll instance?
  \* Loop::fds_ together with the registration in the epoll instance.
  fd,
  \* Conn.
  sock,    \* "none" before accept, "open", or "closed" (sock_ = -1)
  recv,    \* the length of recv_reqs_
  send,    \* send_reqs_
  issued,  \* reply pieces given to AsyncSend so far (history)
  closer,  \* the last piece before the Close that a handler asked for (history)
  \* The thread: where it is, in which connection, and its locals.
  pc, cur,
  base,    \* what the handlers return to: "start" (Server::OnAccept) or "event"
  ev,      \* the events of the epoll_wait result that are not handled yet
  reqs,    \* Session::OnRecv: parsed requests that are not handled yet
  outs,    \* what the running request has still to send
  rearm,   \* Session::OnRecv: will it end with AsyncRecv?
  fault    \* why the process is down

clientVars == <<peer, arrived>>
bufVars == <<inbuf, room, wire>>
loopVars == <<fd, rdy>>
connVars == <<sock, recv, send>>
histVars == <<issued, closer>>
localVars == <<base, ev, reqs, outs, rearm>>
ctlVars == <<pc, cur, localVars, fault>>
vars == <<clientVars, bufVars, loopVars, connVars, histVars, ctlVars>>

Sends == [len : {0, PieceSize}, close : BOOLEAN]
\* A queued SendReq: the piece it belongs to, the units of its slice, and
\* whether Session::OnSend closes the connection when it is sent.
SendReqs == [id : Nat, left : 0 .. PieceSize, close : BOOLEAN]

ClientsTyped ==
  /\ peer \in [Conns -> {"away", "open", "shut", "reset"}]
  /\ arrived \in [Conns -> 0 .. MaxRequests]

BuffersTyped ==
  /\ inbuf \in [Conns -> Seq(Requests)]
  /\ room \in [Conns -> 0 .. Capacity]
  /\ wire \in [Conns -> Seq(Nat \X (1 .. PieceSize))]

LoopTyped ==
  /\ fd \in [Conns -> Descriptors]
  /\ rdy \in [Conns -> BOOLEAN]

ConnsTyped ==
  /\ sock \in [Conns -> {"none", "open", "closed"}]
  /\ recv \in [Conns -> Nat]
  /\ send \in [Conns -> Seq(SendReqs)]

HistoryTyped ==
  /\ issued \in [Conns -> Nat]
  /\ closer \in [Conns -> Nat]

ThreadTyped ==
  /\ pc \in {"wait", "recv", "arm", "listen", "serve", "watch", "out", "send", "down"}
  /\ cur \in Conns \cup {NoConn}
  /\ pc # "wait" <=> cur \in Conns
  /\ base \in {"start", "event"}
  /\ ev \in SUBSET Events
  /\ reqs \in Seq(Requests)
  /\ outs \in Seq(Sends)
  /\ rearm \in BOOLEAN
  /\ fault \in {"none", "assert", "throw", "abort"}

TypeOK == ClientsTyped /\ BuffersTyped /\ LoopTyped /\ ConnsTyped
            /\ HistoryTyped /\ ThreadTyped

Init ==
  /\ peer = [c \in Conns |-> "away"]
  /\ arrived = [c \in Conns |-> 0]
  /\ inbuf = [c \in Conns |-> <<>>]
  /\ room = [c \in Conns |-> Capacity]
  /\ wire = [c \in Conns |-> <<>>]
  /\ rdy = [c \in Conns |-> FALSE]
  /\ fd = [c \in Conns |-> Unknown]
  /\ sock = [c \in Conns |-> "none"]
  /\ recv = [c \in Conns |-> 0]
  /\ send = [c \in Conns |-> <<>>]
  /\ issued = [c \in Conns |-> 0]
  /\ closer = [c \in Conns |-> 0]
  /\ pc = "wait" /\ cur = NoConn
  /\ base = "event" /\ ev = {} /\ reqs = <<>> /\ outs = <<>> /\ rearm = TRUE
  /\ fault = "none"

-----------------------------------------------------------------------------
(* The kernel. *)

\* What epoll would report of the connection now, with "free" units of room.
\* A reset shows as both events.
Poll(c, free) ==
  (IF inbuf[c] # <<>> \/ peer[c] \in {"shut", "reset"} THEN {"IN"} ELSE {}) \cup
  (IF free > 0 \/ peer[c] = "reset" THEN {"OUT"} ELSE {})

\* An edge on an event the descriptor is registered for puts it on the list.
Edge(c, events) == rdy' = [rdy EXCEPT ![c] = @ \/ fd[c].mask \cap events # {}]

\* A handler is set or cleared: the record changes, and after an ADD or a
\* MOD the kernel polls the descriptor itself.
Register(c, answer) ==
  /\ fd' = [fd EXCEPT ![c] = answer.fd]
  /\ rdy' = [rdy EXCEPT ![c] =
               @ \/ (answer.polled /\ answer.fd.mask \cap Poll(c, room[c]) # {})]

-----------------------------------------------------------------------------
(* The clients.  Each step is possible between any two server steps. *)

Live(c) == peer[c] \in {"open", "shut"} /\ sock[c] # "closed" /\ pc # "down"

PeerConnect(c) ==
  /\ pc # "down"
  /\ peer[c] = "away"
  /\ peer' = [peer EXCEPT ![c] = "open"]
  /\ UNCHANGED <<arrived, bufVars, loopVars, connVars, histVars, ctlVars>>

PeerSend(c, r) ==
  /\ Live(c) /\ peer[c] = "open"
  /\ arrived[c] < MaxRequests
  /\ arrived' = [arrived EXCEPT ![c] = @ + 1]
  /\ inbuf' = [inbuf EXCEPT ![c] = Append(@, r)]
  /\ Edge(c, {"IN"})
  /\ UNCHANGED <<peer, room, wire, fd, connVars, histVars, ctlVars>>

\* The client shuts down its sending side and still reads.
PeerShut(c) ==
  /\ "shut" \in Faults
  /\ Live(c) /\ peer[c] = "open"
  /\ peer' = [peer EXCEPT ![c] = "shut"]
  /\ Edge(c, {"IN"})
  /\ UNCHANGED <<arrived, bufVars, fd, connVars, histVars, ctlVars>>

PeerReset(c) ==
  /\ "reset" \in Faults
  /\ Live(c)
  /\ peer' = [peer EXCEPT ![c] = "reset"]
  /\ Edge(c, {"IN", "OUT"})
  /\ UNCHANGED <<arrived, bufVars, fd, connVars, histVars, ctlVars>>

\* The client reads all that was sent.  A short write or an EAGAIN left
\* SOCK_NOSPACE set, so the space is an edge.
PeerDrain(c) ==
  /\ Live(c)
  /\ room[c] < Capacity
  /\ room' = [room EXCEPT ![c] = Capacity]
  /\ Edge(c, {"OUT"})
  /\ UNCHANGED <<clientVars, inbuf, wire, fd, connVars, histVars, ctlVars>>

Client(c) ==
  \/ PeerConnect(c)
  \/ \E r \in Requests : PeerSend(c, r)
  \/ PeerShut(c)
  \/ PeerReset(c)
  \/ PeerDrain(c)

-----------------------------------------------------------------------------
(* Moving the thread. *)

Goto(l) == pc' = l /\ UNCHANGED <<cur, localVars, fault>>

\* Back in Loop::Run, at epoll_wait.
Wait ==
  /\ pc' = "wait" /\ cur' = NoConn
  /\ base' = "event" /\ ev' = {} /\ reqs' = <<>> /\ outs' = <<>> /\ rearm' = TRUE
  /\ UNCHANGED fault

\* The process ends: a failed assertion, an uncaught exception, or abort().
Down(why) ==
  /\ pc' = "down" /\ fault' = why
  /\ UNCHANGED <<cur, localVars>>

\* The caller of AsyncRecv or of Session::OnRecv gets control back.  Nested
\* calls all return to the outermost one, Session::Start or Conn::OnRecv.
Return == IF base = "start" THEN Wait ELSE Goto("recv")

Malformed(batch) == \E i \in DOMAIN batch : batch[i].kind = "bad"

\* Variant with a mistake: the reply to a malformed request does not close.
ParseKeepsOpen(batch) ==
  /\ pc' = "serve"
  /\ IF Malformed(batch)
     THEN /\ reqs' = <<>>
          /\ outs' = <<[len |-> PieceSize, close |-> FALSE]>>
          /\ rearm' = FALSE
     ELSE reqs' = batch /\ outs' = <<>> /\ rearm' = TRUE
  /\ UNCHANGED <<cur, base, ev, fault>>

\* ReqParser::Parse on what was read, then the loop of Session::OnRecv.  A
\* malformed request stops the parse: one error reply that closes, and the
\* requests parsed before it in the same read are dropped.
Parse(batch) ==
  /\ pc' = "serve"
  /\ IF Malformed(batch)
     THEN /\ reqs' = <<>>
          /\ outs' = <<[len |-> PieceSize, close |-> TRUE]>>
          /\ rearm' = FALSE
     ELSE reqs' = batch /\ outs' = <<>> /\ rearm' = TRUE
  /\ UNCHANGED <<cur, base, ev, fault>>

\* What a request sends: its pieces, and for QUIT the empty piece of
\* Ctx::Close, whose handler closes the connection.
Script(r) ==
  [i \in 1 .. r.pieces |-> [len |-> PieceSize, close |-> FALSE]] \o
  (IF r.kind = "quit" THEN <<[len |-> 0, close |-> TRUE]>> ELSE <<>>)

-----------------------------------------------------------------------------
(* Closing and writing. *)

\* Conn::Close.  On a closed connection, whose loop_ is null, it does nothing.
Close(c) ==
  /\ fd' = [fd EXCEPT ![c] = IF sock[c] = "open" THEN Remove(@).fd ELSE @]
  /\ rdy' = [rdy EXCEPT ![c] = FALSE]
  /\ sock' = [sock EXCEPT ![c] = "closed"]
  /\ recv' = [recv EXCEPT ![c] = 0]
  /\ send' = [send EXCEPT ![c] = <<>>]
  /\ inbuf' = [inbuf EXCEPT ![c] = <<>>]

\* The assertions of Conn::Close: sock_ != -1, and that Remove succeeds.
CloseAsserts(c) == sock[c] # "open" \/ ~Remove(fd[c]).ok

\* Session::OnSend without an error: piece id is sent; close the connection
\* if that was its purpose.
Sent(c, id, close) ==
  IF close
  THEN /\ Close(c)
       /\ closer' = [closer EXCEPT ![c] = IF sock[c] = "open" THEN id ELSE @]
  ELSE UNCHANGED <<inbuf, loopVars, connVars, closer>>

\* write(2) puts n units of piece id on the wire, after the first "done".
Write(c, id, done, n) ==
  /\ wire' = [wire EXCEPT ![c] = @ \o [k \in 1 .. n |-> <<id, done + k>>]]
  /\ room' = [room EXCEPT ![c] = @ - n]

-----------------------------------------------------------------------------
(* Loop::Run. *)

\* Server::OnAccept makes a Session of an accepted connection and starts it:
\* Conn::Connect, Conn::Attach, Session::Start, AsyncRecv.
Accept(c) ==
  /\ pc = "wait"
  /\ sock[c] = "none" /\ peer[c] # "away"
  /\ sock' = [sock EXCEPT ![c] = "open"]
  /\ pc' = "arm" /\ cur' = c /\ base' = "start"
  /\ UNCHANGED <<ev, reqs, outs, rearm, fault>>
  /\ UNCHANGED <<clientVars, bufVars, loopVars, recv, send, histVars>>

\* A descriptor on the ready list has nothing to report after all.
Drop(c) ==
  /\ pc = "wait"
  /\ rdy[c] /\ fd[c].mask \cap Poll(c, room[c]) = {}
  /\ rdy' = [rdy EXCEPT ![c] = FALSE]
  /\ UNCHANGED <<clientVars, bufVars, fd, connVars, histVars, ctlVars>>

\* epoll_wait returns c and Run calls the handler of the readable event, with
\* Conn::OnRecv asserting that a request waits.
Dispatch(c) ==
  LET events == fd[c].mask \cap Poll(c, room[c])
  IN /\ pc = "wait"
     /\ rdy[c] /\ events # {}
     /\ rdy' = [rdy EXCEPT ![c] = FALSE]
     /\ cur' = c
     /\ IF "IN" \notin events
        THEN pc' = "out" /\ ev' = events /\ UNCHANGED fault
        ELSE IF fd[c].first = "none"
        THEN pc' = "down" /\ fault' = (IF Debug THEN "assert" ELSE "throw") /\ UNCHANGED ev
        ELSE IF Debug /\ recv[c] = 0
        THEN pc' = "down" /\ fault' = "assert" /\ UNCHANGED ev
        ELSE pc' = "recv" /\ ev' = events \ {"IN"} /\ UNCHANGED fault
     /\ UNCHANGED <<base, reqs, outs, rearm>>
     /\ UNCHANGED <<clientVars, bufVars, fd, connVars, histVars>>

\* Run goes on to the writable event.  fds_.at throws if the handler of the
\* readable event closed the connection.
RunOut(c) ==
  /\ pc = "out"
  /\ IF "OUT" \notin ev THEN Wait
     ELSE IF ~fd[c].known THEN Down("throw")
     ELSE IF fd[c].second = "none" THEN Down(IF Debug THEN "assert" ELSE "throw")
     ELSE IF Debug /\ send[c] = <<>> THEN Down("assert")
     ELSE Goto("send")
  /\ UNCHANGED <<clientVars, bufVars, loopVars, connVars, histVars>>

-----------------------------------------------------------------------------
(* Reading: Conn::OnRecv at "recv", Conn::AsyncRecv at "arm". *)

Reading(c) == (pc = "recv" /\ recv[c] > 0) \/ pc = "arm"

\* Variant with a mistake: AsyncRecv pops a request as well.
PoppedAlways(c) == [recv EXCEPT ![c] = @ - 1]

\* The request is popped before the read; AsyncRecv has none in the queue.
Popped(c) == IF pc = "recv" THEN [recv EXCEPT ![c] = @ - 1] ELSE recv

\* read(2) returns data, at most as much as the buffer of the session holds.
ReadData(c) ==
  /\ Reading(c) /\ inbuf[c] # <<>>
  /\ \E n \in 1 .. Len(inbuf[c]) :
       /\ inbuf' = [inbuf EXCEPT ![c] = SubSeq(@, n + 1, Len(@))]
       /\ Parse(SubSeq(inbuf[c], 1, n))
  /\ recv' = Popped(c)
  /\ UNCHANGED <<clientVars, room, wire, loopVars, sock, send, histVars>>

\* Variant with a mistake: the end of the stream is not an error.
ReadEofIgnored(c) ==
  /\ Reading(c) /\ inbuf[c] = <<>> /\ peer[c] = "shut"
  /\ recv' = Popped(c)
  /\ IF pc = "recv" THEN Goto("out") ELSE Return
  /\ UNCHANGED <<clientVars, bufVars, loopVars, sock, send, histVars>>

\* read(2) returns 0: Session::OnRecv closes.  OnRecv returns at once, past
\* its tail; what was queued to send is gone.
ReadEof(c) ==
  /\ Reading(c) /\ inbuf[c] = <<>> /\ peer[c] = "shut"
  /\ Close(c)
  /\ IF Debug /\ CloseAsserts(c) THEN Down("assert")
     ELSE IF pc = "recv" THEN Goto("out") ELSE Return
  /\ UNCHANGED <<clientVars, room, wire, histVars>>

\* read(2) fails: Session::OnRecv calls abort().
ReadError(c) ==
  /\ Reading(c) /\ inbuf[c] = <<>> /\ peer[c] = "reset"
  /\ Down("abort")
  /\ UNCHANGED <<clientVars, bufVars, loopVars, connVars, histVars>>

\* Variant with a mistake: the request does not go back on EAGAIN.
OnRecvAgainForgets(c) ==
  /\ pc = "recv" /\ recv[c] > 0 /\ inbuf[c] = <<>> /\ peer[c] = "open"
  /\ recv' = Popped(c)
  /\ Goto("out")
  /\ UNCHANGED <<clientVars, bufVars, loopVars, sock, send, histVars>>

\* EAGAIN in Conn::OnRecv: the request goes back to the front.
OnRecvAgain(c) ==
  /\ pc = "recv" /\ recv[c] > 0 /\ inbuf[c] = <<>> /\ peer[c] = "open"
  /\ Goto("out")
  /\ UNCHANGED <<clientVars, bufVars, loopVars, connVars, histVars>>

\* EAGAIN in Conn::AsyncRecv: go on to watch the readable event.
AsyncRecvAgain(c) ==
  /\ pc = "arm" /\ inbuf[c] = <<>> /\ peer[c] = "open"
  /\ Goto("listen")
  /\ UNCHANGED <<clientVars, bufVars, loopVars, connVars, histVars>>

\* Conn::AsyncRecv, lines 68 to 72.  An error would reach Session::OnRecv.
AsyncRecvListen(c) ==
  LET answer == SetInEvent(fd[c], "OnRecv")
  IN /\ pc = "listen"
     /\ Register(c, answer)
     /\ recv' = [recv EXCEPT ![c] = @ + 1]
     /\ IF answer.ok THEN Return ELSE Down("abort")
     /\ UNCHANGED <<clientVars, bufVars, sock, send, histVars>>

\* The tail of Conn::OnRecv, when no request is left: stop watching the
\* readable event unless a handler closed the connection.
OnRecvTail(c) ==
  LET answer == SetInEvent(fd[c], "none")
  IN /\ pc = "recv" /\ recv[c] = 0
     /\ IF sock[c] = "open"
        THEN /\ Register(c, answer)
             /\ IF Debug /\ ~answer.ok THEN Down("assert") ELSE Goto("out")
        ELSE UNCHANGED loopVars /\ Goto("out")
     /\ UNCHANGED <<clientVars, bufVars, connVars, histVars>>

-----------------------------------------------------------------------------
(* Session::OnRecv at "serve": the loop over the parsed requests, the pieces *)
(* that each sends, and Conn::AsyncSend for each piece.                      *)

\* Inst::Handle for the next request.
Handle(c) ==
  /\ pc = "serve" /\ outs = <<>> /\ reqs # <<>>
  /\ sock[c] = "open"
  /\ outs' = Script(Head(reqs)) /\ reqs' = Tail(reqs)
  /\ UNCHANGED <<pc, cur, base, ev, rearm, fault>>
  /\ UNCHANGED <<clientVars, bufVars, loopVars, connVars, histVars>>

\* Variant with a mistake: no look at closed() before receiving again.
RearmClosed(c) ==
  /\ pc = "serve" /\ outs = <<>> /\ reqs = <<>> /\ rearm
  /\ Goto("arm")
  /\ UNCHANGED <<clientVars, bufVars, loopVars, connVars, histVars>>

\* All are handled: receive again.
Rearm(c) ==
  /\ pc = "serve" /\ outs = <<>> /\ reqs = <<>>
  /\ sock[c] = "open" /\ rearm
  /\ Goto("arm")
  /\ UNCHANGED <<clientVars, bufVars, loopVars, connVars, histVars>>

\* The connection was closed by a handler, or the parse failed: give up the
\* remaining requests and return.
GiveUp(c) ==
  /\ pc = "serve" /\ outs = <<>>
  /\ sock[c] = "closed" \/ ~rearm
  /\ IF base = "start" THEN Wait
     ELSE /\ pc' = "recv" /\ reqs' = <<>> /\ rearm' = TRUE
          /\ UNCHANGED <<cur, base, ev, outs, fault>>
  /\ UNCHANGED <<clientVars, bufVars, loopVars, connVars, histVars>>

Sending == pc = "serve" /\ outs # <<>>

\* On to the next piece of the request.
NextPiece == outs' = Tail(outs) /\ UNCHANGED <<pc, cur, base, ev, reqs, rearm, fault>>

\* A piece gets the next number; the empty piece goes by the last one.
PieceId(c) == IF Head(outs).len = 0 THEN issued[c] ELSE issued[c] + 1
Issue(c) == issued' = [issued EXCEPT ![c] = PieceId(c)]

Request(c, left) == [id |-> PieceId(c), left |-> left, close |-> Head(outs).close]

\* Others are queued already.
SendQueued(c) ==
  /\ Sending /\ send[c] # <<>>
  /\ send' = [send EXCEPT ![c] = Append(@, Request(c, Head(outs).len))]
  /\ Issue(c) /\ NextPiece
  /\ UNCHANGED <<clientVars, bufVars, loopVars, sock, recv, closer>>

\* Variant with a mistake: the empty piece does not wait for the queue.
SendEmptyFirst(c) ==
  /\ Sending /\ Head(outs).len = 0
  /\ Sent(c, PieceId(c), Head(outs).close)
  /\ NextPiece
  /\ UNCHANGED <<clientVars, room, wire, issued>>

\* The empty piece with nothing queued, even on a closed connection.
SendEmpty(c) ==
  /\ Sending /\ send[c] = <<>> /\ Head(outs).len = 0
  /\ Sent(c, PieceId(c), Head(outs).close)
  /\ IF Debug /\ CloseAsserts(c) THEN Down("assert") ELSE NextPiece
  /\ UNCHANGED <<clientVars, room, wire, issued>>

\* write(2) fails, with EBADF on a connection that is closed: Session::OnSend
\* closes it.
SendFails(c) ==
  /\ Sending /\ send[c] = <<>> /\ Head(outs).len > 0
  /\ sock[c] = "closed" \/ peer[c] = "reset"
  /\ Close(c)
  /\ IF Debug /\ CloseAsserts(c) THEN Down("assert") ELSE NextPiece
  /\ UNCHANGED <<clientVars, room, wire, histVars>>

Writable(c) ==
  /\ Sending /\ send[c] = <<>> /\ Head(outs).len > 0
  /\ sock[c] = "open" /\ peer[c] # "reset"

\* The whole piece fits.
SendWhole(c) ==
  /\ Writable(c) /\ room[c] >= Head(outs).len
  /\ Write(c, PieceId(c), 0, Head(outs).len)
  /\ Sent(c, PieceId(c), Head(outs).close)
  /\ Issue(c)
  /\ IF Debug /\ Head(outs).close /\ CloseAsserts(c) THEN Down("assert") ELSE NextPiece
  /\ UNCHANGED clientVars

\* A part fits, or nothing (EAGAIN).  Either way the whole piece is queued.
SendPart(c) ==
  /\ Writable(c) /\ room[c] < Head(outs).len
  /\ Write(c, PieceId(c), 0, room[c])
  /\ send' = [send EXCEPT ![c] = Append(@, Request(c, Head(outs).len))]
  /\ Issue(c)
  /\ pc' = "watch" /\ outs' = Tail(outs)
  /\ UNCHANGED <<cur, base, ev, reqs, rearm, fault>>
  /\ UNCHANGED <<clientVars, inbuf, loopVars, sock, recv, closer>>

\* Variant with a mistake: the writable event is not watched.
AsyncSendForgets(c) ==
  /\ pc = "watch"
  /\ Goto("serve")
  /\ UNCHANGED <<clientVars, bufVars, loopVars, connVars, histVars>>

\* Conn::AsyncSend then watches the writable event.  On an error it would
\* call the handler that it moved into the queue.
AsyncSendWatch(c) ==
  LET answer == SetOutEvent(fd[c], "OnSend")
  IN /\ pc = "watch"
     /\ Register(c, answer)
     /\ IF answer.ok THEN Goto("serve") ELSE Down("throw")
     /\ UNCHANGED <<clientVars, bufVars, connVars, histVars>>

-----------------------------------------------------------------------------
(* Conn::OnSend at "send". *)

PopSend(c) == send' = [send EXCEPT ![c] = Tail(@)]

\* write(2) fails and Session::OnSend closes.
OnSendFails(c) ==
  /\ pc = "send" /\ send[c] # <<>> /\ peer[c] = "reset"
  /\ Close(c)
  /\ IF Debug /\ CloseAsserts(c) THEN Down("assert") ELSE Wait
  /\ UNCHANGED <<clientVars, room, wire, histVars>>

\* Variant with a mistake: OnSend returns after one piece.
OnSendOnce(c) ==
  LET front == Head(send[c])
  IN /\ pc = "send" /\ send[c] # <<>> /\ peer[c] # "reset"
     /\ room[c] >= front.left
     /\ Write(c, front.id, PieceSize - front.left, front.left)
     /\ IF front.close THEN Sent(c, front.id, TRUE)
        ELSE PopSend(c) /\ UNCHANGED <<inbuf, loopVars, sock, recv, closer>>
     /\ IF Len(send[c]) = 1 THEN Goto("send") ELSE Wait
     /\ UNCHANGED <<clientVars, issued>>

\* The front fits, the empty piece included: write returns 0 for it, which the
\* assertion of line 156 does not expect.
OnSendWhole(c) ==
  LET front == Head(send[c])
  IN /\ pc = "send" /\ send[c] # <<>> /\ peer[c] # "reset"
     /\ room[c] >= front.left
     /\ Write(c, front.id, PieceSize - front.left, front.left)
     /\ IF front.close THEN Sent(c, front.id, TRUE)
        ELSE PopSend(c) /\ UNCHANGED <<inbuf, loopVars, sock, recv, closer>>
     /\ IF Debug /\ (front.left = 0 \/ (front.close /\ CloseAsserts(c)))
        THEN Down("assert") ELSE Goto("send")
     /\ UNCHANGED <<clientVars, issued>>

\* Variants with a mistake: the rest is dropped, or goes to the back.
OnSendPartDrops(c) ==
  LET front == Head(send[c])
  IN /\ pc = "send" /\ send[c] # <<>> /\ peer[c] # "reset"
     /\ room[c] < front.left
     /\ Write(c, front.id, PieceSize - front.left, room[c])
     /\ PopSend(c)
     /\ Wait
     /\ UNCHANGED <<clientVars, inbuf, loopVars, sock, recv, histVars>>

OnSendPartToBack(c) ==
  LET front == Head(send[c])
  IN /\ pc = "send" /\ send[c] # <<>> /\ peer[c] # "reset"
     /\ room[c] < front.left
     /\ Write(c, front.id, PieceSize - front.left, room[c])
     /\ send' = [send EXCEPT ![c] = Append(Tail(@), [front EXCEPT !.left = @ - room[c]])]
     /\ Wait
     /\ UNCHANGED <<clientVars, inbuf, loopVars, sock, recv, histVars>>

\* Variant with a mistake: EAGAIN is taken for an error, and closes.
OnSendPartCloses(c) ==
  /\ pc = "send" /\ send[c] # <<>> /\ peer[c] # "reset"
  /\ room[c] < Head(send[c]).left
  /\ Close(c) /\ Wait
  /\ UNCHANGED <<clientVars, room, wire, histVars>>

\* A part fits, or nothing: the rest stays at the front.
OnSendPart(c) ==
  LET front == Head(send[c])
  IN /\ pc = "send" /\ send[c] # <<>> /\ peer[c] # "reset"
     /\ room[c] < front.left
     /\ Write(c, front.id, PieceSize - front.left, room[c])
     /\ send' = [send EXCEPT ![c] = <<[front EXCEPT !.left = @ - room[c]]>> \o Tail(@)]
     /\ Wait
     /\ UNCHANGED <<clientVars, inbuf, loopVars, sock, recv, histVars>>

\* Variant with a mistake: the writable event stays watched.
OnSendTailKeeps(c) ==
  /\ pc = "send" /\ send[c] = <<>>
  /\ Wait
  /\ UNCHANGED <<clientVars, bufVars, loopVars, connVars, histVars>>

\* The tail: nothing is queued; stop watching the writable event.
OnSendTail(c) ==
  LET answer == SetOutEvent(fd[c], "none")
  IN /\ pc = "send" /\ send[c] = <<>>
     /\ IF sock[c] = "open"
        THEN /\ Register(c, answer)
             /\ IF Debug /\ ~answer.ok THEN Down("assert") ELSE Wait
        ELSE UNCHANGED loopVars /\ Wait
     /\ UNCHANGED <<clientVars, bufVars, connVars, histVars>>

-----------------------------------------------------------------------------

\* The steps of a handler that runs in connection c.
Step(c) ==
  /\ cur = c
  /\ \/ RunOut(c)
     \/ ReadData(c) \/ ReadEof(c) \/ ReadError(c)
     \/ OnRecvAgain(c) \/ AsyncRecvAgain(c) \/ AsyncRecvListen(c) \/ OnRecvTail(c)
     \/ Handle(c) \/ Rearm(c) \/ GiveUp(c)
     \/ SendQueued(c) \/ SendEmpty(c) \/ SendFails(c) \/ SendWhole(c) \/ SendPart(c)
     \/ AsyncSendWatch(c)
     \/ OnSendFails(c) \/ OnSendWhole(c) \/ OnSendPart(c) \/ OnSendTail(c)

Next ==
  \E c \in Conns : Client(c) \/ Accept(c) \/ Drop(c) \/ Dispatch(c) \/ Step(c)

Spec == Init /\ [][Next]_vars

\* The thread never stops in a handler; epoll_wait and accept come round to
\* every descriptor (the ready list is a queue); and clients read.
Fairness ==
  \A c \in Conns : /\ WF_vars(Step(c))
                   /\ WF_vars(Accept(c))
                   /\ WF_vars(Drop(c) \/ Dispatch(c))
                   /\ WF_vars(PeerDrain(c))

FairSpec == Spec /\ Fairness

-----------------------------------------------------------------------------
(* Safety. *)

\* What the loop remembers of a descriptor and what the kernel was told of it
\* agree: fds_ and the epoll registration change together, a known descriptor
\* is watched for something, and a handler never lands in the place of the
\* other one (loop.cpp updates the two by hand on every path).
HandlersMatchEpoll ==
  \A c \in Conns :
    /\ Agree(fd[c])
    /\ fd[c].first \in {"none", "OnRecv"}
    /\ fd[c].second \in {"none", "OnSend"}

\* No call of the loop fails: not the two that start watching, whose failure
\* would reach a handler that was moved away (conn.cpp:98, 113) or abort()
\* (session.cpp:84); not the two that stop watching, which would leave a DEL
\* without its MOD (loop.cpp:52, 104) and fail the assertions of conn.cpp:144
\* and 179; and not the Remove of Conn::Close (conn.cpp:38).
LoopCallsSucceed ==
  /\ pc = "listen" => SetInEvent(fd[cur], "OnRecv").ok
  /\ pc = "watch" => SetOutEvent(fd[cur], "OnSend").ok
  /\ pc = "recv" /\ recv[cur] = 0 /\ sock[cur] = "open" => SetInEvent(fd[cur], "none").ok
  /\ pc = "send" /\ send[cur] = <<>> /\ sock[cur] = "open" => SetOutEvent(fd[cur], "none").ok
  /\ \A c \in Conns : Remove(fd[c]).ok

\* Between events a connection is watched for exactly what it waits for:
\* readable while a receive is pending, writable while anything is queued,
\* nothing once it is closed (AsyncRecv, AsyncSend and the tails of OnRecv and
\* OnSend keep queue and registration in step).
ArmedExactlyWhenWaiting ==
  pc = "wait" =>
    \A c \in Conns :
      /\ "IN" \in fd[c].mask <=> recv[c] > 0
      /\ "OUT" \in fd[c].mask <=> send[c] # <<>>
      /\ sock[c] # "open" => recv[c] = 0 /\ send[c] = <<>>

\* Between events an open connection has one receive pending, or its last
\* queued reply closes it: the server never forgets a client that is neither
\* heard nor going away (the parse-error path of Session::OnRecv stops
\* receiving and relies on the reply to close).
NeverDeaf ==
  pc = "wait" =>
    \A c \in Conns :
      sock[c] = "open" =>
        \/ recv[c] = 1
        \/ recv[c] = 0 /\ send[c] # <<>> /\ send[c][Len(send[c])].close

\* With edge-triggered epoll an edge is reported once.  Between events, when
\* what a connection waits for is possible, it is on the ready list, whatever
\* the client did between the last read or write and the registration.
NoLostWakeup ==
  pc = "wait" =>
    \A c \in Conns :
      \/ rdy[c]
      \/ /\ ~(recv[c] > 0 /\ "IN" \in Poll(c, room[c]))
         /\ ~(send[c] # <<>> /\ "OUT" \in Poll(c, room[c]))

\* Piece i is on the wire, whole and uninterrupted.
Delivered(c, i) ==
  \E p \in 0 .. Len(wire[c]) - PieceSize :
    \A k \in 1 .. PieceSize : wire[c][p + k] = <<i, k>>

\* On an open connection every reply piece is on the wire whole or still
\* queued: none is lost between a short write, the queue and the flush.
NoReplyLost ==
  \A c \in Conns :
    sock[c] = "open" =>
      \A i \in 1 .. issued[c] :
        \/ Delivered(c, i)
        \/ \E j \in 1 .. Len(send[c]) : send[c][j].id = i /\ send[c][j].left > 0

\* Replies go out in the order of the requests: no unit of a piece follows a
\* unit of a later one (a direct write never overtakes the queue).
RepliesInOrder ==
  \A c \in Conns :
    \A p \in 1 .. Len(wire[c]) - 1 : wire[c][p][1] <= wire[c][p + 1][1]

\* When the server closes a connection on its own account (QUIT, or the reply
\* to a malformed request), the client has been sent everything before it:
\* the empty piece of Ctx::Close waits its turn in the queue.
CloseAfterFlush ==
  \A c \in Conns : \A i \in 1 .. closer[c] : Delivered(c, i)

\* The server closes a connection only when the client shut down or reset it,
\* or when a request asked for it.  In the first case replies that are queued
\* are lost, also for a client that still reads (session.cpp:79); in the second
\* those to requests that were pipelined after QUIT, of which not a unit goes
\* out although the requests are executed (connection.cpp:137).
RepliesLostOnlyByClose ==
  \A c \in Conns :
    sock[c] = "closed" /\ peer[c] = "open" =>
      /\ closer[c] > 0
      /\ \A p \in 1 .. Len(wire[c]) : wire[c][p][1] <= closer[c]

\* In a build without assertions the process only goes down in a handler of a
\* client that shut down or reset its connection.
DownOnlyByClient ==
  pc = "down" => peer[cur] \in {"shut", "reset"}

\* A closed connection is closed for good: the loop does not know it, nothing
\* is queued on it, and not a unit is written to it, even while the request
\* that was being handled goes on sending (session.cpp checks closed() only
\* between requests).
ClosedStaysQuiet ==
  [][\A c \in Conns :
       sock[c] = "closed" =>
         /\ sock'[c] = "closed" /\ wire'[c] = wire[c]
         /\ ~fd'[c].known /\ recv'[c] = 0 /\ send'[c] = <<>>]_vars

(* Liveness, under FairSpec. *)

\* Every request that arrives is read, unless the connection closes.
RequestsRead ==
  \A c \in Conns : inbuf[c] # <<>> ~> (inbuf[c] = <<>> \/ pc = "down")

\* Every queued reply leaves the queue while the client reads.
RepliesFlushed ==
  \A c \in Conns : send[c] # <<>> ~> (send[c] = <<>> \/ pc = "down")

\* A client that shut down its side is closed on the server's side as well.
EofCloses ==
  \A c \in Conns : peer[c] = "shut" ~> (sock[c] = "closed" \/ pc = "down" \/ peer[c] = "reset")

-----------------------------------------------------------------------------
(* What comments in the source say, and the code does not do. *)

\* conn.hpp:49, "send the data in slice, and call the handler when it is
\* sent": what is on the wire is the pieces, unit after unit.
WireIsStream ==
  \A c \in Conns :
    \A p \in 1 .. Len(wire[c]) :
      wire[c][p] = <<((p - 1) \div PieceSize) + 1, ((p - 1) % PieceSize) + 1>>

\* conn.cpp:140 provides for a handler that closes the connection ("when the
\* connection is closed in a callback, loop_ is nullptr"); the loop must then
\* not throw.
ClosingInHandlerIsSafe == fault # "throw"

=============================================================================
