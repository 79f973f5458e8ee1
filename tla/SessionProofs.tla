---------------------------- MODULE SessionProofs ----------------------------
(***************************************************************************)
(* Theorems about Session, for any set of connections, any sizes, and both *)
(* builds.  TypeOK comes first; the registration invariant rests on it.    *)
(* The last parts are about the events of the connections and rest on that *)
(* one: with edge-triggered epoll no wakeup is lost, and without           *)
(* assertions the process only goes down in a handler of a client that is  *)
(* gone.                                                                   *)
(***************************************************************************)
EXTENDS Session, SequenceTheorems, TLAPS

USE SizesAssumption, SwitchesAssumption

-----------------------------------------------------------------------------
(* The operators that the actions are made of. *)

\* The operations of the loop keep a descriptor a descriptor (loop.cpp:23-137).
LEMMA DescriptorTyped ==
  ASSUME NEW d \in Descriptors, NEW h \in Handlers
  PROVE  /\ SetInEvent(d, h).fd \in Descriptors
         /\ SetOutEvent(d, h).fd \in Descriptors
         /\ Remove(d).fd \in Descriptors
         /\ Unknown \in Descriptors
  BY DEF Descriptors, Handlers, Events, SetInEvent, SetOutEvent, Remove, Add,
         Mod, DelThenMod, Answer, Wanted, Unknown

\* A request sends a sequence of pieces (connection.cpp:134-138).
LEMMA ScriptTyped ==
  ASSUME NEW r \in Requests
  PROVE  Script(r) \in Seq(Sends)
<1>1. r.pieces \in Nat
  <2>1. CASE r \in Commands
    BY <2>1 DEF Commands
  <2>2. CASE r \in {Quit, Bad}
    BY <2>2 DEF Quit, Bad
  <2>3. r \in Commands \/ r \in {Quit, Bad}
    BY Zenon DEF Requests
  <2> QED
    BY <2>1, <2>2, <2>3
<1>2. [i \in 1 .. r.pieces |-> [len |-> PieceSize, close |-> FALSE]] \in Seq(Sends)
  <2> DEFINE piece == [len |-> PieceSize, close |-> FALSE]
  <2>1. piece \in Sends
    BY DEF Sends
  <2> HIDE DEF piece
  <2>2. [i \in 1 .. r.pieces |-> piece] \in [1 .. r.pieces -> Sends]
    BY <2>1
  <2>3. [i \in 1 .. r.pieces |-> piece] \in Seq(Sends)
    BY <1>1, <2>2, SeqDef
  <2> QED
    BY <2>3 DEF piece
<1>3. <<[len |-> 0, close |-> TRUE]>> \in Seq(Sends)
  BY DEF Sends
<1>4. <<>> \in Seq(Sends)
  OBVIOUS
<1> QED
  BY <1>2, <1>3, <1>4 DEF Script

\* A part of a sequence has the type of the sequence.
LEMMA SubSeqTyped ==
  ASSUME NEW S, NEW s \in Seq(S),
         NEW m \in 1 .. Len(s) + 1, NEW n \in 0 .. Len(s)
  PROVE  SubSeq(s, m, n) \in Seq(S)
<1>1. \A i \in 1 .. Len(s) : s[i] \in S
  BY ElementOfSeq
<1>2. Len(s) \in Nat
  BY LenProperties
<1>3. m \in Int /\ n \in Int /\ \A i \in m .. n : s[i] \in S
  BY <1>1, <1>2
<1> QED
  BY <1>3, SubSeqProperties, Zenon

\* A write within the piece and the room keeps the wire and the room typed.
LEMMA WriteTyped ==
  ASSUME wire \in [Conns -> Seq(Nat \X (1 .. PieceSize))],
         room \in [Conns -> 0 .. Capacity],
         NEW c \in Conns, NEW id \in Nat, NEW done \in Nat, NEW n \in Nat,
         done + n <= PieceSize, n <= room[c],
         Write(c, id, done, n)
  PROVE  /\ wire' \in [Conns -> Seq(Nat \X (1 .. PieceSize))]
         /\ room' \in [Conns -> 0 .. Capacity]
<1> DEFINE units == [k \in 1 .. n |-> <<id, done + k>>]
<1>1. \A k \in 1 .. n : <<id, done + k>> \in Nat \X (1 .. PieceSize)
  OBVIOUS
<1>2. units \in Seq(Nat \X (1 .. PieceSize))
  <2>1. units \in [1 .. n -> Nat \X (1 .. PieceSize)]
    BY <1>1
  <2> QED
    BY <2>1, SeqDef
<1> HIDE DEF units
<1>3. wire[c] \o units \in Seq(Nat \X (1 .. PieceSize))
  BY <1>2
<1>4. wire' = [wire EXCEPT ![c] = @ \o units]
  BY DEF Write, units
<1>5. wire' \in [Conns -> Seq(Nat \X (1 .. PieceSize))]
  BY <1>3, <1>4
<1>6. room' \in [Conns -> 0 .. Capacity]
  BY DEF Write
<1> QED
  BY <1>5, <1>6

-----------------------------------------------------------------------------
(* Type correctness. *)

\* What a step leaves alone stays typed.
LEMMA TypedUnchanged ==
  /\ ClientsTyped /\ UNCHANGED clientVars => ClientsTyped'
  /\ BuffersTyped /\ UNCHANGED bufVars => BuffersTyped'
  /\ LoopTyped /\ UNCHANGED loopVars => LoopTyped'
  /\ ConnsTyped /\ UNCHANGED connVars => ConnsTyped'
  /\ HistoryTyped /\ UNCHANGED histVars => HistoryTyped'
  /\ ThreadTyped /\ UNCHANGED ctlVars => ThreadTyped'
<1>1. ClientsTyped /\ UNCHANGED clientVars => ClientsTyped'
  BY DEF ClientsTyped, clientVars
<1>2. BuffersTyped /\ UNCHANGED bufVars => BuffersTyped'
  BY DEF BuffersTyped, bufVars
<1>3. LoopTyped /\ UNCHANGED loopVars => LoopTyped'
  BY DEF LoopTyped, loopVars
<1>4. ConnsTyped /\ UNCHANGED connVars => ConnsTyped'
  BY DEF ConnsTyped, connVars
<1>5. HistoryTyped /\ UNCHANGED histVars => HistoryTyped'
  BY DEF HistoryTyped, histVars
<1>6. ThreadTyped /\ UNCHANGED ctlVars => ThreadTyped'
  BY DEF ThreadTyped, ctlVars, localVars
<1> QED
  BY <1>1, <1>2, <1>3, <1>4, <1>5, <1>6

\* A registration and Conn::Close keep the records of the loop typed.
LEMMA RegisterTyped ==
  ASSUME LoopTyped, NEW c \in Conns, NEW answer, answer.fd \in Descriptors,
         Register(c, answer)
  PROVE  LoopTyped'
  BY DEF LoopTyped, Register

\* Conn::Close keeps the types of what it changes (conn.cpp:29-44).
LEMMA CloseTyped ==
  ASSUME LoopTyped, ConnsTyped, BuffersTyped, NEW c \in Conns, Close(c)
  PROVE  /\ LoopTyped'
         /\ ConnsTyped'
         /\ inbuf' \in [Conns -> Seq(Requests)]
<1>1. Remove(fd[c]).fd \in Descriptors
  <2>1. fd[c] \in Descriptors /\ "none" \in Handlers
    BY DEF LoopTyped, Handlers
  <2> QED
    BY <2>1, DescriptorTyped
<1>2. LoopTyped'
  BY <1>1 DEF LoopTyped, Close
<1>3. <<>> \in Seq(SendReqs) /\ <<>> \in Seq(Requests)
  OBVIOUS
<1>4. ConnsTyped' /\ inbuf' \in [Conns -> Seq(Requests)]
  BY <1>3 DEF ConnsTyped, BuffersTyped, Close
<1> QED
  BY <1>2, <1>4

\* The places the thread goes to.
LEMMA ThreadMoves ==
  ASSUME ThreadTyped, ConnsAssumption
  PROVE  /\ Wait => ThreadTyped'
         /\ pc # "wait" /\ (\E l \in {"recv", "arm", "listen", "serve", "watch",
                                    "out", "send"} : Goto(l)) => ThreadTyped'
         /\ pc # "wait" /\ (\E why \in {"assert", "throw", "abort"} : Down(why))
              => ThreadTyped'
         /\ pc # "wait" /\ Return => ThreadTyped'
         /\ Sending /\ NextPiece => ThreadTyped'
<1>1. <<>> \in Seq(Requests) /\ <<>> \in Seq(Sends)
  OBVIOUS
<1>2. Wait => ThreadTyped'
  BY <1>1 DEF ThreadTyped, Wait, Events, ConnsAssumption
<1>3. ASSUME pc # "wait",
             NEW l \in {"recv", "arm", "listen", "serve", "watch", "out", "send"},
             Goto(l)
      PROVE  ThreadTyped'
  BY <1>3 DEF ThreadTyped, Goto, localVars
<1>4. ASSUME pc # "wait", NEW why \in {"assert", "throw", "abort"}, Down(why)
      PROVE  ThreadTyped'
  BY <1>4 DEF ThreadTyped, Down, localVars
<1>5. pc # "wait" /\ Return => ThreadTyped'
  BY <1>2, <1>3 DEF Return
<1>6. Sending /\ NextPiece => ThreadTyped'
  <2> SUFFICES ASSUME Sending, NextPiece PROVE ThreadTyped'
    OBVIOUS
  <2>1. Tail(outs) \in Seq(Sends)
    BY HeadTailProperties DEF ThreadTyped, Sending
  <2> QED
    BY <2>1 DEF ThreadTyped, Sending, NextPiece
<1> QED
  BY <1>2, <1>3, <1>4, <1>5, <1>6

\* Init is well typed.
LEMMA TypeInit == Init => TypeOK
<1> SUFFICES ASSUME Init PROVE TypeOK
  OBVIOUS
<1>1. Unknown \in Descriptors
  BY DEF Unknown, Descriptors, Handlers, Events
<1>2. /\ <<>> \in Seq(Requests)
      /\ <<>> \in Seq(Sends)
      /\ <<>> \in Seq(SendReqs)
      /\ <<>> \in Seq(Nat \X (1 .. PieceSize))
  OBVIOUS
<1>3. ClientsTyped /\ BuffersTyped
  BY <1>2 DEF Init, ClientsTyped, BuffersTyped
<1>4. LoopTyped /\ ConnsTyped /\ HistoryTyped
  BY <1>1, <1>2 DEF Init, LoopTyped, ConnsTyped, HistoryTyped
<1>5. ThreadTyped
  BY <1>2, ConnsAssumption DEF Init, ThreadTyped, Events, ConnsAssumption
<1> QED
  BY <1>3, <1>4, <1>5 DEF TypeOK

\* The steps of the clients keep the types.
LEMMA TypeClient ==
  ASSUME TypeOK, NEW c \in Conns, Client(c)
  PROVE  TypeOK'
<1> USE DEF TypeOK
<1>1. ConnsTyped' /\ HistoryTyped' /\ ThreadTyped'
  <2>1. UNCHANGED <<connVars, histVars, ctlVars>>
    BY DEF Client, PeerConnect, PeerSend, PeerShut, PeerReset, PeerDrain
  <2> QED
    BY <2>1, TypedUnchanged
<1>2. CASE PeerConnect(c)
  <2>1. ClientsTyped'
    BY <1>2 DEF ClientsTyped, PeerConnect
  <2>2. UNCHANGED bufVars /\ UNCHANGED loopVars
    BY <1>2 DEF PeerConnect
  <2> QED
    BY <1>1, <2>1, <2>2, TypedUnchanged
<1>3. ASSUME NEW r \in Requests, PeerSend(c, r)
      PROVE  TypeOK'
  <2>1. ClientsTyped'
    BY <1>3 DEF ClientsTyped, PeerSend
  <2>2. Append(inbuf[c], r) \in Seq(Requests)
    BY AppendProperties DEF BuffersTyped
  <2>3. BuffersTyped'
    BY <1>3, <2>2 DEF BuffersTyped, PeerSend
  <2>4. LoopTyped'
    BY <1>3 DEF LoopTyped, PeerSend, Edge
  <2> QED
    BY <1>1, <2>1, <2>3, <2>4
<1>4. CASE PeerShut(c) \/ PeerReset(c)
  <2>1. ClientsTyped'
    BY <1>4 DEF ClientsTyped, PeerShut, PeerReset
  <2>2. UNCHANGED bufVars
    BY <1>4 DEF PeerShut, PeerReset
  <2>3. LoopTyped'
    BY <1>4 DEF LoopTyped, PeerShut, PeerReset, Edge
  <2> QED
    BY <1>1, <2>1, <2>2, <2>3, TypedUnchanged
<1>5. CASE PeerDrain(c)
  <2>1. UNCHANGED clientVars
    BY <1>5 DEF PeerDrain
  <2>2. BuffersTyped'
    BY <1>5 DEF BuffersTyped, PeerDrain
  <2>3. LoopTyped'
    BY <1>5 DEF LoopTyped, PeerDrain, Edge
  <2> QED
    BY <1>1, <2>1, <2>2, <2>3, TypedUnchanged
<1> QED
  BY <1>2, <1>3, <1>4, <1>5 DEF Client

\* The steps of Loop::Run and Server::OnAccept keep the types.
LEMMA TypeLoop ==
  ASSUME TypeOK, NEW c \in Conns,
         Accept(c) \/ Drop(c) \/ Dispatch(c) \/ (RunOut(c) /\ cur = c)
  PROVE  TypeOK'
<1> USE DEF TypeOK
<1>1. ClientsTyped' /\ BuffersTyped' /\ HistoryTyped'
  <2>1. UNCHANGED clientVars /\ UNCHANGED bufVars /\ UNCHANGED histVars
    BY DEF Accept, Drop, Dispatch, RunOut
  <2> QED
    BY <2>1, TypedUnchanged
<1>2. CASE Accept(c)
  <2>1. UNCHANGED loopVars /\ ConnsTyped'
    BY <1>2 DEF Accept, ConnsTyped
  <2>2. ThreadTyped'
    BY <1>2 DEF Accept, ThreadTyped
  <2> QED
    BY <1>1, <2>1, <2>2, TypedUnchanged
<1>3. CASE Drop(c)
  <2>1. LoopTyped'
    BY <1>3 DEF Drop, LoopTyped
  <2>2. UNCHANGED connVars /\ UNCHANGED ctlVars
    BY <1>3 DEF Drop
  <2> QED
    BY <1>1, <2>1, <2>2, TypedUnchanged
<1>4. CASE Dispatch(c)
  <2>1. LoopTyped' /\ UNCHANGED connVars
    BY <1>4 DEF Dispatch, LoopTyped
  <2>2. fd[c].mask \in SUBSET Events
    BY DEF LoopTyped, Descriptors
  <2>3. ThreadTyped'
    BY <1>4, <2>2 DEF Dispatch, ThreadTyped
  <2> QED
    BY <1>1, <2>1, <2>3, TypedUnchanged
<1>5. CASE RunOut(c) /\ cur = c
  <2>1. UNCHANGED loopVars /\ UNCHANGED connVars
    BY <1>5 DEF RunOut
  <2>2. ThreadTyped'
    BY <1>5, ThreadMoves, ConnsAssumption DEF RunOut
  <2> QED
    BY <1>1, <2>1, <2>2, TypedUnchanged
<1> QED
  BY <1>2, <1>3, <1>4, <1>5

\* Reading keeps the types.
LEMMA TypeRead ==
  ASSUME TypeOK, NEW c \in Conns, cur = c,
         \/ ReadData(c) \/ ReadEof(c) \/ ReadError(c) \/ OnRecvAgain(c)
         \/ AsyncRecvAgain(c) \/ AsyncRecvListen(c) \/ OnRecvTail(c)
  PROVE  TypeOK'
<1> USE DEF TypeOK
<1>1. ClientsTyped' /\ HistoryTyped'
  <2>1. UNCHANGED clientVars /\ UNCHANGED histVars
    BY DEF ReadData, ReadEof, ReadError, OnRecvAgain, AsyncRecvAgain,
           AsyncRecvListen, OnRecvTail
  <2> QED
    BY <2>1, TypedUnchanged
<1>2. CASE ReadData(c)
  <2>1. PICK n \in 1 .. Len(inbuf[c]) :
          /\ inbuf' = [inbuf EXCEPT ![c] = SubSeq(@, n + 1, Len(@))]
          /\ Parse(SubSeq(inbuf[c], 1, n))
    BY <1>2 DEF ReadData
  <2>2. inbuf[c] \in Seq(Requests)
    BY DEF BuffersTyped
  <2>3. /\ SubSeq(inbuf[c], 1, n) \in Seq(Requests)
        /\ SubSeq(inbuf[c], n + 1, Len(inbuf[c])) \in Seq(Requests)
    <3>1. Len(inbuf[c]) \in Nat
      BY <2>2, LenProperties
    <3>2. /\ 1 \in 1 .. Len(inbuf[c]) + 1
          /\ n \in 0 .. Len(inbuf[c])
          /\ n + 1 \in 1 .. Len(inbuf[c]) + 1
          /\ Len(inbuf[c]) \in 0 .. Len(inbuf[c])
      BY <3>1
    <3> QED
      BY <2>2, <3>2, SubSeqTyped, Zenon
  <2>4. BuffersTyped'
    BY <1>2, <2>1, <2>3 DEF ReadData, BuffersTyped
  <2>5. ConnsTyped'
    <3>1. recv' \in [Conns -> Nat]
      BY <1>2 DEF ReadData, Reading, Popped, ConnsTyped
    <3> QED
      BY <1>2, <3>1 DEF ReadData, ConnsTyped
  <2>6. ThreadTyped'
    <3>1. <<[len |-> PieceSize, close |-> TRUE]>> \in Seq(Sends)
      BY DEF Sends
    <3>2. pc # "wait"
      BY <1>2 DEF ReadData, Reading
    <3>3. <<>> \in Seq(Requests) /\ <<>> \in Seq(Sends)
      OBVIOUS
    <3> DEFINE batch == SubSeq(inbuf[c], 1, n)
    <3>4. batch \in Seq(Requests) /\ Parse(batch)
      BY <2>1, <2>3
    <3> HIDE DEF batch
    <3>5. reqs' \in Seq(Requests) /\ outs' \in Seq(Sends)
      BY <3>1, <3>3, <3>4 DEF Parse
    <3> QED
      BY <3>2, <3>4, <3>5 DEF Parse, ThreadTyped
  <2>7. UNCHANGED loopVars
    BY <1>2 DEF ReadData
  <2> QED
    BY <1>1, <2>4, <2>5, <2>6, <2>7, TypedUnchanged
<1>3. CASE ReadEof(c)
  <2>1. LoopTyped' /\ ConnsTyped' /\ BuffersTyped'
    BY <1>3, CloseTyped DEF ReadEof, BuffersTyped
  <2>2. ThreadTyped'
    BY <1>3, ThreadMoves, ConnsAssumption DEF ReadEof, Reading
  <2> QED
    BY <1>1, <2>1, <2>2
<1>4. CASE ReadError(c) \/ OnRecvAgain(c) \/ AsyncRecvAgain(c)
  <2>1. UNCHANGED bufVars /\ UNCHANGED loopVars /\ UNCHANGED connVars
    BY <1>4 DEF ReadError, OnRecvAgain, AsyncRecvAgain
  <2>2. ThreadTyped'
    BY <1>4, ThreadMoves, ConnsAssumption
       DEF ReadError, OnRecvAgain, AsyncRecvAgain, Reading
  <2> QED
    BY <1>1, <2>1, <2>2, TypedUnchanged
<1>5. CASE AsyncRecvListen(c)
  <2>1. UNCHANGED bufVars /\ ConnsTyped'
    BY <1>5 DEF AsyncRecvListen, ConnsTyped
  <2>2. SetInEvent(fd[c], "OnRecv").fd \in Descriptors
    BY DescriptorTyped DEF LoopTyped, Handlers
  <2>3. LoopTyped'
    BY <1>5, <2>2, RegisterTyped DEF AsyncRecvListen
  <2>4. ThreadTyped'
    BY <1>5, ThreadMoves, ConnsAssumption DEF AsyncRecvListen
  <2> QED
    BY <1>1, <2>1, <2>3, <2>4, TypedUnchanged
<1>6. CASE OnRecvTail(c)
  <2>1. UNCHANGED bufVars /\ UNCHANGED connVars
    BY <1>6 DEF OnRecvTail
  <2>2. SetInEvent(fd[c], "none").fd \in Descriptors
    BY DescriptorTyped DEF LoopTyped, Handlers
  <2>3. LoopTyped'
    BY <1>6, <2>2, RegisterTyped, TypedUnchanged DEF OnRecvTail
  <2>4. ThreadTyped'
    BY <1>6, ThreadMoves, ConnsAssumption DEF OnRecvTail
  <2> QED
    BY <1>1, <2>1, <2>3, <2>4, TypedUnchanged
<1> QED
  BY <1>2, <1>3, <1>4, <1>5, <1>6

\* Handling the requests and sending their pieces keeps the types.
LEMMA RequestTyped ==
  ASSUME TypeOK, NEW c \in Conns, Sending
  PROVE  /\ Head(outs) \in Sends
         /\ PieceId(c) \in Nat
         /\ Request(c, Head(outs).len) \in SendReqs
<1>1. Head(outs) \in Sends
  BY HeadTailProperties DEF TypeOK, ThreadTyped, Sending
<1>2. issued[c] \in Nat
  BY DEF TypeOK, HistoryTyped
<1>3. PieceId(c) \in Nat
  BY <1>2 DEF PieceId
<1> QED
  BY <1>1, <1>3 DEF Request, Sends, SendReqs

\* So does Session::OnSend, with or without the close (session.cpp:107-119).
LEMMA SentTyped ==
  ASSUME TypeOK, NEW c \in Conns, NEW id \in Nat, NEW close \in BOOLEAN,
         Sent(c, id, close)
  PROVE  /\ LoopTyped'
         /\ ConnsTyped'
         /\ inbuf' \in [Conns -> Seq(Requests)]
         /\ closer' \in [Conns -> Nat]
<1> USE DEF TypeOK
<1>1. CASE close
  <2>1. Close(c) /\ closer' = [closer EXCEPT ![c] = IF sock[c] = "open" THEN id ELSE @]
    BY <1>1 DEF Sent
  <2>2. closer' \in [Conns -> Nat]
    BY <2>1 DEF HistoryTyped
  <2> QED
    BY <2>1, <2>2, CloseTyped
<1>2. CASE ~close
  <2>1. UNCHANGED <<inbuf, loopVars, connVars, closer>>
    BY <1>2 DEF Sent
  <2>2. LoopTyped' /\ ConnsTyped'
    BY <2>1, TypedUnchanged
  <2> QED
    BY <2>1, <2>2 DEF BuffersTyped, HistoryTyped
<1> QED
  BY <1>1, <1>2

\* The steps of the loop in Session::OnRecv keep the types.
LEMMA TypeServe ==
  ASSUME TypeOK, NEW c \in Conns, cur = c,
         \/ Handle(c) \/ Rearm(c) \/ GiveUp(c)
         \/ SendQueued(c) \/ SendEmpty(c) \/ SendFails(c) \/ SendWhole(c)
         \/ SendPart(c) \/ AsyncSendWatch(c)
  PROVE  TypeOK'
<1> USE DEF TypeOK
<1>1. ClientsTyped'
  <2>1. UNCHANGED clientVars
    BY DEF Handle, Rearm, GiveUp, SendQueued, SendEmpty, SendFails, SendWhole,
           SendPart, AsyncSendWatch
  <2> QED
    BY <2>1, TypedUnchanged
<1>2. CASE Handle(c) \/ Rearm(c) \/ GiveUp(c)
  <2>1. /\ UNCHANGED bufVars /\ UNCHANGED loopVars
        /\ UNCHANGED connVars /\ UNCHANGED histVars
    BY <1>2 DEF Handle, Rearm, GiveUp
  <2>2. CASE Handle(c)
    <3>1. Head(reqs) \in Requests /\ Tail(reqs) \in Seq(Requests)
      BY <2>2, HeadTailProperties DEF Handle, ThreadTyped
    <3>2. Script(Head(reqs)) \in Seq(Sends)
      BY <3>1, ScriptTyped
    <3> QED
      BY <1>1, <2>1, <2>2, <3>1, <3>2, TypedUnchanged DEF Handle, ThreadTyped
  <2>3. CASE Rearm(c)
    <3>1. ThreadTyped'
      BY <2>3, ThreadMoves, ConnsAssumption DEF Rearm
    <3> QED
      BY <1>1, <2>1, <3>1, TypedUnchanged
  <2>4. CASE GiveUp(c)
    <3>1. <<>> \in Seq(Requests)
      OBVIOUS
    <3>2. CASE base = "start"
      BY <1>1, <2>1, <2>4, <3>2, ThreadMoves, TypedUnchanged, ConnsAssumption DEF GiveUp
    <3>3. CASE base # "start"
      BY <1>1, <2>1, <2>4, <3>1, <3>3, TypedUnchanged DEF GiveUp, ThreadTyped
    <3> QED
      BY <3>2, <3>3
  <2> QED
    BY <1>2, <2>2, <2>3, <2>4
<1>3. CASE SendQueued(c)
  <2>1. Request(c, Head(outs).len) \in SendReqs /\ PieceId(c) \in Nat
    BY <1>3, RequestTyped DEF SendQueued
  <2>2. ConnsTyped'
    <3>1. Append(send[c], Request(c, Head(outs).len)) \in Seq(SendReqs)
      BY <2>1, AppendProperties DEF ConnsTyped
    <3> QED
      BY <1>3, <3>1 DEF SendQueued, ConnsTyped
  <2>3. HistoryTyped'
    BY <1>3, <2>1 DEF SendQueued, Issue, HistoryTyped
  <2>4. UNCHANGED bufVars /\ UNCHANGED loopVars
    BY <1>3 DEF SendQueued
  <2>5. ThreadTyped'
    BY <1>3, ThreadMoves, ConnsAssumption DEF SendQueued
  <2> QED
    BY <1>1, <2>2, <2>3, <2>4, <2>5, TypedUnchanged
<1>4. CASE SendEmpty(c)
  <2>1. PieceId(c) \in Nat /\ Head(outs).close \in BOOLEAN
    BY <1>4, RequestTyped DEF SendEmpty, Sends
  <2>2. /\ LoopTyped' /\ ConnsTyped'
        /\ inbuf' \in [Conns -> Seq(Requests)] /\ closer' \in [Conns -> Nat]
    BY <1>4, <2>1, SentTyped DEF SendEmpty
  <2>3. BuffersTyped' /\ HistoryTyped'
    BY <1>4, <2>2 DEF SendEmpty, BuffersTyped, HistoryTyped
  <2>4. ThreadTyped'
    BY <1>4, ThreadMoves, ConnsAssumption DEF SendEmpty, Sending
  <2> QED
    BY <1>1, <2>2, <2>3, <2>4
<1>5. CASE SendFails(c)
  <2>1. LoopTyped' /\ ConnsTyped' /\ BuffersTyped'
    BY <1>5, CloseTyped DEF SendFails, BuffersTyped
  <2>2. HistoryTyped'
    BY <1>5, TypedUnchanged DEF SendFails
  <2>3. ThreadTyped'
    BY <1>5, ThreadMoves, ConnsAssumption DEF SendFails, Sending
  <2> QED
    BY <1>1, <2>1, <2>2, <2>3
<1>6. CASE SendWhole(c)
  <2>0. Sending
    BY <1>6 DEF SendWhole, Writable
  <2>1. /\ PieceId(c) \in Nat /\ Head(outs).close \in BOOLEAN
        /\ Head(outs).len \in 0 .. PieceSize
    BY <2>0, RequestTyped DEF Sends
  <2>2. /\ LoopTyped' /\ ConnsTyped'
        /\ inbuf' \in [Conns -> Seq(Requests)] /\ closer' \in [Conns -> Nat]
    BY <1>6, <2>1, SentTyped DEF SendWhole
  <2>3. /\ wire' \in [Conns -> Seq(Nat \X (1 .. PieceSize))]
        /\ room' \in [Conns -> 0 .. Capacity]
    BY <1>6, <2>1, WriteTyped DEF SendWhole, BuffersTyped
  <2>4. BuffersTyped' /\ HistoryTyped'
    BY <1>6, <2>1, <2>2, <2>3 DEF SendWhole, Issue, BuffersTyped, HistoryTyped
  <2>5. ThreadTyped'
    BY <1>6, <2>0, ThreadMoves, ConnsAssumption DEF SendWhole, Sending
  <2> QED
    BY <1>1, <2>2, <2>4, <2>5
<1>7. CASE SendPart(c)
  <2>0. Sending
    BY <1>7 DEF SendPart, Writable
  <2>1. /\ Request(c, Head(outs).len) \in SendReqs /\ PieceId(c) \in Nat
        /\ Head(outs).len \in 0 .. PieceSize
    BY <2>0, RequestTyped DEF Sends
  <2>2. room[c] \in 0 .. Capacity /\ room[c] <= PieceSize
    BY <1>7, <2>1 DEF SendPart, BuffersTyped
  <2>3. /\ wire' \in [Conns -> Seq(Nat \X (1 .. PieceSize))]
        /\ room' \in [Conns -> 0 .. Capacity]
    BY <1>7, <2>1, <2>2, WriteTyped DEF SendPart, BuffersTyped
  <2>4. BuffersTyped' /\ HistoryTyped' /\ LoopTyped'
    BY <1>7, <2>1, <2>3, TypedUnchanged
       DEF SendPart, Issue, BuffersTyped, HistoryTyped
  <2>5. ConnsTyped'
    <3>1. Append(send[c], Request(c, Head(outs).len)) \in Seq(SendReqs)
      BY <2>1, AppendProperties DEF ConnsTyped
    <3> QED
      BY <1>7, <3>1 DEF SendPart, ConnsTyped
  <2>6. ThreadTyped'
    <3>1. Tail(outs) \in Seq(Sends)
      BY <2>0, HeadTailProperties DEF ThreadTyped, Sending
    <3> QED
      BY <1>7, <2>0, <3>1 DEF SendPart, Sending, ThreadTyped
  <2> QED
    BY <1>1, <2>4, <2>5, <2>6
<1>8. CASE AsyncSendWatch(c)
  <2>1. UNCHANGED bufVars /\ UNCHANGED connVars /\ UNCHANGED histVars
    BY <1>8 DEF AsyncSendWatch
  <2>2. SetOutEvent(fd[c], "OnSend").fd \in Descriptors
    BY DescriptorTyped DEF LoopTyped, Handlers
  <2>3. LoopTyped'
    BY <1>8, <2>2, RegisterTyped DEF AsyncSendWatch
  <2>4. ThreadTyped'
    BY <1>8, ThreadMoves, ConnsAssumption DEF AsyncSendWatch
  <2> QED
    BY <1>1, <2>1, <2>3, <2>4, TypedUnchanged
<1> QED
  BY <1>2, <1>3, <1>4, <1>5, <1>6, <1>7, <1>8

\* Flushing the queue keeps the types.
LEMMA TypeFlush ==
  ASSUME TypeOK, NEW c \in Conns, cur = c,
         OnSendFails(c) \/ OnSendWhole(c) \/ OnSendPart(c) \/ OnSendTail(c)
  PROVE  TypeOK'
<1> USE DEF TypeOK
<1>1. ClientsTyped'
  <2>1. UNCHANGED clientVars
    BY DEF OnSendFails, OnSendWhole, OnSendPart, OnSendTail
  <2> QED
    BY <2>1, TypedUnchanged
<1>2. CASE OnSendFails(c)
  <2>1. LoopTyped' /\ ConnsTyped' /\ BuffersTyped'
    BY <1>2, CloseTyped DEF OnSendFails, BuffersTyped
  <2>2. HistoryTyped'
    BY <1>2, TypedUnchanged DEF OnSendFails
  <2>3. ThreadTyped'
    BY <1>2, ThreadMoves, ConnsAssumption DEF OnSendFails
  <2> QED
    BY <1>1, <2>1, <2>2, <2>3
<1> DEFINE front == Head(send[c])
<1>3. send[c] # <<>> =>
        /\ front \in SendReqs
        /\ Tail(send[c]) \in Seq(SendReqs)
  BY HeadTailProperties DEF ConnsTyped
<1>4. CASE OnSendWhole(c)
  <2>1. /\ front.id \in Nat /\ front.left \in 0 .. PieceSize
        /\ front.close \in BOOLEAN
    BY <1>3, <1>4 DEF OnSendWhole, SendReqs
  <2>2. /\ wire' \in [Conns -> Seq(Nat \X (1 .. PieceSize))]
        /\ room' \in [Conns -> 0 .. Capacity]
    <3>1. /\ PieceSize - front.left \in Nat /\ front.left \in Nat
          /\ (PieceSize - front.left) + front.left <= PieceSize
      BY <2>1
    <3> QED
      BY <1>4, <2>1, <3>1, WriteTyped DEF OnSendWhole, BuffersTyped
  <2>3. /\ LoopTyped' /\ ConnsTyped'
        /\ inbuf' \in [Conns -> Seq(Requests)] /\ closer' \in [Conns -> Nat]
    <3>1. CASE front.close
      BY <1>4, <2>1, <3>1, SentTyped DEF OnSendWhole
    <3>2. CASE ~front.close
      <4>1. PopSend(c) /\ UNCHANGED <<inbuf, loopVars, sock, recv, closer>>
        BY <1>4, <3>2 DEF OnSendWhole
      <4>2. ConnsTyped'
        BY <1>3, <1>4, <4>1 DEF OnSendWhole, PopSend, ConnsTyped
      <4>3. LoopTyped'
        BY <4>1, TypedUnchanged
      <4> QED
        BY <4>1, <4>2, <4>3 DEF BuffersTyped, HistoryTyped
    <3> QED
      BY <2>1, <3>1, <3>2
  <2>4. BuffersTyped' /\ HistoryTyped'
    BY <1>4, <2>2, <2>3 DEF OnSendWhole, BuffersTyped, HistoryTyped
  <2>5. ThreadTyped'
    BY <1>4, ThreadMoves, ConnsAssumption DEF OnSendWhole
  <2> QED
    BY <1>1, <2>3, <2>4, <2>5
<1>5. CASE OnSendPart(c)
  <2>1. /\ front \in SendReqs /\ front.id \in Nat /\ front.left \in 0 .. PieceSize
        /\ room[c] \in 0 .. Capacity /\ room[c] < front.left
    BY <1>3, <1>5 DEF OnSendPart, SendReqs, BuffersTyped
  <2>2. /\ wire' \in [Conns -> Seq(Nat \X (1 .. PieceSize))]
        /\ room' \in [Conns -> 0 .. Capacity]
    <3>1. /\ PieceSize - front.left \in Nat /\ room[c] \in Nat
          /\ (PieceSize - front.left) + room[c] <= PieceSize
      BY <2>1
    <3> QED
      <4>1. Write(c, front.id, PieceSize - front.left, room[c])
        BY <1>5 DEF OnSendPart
      <4>2. room[c] <= room[c]
        BY <2>1
      <4> HIDE DEF front
      <4> QED
        BY <2>1, <3>1, <4>1, <4>2, WriteTyped DEF BuffersTyped
  <2>3. ConnsTyped'
    <3> DEFINE rest == [front EXCEPT !.left = @ - room[c]]
    <3>1. rest \in SendReqs
      BY <2>1 DEF SendReqs
    <3> HIDE DEF rest
    <3>2. <<rest>> \o Tail(send[c]) \in Seq(SendReqs)
      BY <1>3, <1>5, <3>1, ConcatProperties DEF OnSendPart
    <3>3. send' = [send EXCEPT ![c] = <<rest>> \o Tail(@)]
      BY <1>5 DEF OnSendPart, rest
    <3> QED
      BY <1>5, <3>2, <3>3 DEF OnSendPart, ConnsTyped
  <2>4. BuffersTyped' /\ HistoryTyped' /\ LoopTyped'
    BY <1>5, <2>2, TypedUnchanged DEF OnSendPart, BuffersTyped
  <2>5. ThreadTyped'
    BY <1>5, ThreadMoves, ConnsAssumption DEF OnSendPart
  <2> QED
    BY <1>1, <2>3, <2>4, <2>5
<1>6. CASE OnSendTail(c)
  <2>1. UNCHANGED bufVars /\ UNCHANGED connVars /\ UNCHANGED histVars
    BY <1>6 DEF OnSendTail
  <2>2. SetOutEvent(fd[c], "none").fd \in Descriptors
    BY DescriptorTyped DEF LoopTyped, Handlers
  <2>3. LoopTyped'
    BY <1>6, <2>2, RegisterTyped, TypedUnchanged DEF OnSendTail
  <2>4. ThreadTyped'
    BY <1>6, ThreadMoves, ConnsAssumption DEF OnSendTail
  <2> QED
    BY <1>1, <2>1, <2>3, <2>4, TypedUnchanged
<1> QED
  BY <1>2, <1>4, <1>5, <1>6

\* Every step keeps the types.
LEMMA TypeNext ==
  ASSUME TypeOK, [Next]_vars
  PROVE  TypeOK'
<1>1. CASE UNCHANGED vars
  BY <1>1, TypedUnchanged DEF vars, TypeOK
<1>2. ASSUME NEW c \in Conns,
             Client(c) \/ Accept(c) \/ Drop(c) \/ Dispatch(c) \/ Step(c)
      PROVE  TypeOK'
  BY <1>2, TypeClient, TypeLoop, TypeRead, TypeServe, TypeFlush DEF Step
<1> QED
  BY <1>1, <1>2 DEF Next

\* Every reachable state is well typed: no pending-receive count goes below
\* zero, no queued slice is longer than its piece, and the thread is in a
\* handler exactly when it runs one of the connections.
THEOREM TypeCorrect == Spec => []TypeOK
<1>1. Init => TypeOK
  BY TypeInit
<1>2. TypeOK /\ [Next]_vars => TypeOK'
  BY TypeNext
<1> QED
  BY <1>1, <1>2, PTL DEF Spec

-----------------------------------------------------------------------------
(* The registration invariant.  ArmedExactlyWhenWaiting speaks of the moments *)
(* between events only.  To be inductive it has to say what holds at every    *)
(* place of the thread, for the connection that is run and for the others.    *)

\* The last entry of a queue closes the connection when it is sent.
LastCloses(queue) == queue # <<>> /\ queue[Len(queue)].close

Matches(c) ==
  /\ Agree(fd[c])
  /\ fd[c].first \in {"none", "OnRecv"}
  /\ fd[c].second \in {"none", "OnSend"}

\* Nothing is registered or queued.
Silent(c) ==
  /\ fd[c].first = "none" /\ fd[c].second = "none"
  /\ recv[c] = 0 /\ send[c] = <<>>

\* It receives, or the queue ends with a piece that closes.
Heard(c) == recv[c] = 1 \/ (recv[c] = 0 /\ LastCloses(send[c]))

FirstByQueue(c) == fd[c].first = IF recv[c] > 0 THEN "OnRecv" ELSE "none"
FirstByBase(c) == fd[c].first = IF base = "event" THEN "OnRecv" ELSE "none"
SecondByQueue(c) == fd[c].second = IF send[c] # <<>> THEN "OnSend" ELSE "none"

\* A connection that no handler is running in.
Parked(c) ==
  IF sock[c] = "open"
  THEN Heard(c) /\ FirstByQueue(c) /\ SecondByQueue(c)
  ELSE Silent(c)

\* The reply to a malformed request is still to be sent.
ErrorReply(queue) ==
  Len(queue) = 1 /\ Head(queue).close /\ Head(queue).len > 0

\* After a failed parse nothing is left but this reply, sent or unsent.
LastReply(c) ==
  reqs = <<>> /\ (ErrorReply(outs) \/ (outs = <<>> /\ LastCloses(send[c])))

\* The connection that a handler is running in, at each place of the thread.
RunningOpen(c) ==
  /\ pc \in {"arm", "listen"} =>
       recv[c] = 0 /\ FirstByBase(c) /\ SecondByQueue(c)
  /\ pc = "serve" =>
       /\ recv[c] = 0 /\ FirstByBase(c) /\ SecondByQueue(c)
       /\ rearm \/ LastReply(c)
  /\ pc = "watch" =>
       /\ recv[c] = 0 /\ FirstByBase(c) /\ fd[c].second = "none" /\ send[c] # <<>>
       /\ rearm \/ (reqs = <<>> /\ outs = <<>> /\ LastCloses(send[c]))
  /\ pc = "recv" =>
       Heard(c) /\ fd[c].first = "OnRecv" /\ SecondByQueue(c)
  /\ pc = "out" =>
       Heard(c) /\ FirstByQueue(c) /\ SecondByQueue(c)
  /\ pc = "send" =>
       Heard(c) /\ FirstByQueue(c) /\ fd[c].second = "OnSend"
  /\ pc # "send" /\ "OUT" \in ev => send[c] # <<>> /\ fd[c].second = "OnSend"

Running(c) ==
  /\ sock[c] # "none"
  /\ sock[c] = "closed" => Silent(c) /\ pc \notin {"arm", "listen", "watch"}
  /\ sock[c] = "open" => RunningOpen(c)

\* What the thread's locals say about where it came from.
Context ==
  /\ pc \in {"wait", "recv", "out", "send"} => base = "event"
  /\ base = "start" => ev = {}
  /\ pc = "wait" => ev = {}

IInv ==
  /\ TypeOK
  /\ \A c \in Conns : Matches(c)
  /\ pc # "down" => /\ Context
                    /\ \A c \in Conns : IF c = cur THEN Running(c) ELSE Parked(c)

-----------------------------------------------------------------------------
(* The calls of the loop on a descriptor whose two halves agree. *)

\* The fields of an answer of the loop.
LEMMA AnswerFields ==
  ASSUME NEW d, NEW ok, NEW polled
  PROVE  Answer(d, ok, polled).fd = d /\ Answer(d, ok, polled).ok = ok
  BY DEF Answer

\* The events that each pair of handlers asks for.
LEMMA WantedSets ==
  /\ Wanted("none", "none") = {}
  /\ Wanted("OnRecv", "none") = {"IN"}
  /\ Wanted("none", "OnSend") = {"OUT"}
  /\ Wanted("OnRecv", "OnSend") = {"IN", "OUT"}
  /\ {"IN"} # {} /\ {"OUT"} # {}
  /\ {"IN", "OUT"} \notin {{}, {"IN"}, {"OUT"}}
  BY DEF Wanted

\* Starting to watch the readable event always succeeds (loop.cpp:23-73).
LEMMA ListenWorks ==
  ASSUME NEW d \in Descriptors, Agree(d),
         d.first \in {"none", "OnRecv"}, d.second \in {"none", "OnSend"}
  PROVE  LET answer == SetInEvent(d, "OnRecv")
         IN /\ answer.ok /\ Agree(answer.fd)
            /\ answer.fd.first = "OnRecv" /\ answer.fd.second = d.second
  BY DEF SetInEvent, Add, Mod, DelThenMod, Answer, Wanted, Agree, Descriptors

\* Starting to watch the writable event succeeds if it is not watched yet: the
\* branch of line 112 is not taken.
LEMMA WatchWorks ==
  ASSUME NEW d \in Descriptors, Agree(d),
         d.first \in {"none", "OnRecv"}, d.second = "none"
  PROVE  LET answer == SetOutEvent(d, "OnSend")
         IN /\ answer.ok /\ Agree(answer.fd)
            /\ answer.fd.first = d.first /\ answer.fd.second = "OnSend"
<1>1. CASE ~d.known
  <2> DEFINE new == [known |-> TRUE, first |-> "none", second |-> "OnSend",
                     watched |-> TRUE, mask |-> {"OUT"}]
  <2>1. SetOutEvent(d, "OnSend") = Answer(new, TRUE, TRUE)
    BY <1>1 DEF SetOutEvent, Add, Agree
  <2>2. d.first = "none"
    BY <1>1, WantedSets DEF Agree
  <2>3. /\ SetOutEvent(d, "OnSend").fd = new
        /\ SetOutEvent(d, "OnSend").ok
    <3> HIDE DEF new
    <3>1. Answer(new, TRUE, TRUE).fd = new /\ Answer(new, TRUE, TRUE).ok = TRUE
      BY AnswerFields
    <3> QED
      BY <2>1, <3>1
  <2>4. Agree(new)
    BY WantedSets DEF Agree
  <2> QED
    BY <2>2, <2>3, <2>4
<1>2. CASE d.known
  <2>1. d.first = "OnRecv" /\ d.watched
    BY <1>2, WantedSets DEF Agree
  <2>2. SetOutEvent(d, "OnSend") =
          Answer([d EXCEPT !.first = "OnRecv", !.second = "OnSend",
                           !.mask = Wanted("OnRecv", "OnSend")], TRUE, TRUE)
    BY <1>2, <2>1, WantedSets DEF SetOutEvent, Mod
  <2> DEFINE new == [d EXCEPT !.first = "OnRecv", !.second = "OnSend",
                              !.mask = Wanted("OnRecv", "OnSend")]
  <2>3. /\ SetOutEvent(d, "OnSend").fd = new
        /\ SetOutEvent(d, "OnSend").ok
    BY <2>2 DEF Answer
  <2>4. /\ new.known /\ new.watched /\ new.mask = Wanted("OnRecv", "OnSend")
        /\ new.first = "OnRecv" /\ new.second = "OnSend"
    BY <1>2, <2>1 DEF Descriptors
  <2>5. Agree(new)
    BY <2>4, WantedSets DEF Agree
  <2> QED
    BY <2>1, <2>3, <2>4, <2>5
<1> QED
  BY <1>1, <1>2

\* Stopping one of the two succeeds if both are watched: the DEL is not taken.
LEMMA StopWorks ==
  ASSUME NEW d \in Descriptors, Agree(d),
         d.first = "OnRecv", d.second = "OnSend"
  PROVE  LET stopIn == SetInEvent(d, "none")
             stopOut == SetOutEvent(d, "none")
         IN /\ stopIn.ok /\ Agree(stopIn.fd)
            /\ stopIn.fd.first = "none" /\ stopIn.fd.second = "OnSend"
            /\ stopOut.ok /\ Agree(stopOut.fd)
            /\ stopOut.fd.first = "OnRecv" /\ stopOut.fd.second = "none"
<1>1. d.known /\ d.watched
  BY WantedSets DEF Agree, Descriptors
<1>2. SetInEvent(d, "none") =
        Answer([d EXCEPT !.first = "none", !.second = "OnSend",
                         !.mask = Wanted("none", "OnSend")], TRUE, TRUE)
  BY <1>1, WantedSets DEF SetInEvent, Mod
<1>3. SetOutEvent(d, "none") =
        Answer([d EXCEPT !.first = "OnRecv", !.second = "none",
                         !.mask = Wanted("OnRecv", "none")], TRUE, TRUE)
  BY <1>1, WantedSets DEF SetOutEvent, Mod
<1> DEFINE out == [d EXCEPT !.first = "none", !.second = "OnSend",
                            !.mask = Wanted("none", "OnSend")]
           in == [d EXCEPT !.first = "OnRecv", !.second = "none",
                           !.mask = Wanted("OnRecv", "none")]
<1>4. /\ SetInEvent(d, "none").fd = out /\ SetInEvent(d, "none").ok
      /\ SetOutEvent(d, "none").fd = in /\ SetOutEvent(d, "none").ok
  BY <1>2, <1>3 DEF Answer
<1>5. /\ out.known /\ out.watched /\ out.mask = Wanted("none", "OnSend")
      /\ out.first = "none" /\ out.second = "OnSend"
      /\ in.known /\ in.watched /\ in.mask = Wanted("OnRecv", "none")
      /\ in.first = "OnRecv" /\ in.second = "none"
  BY <1>1 DEF Descriptors
<1>6. Agree(out) /\ Agree(in)
  BY <1>5, WantedSets DEF Agree
<1> QED
  BY <1>4, <1>5, <1>6

\* Remove succeeds and leaves nothing.
LEMMA RemoveWorks ==
  ASSUME NEW d \in Descriptors, Agree(d)
  PROVE  LET answer == Remove(d)
         IN /\ answer.ok /\ Agree(answer.fd)
            /\ answer.fd.first = "none" /\ answer.fd.second = "none"
  BY DEF Remove, Answer, Unknown, Wanted, Agree, Descriptors

-----------------------------------------------------------------------------
(* The last entry of a queue. *)

\* The last element after Append.
LEMMA LastOfAppend ==
  ASSUME NEW S, NEW s \in Seq(S), NEW e \in S
  PROVE  LastCloses(Append(s, e)) <=> e.close
  BY AppendProperties DEF LastCloses

\* Taking the first element of a longer queue leaves the last one.
LEMMA LastOfTail ==
  ASSUME NEW S, NEW s \in Seq(S), LastCloses(s), ~Head(s).close
  PROVE  LastCloses(Tail(s))
<1>1. s # <<>> /\ Len(s) \in Nat \ {0}
  BY EmptySeq DEF LastCloses
<1>2. Len(s) # 1
  BY <1>1 DEF LastCloses
<1>3. /\ Len(Tail(s)) = Len(s) - 1
      /\ \A i \in 1 .. Len(Tail(s)) : Tail(s)[i] = s[i + 1]
  BY <1>1, HeadTailProperties
<1>4. Tail(s) # <<>>
  <2>1. Len(Tail(s)) # 0
    BY <1>1, <1>2, <1>3
  <2> QED
    BY <2>1, EmptySeq
<1> QED
  BY <1>3, <1>4 DEF LastCloses

\* Replacing the first element of a longer queue leaves the last one.
LEMMA LastOfRest ==
  ASSUME NEW S, NEW s \in Seq(S), NEW e \in S, LastCloses(s),
         e.close = Head(s).close
  PROVE  /\ LastCloses(<<e>> \o Tail(s))
         /\ <<e>> \o Tail(s) # <<>>
<1>1. s # <<>> /\ Len(s) \in Nat \ {0}
  BY EmptySeq DEF LastCloses
<1>2. Tail(s) \in Seq(S) /\ Len(Tail(s)) = Len(s) - 1
  BY <1>1, HeadTailProperties
<1>3. <<e>> \in Seq(S) /\ Len(<<e>>) = 1
  OBVIOUS
<1> DEFINE t == <<e>> \o Tail(s)
<1>4. /\ t \in Seq(S) /\ Len(t) = Len(s)
      /\ t[Len(s)] = IF Len(s) = 1 THEN e ELSE Tail(s)[Len(s) - 1]
  BY <1>1, <1>2, <1>3, ConcatProperties
<1>5. Len(s) # 1 => Tail(s)[Len(s) - 1] = s[Len(s)]
  BY <1>1, <1>2, HeadTailProperties
<1>6. t # <<>>
  BY <1>1, <1>4
<1> HIDE DEF t
<1>7. LastCloses(t)
  BY <1>1, <1>4, <1>5, <1>6 DEF LastCloses
<1> QED
  BY <1>6, <1>7 DEF t

-----------------------------------------------------------------------------
(* What a step changes of one connection, and what it cannot. *)

\* The state of a connection that the invariant speaks of.
Same(c) ==
  /\ fd'[c] = fd[c] /\ sock'[c] = sock[c]
  /\ recv'[c] = recv[c] /\ send'[c] = send[c]

\* A connection that a step leaves alone keeps its part of the invariant.
LEMMA SameKeeps ==
  ASSUME NEW c \in Conns, Same(c)
  PROVE  /\ Matches(c) => Matches(c)'
         /\ Parked(c) => Parked(c)'
         /\ Silent(c) => Silent(c)'
  BY DEF Same, Matches, Parked, Silent, Heard, FirstByQueue, SecondByQueue,
         LastCloses

\* A step of one connection leaves the others alone.
LEMMA OthersSame ==
  ASSUME TypeOK, NEW c \in Conns, NEW d \in Conns, d # c,
         Client(c) \/ Accept(c) \/ Drop(c) \/ Dispatch(c) \/ Step(c)
  PROVE  Same(d)
<1> USE DEF TypeOK, LoopTyped, ConnsTyped, Same, loopVars, connVars, Close,
            Register
<1>1. CASE Client(c)
  BY <1>1 DEF Client, PeerConnect, PeerSend, PeerShut, PeerReset, PeerDrain
<1>2. CASE Accept(c) \/ Drop(c) \/ Dispatch(c) \/ RunOut(c)
  BY <1>2 DEF Accept, Drop, Dispatch, RunOut
<1>3. CASE \/ ReadData(c) \/ ReadEof(c) \/ ReadError(c) \/ OnRecvAgain(c)
           \/ AsyncRecvAgain(c) \/ AsyncRecvListen(c) \/ OnRecvTail(c)
  BY <1>3 DEF ReadData, ReadEof, ReadError, OnRecvAgain, AsyncRecvAgain,
              AsyncRecvListen, OnRecvTail, Popped
<1>4. CASE \/ Handle(c) \/ Rearm(c) \/ GiveUp(c) \/ SendQueued(c)
           \/ SendEmpty(c) \/ SendFails(c) \/ SendWhole(c) \/ SendPart(c)
           \/ AsyncSendWatch(c)
  BY <1>4 DEF Handle, Rearm, GiveUp, SendQueued, SendEmpty, SendFails,
              SendWhole, SendPart, AsyncSendWatch, Sent
<1>5. CASE OnSendFails(c) \/ OnSendWhole(c) \/ OnSendPart(c) \/ OnSendTail(c)
  BY <1>5 DEF OnSendFails, OnSendWhole, OnSendPart, OnSendTail, Sent, PopSend
<1> QED
  BY <1>1, <1>2, <1>3, <1>4, <1>5 DEF Step

\* What the invariant says of one connection.
Good(c) ==
  /\ Matches(c)
  /\ pc # "down" => Context /\ (IF c = cur THEN Running(c) ELSE Parked(c))

\* A step of c that leaves c good leaves everything good.
LEMMA GoodSuffices ==
  ASSUME IInv, TypeOK', NEW c \in Conns, pc # "down",
         cur = c \/ pc = "wait",
         cur' = c \/ cur' = NoConn \/ cur' = cur,
         \A d \in Conns \ {c} : Same(d),
         Good(c)'
  PROVE  IInv'
<1>1. \A d \in Conns \ {c} : d # cur
  BY DEF IInv, TypeOK, ThreadTyped
<1>2. \A d \in Conns \ {c} : d # cur'
  BY <1>1, ConnsAssumption DEF ConnsAssumption
<1>3. ASSUME NEW d \in Conns \ {c}
      PROVE  Matches(d)' /\ Parked(d)'
  <2>1. Matches(d) /\ Parked(d)
    BY <1>1 DEF IInv
  <2> QED
    BY <2>1, SameKeeps
<1> QED
  BY <1>2, <1>3 DEF IInv, Good

\* What the step lemmas below assume of a state follows from IInv.
LEMMA IInvGood ==
  ASSUME IInv, NEW c \in Conns
  PROVE  Good(c) /\ fd[c] \in Descriptors /\ send[c] \in Seq(SendReqs)
  BY DEF IInv, Good, TypeOK, LoopTyped, ConnsTyped

\* Conn::Close leaves nothing registered or queued.
LEMMA CloseSilences ==
  ASSUME TypeOK, NEW c \in Conns, Matches(c), sock[c] = "open" \/ Silent(c),
         Close(c)
  PROVE  Matches(c)' /\ Silent(c)' /\ sock'[c] = "closed"
<1> USE DEF TypeOK, LoopTyped, ConnsTyped
<1>1. recv'[c] = 0 /\ send'[c] = <<>> /\ sock'[c] = "closed"
  BY DEF Close
<1>2. CASE sock[c] = "open"
  <2>1. fd'[c] = Remove(fd[c]).fd
    BY <1>2 DEF Close
  <2>2. /\ Agree(fd'[c])
        /\ fd'[c].first = "none" /\ fd'[c].second = "none"
    BY <2>1, RemoveWorks DEF Matches
  <2> QED
    BY <1>1, <2>2 DEF Matches, Silent
<1>3. CASE sock[c] # "open"
  <2>1. fd'[c] = fd[c]
    BY <1>3 DEF Close
  <2> QED
    BY <1>1, <1>3, <2>1 DEF Matches, Silent
<1> QED
  BY <1>2, <1>3

-----------------------------------------------------------------------------
(* The invariant is inductive. *)

\* The invariant holds before the first client.
LEMMA IInit == Init => IInv
<1> SUFFICES ASSUME Init PROVE IInv
  OBVIOUS
<1>1. TypeOK
  BY TypeInit
<1>2. ASSUME NEW c \in Conns
      PROVE  Matches(c) /\ Parked(c) /\ c # cur
  BY ConnsAssumption, WantedSets
     DEF Init, Unknown, Agree, Matches, Parked, Silent, ConnsAssumption
<1>3. Context
  BY DEF Init, Context
<1> QED
  BY <1>1, <1>2, <1>3 DEF IInv

\* Steps that change nothing the invariant speaks of.
LEMMA IInvSame ==
  ASSUME IInv, TypeOK', UNCHANGED <<fd, connVars, ctlVars>>
  PROVE  IInv'
<1>1. \A c \in Conns : Same(c)
  BY DEF Same, connVars
<1>2. UNCHANGED <<pc, cur, base, ev, reqs, outs, rearm>>
  BY DEF ctlVars, localVars
<1>3. ASSUME NEW c \in Conns
      PROVE  /\ Matches(c)'
             /\ Parked(c) => Parked(c)'
             /\ Running(c) => Running(c)'
  <2>1. Matches(c)' /\ (Parked(c) => Parked(c)') /\ (Silent(c) => Silent(c)')
    BY <1>1, SameKeeps DEF IInv
  <2>2. RunningOpen(c) => RunningOpen(c)'
    BY <1>1, <1>2 DEF Same, RunningOpen, Heard, FirstByQueue, FirstByBase,
                      SecondByQueue, LastCloses, LastReply, ErrorReply
  <2> QED
    BY <1>1, <1>2, <2>1, <2>2 DEF Running, Same
<1>4. Context => Context'
  BY <1>2 DEF Context
<1> QED
  BY <1>2, <1>3, <1>4 DEF IInv

\* Loop::Run and Server::OnAccept keep what the invariant says of one connection.
LEMMA GoodLoop ==
  ASSUME IInv, NEW c \in Conns, Accept(c) \/ Dispatch(c)
  PROVE  Good(c)' /\ cur' = c
<1>1. /\ Matches(c) /\ Parked(c) /\ Context
      /\ base = "event" /\ ev = {} /\ pc = "wait"
  <2>1. pc = "wait"
    BY DEF Accept, Dispatch
  <2>2. c # cur
    BY <2>1 DEF IInv, TypeOK, ThreadTyped
  <2> QED
    BY <2>1, <2>2 DEF IInv, Context
<1>2. CASE Accept(c)
  <2>1. /\ sock[c] = "none" /\ sock'[c] = "open"
        /\ fd' = fd /\ recv' = recv /\ send' = send /\ ev' = ev
        /\ pc' = "arm" /\ base' = "start" /\ cur' = c
    BY <1>2 DEF Accept, IInv, TypeOK, ConnsTyped, loopVars
  <2>2. Silent(c)
    BY <1>1, <2>1 DEF Parked
  <2>3. Matches(c)'
    BY <1>1, <2>1 DEF Matches
  <2>4. RunningOpen(c)'
    BY <1>1, <2>1, <2>2 DEF Silent, RunningOpen, FirstByBase, SecondByQueue
  <2> QED
    BY <1>1, <2>1, <2>3, <2>4 DEF Good, Context, Running
<1>3. CASE Dispatch(c)
  <2> DEFINE events == fd[c].mask \cap Poll(c, room[c])
  <2>1. /\ events # {} /\ cur' = c /\ base' = base
        /\ fd' = fd /\ sock' = sock /\ recv' = recv /\ send' = send
    BY <1>3 DEF Dispatch, connVars
  <2>2. \/ pc' = "down"
        \/ pc' = "out" /\ ev' = events
        \/ pc' = "recv" /\ fd[c].first # "none" /\ ev' = events \ {"IN"}
    BY <1>3 DEF Dispatch
  <2>3. Matches(c)'
    BY <1>1, <2>1 DEF Matches
  <2>4. sock[c] = "open"
    <3>1. ASSUME Silent(c) PROVE FALSE
      <4>1. fd[c].mask = {}
        BY <1>1, <3>1, WantedSets DEF Silent, Matches, Agree
      <4> QED
        BY <2>1, <4>1
    <3> QED
      BY <1>1, <3>1 DEF Parked
  <2>5. "OUT" \in events => fd[c].second = "OnSend"
    <3>1. "OUT" \in events => "OUT" \in Wanted(fd[c].first, fd[c].second)
      BY <1>1 DEF Matches, Agree
    <3> QED
      BY <1>1, <3>1 DEF Wanted, Matches
  <2> HIDE DEF events
  <2>6. Heard(c)' /\ FirstByQueue(c)' /\ SecondByQueue(c)' /\ FirstByQueue(c)
    BY <1>1, <2>1, <2>4 DEF Parked, Heard, FirstByQueue, SecondByQueue, LastCloses
  <2>7. pc' # "down" => RunningOpen(c)'
    <3>1. pc' = "recv" => fd'[c].first = "OnRecv"
      BY <1>1, <2>1, <2>2 DEF Matches
    <3>2. pc' # "down" /\ "OUT" \in ev' => fd'[c].second = "OnSend"
      BY <2>1, <2>2, <2>5
    <3>3. fd'[c].second = "OnSend" => send'[c] # <<>>
      BY <2>6 DEF SecondByQueue
    <3> QED
      BY <2>2, <2>6, <3>1, <3>2, <3>3 DEF RunningOpen
  <2> QED
    BY <1>1, <2>1, <2>2, <2>3, <2>4, <2>7 DEF Good, Context, Running
<1> QED
  BY <1>2, <1>3

\* What the invariant says of the connection that is run.
LEMMA Runs ==
  ASSUME IInv, NEW c \in Conns, cur = c, pc # "down"
  PROVE  /\ Matches(c) /\ Running(c) /\ Context
         /\ fd[c] \in Descriptors /\ send[c] \in Seq(SendReqs)
         /\ outs \in Seq(Sends) /\ pc # "wait" /\ base \in {"start", "event"}
         /\ recv[c] \in Nat /\ sock[c] \in {"none", "open", "closed"}
  BY DEF IInv, TypeOK, ThreadTyped, LoopTyped, ConnsTyped

\* Back at epoll_wait with a connection that is parked.
LEMMA WaitGood ==
  ASSUME NEW c \in Conns, ConnsAssumption, Wait, Matches(c)', Parked(c)'
  PROVE  Good(c)' /\ cur' = NoConn
  BY DEF Wait, Good, Context, ConnsAssumption

\* The process is down.
LEMMA DownGood ==
  ASSUME NEW c \in Conns, NEW why, Down(why), Matches(c)'
  PROVE  Good(c)' /\ cur' = cur
  BY DEF Down, Good

\* The handler goes on.
LEMMA GoesOn ==
  ASSUME NEW c \in Conns, cur' = c, Context', Matches(c)', Running(c)'
  PROVE  Good(c)' /\ cur' = c
  BY DEF Good

\* Loop::Run going on to the writable event (loop.cpp:150-156).
LEMMA GoodRunOut ==
  ASSUME IInv, NEW c \in Conns, cur = c, RunOut(c)
  PROVE  Good(c)' /\ (cur' = c \/ cur' = NoConn)
<1>1. pc = "out" /\ Same(c) /\ UNCHANGED <<fd, connVars>>
  BY DEF RunOut, Same, loopVars, connVars
<1>2. /\ Matches(c) /\ Running(c) /\ Context
      /\ sock[c] \in {"none", "open", "closed"}
  BY <1>1, Runs
<1>3. Parked(c)
  BY <1>1, <1>2 DEF Running, RunningOpen, Parked, IInv, TypeOK, ConnsTyped
<1>4. Matches(c)' /\ Parked(c)' /\ (Silent(c) => Silent(c)')
  BY <1>1, <1>2, <1>3, SameKeeps
<1>5. CASE Wait
  BY <1>4, <1>5, WaitGood, ConnsAssumption
<1>6. CASE \E why \in {"assert", "throw"} : Down(why)
  BY <1>4, <1>6, DownGood
<1>7. CASE Goto("send") /\ fd[c].second # "none"
  <2>1. fd[c].second = "OnSend" /\ pc' = "send" /\ base' = base /\ ev' = ev /\ cur' = cur
    BY <1>2, <1>7 DEF Goto, localVars, Matches
  <2>2. sock[c] = "open" /\ sock'[c] = "open"
    BY <1>1, <1>2, <2>1 DEF Running, Silent, Same
  <2>3. RunningOpen(c)'
    BY <1>1, <1>4, <2>1, <2>2 DEF Parked, RunningOpen, Same
  <2>4. Context'
    BY <1>1, <1>2, <2>1 DEF Context
  <2> QED
    BY <1>4, <2>1, <2>2, <2>3, <2>4, GoesOn DEF Running
<1> QED
  BY <1>5, <1>6, <1>7 DEF RunOut

\* Reading: Conn::OnRecv, Conn::AsyncRecv and Session::OnRecv up to the parse.
LEMMA GoodRead ==
  ASSUME IInv, NEW c \in Conns, cur = c,
         \/ ReadData(c) \/ ReadEof(c) \/ ReadError(c) \/ OnRecvAgain(c)
         \/ AsyncRecvAgain(c)
  PROVE  Good(c)' /\ (cur' = c \/ cur' = NoConn)
<1>1. /\ pc \in {"recv", "arm"} /\ (pc = "recv" => recv[c] > 0)
  BY DEF ReadData, ReadEof, ReadError, OnRecvAgain, AsyncRecvAgain, Reading
<1>2. /\ Matches(c) /\ Running(c) /\ Context
      /\ fd[c] \in Descriptors /\ send[c] \in Seq(SendReqs)
      /\ recv[c] \in Nat /\ sock[c] \in {"none", "open", "closed"}
  BY <1>1, Runs
<1>3. sock[c] = "open" /\ RunningOpen(c)
  BY <1>1, <1>2 DEF Running, Silent
<1>4. CASE ReadData(c)
  <2>1. PICK n \in 1 .. Len(inbuf[c]) : Parse(SubSeq(inbuf[c], 1, n))
    BY <1>4 DEF ReadData
  <2>2. /\ pc' = "serve" /\ base' = base /\ ev' = ev /\ cur' = cur
        /\ rearm' \/ (reqs' = <<>> /\ ErrorReply(outs'))
    <3> DEFINE batch == SubSeq(inbuf[c], 1, n)
           reply == [len |-> PieceSize, close |-> TRUE]
    <3>1. ErrorReply(<<reply>>)
      BY DEF ErrorReply
    <3> HIDE DEF batch
    <3>2. Parse(batch)
      BY <2>1 DEF batch
    <3> QED
      BY <3>1, <3>2 DEF Parse
  <2>3. /\ fd' = fd /\ sock' = sock /\ send' = send /\ recv'[c] = 0
    BY <1>1, <1>2, <1>3, <1>4
       DEF ReadData, loopVars, Popped, RunningOpen, Heard, IInv, TypeOK, ConnsTyped
  <2>4. Matches(c)'
    BY <1>2, <2>3 DEF Matches
  <2>5. FirstByBase(c)' /\ SecondByQueue(c)'
    BY <1>1, <1>2, <1>3, <2>2, <2>3
       DEF RunningOpen, FirstByBase, SecondByQueue, Context
  <2>6. "OUT" \in ev' => send'[c] # <<>> /\ fd'[c].second = "OnSend"
    BY <1>1, <1>3, <2>2, <2>3 DEF RunningOpen
  <2>7. RunningOpen(c)'
    BY <2>2, <2>3, <2>5, <2>6 DEF RunningOpen, LastReply, ErrorReply
  <2>8. Context'
    BY <1>2, <2>2 DEF Context
  <2> QED
    BY <1>3, <2>2, <2>3, <2>4, <2>7, <2>8, GoesOn DEF Running
<1>5. CASE ReadEof(c)
  <2>1. Matches(c)' /\ Silent(c)' /\ sock'[c] = "closed"
    BY <1>2, <1>3, <1>5, CloseSilences DEF ReadEof, IInv
  <2>2. Parked(c)'
    BY <2>1 DEF Parked
  <2>3. CASE Wait
    BY <2>1, <2>2, <2>3, WaitGood, ConnsAssumption
  <2>4. CASE Down("assert")
    BY <2>1, <2>4, DownGood
  <2>5. ASSUME NEW l \in {"out", "recv"}, Goto(l), pc = "recv" \/ base = "event"
        PROVE  Good(c)' /\ cur' = c
    <3>1. /\ pc' = l /\ base' = base /\ ev' = ev /\ cur' = cur
      BY <2>5 DEF Goto, localVars
    <3>2. Context'
      BY <1>1, <1>2, <2>5, <3>1 DEF Context
    <3> QED
      BY <2>1, <3>1, <3>2, GoesOn DEF Running
  <2> QED
    BY <1>2, <1>5, <2>3, <2>4, <2>5, Runs, <1>1 DEF ReadEof, Return
<1>6. CASE ReadError(c) \/ OnRecvAgain(c) \/ AsyncRecvAgain(c)
  <2>1. Same(c)
    BY <1>6 DEF ReadError, OnRecvAgain, AsyncRecvAgain, Same, loopVars, connVars
  <2>2. Matches(c)'
    BY <1>2, <2>1, SameKeeps
  <2>3. CASE ReadError(c)
    BY <2>2, <2>3, DownGood DEF ReadError
  <2>4. CASE OnRecvAgain(c)
    <3>1. /\ pc = "recv" /\ pc' = "out" /\ base' = base /\ ev' = ev /\ cur' = cur
          /\ recv[c] > 0
      BY <2>4 DEF OnRecvAgain, Goto, localVars
    <3>2. RunningOpen(c)'
      BY <1>3, <2>1, <3>1 DEF Same, RunningOpen, Heard, FirstByQueue,
                              SecondByQueue, LastCloses
    <3>3. Context'
      BY <1>2, <3>1 DEF Context
    <3> QED
      BY <1>3, <2>1, <2>2, <3>1, <3>2, <3>3, GoesOn DEF Running, Same
  <2>5. CASE AsyncRecvAgain(c)
    <3>1. pc = "arm" /\ pc' = "listen" /\ base' = base /\ ev' = ev /\ cur' = cur
      BY <2>5 DEF AsyncRecvAgain, Goto, localVars
    <3>2. RunningOpen(c)'
      BY <1>3, <2>1, <3>1 DEF Same, RunningOpen, FirstByBase, SecondByQueue
    <3>3. Context'
      BY <1>2, <3>1 DEF Context
    <3> QED
      BY <1>3, <2>1, <2>2, <3>1, <3>2, <3>3, GoesOn DEF Running, Same
  <2> QED
    BY <1>6, <2>3, <2>4, <2>5
<1> QED
  BY <1>4, <1>5, <1>6

\* The two places where reading changes the registration.
LEMMA GoodListen ==
  ASSUME IInv, NEW c \in Conns, cur = c, AsyncRecvListen(c)
  PROVE  Good(c)' /\ (cur' = c \/ cur' = NoConn)
<1> DEFINE answer == SetInEvent(fd[c], "OnRecv")
<1>1. pc = "listen" /\ Register(c, answer) /\ sock' = sock /\ send' = send
  BY DEF AsyncRecvListen
<1>2. /\ Matches(c) /\ Running(c) /\ Context
      /\ fd[c] \in Descriptors
      /\ sock[c] \in {"none", "open", "closed"} /\ base \in {"start", "event"}
  BY <1>1, Runs
<1>3. sock[c] = "open" /\ RunningOpen(c)
  BY <1>1, <1>2 DEF Running
<1>4. /\ answer.ok /\ Agree(answer.fd)
      /\ answer.fd.first = "OnRecv" /\ answer.fd.second = fd[c].second
  BY <1>2, ListenWorks DEF Matches
<1>5. fd'[c] = answer.fd /\ recv'[c] = 1
  BY <1>1, <1>3 DEF Register, AsyncRecvListen, IInv, TypeOK, LoopTyped,
                    ConnsTyped, RunningOpen
<1>6. Return
  BY <1>4 DEF AsyncRecvListen
<1> HIDE DEF answer
<1>7. Matches(c)'
  BY <1>2, <1>4, <1>5 DEF Matches
<1>8. Heard(c)' /\ FirstByQueue(c)' /\ SecondByQueue(c)' /\ fd'[c].first = "OnRecv"
  BY <1>1, <1>3, <1>4, <1>5
     DEF RunningOpen, Heard, FirstByQueue, SecondByQueue
<1>9. CASE base = "start"
  <2>1. Parked(c)'
    BY <1>1, <1>3, <1>8 DEF Parked
  <2> QED
    BY <1>6, <1>7, <1>9, <2>1, WaitGood, ConnsAssumption DEF Return
<1>10. CASE base = "event"
  <2>1. pc' = "recv" /\ base' = base /\ ev' = ev /\ cur' = cur
    BY <1>6, <1>10 DEF Return, Goto, localVars
  <2>2. "OUT" \in ev' => send'[c] # <<>> /\ fd'[c].second = "OnSend"
    BY <1>1, <1>3, <1>4, <1>5, <2>1 DEF RunningOpen
  <2>3. RunningOpen(c)'
    BY <1>8, <2>1, <2>2 DEF RunningOpen
  <2>4. Context'
    BY <1>10, <2>1 DEF Context
  <2> QED
    BY <1>1, <1>3, <1>7, <2>1, <2>3, <2>4, GoesOn DEF Running
<1> QED
  BY <1>2, <1>9, <1>10

\* The tail of Conn::OnRecv (conn.cpp:139-145).
LEMMA GoodRecvTail ==
  ASSUME IInv, NEW c \in Conns, cur = c, OnRecvTail(c)
  PROVE  Good(c)' /\ (cur' = c \/ cur' = NoConn)
<1> DEFINE answer == SetInEvent(fd[c], "none")
<1>1. /\ pc = "recv" /\ recv[c] = 0
      /\ sock' = sock /\ send' = send /\ recv' = recv
  BY DEF OnRecvTail, connVars
<1>2. /\ Matches(c) /\ Running(c) /\ Context
      /\ fd[c] \in Descriptors
      /\ sock[c] \in {"none", "open", "closed"}
  BY <1>1, Runs
<1>3. CASE sock[c] = "open"
  <2>1. RunningOpen(c) /\ LastCloses(send[c]) /\ send[c] # <<>>
    BY <1>1, <1>2, <1>3 DEF Running, RunningOpen, Heard, LastCloses
  <2>2. fd[c].first = "OnRecv" /\ fd[c].second = "OnSend"
    BY <1>1, <2>1 DEF RunningOpen, SecondByQueue
  <2>3. /\ answer.ok /\ Agree(answer.fd)
        /\ answer.fd.first = "none" /\ answer.fd.second = "OnSend"
    BY <1>2, <2>2, StopWorks DEF Matches
  <2>4. fd'[c] = answer.fd
    BY <1>3 DEF OnRecvTail, Register, IInv, TypeOK, LoopTyped
  <2>5. pc' = "out" /\ base' = base /\ ev' = ev /\ cur' = cur
    BY <1>3, <2>3 DEF OnRecvTail, Goto, localVars
  <2> HIDE DEF answer
  <2>6. Matches(c)'
    BY <2>3, <2>4 DEF Matches
  <2>7. RunningOpen(c)'
    BY <1>1, <2>1, <2>3, <2>4, <2>5
       DEF RunningOpen, Heard, FirstByQueue, SecondByQueue
  <2>8. Context'
    BY <1>1, <1>2, <2>5 DEF Context
  <2> QED
    BY <1>1, <1>3, <2>5, <2>6, <2>7, <2>8, GoesOn DEF Running
<1>4. CASE sock[c] # "open"
  <2>1. Same(c)
    BY <1>1, <1>4 DEF OnRecvTail, loopVars, Same
  <2>2. pc' = "out" /\ base' = base /\ ev' = ev /\ cur' = cur
    BY <1>4 DEF OnRecvTail, Goto, localVars
  <2>3. sock[c] = "closed" /\ Silent(c)
    BY <1>2, <1>4 DEF Running
  <2>4. Matches(c)' /\ Silent(c)'
    BY <1>2, <2>1, <2>3, SameKeeps
  <2>5. Context'
    BY <1>1, <1>2, <2>2 DEF Context
  <2> QED
    BY <2>1, <2>2, <2>3, <2>4, <2>5, GoesOn DEF Running, Same
<1> QED
  BY <1>3, <1>4

\* The loop of Session::OnRecv over the requests.
LEMMA GoodHandle ==
  ASSUME IInv, NEW c \in Conns, cur = c, Handle(c) \/ Rearm(c) \/ GiveUp(c)
  PROVE  Good(c)' /\ (cur' = c \/ cur' = NoConn)
<1>1. pc = "serve" /\ outs = <<>> /\ Same(c)
  BY DEF Handle, Rearm, GiveUp, Same, loopVars, connVars
<1>2. /\ Matches(c) /\ Running(c) /\ Context
      /\ base \in {"start", "event"} /\ sock[c] \in {"none", "open", "closed"}
  BY <1>1, Runs
<1>3. Matches(c)' /\ (Silent(c) => Silent(c)')
  BY <1>1, <1>2, SameKeeps
<1>4. sock[c] = "open" =>
        /\ recv[c] = 0 /\ FirstByBase(c) /\ SecondByQueue(c)
        /\ "OUT" \in ev => send[c] # <<>> /\ fd[c].second = "OnSend"
        /\ rearm \/ (reqs = <<>> /\ LastCloses(send[c]))
  <2>1. ~ErrorReply(outs)
    BY <1>1, EmptySeq DEF ErrorReply
  <2> QED
    BY <1>1, <1>2, <2>1 DEF Running, RunningOpen, LastReply
<1>5. CASE Handle(c)
  <2>1. /\ sock[c] = "open" /\ reqs # <<>>
        /\ pc' = pc /\ base' = base /\ ev' = ev /\ cur' = cur /\ rearm' = rearm
    BY <1>5 DEF Handle
  <2>2. RunningOpen(c)'
    BY <1>1, <1>4, <2>1 DEF Same, RunningOpen, FirstByBase, SecondByQueue
  <2>3. Context'
    BY <1>1, <1>2, <2>1 DEF Context
  <2> QED
    BY <1>1, <1>3, <2>1, <2>2, <2>3, GoesOn DEF Running, Same
<1>6. CASE Rearm(c)
  <2>1. /\ sock[c] = "open" /\ pc' = "arm"
        /\ base' = base /\ ev' = ev /\ cur' = cur
    BY <1>6 DEF Rearm, Goto, localVars
  <2>2. RunningOpen(c)'
    BY <1>1, <1>4, <2>1 DEF Same, RunningOpen, FirstByBase, SecondByQueue
  <2>3. Context'
    BY <1>1, <1>2, <2>1 DEF Context
  <2> QED
    BY <1>1, <1>3, <2>1, <2>2, <2>3, GoesOn DEF Running, Same
<1>7. CASE GiveUp(c)
  <2>1. /\ sock[c] = "closed" => Silent(c)'
        /\ sock[c] = "open" => recv[c] = 0 /\ LastCloses(send[c]) /\ send[c] # <<>>
        /\ sock[c] \in {"open", "closed"} /\ sock'[c] = sock[c]
    BY <1>1, <1>2, <1>3, <1>4, <1>7 DEF GiveUp, Running, LastCloses, Same
  <2>2. CASE base = "start"
    <3>1. Parked(c)'
      BY <1>1, <1>4, <2>1, <2>2
         DEF Same, Parked, Heard, FirstByQueue, SecondByQueue, FirstByBase
    <3> QED
      BY <1>3, <1>7, <2>2, <3>1, WaitGood, ConnsAssumption DEF GiveUp
  <2>3. CASE base = "event"
    <3>1. pc' = "recv" /\ base' = base /\ ev' = ev /\ cur' = cur
      BY <1>7, <2>3 DEF GiveUp
    <3>2. sock[c] = "open" => RunningOpen(c)'
      BY <1>1, <1>4, <2>1, <2>3, <3>1
         DEF Same, RunningOpen, Heard, FirstByBase, SecondByQueue
    <3>3. Context'
      BY <2>3, <3>1 DEF Context
    <3> QED
      BY <1>3, <2>1, <3>1, <3>2, <3>3, GoesOn DEF Running
  <2> QED
    BY <1>2, <2>2, <2>3
<1> QED
  BY <1>5, <1>6, <1>7

\* A piece that goes to the queue or to the wire, or is refused.
LEMMA GoodSend ==
  ASSUME IInv, NEW c \in Conns, cur = c,
         SendQueued(c) \/ SendEmpty(c) \/ SendFails(c) \/ SendWhole(c) \/ SendPart(c)
  PROVE  Good(c)' /\ (cur' = c \/ cur' = NoConn)
<1>1. Sending /\ pc = "serve" /\ outs # <<>>
  BY DEF SendQueued, SendEmpty, SendFails, SendWhole, SendPart, Writable, Sending
<1>2. /\ Matches(c) /\ Running(c) /\ Context
      /\ fd[c] \in Descriptors /\ send[c] \in Seq(SendReqs) /\ outs \in Seq(Sends)
      /\ sock[c] \in {"none", "open", "closed"}
  BY <1>1, Runs
<1>3. /\ sock[c] = "open" => RunningOpen(c)
      /\ sock[c] = "closed" => Silent(c)
      /\ sock[c] \in {"open", "closed"}
  BY <1>2 DEF Running
<1>4. sock[c] = "open" =>
        /\ recv[c] = 0 /\ FirstByBase(c) /\ SecondByQueue(c)
        /\ "OUT" \in ev => send[c] # <<>> /\ fd[c].second = "OnSend"
        /\ rearm \/ (reqs = <<>> /\ ErrorReply(outs))
  BY <1>1, <1>3 DEF RunningOpen, LastReply
<1>5. ErrorReply(outs) => Tail(outs) = <<>> /\ Head(outs).close /\ Head(outs).len > 0
  <2> SUFFICES ASSUME ErrorReply(outs) PROVE Tail(outs) = <<>>
    BY DEF ErrorReply
  <2>1. Tail(outs) \in Seq(Sends) /\ Len(Tail(outs)) = 0
    BY <1>1, <1>2, HeadTailProperties DEF ErrorReply
  <2> QED
    BY <2>1, EmptySeq
<1>6. Request(c, Head(outs).len) \in SendReqs
      /\ Request(c, Head(outs).len).close = Head(outs).close
  BY <1>1, RequestTyped DEF IInv, Request
<1> DEFINE queue == Append(send[c], Request(c, Head(outs).len))
<1>7. queue # <<>> /\ (LastCloses(queue) <=> Head(outs).close)
  BY <1>2, <1>6, LastOfAppend, AppendProperties
<1>8. ASSUME NextPiece, Silent(c)', Matches(c)', sock'[c] = "closed"
      PROVE  Good(c)' /\ cur' = c
  <2>1. pc' = "serve" /\ base' = base /\ ev' = ev /\ cur' = cur
    BY <1>1, <1>8 DEF NextPiece
  <2>2. Context'
    BY <1>1, <1>2, <2>1 DEF Context
  <2> QED
    BY <1>8, <2>1, <2>2, GoesOn DEF Running
<1>9. ASSUME Close(c), NextPiece \/ Down("assert")
      PROVE  Good(c)' /\ cur' = c
  <2>1. Matches(c)' /\ Silent(c)' /\ sock'[c] = "closed"
    BY <1>2, <1>3, <1>9, CloseSilences DEF IInv
  <2> QED
    BY <1>8, <1>9, <2>1, DownGood
<1>10. ASSUME Same(c), NextPiece, sock[c] = "open", rearm
       PROVE  Good(c)' /\ cur' = c
  <2>1. pc' = "serve" /\ base' = base /\ ev' = ev /\ cur' = cur /\ rearm' = rearm
    BY <1>1, <1>10 DEF NextPiece
  <2>2. RunningOpen(c)'
    BY <1>4, <1>10, <2>1 DEF Same, RunningOpen, FirstByBase, SecondByQueue
  <2>3. Context' /\ Matches(c)'
    BY <1>1, <1>2, <1>10, <2>1, SameKeeps DEF Context
  <2> QED
    BY <1>10, <2>1, <2>2, <2>3, GoesOn DEF Running, Same
<1>11. CASE SendQueued(c)
  <2>1. sock[c] = "open" /\ send[c] # <<>>
    BY <1>3, <1>11 DEF SendQueued, Silent
  <2>2. /\ send'[c] = queue /\ fd' = fd /\ sock' = sock /\ recv' = recv
        /\ pc' = "serve" /\ base' = base /\ ev' = ev /\ cur' = cur
        /\ rearm' = rearm /\ reqs' = reqs /\ outs' = Tail(outs)
    BY <1>1, <1>11 DEF SendQueued, NextPiece, loopVars, IInv, TypeOK, ConnsTyped
  <2> HIDE DEF queue
  <2>3. rearm' \/ LastReply(c)'
    BY <1>4, <1>5, <1>7, <2>1, <2>2 DEF LastReply
  <2>4. RunningOpen(c)'
    BY <1>4, <1>7, <2>1, <2>2, <2>3 DEF RunningOpen, FirstByBase, SecondByQueue
  <2>5. Context' /\ Matches(c)'
    BY <1>1, <1>2, <2>2 DEF Context, Matches
  <2> QED
    BY <2>1, <2>2, <2>4, <2>5, GoesOn DEF Running
<1>12. CASE SendEmpty(c)
  <2>1. CASE Head(outs).close
    BY <1>9, <1>12, <2>1 DEF SendEmpty, Sent
  <2>2. CASE ~Head(outs).close
    <3>1. Same(c) /\ (NextPiece \/ Down("assert"))
      BY <1>12, <2>2 DEF SendEmpty, Sent, Same, loopVars, connVars
    <3>2. CASE Down("assert")
      BY <1>2, <3>1, <3>2, DownGood, SameKeeps
    <3>3. CASE NextPiece /\ sock[c] = "open"
      BY <1>4, <1>5, <1>10, <2>2, <3>1, <3>3
    <3>4. CASE NextPiece /\ sock[c] = "closed"
      BY <1>2, <1>3, <1>8, <3>1, <3>4, SameKeeps DEF Same
    <3> QED
      BY <1>3, <3>1, <3>2, <3>3, <3>4
  <2> QED
    BY <2>1, <2>2
<1>13. CASE SendFails(c)
  BY <1>9, <1>13 DEF SendFails
<1>14. CASE SendWhole(c)
  <2>1. sock[c] = "open"
    BY <1>14 DEF SendWhole, Writable
  <2>2. CASE Head(outs).close
    BY <1>9, <1>14, <2>2 DEF SendWhole, Sent
  <2>3. CASE ~Head(outs).close
    <3>1. Same(c) /\ NextPiece
      BY <1>14, <2>3 DEF SendWhole, Sent, Same, loopVars, connVars
    <3> QED
      BY <1>4, <1>5, <1>10, <2>1, <2>3, <3>1
  <2> QED
    BY <2>2, <2>3
<1>15. CASE SendPart(c)
  <2>1. sock[c] = "open" /\ send[c] = <<>>
    BY <1>15 DEF SendPart, Writable
  <2>2. /\ send'[c] = queue /\ fd' = fd /\ sock' = sock /\ recv' = recv
        /\ pc' = "watch" /\ base' = base /\ ev' = ev /\ cur' = cur
        /\ rearm' = rearm /\ reqs' = reqs /\ outs' = Tail(outs)
    BY <1>15 DEF SendPart, loopVars, IInv, TypeOK, ConnsTyped
  <2> HIDE DEF queue
  <2>3. rearm' \/ (reqs' = <<>> /\ outs' = <<>> /\ LastCloses(send'[c]))
    BY <1>4, <1>5, <1>7, <2>1, <2>2
  <2>4. RunningOpen(c)'
    BY <1>4, <1>7, <2>1, <2>2, <2>3
       DEF RunningOpen, FirstByBase, SecondByQueue, LastCloses
  <2>5. Context' /\ Matches(c)'
    BY <1>1, <1>2, <2>2 DEF Context, Matches
  <2> QED
    BY <2>1, <2>2, <2>4, <2>5, GoesOn DEF Running
<1> QED
  BY <1>11, <1>12, <1>13, <1>14, <1>15

\* Conn::AsyncSend starts to watch the writable event.
LEMMA GoodWatch ==
  ASSUME IInv, NEW c \in Conns, cur = c, AsyncSendWatch(c)
  PROVE  Good(c)' /\ (cur' = c \/ cur' = NoConn)
<1> DEFINE answer == SetOutEvent(fd[c], "OnSend")
<1>1. /\ pc = "watch" /\ Register(c, answer)
      /\ sock' = sock /\ send' = send /\ recv' = recv
  BY DEF AsyncSendWatch, connVars
<1>2. /\ Matches(c) /\ Running(c) /\ Context
      /\ fd[c] \in Descriptors /\ sock[c] \in {"none", "open", "closed"}
  BY <1>1, Runs
<1>3. sock[c] = "open" /\ RunningOpen(c)
  BY <1>1, <1>2 DEF Running
<1>4. /\ recv[c] = 0 /\ FirstByBase(c) /\ fd[c].second = "none" /\ send[c] # <<>>
      /\ rearm \/ (reqs = <<>> /\ outs = <<>> /\ LastCloses(send[c]))
      /\ "OUT" \notin ev
  BY <1>1, <1>3 DEF RunningOpen
<1>5. /\ answer.ok /\ Agree(answer.fd)
      /\ answer.fd.first = fd[c].first /\ answer.fd.second = "OnSend"
  BY <1>2, <1>4, WatchWorks DEF Matches
<1>6. fd'[c] = answer.fd
  BY <1>1 DEF Register, IInv, TypeOK, LoopTyped
<1>7. /\ pc' = "serve" /\ base' = base /\ ev' = ev /\ cur' = cur
      /\ rearm' = rearm /\ reqs' = reqs /\ outs' = outs
  BY <1>5 DEF AsyncSendWatch, Goto, localVars
<1> HIDE DEF answer
<1>8. Matches(c)'
  BY <1>2, <1>5, <1>6 DEF Matches
<1>9. RunningOpen(c)'
  BY <1>1, <1>4, <1>5, <1>6, <1>7
     DEF RunningOpen, FirstByBase, SecondByQueue, LastReply, LastCloses
<1>10. Context'
  BY <1>1, <1>2, <1>7 DEF Context
<1> QED
  BY <1>1, <1>3, <1>7, <1>8, <1>9, <1>10, GoesOn DEF Running

\* Conn::OnSend.
LEMMA GoodFlush ==
  ASSUME IInv, NEW c \in Conns, cur = c,
         OnSendFails(c) \/ OnSendWhole(c) \/ OnSendPart(c) \/ OnSendTail(c)
  PROVE  Good(c)' /\ (cur' = c \/ cur' = NoConn)
<1>1. pc = "send"
  BY DEF OnSendFails, OnSendWhole, OnSendPart, OnSendTail
<1>2. /\ Matches(c) /\ Running(c) /\ Context
      /\ fd[c] \in Descriptors /\ send[c] \in Seq(SendReqs)
      /\ sock[c] \in {"none", "open", "closed"} /\ recv[c] \in Nat
  BY <1>1, Runs
<1>3. /\ sock[c] = "closed" => Silent(c)
      /\ sock[c] = "open" =>
           Heard(c) /\ FirstByQueue(c) /\ fd[c].second = "OnSend"
      /\ sock[c] \in {"open", "closed"}
  BY <1>1, <1>2 DEF Running, RunningOpen
<1>4. ASSUME Close(c) PROVE Matches(c)' /\ Silent(c)' /\ sock'[c] = "closed"
  BY <1>2, <1>3, <1>4, CloseSilences DEF IInv
<1>5. send[c] # <<>> =>
        /\ Head(send[c]) \in SendReqs /\ sock[c] = "open"
        /\ Tail(send[c]) \in Seq(SendReqs)
  BY <1>2, <1>3, HeadTailProperties DEF Silent
<1>6. CASE OnSendFails(c)
  <2>1. Matches(c)' /\ Parked(c)' /\ (Wait \/ Down("assert"))
    BY <1>4, <1>6 DEF OnSendFails, Parked
  <2> QED
    BY <2>1, WaitGood, DownGood, ConnsAssumption
<1>7. CASE OnSendWhole(c)
  <2>1. Goto("send") \/ Down("assert")
    BY <1>7 DEF OnSendWhole
  <2>2. Goto("send") => pc' = "send" /\ base' = base /\ ev' = ev /\ cur' = c /\ Context'
    BY <1>1, <1>2 DEF Goto, localVars, Context
  <2>3. CASE Head(send[c]).close
    <3>1. Matches(c)' /\ Silent(c)' /\ sock'[c] = "closed"
      BY <1>4, <1>7, <2>3 DEF OnSendWhole, Sent
    <3> QED
      BY <2>1, <2>2, <3>1, GoesOn, DownGood DEF Running
  <2>4. CASE ~Head(send[c]).close
    <3>1. /\ send'[c] = Tail(send[c]) /\ fd' = fd /\ sock' = sock /\ recv' = recv
          /\ send[c] # <<>>
      BY <1>7, <2>4 DEF OnSendWhole, PopSend, loopVars, IInv, TypeOK, ConnsTyped
    <3>2. Matches(c)' /\ sock'[c] = "open"
      BY <1>2, <1>5, <3>1 DEF Matches
    <3>3. Heard(c)' /\ FirstByQueue(c)'
      <4>1. LastCloses(send[c]) => LastCloses(Tail(send[c]))
        BY <1>2, <2>4, LastOfTail
      <4> QED
        BY <1>3, <1>5, <3>1, <4>1 DEF Heard, FirstByQueue
    <3>4. pc' = "send" => RunningOpen(c)'
      BY <1>3, <1>5, <3>1, <3>3 DEF RunningOpen
    <3> QED
      BY <2>1, <2>2, <3>2, <3>4, GoesOn, DownGood DEF Running
  <2> QED
    BY <2>3, <2>4
<1>8. CASE OnSendPart(c)
  <2> DEFINE front == Head(send[c])
             rest == [front EXCEPT !.left = @ - room[c]]
             queue == <<rest>> \o Tail(send[c])
  <2>1. /\ send[c] # <<>> /\ Wait
        /\ send' = [send EXCEPT ![c] = <<rest>> \o Tail(@)]
        /\ fd' = fd /\ sock' = sock /\ recv' = recv
    BY <1>8 DEF OnSendPart, loopVars
  <2>2. rest \in SendReqs /\ rest.close = front.close
    <3>1. front \in SendReqs /\ room[c] \in Nat /\ room[c] < front.left
      BY <1>5, <1>8, <2>1 DEF OnSendPart, IInv, TypeOK, BuffersTyped
    <3> QED
      BY <3>1 DEF SendReqs
  <2> HIDE DEF rest
  <2>3. send'[c] = queue
    BY <2>1 DEF IInv, TypeOK, ConnsTyped
  <2>4. queue # <<>>
    <3>1. <<rest>> \in Seq(SendReqs) /\ Len(<<rest>>) = 1
      BY <2>2
    <3>2. queue \in Seq(SendReqs) /\ Len(queue) = 1 + Len(Tail(send[c]))
      BY <1>5, <2>1, <3>1, ConcatProperties
    <3>3. Len(Tail(send[c])) \in Nat
      BY <1>5, <2>1, LenProperties
    <3> QED
      BY <3>2, <3>3, EmptySeq
  <2>5. LastCloses(send[c]) => LastCloses(queue)
    BY <1>2, <2>2, LastOfRest
  <2> HIDE DEF queue
  <2>6. Parked(c)'
    BY <1>3, <1>5, <2>1, <2>3, <2>4, <2>5
       DEF Parked, Heard, FirstByQueue, SecondByQueue
  <2>7. Matches(c)'
    BY <1>2, <2>1 DEF Matches
  <2> QED
    BY <2>1, <2>6, <2>7, WaitGood, ConnsAssumption
<1>9. CASE OnSendTail(c)
  <2> DEFINE answer == SetOutEvent(fd[c], "none")
  <2>1. send[c] = <<>> /\ sock' = sock /\ send' = send /\ recv' = recv
    BY <1>9 DEF OnSendTail, connVars
  <2>2. CASE sock[c] = "open"
    <3>1. recv[c] = 1 /\ fd[c].first = "OnRecv" /\ fd[c].second = "OnSend"
      BY <1>3, <2>1, <2>2 DEF Heard, LastCloses, FirstByQueue
    <3>2. /\ answer.ok /\ Agree(answer.fd)
          /\ answer.fd.first = "OnRecv" /\ answer.fd.second = "none"
      BY <1>2, <3>1, StopWorks DEF Matches
    <3>3. fd'[c] = answer.fd /\ Wait
      BY <1>9, <2>2, <3>2 DEF OnSendTail, Register, IInv, TypeOK, LoopTyped
    <3> HIDE DEF answer
    <3>4. Matches(c)'
      BY <3>2, <3>3 DEF Matches
    <3>5. Parked(c)'
      BY <2>1, <2>2, <3>1, <3>2, <3>3
         DEF Parked, Heard, FirstByQueue, SecondByQueue
    <3> QED
      BY <3>3, <3>4, <3>5, WaitGood, ConnsAssumption
  <2>3. CASE sock[c] = "closed"
    <3>1. Same(c) /\ Wait
      BY <1>9, <2>1, <2>3 DEF OnSendTail, loopVars, Same
    <3>2. Matches(c)' /\ Parked(c)'
      BY <1>2, <1>3, <2>3, <3>1, SameKeeps DEF Parked
    <3> QED
      BY <3>1, <3>2, WaitGood, ConnsAssumption
  <2> QED
    BY <1>3, <2>2, <2>3
<1> QED
  BY <1>6, <1>7, <1>8, <1>9

\* Every step keeps the invariant.
LEMMA INext ==
  ASSUME IInv, [Next]_vars
  PROVE  IInv'
<1>1. TypeOK'
  BY TypeNext DEF IInv
<1>2. CASE UNCHANGED vars
  BY <1>1, <1>2, IInvSame DEF vars, loopVars
<1>3. ASSUME NEW c \in Conns, Client(c) \/ Drop(c)
      PROVE  IInv'
  <2>1. UNCHANGED <<fd, connVars, ctlVars>>
    BY <1>3 DEF Client, PeerConnect, PeerSend, PeerShut, PeerReset, PeerDrain,
                Drop, loopVars
  <2> QED
    BY <1>1, <2>1, IInvSame
<1>4. ASSUME NEW c \in Conns, Accept(c) \/ Dispatch(c) \/ Step(c)
      PROVE  IInv'
  <2>1. /\ pc # "down" /\ (cur = c \/ pc = "wait")
        /\ Good(c)' /\ (cur' = c \/ cur' = NoConn)
    <3>1. CASE Accept(c) \/ Dispatch(c)
      BY <3>1, GoodLoop DEF Accept, Dispatch
    <3>2. CASE Step(c)
      <4>1. cur = c /\ pc # "down"
        BY <3>2 DEF Step, RunOut, ReadData, ReadEof, ReadError, OnRecvAgain,
             AsyncRecvAgain, AsyncRecvListen, OnRecvTail, Reading, Handle, Rearm,
             GiveUp, SendQueued, SendEmpty, SendFails, SendWhole, SendPart,
             Writable, Sending, AsyncSendWatch, OnSendFails, OnSendWhole,
             OnSendPart, OnSendTail
      <4>2. Good(c)' /\ (cur' = c \/ cur' = NoConn)
        BY <3>2, <4>1, GoodRunOut, GoodRead, GoodListen, GoodRecvTail, GoodHandle,
           GoodSend, GoodWatch, GoodFlush DEF Step
      <4> QED
        BY <4>1, <4>2
    <3> QED
      BY <1>4, <3>1, <3>2
  <2>2. \A d \in Conns \ {c} : Same(d)
    BY <1>4, OthersSame DEF IInv
  <2> QED
    BY <1>1, <2>1, <2>2, GoodSuffices
<1> QED
  BY <1>2, <1>3, <1>4 DEF Next

\* The registration invariant holds in every reachable state.
THEOREM Registered == Spec => []IInv
<1>1. Init => IInv
  BY IInit
<1>2. IInv /\ [Next]_vars => IInv'
  BY INext
<1> QED
  BY <1>1, <1>2, PTL DEF Spec

-----------------------------------------------------------------------------
(* What follows from it. *)

\* fds_ and the epoll instance agree on every connection, and no handler is in
\* the place of the other: the slip of loop.cpp:112 is never reached.
THEOREM HandlersCorrect == Spec => []HandlersMatchEpoll
<1>1. IInv => HandlersMatchEpoll
  BY DEF IInv, Matches, HandlersMatchEpoll
<1> QED
  BY <1>1, Registered, PTL

\* Between events a connection is watched for what it waits for.
THEOREM ArmedCorrect == Spec => []ArmedExactlyWhenWaiting
<1>1. IInv => ArmedExactlyWhenWaiting
  <2> SUFFICES ASSUME IInv, pc = "wait", NEW c \in Conns
               PROVE  /\ "IN" \in fd[c].mask <=> recv[c] > 0
                      /\ "OUT" \in fd[c].mask <=> send[c] # <<>>
                      /\ sock[c] # "open" => recv[c] = 0 /\ send[c] = <<>>
    BY DEF ArmedExactlyWhenWaiting
  <2>1. Matches(c) /\ Parked(c) /\ recv[c] \in Nat
    BY DEF IInv, TypeOK, ThreadTyped, ConnsTyped
  <2>2. /\ "IN" \in fd[c].mask <=> fd[c].first # "none"
        /\ "OUT" \in fd[c].mask <=> fd[c].second # "none"
    BY <2>1 DEF Matches, Agree, Wanted
  <2> QED
    BY <2>1, <2>2 DEF Parked, Silent, Heard, FirstByQueue, SecondByQueue
<1> QED
  BY <1>1, Registered, PTL

\* Between events an open connection receives or is about to be closed.
THEOREM NeverDeafCorrect == Spec => []NeverDeaf
<1>1. IInv => NeverDeaf
  <2> SUFFICES ASSUME IInv, pc = "wait", NEW c \in Conns, sock[c] = "open"
               PROVE  \/ recv[c] = 1
                      \/ /\ recv[c] = 0 /\ send[c] # <<>>
                         /\ send[c][Len(send[c])].close
    BY DEF NeverDeaf
  <2>1. Parked(c)
    BY DEF IInv, TypeOK, ThreadTyped
  <2> QED
    BY <2>1 DEF Parked, Heard, LastCloses
<1> QED
  BY <1>1, Registered, PTL

\* No call of the loop fails, so neither the assertions on its status nor the
\* error branches of AsyncRecv and AsyncSend are ever reached.
THEOREM LoopCallsCorrect == Spec => []LoopCallsSucceed
<1>1. IInv => LoopCallsSucceed
  <2> SUFFICES ASSUME IInv PROVE LoopCallsSucceed
    OBVIOUS
  <2>1. \A c \in Conns : Remove(fd[c]).ok
    BY RemoveWorks DEF IInv, Matches, TypeOK, LoopTyped
  <2>2. CASE pc \in {"listen", "watch", "recv", "send"}
    <3>1. /\ cur \in Conns /\ Matches(cur) /\ Running(cur)
          /\ fd[cur] \in Descriptors /\ sock[cur] \in {"none", "open", "closed"}
      BY <2>2, Runs DEF IInv, TypeOK, ThreadTyped
    <3>2. pc = "listen" => SetInEvent(fd[cur], "OnRecv").ok
      BY <3>1, ListenWorks DEF Matches
    <3>3. pc = "watch" => SetOutEvent(fd[cur], "OnSend").ok
      BY <3>1, WatchWorks DEF Matches, Running, RunningOpen
    <3>4. pc = "recv" /\ recv[cur] = 0 /\ sock[cur] = "open"
            => SetInEvent(fd[cur], "none").ok
      <4> SUFFICES ASSUME pc = "recv", recv[cur] = 0, sock[cur] = "open"
                   PROVE  SetInEvent(fd[cur], "none").ok
        OBVIOUS
      <4>1. fd[cur].first = "OnRecv" /\ fd[cur].second = "OnSend"
        BY <3>1 DEF Running, RunningOpen, Heard, LastCloses, SecondByQueue
      <4> QED
        BY <3>1, <4>1, StopWorks DEF Matches
    <3>5. pc = "send" /\ send[cur] = <<>> /\ sock[cur] = "open"
            => SetOutEvent(fd[cur], "none").ok
      <4> SUFFICES ASSUME pc = "send", send[cur] = <<>>, sock[cur] = "open"
                   PROVE  SetOutEvent(fd[cur], "none").ok
        OBVIOUS
      <4>1. fd[cur].first = "OnRecv" /\ fd[cur].second = "OnSend"
        BY <3>1 DEF Running, RunningOpen, Heard, LastCloses, FirstByQueue
      <4> QED
        BY <3>1, <4>1, StopWorks DEF Matches
    <3> QED
      BY <2>1, <3>2, <3>3, <3>4, <3>5 DEF LoopCallsSucceed
  <2>3. CASE pc \notin {"listen", "watch", "recv", "send"}
    BY <2>1, <2>3 DEF LoopCallsSucceed
  <2> QED
    BY <2>2, <2>3
<1> QED
  BY <1>1, Registered, PTL

-----------------------------------------------------------------------------
(* Steps after a close. *)

\* A connection on which the loop and the handlers act no more.
Closed(c) == sock[c] = "closed" /\ Silent(c) /\ ~fd[c].known

\* What ClosedStaysQuiet says of one connection.
StaysQuiet(c) ==
  /\ sock'[c] = "closed" /\ wire'[c] = wire[c]
  /\ ~fd'[c].known /\ recv'[c] = 0 /\ send'[c] = <<>>

\* While the process runs, nothing is registered for a closed connection.
LEMMA ClosedSilent ==
  ASSUME IInv, pc # "down", NEW c \in Conns, sock[c] = "closed"
  PROVE  /\ Closed(c) /\ fd[c].mask = {}
         /\ cur = c => pc \notin {"arm", "listen", "watch"}
<1>1. Silent(c) /\ (cur = c => pc \notin {"arm", "listen", "watch"})
  BY DEF IInv, Running, Parked
<1>2. ~fd[c].known /\ fd[c].mask = {}
  BY <1>1, WantedSets DEF IInv, Matches, Agree, Silent
<1> QED
  BY <1>1, <1>2 DEF Closed

\* The rest of the state of a connection: its client, its buffers, its place on
\* the ready list, and its history.
Apart(c) ==
  /\ peer'[c] = peer[c] /\ inbuf'[c] = inbuf[c] /\ room'[c] = room[c]
  /\ wire'[c] = wire[c] /\ rdy'[c] = rdy[c]
  /\ issued'[c] = issued[c] /\ closer'[c] = closer[c]

\* A step of one connection writes nothing to the others, takes nothing from
\* them and does not move them on the ready list.
LEMMA OthersApart ==
  ASSUME TypeOK, NEW c \in Conns, NEW d \in Conns, d # c,
         Client(c) \/ Accept(c) \/ Drop(c) \/ Dispatch(c) \/ Step(c)
  PROVE  Apart(d)
<1> USE DEF TypeOK, ClientsTyped, BuffersTyped, LoopTyped, HistoryTyped,
            clientVars, bufVars, loopVars, histVars, Apart, Close, Register, Write
<1>1. CASE Client(c)
  BY <1>1 DEF Client, PeerConnect, PeerSend, PeerShut, PeerReset, PeerDrain, Edge
<1>2. CASE Accept(c) \/ Drop(c) \/ Dispatch(c) \/ RunOut(c)
  BY <1>2 DEF Accept, Drop, Dispatch, RunOut
<1>3. CASE \/ ReadData(c) \/ ReadEof(c) \/ ReadError(c) \/ OnRecvAgain(c)
           \/ AsyncRecvAgain(c) \/ AsyncRecvListen(c) \/ OnRecvTail(c)
  BY <1>3 DEF ReadData, ReadEof, ReadError, OnRecvAgain, AsyncRecvAgain,
              AsyncRecvListen, OnRecvTail
<1>4. CASE Handle(c) \/ Rearm(c) \/ GiveUp(c) \/ SendQueued(c) \/ AsyncSendWatch(c)
  BY <1>4 DEF Handle, Rearm, GiveUp, SendQueued, AsyncSendWatch, Issue
<1>5. CASE SendEmpty(c) \/ SendFails(c)
  BY <1>5 DEF SendEmpty, SendFails, Sent
<1>6. CASE SendWhole(c) \/ SendPart(c)
  BY <1>6 DEF SendWhole, SendPart, Sent, Issue
<1>7. CASE OnSendFails(c) \/ OnSendWhole(c) \/ OnSendPart(c) \/ OnSendTail(c)
  BY <1>7 DEF OnSendFails, OnSendWhole, OnSendPart, OnSendTail, Sent, PopSend
<1> QED
  BY <1>1, <1>2, <1>3, <1>4, <1>5, <1>6, <1>7 DEF Step

\* No step is taken once the process is down.
LEMMA StepRuns ==
  ASSUME NEW c \in Conns,
         Client(c) \/ Accept(c) \/ Drop(c) \/ Dispatch(c) \/ Step(c)
  PROVE  pc # "down"
  BY DEF Client, PeerConnect, PeerSend, PeerShut, PeerReset, PeerDrain, Live,
       Accept, Drop, Dispatch, Step, RunOut, ReadData, ReadEof, ReadError,
       OnRecvAgain, AsyncRecvAgain, AsyncRecvListen, OnRecvTail, Reading, Handle,
       Rearm, GiveUp, SendQueued, SendEmpty, SendFails, SendWhole, SendPart,
       Writable, Sending, AsyncSendWatch, OnSendFails, OnSendWhole, OnSendPart,
       OnSendTail

\* The thread that runs in one connection is not in the others; the clients and
\* Drop do not move it.
LEMMA OthersRun ==
  ASSUME ThreadTyped, ConnsAssumption, NEW c \in Conns, NEW d \in Conns, d # c,
         Client(c) \/ Accept(c) \/ Drop(c) \/ Dispatch(c) \/ Step(c)
  PROVE  UNCHANGED ctlVars \/ (d # cur /\ d # cur')
<1>1. CASE Client(c) \/ Drop(c)
  BY <1>1 DEF Client, PeerConnect, PeerSend, PeerShut, PeerReset, PeerDrain, Drop
<1>2. CASE Accept(c) \/ Dispatch(c)
  BY <1>2 DEF Accept, Dispatch, ThreadTyped
<1>3. CASE Step(c)
  <2> USE DEF Goto, Wait, Down, Return, NextPiece
  <2>1. cur = c
    BY <1>3 DEF Step
  <2>2. CASE \/ RunOut(c) \/ ReadData(c) \/ ReadEof(c) \/ ReadError(c)
             \/ OnRecvAgain(c) \/ AsyncRecvAgain(c) \/ AsyncRecvListen(c)
             \/ OnRecvTail(c)
    BY <2>1, <2>2, ConnsAssumption
       DEF RunOut, ReadData, Parse, ReadEof, ReadError, OnRecvAgain,
           AsyncRecvAgain, AsyncRecvListen, OnRecvTail, ConnsAssumption
  <2>3. CASE \/ Handle(c) \/ Rearm(c) \/ GiveUp(c) \/ SendQueued(c)
             \/ SendEmpty(c) \/ SendFails(c) \/ SendWhole(c) \/ SendPart(c)
             \/ AsyncSendWatch(c)
    BY <2>1, <2>3, ConnsAssumption
       DEF Handle, Rearm, GiveUp, SendQueued, SendEmpty, SendFails, SendWhole,
           SendPart, AsyncSendWatch, ConnsAssumption
  <2>4. CASE OnSendFails(c) \/ OnSendWhole(c) \/ OnSendPart(c) \/ OnSendTail(c)
    BY <2>1, <2>4, ConnsAssumption
       DEF OnSendFails, OnSendWhole, OnSendPart, OnSendTail, ConnsAssumption
  <2> QED
    BY <1>3, <2>2, <2>3, <2>4 DEF Step
<1> QED
  BY <1>1, <1>2, <1>3

\* A step that leaves the connection alone, or closes it again.
LEMMA QuietKept ==
  ASSUME TypeOK, NEW c \in Conns, Closed(c),
         wire'[c] = wire[c],
         Same(c) \/ Close(c) \/ UNCHANGED <<fd, connVars>>
  PROVE  StaysQuiet(c)
<1> USE DEF Closed, Silent, StaysQuiet
<1>1. CASE Same(c)
  BY <1>1 DEF Same
<1>2. CASE Close(c)
  BY <1>2 DEF Close, TypeOK, LoopTyped, ConnsTyped
<1>3. CASE UNCHANGED <<fd, connVars>>
  BY <1>3 DEF connVars
<1> QED
  BY <1>1, <1>2, <1>3

\* The handlers that may still run in a closed connection: those on the way
\* out, and AsyncSend for the rest of the request that was being handled.
LEMMA QuietStep ==
  ASSUME TypeOK, NEW c \in Conns, Closed(c), pc \notin {"arm", "listen", "watch"},
         Step(c)
  PROVE  StaysQuiet(c)
<1> USE DEF Closed, Silent
<1>1. \/ RunOut(c) \/ OnRecvTail(c) \/ GiveUp(c) \/ SendEmpty(c) \/ SendFails(c)
      \/ OnSendTail(c)
  BY DEF Step, ReadData, ReadEof, ReadError, Reading, OnRecvAgain,
         AsyncRecvAgain, AsyncRecvListen, Handle, Rearm, SendQueued, SendWhole,
         SendPart, Writable, AsyncSendWatch, OnSendFails, OnSendWhole, OnSendPart
<1>2. CASE RunOut(c) \/ OnRecvTail(c) \/ GiveUp(c) \/ OnSendTail(c)
  <2>1. UNCHANGED <<fd, connVars>> /\ wire' = wire
    BY <1>2 DEF RunOut, OnRecvTail, GiveUp, OnSendTail, loopVars, bufVars
  <2> QED
    BY <2>1, QuietKept
<1>3. CASE SendEmpty(c)
  <2>1. wire' = wire /\ (Close(c) \/ UNCHANGED <<fd, connVars>>)
    BY <1>3 DEF SendEmpty, Sent, loopVars
  <2> QED
    BY <2>1, QuietKept
<1>4. CASE SendFails(c)
  BY <1>4, QuietKept DEF SendFails
<1> QED
  BY <1>1, <1>2, <1>3, <1>4

\* Every step leaves a closed connection closed and silent.
LEMMA QuietNext ==
  ASSUME IInv, Next, NEW c \in Conns, sock[c] = "closed"
  PROVE  StaysQuiet(c)
<1>1. PICK d \in Conns : Client(d) \/ Accept(d) \/ Drop(d) \/ Dispatch(d) \/ Step(d)
  BY DEF Next
<1>2. TypeOK
  BY DEF IInv
<1>3. pc # "down"
  BY <1>1, StepRuns
<1>4. /\ Closed(c) /\ fd[c].mask = {}
      /\ cur = c => pc \notin {"arm", "listen", "watch"}
  BY <1>3, ClosedSilent
<1>5. CASE d # c
  BY <1>1, <1>2, <1>4, <1>5, OthersSame, OthersApart, QuietKept DEF Apart
<1>6. CASE d = c /\ Step(c)
  BY <1>2, <1>4, <1>6, QuietStep DEF Step
<1>7. CASE d = c /\ (Client(c) \/ Accept(c) \/ Drop(c) \/ Dispatch(c))
  <2>1. ~Accept(c) /\ ~Dispatch(c) /\ (Client(c) => PeerConnect(c))
    BY <1>4 DEF Accept, Dispatch, Client, PeerSend, PeerShut, PeerReset, PeerDrain,
                Live
  <2>2. UNCHANGED <<fd, connVars>> /\ wire' = wire
    BY <1>7, <2>1 DEF PeerConnect, Drop, loopVars, bufVars
  <2> QED
    BY <1>2, <1>4, <2>2, QuietKept
<1> QED
  BY <1>1, <1>5, <1>6, <1>7

\* A closed connection is closed for good: the loop does not know it, nothing
\* is queued on it, and not a unit is written to it, even while the request
\* that was being handled goes on sending (session.cpp:95-101).
THEOREM ClosedCorrect == Spec => ClosedStaysQuiet
<1>1. ASSUME IInv, [Next]_vars
      PROVE  [\A c \in Conns :
                sock[c] = "closed" =>
                  /\ sock'[c] = "closed" /\ wire'[c] = wire[c]
                  /\ ~fd'[c].known /\ recv'[c] = 0 /\ send'[c] = <<>>]_vars
  BY <1>1, QuietNext DEF StaysQuiet
<1> QED
  BY <1>1, Registered, PTL DEF Spec, ClosedStaysQuiet

-----------------------------------------------------------------------------
(* Edges.  NoLostWakeup speaks of the moments between events; the invariant  *)
(* says which of the two events may be missing from the ready list at each   *)
(* place of the thread, because the handler is still going to try it.        *)

\* If the descriptor is watched for e and e is possible, it is on the ready list.
Awake(c, e) == e \in fd[c].mask \cap Poll(c, room[c]) => rdy[c]

\* The handler that runs in c has not got to the read that returns EAGAIN.
WillRead(c) == c = cur /\ pc \notin {"listen", "out", "send"}

\* It still has the writable event before it, or is writing.
WillWrite(c) == c = cur /\ (pc = "send" \/ "OUT" \in ev)

Woken(c) == (WillRead(c) \/ Awake(c, "IN")) /\ (WillWrite(c) \/ Awake(c, "OUT"))

WakeInv == pc # "down" => \A c \in Conns : Woken(c)

\* The two halves of Poll.
Readable(c) == inbuf[c] # <<>> \/ peer[c] \in {"shut", "reset"}
HasRoom(c) == room[c] > 0 \/ peer[c] = "reset"

\* What the kernel reports.
LEMMA PollEvents ==
  ASSUME NEW c, NEW free
  PROVE  /\ "IN" \in Poll(c, free) <=> Readable(c)
         /\ "OUT" \in Poll(c, free) <=> (free > 0 \/ peer[c] = "reset")
         /\ Poll(c, free) \subseteq {"IN", "OUT"}
  BY DEF Poll, Readable

\* The mask follows the handlers.
LEMMA MaskEvents ==
  ASSUME NEW c, Matches(c)
  PROVE  /\ "IN" \in fd[c].mask <=> fd[c].first = "OnRecv"
         /\ "OUT" \in fd[c].mask <=> fd[c].second = "OnSend"
  BY DEF Matches, Agree, Wanted

\* Being awake in the words of the handlers and of the kernel.
LEMMA AwakeMeans ==
  ASSUME NEW c \in Conns, Matches(c)
  PROVE  /\ Awake(c, "IN") <=> (fd[c].first = "OnRecv" /\ Readable(c) => rdy[c])
         /\ Awake(c, "OUT") <=> (fd[c].second = "OnSend" /\ HasRoom(c) => rdy[c])
  BY PollEvents, MaskEvents DEF Awake, HasRoom

\* Starting to read polls the descriptor, unless it was watched already; the
\* three other calls always poll (loop.cpp:64, 128: EPOLL_CTL_MOD).
LEMMA CallsPoll ==
  ASSUME NEW d \in Descriptors, Agree(d),
         d.first \in {"none", "OnRecv"}, d.second \in {"none", "OnSend"}
  PROVE  /\ LET answer == SetInEvent(d, "OnRecv")
            IN answer.polled \/ (d.first = "OnRecv" /\ answer.fd.mask = d.mask)
         /\ d.second = "none" => SetOutEvent(d, "OnSend").polled
         /\ d.first = "OnRecv" /\ d.second = "OnSend" =>
              SetInEvent(d, "none").polled /\ SetOutEvent(d, "none").polled
<1>1. d.known <=> (d.first = "OnRecv" \/ d.second = "OnSend")
  BY WantedSets DEF Agree
<1>2. d.known = d.watched
  BY DEF Agree
<1>3. LET answer == SetInEvent(d, "OnRecv")
      IN answer.polled \/ (d.first = "OnRecv" /\ answer.fd.mask = d.mask)
  BY <1>1, <1>2, WantedSets
     DEF SetInEvent, Add, Mod, Answer, Descriptors
<1>4. d.second = "none" => SetOutEvent(d, "OnSend").polled
  BY <1>1, <1>2, WantedSets DEF SetOutEvent, Add, Mod, Answer
<1>5. d.first = "OnRecv" /\ d.second = "OnSend" =>
        SetInEvent(d, "none").polled /\ SetOutEvent(d, "none").polled
  BY <1>1, <1>2, WantedSets DEF SetInEvent, SetOutEvent, Mod, Answer
<1> QED
  BY <1>3, <1>4, <1>5

\* After a call that polls, the connection is awake for both events.
LEMMA RegisterWakes ==
  ASSUME LoopTyped, NEW c \in Conns, NEW answer, Register(c, answer),
         answer.polled, UNCHANGED <<inbuf, peer, room>>,
         NEW e
  PROVE  Awake(c, e)'
<1>1. fd'[c] = answer.fd
  BY DEF LoopTyped, Register
<1>2. rdy'[c] <=> (rdy[c] \/ answer.fd.mask \cap Poll(c, room[c]) # {})
  BY DEF LoopTyped, Register
<1>3. Poll(c, room[c])' = Poll(c, room[c])
  BY DEF Poll
<1> QED
  BY <1>1, <1>2, <1>3 DEF Awake

\* An edge on e leaves the connection awake for e (the wakeup of the kernel).
LEMMA EdgeWakes ==
  ASSUME LoopTyped, NEW c \in Conns, NEW events, Edge(c, events), fd' = fd,
         NEW e
  PROVE  /\ e \in events => Awake(c, e)'
         /\ /\ Awake(c, e)
            /\ e \in Poll(c, room[c])' => e \in Poll(c, room[c])
            => Awake(c, e)'
<1>1. rdy'[c] <=> (rdy[c] \/ fd[c].mask \cap events # {})
  BY DEF LoopTyped, Edge
<1> QED
  BY <1>1 DEF Awake

\* A step that neither touches the descriptor nor makes e possible.
LEMMA AwakeKept ==
  ASSUME NEW c, NEW e, Awake(c, e),
         fd'[c] = fd[c], rdy'[c] = rdy[c],
         e \in Poll(c, room[c])' => e \in Poll(c, room[c])
  PROVE  Awake(c, e)'
  BY DEF Awake

\* Nothing is registered for a connection that is not open, so nothing can be
\* missed there.
LEMMA ClosedWoken ==
  ASSUME TypeOK', NEW c \in Conns, Good(c)', pc' # "down", sock'[c] # "open"
  PROVE  Woken(c)'
<1>1. Matches(c)' /\ Silent(c)'
  <2>1. sock'[c] \in {"none", "closed"}
    BY DEF TypeOK, ConnsTyped
  <2> QED
    BY <2>1 DEF Good, Running, Parked
<1>2. fd'[c].mask = {}
  BY <1>1, WantedSets DEF Matches, Agree, Silent
<1> QED
  BY <1>2 DEF Woken, Awake

-----------------------------------------------------------------------------
(* Every step keeps the connection woken, for which it is the only one that   *)
(* the step touches.                                                          *)

\* The clients: whatever makes an event possible is an edge on it.
LEMMA WokenClient ==
  ASSUME TypeOK, NEW c \in Conns, Client(c), Woken(c)
  PROVE  Woken(c)'
<1> USE DEF TypeOK
<1>1. UNCHANGED <<cur, pc, ev, fd>>
  BY DEF Client, PeerConnect, PeerSend, PeerShut, PeerReset, PeerDrain, ctlVars,
         localVars, loopVars
<1>2. /\ WillRead(c)' <=> WillRead(c)
      /\ WillWrite(c)' <=> WillWrite(c)
  BY <1>1 DEF WillRead, WillWrite
<1>3. ASSUME NEW e \in {"IN", "OUT"}, Awake(c, e) PROVE Awake(c, e)'
  <2>1. CASE PeerConnect(c)
    <3>1. UNCHANGED <<fd, rdy, inbuf, room>> /\ peer[c] = "away" /\ peer'[c] = "open"
      BY <2>1 DEF PeerConnect, loopVars, bufVars, ClientsTyped
    <3> QED
      BY <1>3, <3>1, AwakeKept DEF Poll
  <2>2. CASE PeerReset(c)
    BY <1>1, <2>2, EdgeWakes DEF PeerReset
  <2>3. CASE PeerDrain(c)
    <3>1. Edge(c, {"OUT"}) /\ UNCHANGED <<peer, inbuf>>
      BY <2>3 DEF PeerDrain, clientVars
    <3>2. "IN" \in Poll(c, room[c])' => "IN" \in Poll(c, room[c])
      BY <3>1 DEF Poll
    <3> QED
      BY <1>1, <1>3, <3>1, <3>2, EdgeWakes
  <2>4. ASSUME \/ PeerShut(c)
               \/ \E r \in Requests : PeerSend(c, r)
        PROVE  Awake(c, e)'
    <3>1. Edge(c, {"IN"}) /\ room' = room /\ peer[c] = "open" /\ peer'[c] # "reset"
      BY <2>4 DEF PeerShut, PeerSend, bufVars, ClientsTyped
    <3>2. "OUT" \in Poll(c, room[c])' => "OUT" \in Poll(c, room[c])
      BY <3>1 DEF Poll
    <3> QED
      BY <1>1, <1>3, <3>1, <3>2, EdgeWakes
  <2> QED
    BY <2>1, <2>2, <2>3, <2>4 DEF Client
<1> QED
  BY <1>2, <1>3 DEF Woken

\* Loop::Run and Server::OnAccept: what Run takes off the ready list it is
\* going to handle, and what it drops had nothing to report.
LEMMA WokenLoop ==
  ASSUME IInv, NEW c \in Conns, Accept(c) \/ Drop(c) \/ Dispatch(c), Woken(c),
         pc' # "down"
  PROVE  Woken(c)'
<1>1. Awake(c, "IN") /\ Awake(c, "OUT")
  BY DEF Woken, WillRead, WillWrite, Accept, Drop, Dispatch, IInv, TypeOK, ThreadTyped
<1>2. UNCHANGED <<fd, inbuf, peer, room>>
  BY DEF Accept, Drop, Dispatch, loopVars, bufVars, clientVars
<1>3. Poll(c, room[c])' = Poll(c, room[c])
  BY <1>2 DEF Poll
<1>4. CASE Accept(c)
  BY <1>1, <1>2, <1>3, <1>4, AwakeKept DEF Accept, loopVars, Woken
<1>5. CASE Drop(c)
  BY <1>2, <1>3, <1>5 DEF Drop, Woken, Awake
<1>6. CASE Dispatch(c)
  <2> DEFINE events == fd[c].mask \cap Poll(c, room[c])
  <2>1. cur' = c /\ events \subseteq {"IN", "OUT"} /\ events # {}
    BY <1>6, PollEvents DEF Dispatch
  <2>2. \/ pc' = "recv" /\ ev' = events \ {"IN"}
        \/ pc' = "out" /\ ev' = events /\ "IN" \notin events
    BY <1>6 DEF Dispatch
  <2>3. Awake(c, "IN")' \/ pc' = "recv"
    BY <1>2, <1>3, <2>2 DEF Awake
  <2>4. Awake(c, "OUT")' \/ "OUT" \in ev'
    BY <1>2, <1>3, <2>2 DEF Awake
  <2> QED
    BY <2>1, <2>3, <2>4 DEF Woken, WillRead, WillWrite
<1> QED
  BY <1>4, <1>5, <1>6

\* Loop::Run goes on to the writable event, or back to epoll_wait if there is
\* none, and then the writable event was not missed either.
LEMMA WokenRunOut ==
  ASSUME IInv, NEW c \in Conns, cur = c, RunOut(c), Woken(c), pc' # "down"
  PROVE  Woken(c)'
<1>1. pc = "out" /\ UNCHANGED <<fd, rdy, inbuf, peer, room>>
  BY DEF RunOut, loopVars, bufVars, clientVars
<1>2. \A e \in {"IN", "OUT"} : Awake(c, e) => Awake(c, e)'
  BY <1>1, AwakeKept DEF Poll
<1>3. Awake(c, "IN")
  BY <1>1 DEF Woken, WillRead
<1>4. CASE Wait
  <2>1. "OUT" \notin ev \/ pc' = "down"
    BY <1>4 DEF RunOut, Wait, Down, Goto
  <2> QED
    BY <1>1, <1>2, <1>3, <2>1 DEF Woken, WillWrite
<1>5. CASE Goto("send")
  BY <1>2, <1>3, <1>5 DEF Goto, Woken, WillWrite
<1> QED
  BY <1>4, <1>5 DEF RunOut, Down

\* A read that returns data or an error, or EAGAIN: only after EAGAIN does the
\* handler stop reading, and then there was nothing to read.
LEMMA WokenRead ==
  ASSUME IInv, NEW c \in Conns, cur = c, Woken(c), sock'[c] = "open", pc' # "down",
         \/ ReadData(c) \/ ReadEof(c) \/ ReadError(c) \/ OnRecvAgain(c)
         \/ AsyncRecvAgain(c)
  PROVE  Woken(c)'
<1>1. ~ReadEof(c) /\ ~ReadError(c)
  BY DEF ReadEof, ReadError, Down, Close, IInv, TypeOK, ConnsTyped
<1>2. /\ pc \in {"recv", "arm"} /\ ev' = ev /\ cur' = c
      /\ UNCHANGED <<fd, rdy, peer, room>>
      /\ pc' = "serve" \/ (inbuf'[c] = <<>> /\ peer'[c] = "open")
  BY <1>1 DEF ReadData, OnRecvAgain, AsyncRecvAgain, Reading, Parse, Goto,
              localVars, loopVars, bufVars, clientVars
<1>3. Awake(c, "OUT") => Awake(c, "OUT")'
  BY <1>2, AwakeKept DEF Poll
<1>4. pc' = "serve" \/ Awake(c, "IN")'
  BY <1>2 DEF Awake, Poll
<1>5. WillWrite(c) => WillWrite(c)'
  BY <1>2 DEF WillWrite
<1> QED
  BY <1>2, <1>3, <1>4, <1>5 DEF Woken, WillRead

\* Conn::AsyncRecv starts to watch the readable event, which polls it, or finds
\* it watched, and then every edge since the EAGAIN was seen.
LEMMA WokenListen ==
  ASSUME IInv, NEW c \in Conns, cur = c, Woken(c), pc' # "down", AsyncRecvListen(c)
  PROVE  Woken(c)'
<1> DEFINE answer == SetInEvent(fd[c], "OnRecv")
<1>1. /\ pc = "listen" /\ Register(c, answer) /\ UNCHANGED <<inbuf, peer, room>>
      /\ fd[c] \in Descriptors /\ Matches(c) /\ LoopTyped /\ Context
  BY Runs DEF AsyncRecvListen, bufVars, clientVars, IInv, TypeOK
<1>2. answer.polled \/ answer.fd.mask = fd[c].mask
  BY <1>1, CallsPoll DEF Matches
<1> HIDE DEF answer
<1>3. ASSUME NEW e \in {"IN", "OUT"}, Awake(c, e) PROVE Awake(c, e)'
  <2>1. CASE answer.polled
    BY <1>1, <2>1, RegisterWakes
  <2>2. CASE answer.fd.mask = fd[c].mask
    <3>1. fd'[c].mask = fd[c].mask /\ (rdy[c] => rdy'[c])
      BY <1>1, <2>2 DEF Register, LoopTyped
    <3> QED
      BY <1>1, <1>3, <3>1 DEF Awake, Poll
  <2> QED
    BY <1>2, <2>1, <2>2
<1>4. Awake(c, "IN")
  BY <1>1 DEF Woken, WillRead
<1>5. WillWrite(c) => WillWrite(c)'
  <2>1. CASE Wait
    <3>1. base = "start"
      BY <1>1, <2>1 DEF AsyncRecvListen, Return, Wait, Goto, Down
    <3> QED
      BY <1>1, <3>1 DEF Context, WillWrite
  <2>2. CASE Goto("recv")
    BY <1>1, <2>2 DEF Goto, localVars, WillWrite
  <2> QED
    BY <2>1, <2>2 DEF AsyncRecvListen, Return, Down
<1> QED
  BY <1>3, <1>4, <1>5 DEF Woken

\* The tail of Conn::OnRecv stops watching the readable event, which polls.
LEMMA WokenRecvTail ==
  ASSUME IInv, NEW c \in Conns, cur = c, pc' # "down", sock'[c] = "open",
         OnRecvTail(c)
  PROVE  Woken(c)'
<1> DEFINE answer == SetInEvent(fd[c], "none")
<1>1. /\ pc = "recv" /\ recv[c] = 0 /\ UNCHANGED <<inbuf, peer, room>>
      /\ sock[c] = "open" /\ Register(c, answer)
  BY DEF OnRecvTail, connVars, bufVars, clientVars
<1>2. fd[c] \in Descriptors /\ Matches(c) /\ LoopTyped /\ Running(c)
  BY <1>1, Runs DEF IInv, TypeOK
<1>3. fd[c].first = "OnRecv" /\ fd[c].second = "OnSend"
  BY <1>1, <1>2 DEF Running, RunningOpen, Heard, LastCloses, SecondByQueue
<1>4. answer.polled
  BY <1>2, <1>3, CallsPoll DEF Matches
<1> HIDE DEF answer
<1>5. Awake(c, "IN")' /\ Awake(c, "OUT")'
  BY <1>1, <1>2, <1>4, RegisterWakes
<1> QED
  BY <1>5 DEF Woken

\* The loop of Session::OnRecv over the requests.  Where it returns it either
\* goes back to reading or leaves a connection that does not receive.
LEMMA WokenHandle ==
  ASSUME IInv, NEW c \in Conns, cur = c, Woken(c), sock'[c] = "open",
         Handle(c) \/ Rearm(c) \/ GiveUp(c)
  PROVE  Woken(c)'
<1>1. /\ pc = "serve" /\ UNCHANGED <<fd, rdy, inbuf, peer, room, recv, sock>>
      /\ Context /\ Running(c)
  BY Runs DEF Handle, Rearm, GiveUp, loopVars, bufVars, clientVars, connVars
<1>2. Awake(c, "OUT") => Awake(c, "OUT")'
  BY <1>1, AwakeKept DEF Poll
<1>3. CASE pc' \in {"serve", "arm", "recv"} /\ cur' = c /\ ev' = ev
  BY <1>1, <1>2, <1>3 DEF Woken, WillRead, WillWrite
<1>4. CASE Wait /\ base = "start"
  <2>1. fd[c].first = "none" /\ "OUT" \notin ev
    BY <1>1, <1>4 DEF Running, RunningOpen, FirstByBase, Context
  <2>2. Awake(c, "IN")'
    BY <1>1, <2>1, MaskEvents DEF Awake, IInv
  <2>3. Awake(c, "OUT")
    BY <1>1, <2>1 DEF Woken, WillWrite
  <2> QED
    BY <1>2, <2>2, <2>3 DEF Woken
<1> QED
  BY <1>1, <1>3, <1>4 DEF Handle, Rearm, GiveUp, Goto, localVars

\* The pieces of a request.  A write only takes room, and where it falls short
\* none is left, so that the next drain is an edge.
LEMMA WokenSend ==
  ASSUME IInv, NEW c \in Conns, cur = c, Woken(c), sock'[c] = "open", pc' # "down",
         SendQueued(c) \/ SendEmpty(c) \/ SendFails(c) \/ SendWhole(c) \/ SendPart(c)
  PROVE  Woken(c)'
<1>1. Sending
  BY DEF SendQueued, SendEmpty, SendFails, SendWhole, SendPart, Writable
<1>2. Head(outs).len \in Nat /\ room[c] \in Nat
  <2>1. TypeOK
    BY DEF IInv
  <2>2. Head(outs) \in Sends
    BY <1>1, <2>1, RequestTyped
  <2> QED
    BY <2>1, <2>2 DEF Sends, TypeOK, BuffersTyped
<1> USE DEF IInv, TypeOK
<1>3. ~Close(c)
  BY DEF Close, ConnsTyped
<1>4. /\ cur' = c /\ ev' = ev /\ pc' \in {"serve", "watch"}
      /\ UNCHANGED <<fd, rdy, inbuf, peer>> /\ (room'[c] > 0 => room[c] > 0)
  <2>1. CASE SendQueued(c)
    BY <1>1, <2>1 DEF SendQueued, NextPiece, Sending, loopVars, bufVars, clientVars
  <2>2. CASE SendEmpty(c) \/ SendFails(c)
    BY <1>1, <1>3, <2>2 DEF SendEmpty, SendFails, Sent, NextPiece, Down, Sending,
                            loopVars, clientVars
  <2>3. CASE SendWhole(c)
    <3>1. UNCHANGED <<fd, rdy, inbuf, peer>> /\ NextPiece
      BY <1>3, <2>3 DEF SendWhole, Sent, Down, loopVars, clientVars
    <3>2. room'[c] = room[c] - Head(outs).len
      BY <2>3 DEF SendWhole, Write, BuffersTyped
    <3> QED
      BY <1>1, <1>2, <3>1, <3>2 DEF NextPiece, Sending
  <2>4. CASE SendPart(c)
    <3>1. room'[c] = 0
      BY <1>2, <2>4 DEF SendPart, Write, BuffersTyped
    <3> QED
      BY <2>4, <3>1 DEF SendPart, loopVars, clientVars
  <2> QED
    BY <2>1, <2>2, <2>3, <2>4
<1>5. "OUT" \in Poll(c, room[c])' => "OUT" \in Poll(c, room[c])
  BY <1>4 DEF Poll
<1>6. Awake(c, "OUT") => Awake(c, "OUT")'
  BY <1>4, <1>5, AwakeKept
<1>7. WillWrite(c) => WillWrite(c)'
  BY <1>1, <1>4 DEF WillWrite, Sending
<1> QED
  BY <1>4, <1>6, <1>7 DEF Woken, WillRead

\* Conn::AsyncSend starts to watch the writable event, which polls it: room that
\* came after the short write is reported.
LEMMA WokenWatch ==
  ASSUME IInv, NEW c \in Conns, cur = c, pc' # "down", AsyncSendWatch(c)
  PROVE  Woken(c)'
<1> DEFINE answer == SetOutEvent(fd[c], "OnSend")
<1>1. /\ pc = "watch" /\ Register(c, answer) /\ UNCHANGED <<inbuf, peer, room>>
      /\ fd[c] \in Descriptors /\ Matches(c) /\ LoopTyped /\ Running(c)
      /\ sock[c] \in {"none", "open", "closed"}
  BY Runs DEF AsyncSendWatch, bufVars, clientVars, IInv, TypeOK
<1>2. fd[c].second = "none"
  BY <1>1 DEF Running, RunningOpen
<1>3. answer.polled
  BY <1>1, <1>2, CallsPoll DEF Matches
<1> HIDE DEF answer
<1>4. Awake(c, "IN")' /\ Awake(c, "OUT")'
  BY <1>1, <1>3, RegisterWakes
<1> QED
  BY <1>4 DEF Woken

\* Conn::OnSend.  It returns when no room is left, or with nothing to write.
LEMMA WokenFlush ==
  ASSUME IInv, NEW c \in Conns, cur = c, Woken(c), sock'[c] = "open", pc' # "down",
         OnSendFails(c) \/ OnSendWhole(c) \/ OnSendPart(c) \/ OnSendTail(c)
  PROVE  Woken(c)'
<1> USE DEF IInv, TypeOK
<1>1. pc = "send" /\ peer' = peer
  BY DEF OnSendFails, OnSendWhole, OnSendPart, OnSendTail, clientVars
<1>2. Awake(c, "IN")
  BY <1>1 DEF Woken, WillRead
<1>3. ~Close(c)
  BY DEF Close, ConnsTyped
<1>4. UNCHANGED <<fd, rdy, inbuf>> => Awake(c, "IN")'
  BY <1>1, <1>2, AwakeKept DEF Poll
<1>5. CASE OnSendWhole(c)
  <2>1. UNCHANGED <<fd, rdy, inbuf>> /\ Goto("send")
    BY <1>3, <1>5 DEF OnSendWhole, Sent, Down, loopVars
  <2> QED
    BY <1>4, <2>1 DEF Goto, Woken, WillWrite
<1>6. CASE OnSendPart(c)
  <2>1. UNCHANGED <<fd, rdy, inbuf>> /\ peer[c] # "reset"
    BY <1>6 DEF OnSendPart, loopVars
  <2>2. room'[c] = 0
    BY <1>6 DEF OnSendPart, Write, BuffersTyped
  <2>3. Awake(c, "OUT")'
    BY <1>1, <2>1, <2>2 DEF Awake, Poll
  <2> QED
    BY <1>4, <2>1, <2>3 DEF Woken
<1>7. CASE OnSendTail(c)
  <2> DEFINE answer == SetOutEvent(fd[c], "none")
  <2>1. /\ sock[c] = "open" /\ send[c] = <<>> /\ Register(c, answer)
        /\ UNCHANGED <<inbuf, peer, room>>
    BY <1>7 DEF OnSendTail, connVars, bufVars, clientVars
  <2>2. fd[c] \in Descriptors /\ Matches(c) /\ LoopTyped /\ Running(c)
    BY <1>1, Runs
  <2>3. fd[c].first = "OnRecv" /\ fd[c].second = "OnSend"
    BY <1>1, <2>1, <2>2 DEF Running, RunningOpen, Heard, LastCloses, FirstByQueue
  <2>4. answer.polled
    BY <2>2, <2>3, CallsPoll DEF Matches
  <2> HIDE DEF answer
  <2>5. Awake(c, "IN")' /\ Awake(c, "OUT")'
    BY <2>1, <2>2, <2>4, RegisterWakes
  <2> QED
    BY <2>5 DEF Woken
<1> QED
  BY <1>3, <1>5, <1>6, <1>7 DEF OnSendFails

-----------------------------------------------------------------------------

\* A connection that the step does not touch stays awake.
LEMMA WokenOthers ==
  ASSUME NEW c \in Conns, Same(c), Apart(c), Woken(c),
         UNCHANGED ctlVars \/ (c # cur /\ c # cur')
  PROVE  Woken(c)'
<1>1. Poll(c, room[c])' = Poll(c, room[c])
  BY DEF Apart, Poll
<1> QED
  BY <1>1 DEF Same, Apart, Woken, WillRead, WillWrite, Awake, ctlVars, localVars

\* No connection is woken but by its own events, and none is missed.
LEMMA WakeNext ==
  ASSUME IInv, IInv', WakeInv, [Next]_vars
  PROVE  WakeInv'
<1> SUFFICES ASSUME pc' # "down", NEW d \in Conns PROVE Woken(d)'
  BY DEF WakeInv
<1>1. CASE UNCHANGED vars
  <2>1. Poll(d, room[d])' = Poll(d, room[d])
    BY <1>1 DEF vars, clientVars, bufVars, Poll
  <2>2. UNCHANGED <<fd, rdy, pc, cur, ev>>
    BY <1>1 DEF vars, loopVars, ctlVars, localVars
  <2> QED
    BY <2>1, <2>2 DEF WakeInv, Woken, WillRead, WillWrite, Awake
<1>2. ASSUME NEW c \in Conns,
             Client(c) \/ Accept(c) \/ Drop(c) \/ Dispatch(c) \/ Step(c)
      PROVE  Woken(d)'
  <2>1. pc # "down" /\ Woken(c) /\ Woken(d)
    <3>1. pc # "down"
      BY <1>2, StepRuns
    <3> QED
      BY <3>1 DEF WakeInv
  <2>2. CASE d = c
    <3>1. Good(c)' /\ TypeOK'
      BY DEF IInv, Good
    <3>2. CASE sock'[c] # "open"
      BY <2>1, <2>2, <3>1, <3>2, ClosedWoken
    <3>3. CASE sock'[c] = "open"
      <4>1. CASE Client(c)
        BY <2>1, <2>2, <4>1, WokenClient DEF IInv
      <4>2. CASE Accept(c) \/ Drop(c) \/ Dispatch(c)
        BY <2>1, <2>2, <4>2, WokenLoop
      <4>3. CASE Step(c)
        BY <2>1, <2>2, <3>3, <4>3, WokenRunOut, WokenRead, WokenListen,
           WokenRecvTail, WokenHandle, WokenSend, WokenWatch, WokenFlush DEF Step
      <4> QED
        BY <1>2, <4>1, <4>2, <4>3
    <3> QED
      BY <3>2, <3>3
  <2>3. CASE d # c
    <3>1. Same(d) /\ Apart(d)
      BY <1>2, <2>3, OthersSame, OthersApart DEF IInv
    <3>2. UNCHANGED ctlVars \/ (d # cur /\ d # cur')
      BY <1>2, <2>3, OthersRun, ConnsAssumption DEF IInv, TypeOK
    <3> QED
      BY <2>1, <3>1, <3>2, WokenOthers
  <2> QED
    BY <2>2, <2>3
<1> QED
  BY <1>1, <1>2 DEF Next

\* Before the first client nothing is registered.
LEMMA WakeInit == Init => WakeInv
  BY DEF Init, Unknown, WakeInv, Woken, Awake

\* The invariant of the wakeups holds in every reachable state.
THEOREM WokenAlways == Spec => []WakeInv
<1>1. Init => WakeInv
  BY WakeInit
<1>2. IInv /\ IInv' /\ WakeInv /\ [Next]_vars => WakeInv'
  BY WakeNext
<1> QED
  BY <1>1, <1>2, Registered, PTL DEF Spec

\* With edge-triggered epoll an edge is reported once.  Between events, when
\* what a connection waits for is possible, it is on the ready list, whatever
\* the client did between the last read or write and the registration
\* (conn.cpp:56-72, 92-115, 139-145, 174-180).
THEOREM NoWakeupLost == Spec => []NoLostWakeup
<1>1. IInv /\ WakeInv => NoLostWakeup
  <2> SUFFICES ASSUME IInv, WakeInv, pc = "wait", NEW c \in Conns, ~rdy[c]
               PROVE  /\ ~(recv[c] > 0 /\ "IN" \in Poll(c, room[c]))
                      /\ ~(send[c] # <<>> /\ "OUT" \in Poll(c, room[c]))
    BY DEF NoLostWakeup
  <2>1. c # cur /\ Matches(c) /\ Parked(c) /\ recv[c] \in Nat
    BY DEF IInv, TypeOK, ThreadTyped, ConnsTyped
  <2>2. Awake(c, "IN") /\ Awake(c, "OUT")
    BY <2>1 DEF WakeInv, Woken, WillRead, WillWrite
  <2>3. /\ recv[c] > 0 => "IN" \in fd[c].mask
        /\ send[c] # <<>> => "OUT" \in fd[c].mask
    BY <2>1, MaskEvents DEF Parked, Silent, FirstByQueue, SecondByQueue
  <2> QED
    BY <2>2, <2>3 DEF Awake
<1> QED
  BY <1>1, Registered, WokenAlways, PTL

-----------------------------------------------------------------------------
(* How the process goes down.  The loop throws when the handler of the        *)
(* readable event closed the connection while the writable event is still to  *)
(* be handled; the invariant says that only an error of the client did that.  *)

Gone(c) == peer[c] \in {"shut", "reset"}

\* The thread is in the handler of the readable event and has the writable one
\* still to handle, in a connection that is closed.
Doomed == pc \notin {"wait", "send", "down"} /\ "OUT" \in ev /\ sock[cur] = "closed"

GoneInv == Doomed \/ pc = "down" => Gone(cur)

\* While a reply is queued, nothing that a request sends closes the connection:
\* the empty piece and the direct writes need an empty queue.
LEMMA NoCloseWhileQueued ==
  ASSUME IInv, NEW c \in Conns, cur = c, Sending, send[c] = <<>>, "OUT" \in ev
  PROVE  sock[c] = "closed"
<1>1. pc = "serve" /\ Running(c) /\ sock[c] \in {"none", "open", "closed"}
  BY Runs DEF Sending
<1>2. sock[c] # "open"
  BY <1>1 DEF Running, RunningOpen
<1> QED
  BY <1>1, <1>2 DEF Running

\* A reading handler runs in an open connection.
LEMMA ReadsOpen ==
  ASSUME IInv, NEW c \in Conns, cur = c, Reading(c) \/ pc \in {"listen", "watch"}
  PROVE  sock[c] = "open"
<1>1. Running(c) /\ recv[c] \in Nat /\ sock[c] \in {"none", "open", "closed"}
  BY Runs DEF Reading
<1> QED
  BY <1>1 DEF Running, Silent, Reading

\* A step of a handler, in a build without assertions.
LEMMA GoneStep ==
  ASSUME ~Debug, IInv, GoneInv, NEW c \in Conns, Step(c)
  PROVE  GoneInv'
<1> USE DEF GoneInv, Doomed, Gone
<1>1. cur = c
  BY DEF Step
<1>2. ASSUME UNCHANGED <<peer, sock, ev, cur>>, pc \notin {"wait", "send", "down"},
             pc' # "down"
      PROVE  GoneInv'
  BY <1>1, <1>2
<1>3. ASSUME Wait PROVE GoneInv'
  BY <1>3 DEF Wait
<1>4. CASE RunOut(c)
  <2>1. pc = "out" /\ UNCHANGED <<peer, sock>>
    BY <1>4 DEF RunOut, clientVars, connVars
  <2>2. CASE "OUT" \in ev /\ (~fd[c].known \/ fd[c].second = "none")
    <3>1. /\ Running(c) /\ Matches(c) /\ fd[c] \in Descriptors
          /\ sock[c] \in {"none", "open", "closed"}
      BY <1>1, <2>1, Runs
    <3>2. fd[c].second = "none"
      BY <2>2, <3>1, WantedSets DEF Matches, Agree
    <3>3. sock[c] = "closed"
      BY <2>1, <2>2, <3>1, <3>2 DEF Running, RunningOpen
    <3>4. Gone(c)
      BY <1>1, <2>1, <2>2, <3>3
    <3>5. cur' = c
      BY <1>1, <1>4, <2>2 DEF RunOut, Down, localVars
    <3> QED
      BY <2>1, <3>4, <3>5
  <2>3. CASE Wait \/ Goto("send")
    BY <2>3 DEF Wait, Goto
  <2> QED
    BY <1>4, <2>2, <2>3 DEF RunOut
<1>5. CASE ReadEof(c) \/ ReadError(c)
  <2>1. peer[c] \in {"shut", "reset"} /\ peer' = peer /\ (cur' = c \/ Wait)
    BY <1>1, <1>5 DEF ReadEof, ReadError, Goto, Down, Return, clientVars
  <2> QED
    BY <1>3, <2>1
<1>6. CASE ReadData(c) \/ OnRecvAgain(c) \/ AsyncRecvAgain(c)
  <2>1. pc' # "down" /\ cur' = c /\ sock' = sock
    BY <1>1, <1>6 DEF ReadData, Parse, OnRecvAgain, AsyncRecvAgain, Goto, connVars
  <2>2. sock[c] = "open"
    BY <1>1, <1>6, ReadsOpen DEF ReadData, OnRecvAgain, AsyncRecvAgain, Reading
  <2> QED
    BY <2>1, <2>2
<1>7. CASE AsyncRecvListen(c)
  <2>1. Matches(c) /\ fd[c] \in Descriptors /\ sock[c] = "open" /\ sock' = sock
    BY <1>1, <1>7, Runs, ReadsOpen DEF AsyncRecvListen
  <2>2. Return
    BY <1>7, <2>1, ListenWorks DEF AsyncRecvListen, Matches
  <2> QED
    BY <1>1, <1>3, <2>1, <2>2 DEF Return, Goto
<1>8. CASE OnRecvTail(c)
  BY <1>2, <1>8 DEF OnRecvTail, Goto, localVars, clientVars, connVars
<1>9. CASE Handle(c) \/ Rearm(c) \/ GiveUp(c)
  BY <1>2, <1>3, <1>9
     DEF Handle, Rearm, GiveUp, Goto, localVars, clientVars, connVars
<1>10. CASE SendQueued(c) \/ SendPart(c)
  BY <1>2, <1>10 DEF SendQueued, SendPart, Writable, Sending, NextPiece, clientVars
<1>11. CASE AsyncSendWatch(c)
  <2>1. /\ Matches(c) /\ fd[c] \in Descriptors /\ Running(c) /\ sock[c] = "open"
        /\ sock' = sock
    BY <1>1, <1>11, Runs, ReadsOpen DEF AsyncSendWatch, connVars
  <2>2. SetOutEvent(fd[c], "OnSend").ok
    BY <1>11, <2>1, WatchWorks DEF AsyncSendWatch, Matches, Running, RunningOpen
  <2> QED
    BY <1>1, <1>11, <2>1, <2>2 DEF AsyncSendWatch, Goto
<1>12. CASE SendEmpty(c) \/ SendFails(c) \/ SendWhole(c)
  <2>1. Sending /\ send[c] = <<>> /\ NextPiece /\ peer' = peer
    BY <1>12 DEF SendEmpty, SendFails, SendWhole, Writable, clientVars
  <2>2. "OUT" \in ev => sock[c] = "closed"
    BY <1>1, <2>1, NoCloseWhileQueued
  <2> QED
    BY <1>1, <2>1, <2>2 DEF NextPiece, Sending
<1>13. CASE OnSendFails(c) \/ OnSendWhole(c) \/ OnSendPart(c) \/ OnSendTail(c)
  BY <1>3, <1>13 DEF OnSendFails, OnSendWhole, OnSendPart, OnSendTail, Goto
<1> QED
  BY <1>4, <1>5, <1>6, <1>7, <1>8, <1>9, <1>10, <1>11, <1>12, <1>13 DEF Step

\* Every step, in a build without assertions.
LEMMA GoneNext ==
  ASSUME ~Debug, IInv, GoneInv, [Next]_vars
  PROVE  GoneInv'
<1> USE DEF GoneInv, Doomed, Gone
<1>1. CASE UNCHANGED vars
  BY <1>1 DEF vars, clientVars, connVars, ctlVars, localVars
<1>2. ASSUME NEW c \in Conns, Client(c) PROVE GoneInv'
  <2>1. UNCHANGED <<pc, cur, ev, sock>> /\ pc # "down"
    BY <1>2, StepRuns DEF Client, PeerConnect, PeerSend, PeerShut, PeerReset,
                          PeerDrain, connVars, ctlVars, localVars
  <2>2. \A d \in Conns : Gone(d) => Gone(d)'
    BY <1>2 DEF Client, PeerConnect, PeerSend, PeerShut, PeerReset, PeerDrain,
                clientVars, IInv, TypeOK, ClientsTyped
  <2>3. pc # "wait" => cur \in Conns
    BY DEF IInv, TypeOK, ThreadTyped
  <2> QED
    BY <2>1, <2>2, <2>3
<1>3. ASSUME NEW c \in Conns, Accept(c) \/ Drop(c) PROVE GoneInv'
  BY <1>3 DEF Accept, Drop, clientVars, connVars, ctlVars, localVars, IInv, TypeOK,
              ConnsTyped
<1>4. ASSUME NEW c \in Conns, Dispatch(c) PROVE GoneInv'
  <2> DEFINE events == fd[c].mask \cap Poll(c, room[c])
  <2>1. /\ events # {} /\ cur' = c /\ sock' = sock
        /\ pc' = "down" => "IN" \in events /\ fd[c].first = "none"
    BY <1>4 DEF Dispatch, connVars
  <2>2. Matches(c) /\ pc # "down"
    BY <1>4 DEF IInv, Dispatch
  <2>3. pc' # "down"
    BY <2>1, <2>2, MaskEvents
  <2>4. sock[c] # "closed"
    BY <2>1, <2>2, ClosedSilent
  <2> QED
    BY <2>1, <2>3, <2>4
<1>5. ASSUME NEW c \in Conns, Step(c) PROVE GoneInv'
  BY <1>5, GoneStep
<1> QED
  BY <1>1, <1>2, <1>3, <1>4, <1>5 DEF Next

\* In a build without assertions the process only goes down in a handler of a
\* client that shut down or reset its connection: neither a request nor a slow
\* reader can bring it down (loop.cpp:150-156, session.cpp:77-85).
THEOREM DownByClientOnly ==
  ASSUME ~Debug
  PROVE  Spec => []DownOnlyByClient
<1>1. Init => GoneInv
  BY DEF Init, GoneInv, Doomed
<1>2. IInv /\ GoneInv /\ [Next]_vars => GoneInv'
  BY GoneNext
<1>3. GoneInv => DownOnlyByClient
  BY DEF GoneInv, Gone, DownOnlyByClient
<1> QED
  BY <1>1, <1>2, <1>3, Registered, PTL DEF Spec

=============================================================================
