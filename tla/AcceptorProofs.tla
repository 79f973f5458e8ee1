--------------------------- MODULE AcceptorProofs ---------------------------
(***************************************************************************)
(* Proofs about Acceptor, for any set of clients: the acceptor never goes  *)
(* deaf, no client is overlooked, and clients are served once, in order.   *)
(***************************************************************************)
EXTENDS Acceptor, SequenceTheorems, TLAPS

\* What the list and the registration are at each place of the thread: in the
\* accepts of Server::Start nothing is queued or watched; in those of an event
\* one request is at the front, and a second one behind it before it is popped.
Queued ==
  LET starting == base = "start" /\ reqs = <<>> /\ listen = Unknown
      holding(n) == Len(reqs) = n /\ listen = Watched
  IN /\ pc = "wait" => holding(1)
     /\ pc = "accept" => base = "event" /\ holding(1)
     /\ pc \in {"async", "session"} => starting \/ (base = "event" /\ holding(1))
     /\ pc = "watch" => starting
     /\ pc = "pop" => base = "event" /\ holding(2)

\* The Conns are numbered as they are used: session i runs on Conn i, the
\* next Conn waits at the front of the list or in the thread.
Numbered ==
  /\ \A i \in 1 .. Len(served) : served[i].conn = i
  /\ made = Len(served) + 1
  /\ pc \in {"wait", "accept"} => reqs[1] = made
  /\ pc \in {"async", "watch", "session"} => conn = made
  /\ pc = "pop" => reqs[2] = made

\* The clients that arrived are those that are served, then the one that is
\* accepted and has no session yet, then the backlog.
Taken == IF pc = "session" /\ got # NoClient THEN 1 ELSE 0

Ordered ==
  /\ Len(arrived) = Len(served) + Taken + Len(backlog)
  /\ \A i \in 1 .. Len(served) : served[i].client = arrived[i]
  /\ Taken = 1 => got = arrived[Len(served) + 1]
  /\ \A i \in 1 .. Len(backlog) : backlog[i] = arrived[Len(served) + Taken + i]

\* While the loop watches, a client in the backlog is on the ready list or is
\* about to be found by the thread.
Noticed ==
  listen = Watched /\ pc = "wait" /\ backlog # <<>> => rdy

Blamed == (pc = "session" /\ got = NoClient) \/ pc = "down" => failed

IInv == TypeOK /\ Queued /\ Numbered /\ Ordered /\ Noticed /\ Blamed

-----------------------------------------------------------------------------

\* The watch of an unknown descriptor succeeds and makes the kernel poll.
LEMMA WatchSucceeds ==
  LET answer == SetInEvent(Unknown, "OnAccept")
  IN answer.fd = Watched /\ answer.ok /\ answer.polled
  BY DEF SetInEvent, Add, Answer, Unknown, Watched

\* The watched descriptor is known and reports what arrives.
LEMMA WatchedIsNot == Watched # Unknown /\ "IN" \in Watched.mask
  BY DEF Watched, Unknown

\* The invariant holds when Server::Start calls AsyncAccept.
LEMMA IInit == Init => IInv
<1> SUFFICES ASSUME Init PROVE IInv
  OBVIOUS
<1>1. TypeOK
  <2>1. Unknown \in Descriptors
    BY DEF Unknown, Descriptors, Handlers, Events
  <2>2. <<>> \in Seq(Clients) /\ <<>> \in Seq(Nat) /\ <<>> \in Seq(Sessions)
    OBVIOUS
  <2>. QED BY <2>1, <2>2 DEF Init, TypeOK
<1>2. Queued
  BY DEF Init, Queued
<1>3. Numbered
  BY DEF Init, Numbered
<1>4. Ordered
  BY DEF Init, Ordered, Taken
<1>. QED BY <1>1, <1>2, <1>3, <1>4 DEF Init, IInv, Noticed, Blamed

\* A client that arrives is the last of the backlog, and an edge.
LEMMA ArriveKeeps ==
  ASSUME IInv, NEW c \in Clients, Arrive(c)
  PROVE  IInv'
<1>0. TypeOK /\ Queued /\ Numbered /\ Ordered /\ Noticed /\ Blamed
  BY DEF IInv
<1>1. /\ arrived' \in Seq(Clients) /\ Len(arrived') = Len(arrived) + 1
      /\ \A i \in 1 .. Len(arrived) : arrived'[i] = arrived[i]
      /\ arrived'[Len(arrived) + 1] = c
  BY <1>0 DEF TypeOK, Arrive
<1>2. /\ backlog' \in Seq(Clients) /\ Len(backlog') = Len(backlog) + 1
      /\ \A i \in 1 .. Len(backlog) : backlog'[i] = backlog[i]
      /\ backlog'[Len(backlog) + 1] = c
  BY <1>0 DEF TypeOK, Arrive
<1>3. UNCHANGED <<listen, reqs, made, served, failed, pc, base, conn, got>>
  BY DEF Arrive
<1>4. TypeOK'
  BY <1>0, <1>1, <1>2, <1>3 DEF TypeOK, Arrive
<1>5. Queued' /\ Numbered' /\ Blamed'
  BY <1>0, <1>3 DEF Queued, Numbered, Blamed
<1>6. Ordered'
  <2>1. Taken' = Taken /\ Taken \in {0, 1}
    BY <1>3 DEF Taken
  <2>2. Len(arrived) \in Nat /\ Len(served) \in Nat /\ Len(backlog) \in Nat
    BY <1>0 DEF TypeOK
  <2>3. Len(arrived) = Len(served) + Taken + Len(backlog)
    BY <1>0 DEF Ordered
  <2>4. Len(arrived') = Len(served') + Taken' + Len(backlog')
    BY <1>1, <1>2, <1>3, <2>1, <2>2, <2>3
  <2>5. \A i \in 1 .. Len(served') : served'[i].client = arrived'[i]
    BY <1>0, <1>1, <1>3, <2>1, <2>2, <2>3 DEF Ordered
  <2>6. Taken' = 1 => got' = arrived'[Len(served') + 1]
    BY <1>0, <1>1, <1>3, <2>1, <2>2, <2>3 DEF Ordered
  <2>7. ASSUME NEW i \in 1 .. Len(backlog')
        PROVE  backlog'[i] = arrived'[Len(served') + Taken' + i]
    <3>1. CASE i = Len(backlog) + 1
      BY <1>1, <1>2, <1>3, <2>1, <2>2, <2>3, <3>1
    <3>2. CASE i # Len(backlog) + 1
      <4>1. i \in 1 .. Len(backlog)
        BY <1>2, <2>2, <3>2
      <4>2. backlog[i] = arrived[Len(served) + Taken + i]
        BY <1>0, <4>1 DEF Ordered
      <4>3. Len(served) + Taken + i \in 1 .. Len(arrived)
        BY <2>1, <2>2, <2>3, <4>1
      <4>. QED BY <1>1, <1>2, <1>3, <2>1, <4>1, <4>2, <4>3
    <3>. QED BY <3>1, <3>2
  <2>. QED BY <2>4, <2>5, <2>6, <2>7 DEF Ordered
<1>7. Noticed'
  BY <1>0, <1>3, WatchedIsNot DEF Noticed, Arrive
<1>. QED BY <1>4, <1>5, <1>6, <1>7 DEF IInv

\* A handler that is called without a client is called after a failure.
LEMMA AcceptOutcome ==
  ASSUME TypeOK, NEW place, place # "session", Accepts \/ Fails \/ Blocks(place)
  PROVE  /\ pc' \in {"session", place}
         /\ got' \in Clients \cup {NoClient}
         /\ failed' \in BOOLEAN
         /\ pc' = "session" /\ got' = NoClient => failed'
         /\ pc' = place => backlog' = <<>>
<1>1. CASE Accepts
  <2>1. got' \in Clients
    BY <1>1 DEF Accepts, TypeOK
  <2>. QED BY <1>1, <2>1, ClientsAssumption DEF Accepts, TypeOK
<1>2. CASE Fails
  BY <1>2 DEF Fails
<1>3. CASE Blocks(place)
  BY <1>3 DEF Blocks, TypeOK
<1>. QED BY <1>1, <1>2, <1>3

\* The outcomes of accept keep the order: it takes the first of the backlog,
\* or nothing.
LEMMA AcceptKeepsOrder ==
  ASSUME TypeOK, Ordered, pc # "session", UNCHANGED <<arrived, served>>,
         Accepts \/ Fails \/ (pc' # "session" /\ UNCHANGED backlog)
  PROVE  Ordered' /\ backlog' \in Seq(Clients)
<1>1. Taken = 0
  BY DEF Taken
<1>2. /\ Len(arrived) = Len(served) + Len(backlog)
      /\ \A i \in 1 .. Len(served) : served[i].client = arrived[i]
      /\ \A i \in 1 .. Len(backlog) : backlog[i] = arrived[Len(served) + i]
      /\ Len(served) \in Nat
  BY <1>1 DEF Ordered, TypeOK
<1>3. CASE Accepts
  <2>1. backlog \in Seq(Clients) /\ backlog # <<>> /\ Len(backlog) \in Nat \ {0}
    BY <1>3 DEF Accepts, TypeOK
  <2>2. /\ got' \in Clients /\ got' = backlog[1] /\ backlog' \in Seq(Clients)
        /\ Len(backlog') = Len(backlog) - 1
        /\ \A i \in 1 .. Len(backlog') : backlog'[i] = backlog[i + 1]
    BY <1>3, <2>1 DEF Accepts
  <2>3. Taken' = 1
    BY <1>3, <2>2, ClientsAssumption DEF Accepts, Taken
  <2>4. Len(arrived') = Len(served') + Taken' + Len(backlog')
    BY <1>2, <2>1, <2>2, <2>3
  <2>5. got' = arrived'[Len(served') + 1]
    BY <1>2, <2>1, <2>2
  <2>6. ASSUME NEW i \in 1 .. Len(backlog')
        PROVE  backlog'[i] = arrived'[Len(served') + Taken' + i]
    <3>1. i + 1 \in 1 .. Len(backlog)
      BY <2>1, <2>2
    <3>2. backlog'[i] = arrived[Len(served) + (i + 1)]
      BY <1>2, <2>2, <3>1
    <3>3. Len(served) + (i + 1) = Len(served) + 1 + i
      BY <1>2
    <3>. QED BY <2>3, <3>2, <3>3
  <2>7. \A i \in 1 .. Len(served') : served'[i].client = arrived'[i]
    BY <1>2
  <2>. QED BY <2>2, <2>4, <2>5, <2>6, <2>7 DEF Ordered
<1>4. CASE Fails
  <2>1. Taken' = 0 /\ UNCHANGED backlog
    BY <1>4 DEF Fails, Taken
  <2>. QED BY <1>1, <2>1 DEF Ordered, TypeOK
<1>5. CASE pc' # "session" /\ UNCHANGED backlog
  <2>1. Taken' = 0
    BY <1>5 DEF Taken
  <2>. QED BY <1>1, <1>5, <2>1 DEF Ordered, TypeOK
<1>. QED BY <1>3, <1>4, <1>5

\* Acceptor::AsyncAccept keeps the invariant: queued, accepted or waiting.
LEMMA AsyncAcceptKeeps ==
  ASSUME IInv, AsyncAccept
  PROVE  IInv'
<1>0. /\ TypeOK /\ Queued /\ Numbered /\ Ordered /\ Noticed /\ Blamed
      /\ pc = "async"
      /\ UNCHANGED <<arrived, rdy, listen, made, served, base, conn>>
  BY DEF IInv, AsyncAccept
<1>1. reqs \in Seq(Nat) /\ conn \in Nat
  BY <1>0 DEF TypeOK
<1>2. CASE reqs # <<>>
  <2>1. /\ reqs' = Append(reqs, conn) /\ pc' = Returned
        /\ UNCHANGED <<backlog, got, failed>>
    BY <1>2 DEF AsyncAccept
  <2>2. base = "event" /\ Len(reqs) = 1 /\ listen = Watched /\ pc' = "pop"
    BY <1>0, <1>2, <2>1 DEF Queued, Returned
  <2>3. reqs' \in Seq(Nat) /\ Len(reqs') = 2 /\ reqs'[2] = conn
    <3>1. /\ Append(reqs, conn) \in Seq(Nat)
          /\ Len(Append(reqs, conn)) = Len(reqs) + 1
          /\ Append(reqs, conn)[Len(reqs) + 1] = conn
      BY <1>1
    <3>. QED BY <2>1, <2>2, <3>1
  <2>4. TypeOK'
    BY <1>0, <2>1, <2>2, <2>3 DEF TypeOK
  <2>5. Queued' /\ Numbered'
    BY <1>0, <2>2, <2>3 DEF Queued, Numbered
  <2>6. Ordered'
    BY <1>0, <2>1, <2>2, AcceptKeepsOrder
  <2>7. Noticed' /\ Blamed'
    BY <2>2 DEF Noticed, Blamed
  <2>. QED BY <2>4, <2>5, <2>6, <2>7 DEF IInv
<1>3. CASE reqs = <<>>
  <2>1. (Accepts \/ Fails \/ Blocks("watch")) /\ reqs' = reqs
    BY <1>3 DEF AsyncAccept
  <2>2. base = "start" /\ listen = Unknown
    BY <1>0, <1>3 DEF Queued
  <2>3. Ordered' /\ backlog' \in Seq(Clients)
    BY <1>0, <2>1, AcceptKeepsOrder DEF Blocks
  <2>4. /\ pc' \in {"session", "watch"}
        /\ got' \in Clients \cup {NoClient}
        /\ failed' \in BOOLEAN
        /\ pc' = "session" /\ got' = NoClient => failed'
    BY <1>0, <2>1, AcceptOutcome
  <2>5. TypeOK'
    BY <1>0, <2>1, <2>3, <2>4 DEF TypeOK
  <2>6. Queued'
    BY <1>0, <1>3, <2>1, <2>2, <2>4 DEF Queued
  <2>7. Numbered'
    BY <1>0, <2>4 DEF Numbered
  <2>8. Noticed' /\ Blamed'
    BY <2>4 DEF Noticed, Blamed
  <2>. QED BY <2>3, <2>5, <2>6, <2>7, <2>8 DEF IInv
<1>. QED BY <1>2, <1>3

\* The end of AsyncAccept queues the first request and watches for it.
LEMMA WatchKeeps ==
  ASSUME IInv, Watch
  PROVE  IInv'
<1>0. /\ TypeOK /\ Queued /\ Numbered /\ Ordered /\ Noticed /\ Blamed
      /\ pc = "watch" /\ reqs = <<>> /\ base = "start" /\ listen = Unknown
      /\ UNCHANGED <<arrived, backlog, made, served, failed, base, conn>>
  BY DEF IInv, Watch, Queued
<1>1. /\ listen' = Watched /\ rdy' = (rdy \/ backlog # <<>>)
      /\ pc' = Returned /\ got' = got
  BY <1>0, WatchSucceeds DEF Watch
<1>2. pc' = "wait"
  BY <1>0, <1>1 DEF Returned
<1>3. reqs' \in Seq(Nat) /\ Len(reqs') = 1 /\ reqs'[1] = conn
  BY <1>0 DEF Watch, TypeOK
<1>4. TypeOK'
  <2>1. Watched \in Descriptors
    BY DEF Watched, Descriptors, Handlers, Events
  <2>2. rdy' \in BOOLEAN
    BY <1>1
  <2>. QED BY <1>0, <1>1, <1>2, <1>3, <2>1, <2>2 DEF TypeOK
<1>5. Queued' /\ Numbered'
  BY <1>0, <1>1, <1>2, <1>3 DEF Queued, Numbered
<1>6. Ordered'
  BY <1>0, <1>2, AcceptKeepsOrder
<1>7. Noticed'
  BY <1>0, <1>1 DEF Noticed
<1>8. Blamed'
  BY <1>2 DEF Blamed
<1>. QED BY <1>4, <1>5, <1>6, <1>7, <1>8 DEF IInv

\* Server::OnAccept keeps the invariant: one session more and a Conn of its own.
LEMMA OnAcceptedKeeps ==
  ASSUME IInv, OnAccepted
  PROVE  IInv'
<1>0. /\ TypeOK /\ Queued /\ Numbered /\ Ordered /\ Noticed /\ Blamed
      /\ pc = "session"
      /\ UNCHANGED <<kernelVars, listen, reqs, failed, base, got>>
  BY DEF IInv, OnAccepted
<1>1. CASE got = NoClient
  <2>1. pc' = "down" /\ UNCHANGED <<served, made, conn>>
    BY <1>1 DEF OnAccepted
  <2>2. Taken = 0 /\ Taken' = 0
    BY <1>1, <2>1 DEF Taken
  <2>3. Ordered'
    BY <1>0, <2>1, <2>2 DEF Ordered, kernelVars
  <2>4. TypeOK' /\ Queued' /\ Numbered'
    BY <1>0, <2>1 DEF TypeOK, Queued, Numbered, kernelVars
  <2>5. Noticed' /\ Blamed'
    BY <1>0, <1>1, <2>1 DEF Noticed, Blamed
  <2>. QED BY <2>3, <2>4, <2>5 DEF IInv
<1>2. CASE got # NoClient
  <2> DEFINE s == [conn |-> conn, client |-> got]
  <2>1. /\ served' = Append(served, s) /\ made' = made + 1
        /\ conn' = made + 1 /\ pc' = "async"
    BY <1>2 DEF OnAccepted
  <2>2. s \in Sessions /\ s.conn = made /\ s.client = got
    BY <1>0, <1>2 DEF TypeOK, Sessions, Numbered
  <2>3. served \in Seq(Sessions) /\ Len(served) \in Nat /\ made = Len(served) + 1
    BY <1>0 DEF TypeOK, Numbered
  <2>4. /\ served' \in Seq(Sessions) /\ Len(served') = Len(served) + 1
        /\ \A i \in 1 .. Len(served) : served'[i] = served[i]
        /\ served'[Len(served) + 1] = s
    <3>. HIDE DEF s
    <3>. QED BY <2>1, <2>2, <2>3
  <2>5. Taken = 1 /\ Taken' = 0
    BY <1>0, <1>2, <2>1 DEF Taken
  <2>6. TypeOK'
    BY <1>0, <2>1, <2>3, <2>4 DEF TypeOK, kernelVars
  <2>7. Queued'
    BY <1>0, <2>1 DEF Queued
  <2>8. Numbered'
    <3>. HIDE DEF s
    <3>1. ASSUME NEW i \in 1 .. Len(served') PROVE served'[i].conn = i
      <4>1. CASE i = Len(served) + 1
        BY <2>2, <2>3, <2>4, <4>1
      <4>2. CASE i # Len(served) + 1
        <5>1. i \in 1 .. Len(served)
          BY <2>3, <2>4, <4>2
        <5>. QED BY <1>0, <2>4, <5>1 DEF Numbered
      <4>. QED BY <4>1, <4>2
    <3>2. made' = Len(served') + 1 /\ conn' = made'
      BY <2>1, <2>3, <2>4
    <3>. QED BY <2>1, <3>1, <3>2 DEF Numbered
  <2>9. Ordered'
    <3>. HIDE DEF s
    <3>1. /\ UNCHANGED <<arrived, backlog>>
          /\ Len(arrived) = Len(served) + 1 + Len(backlog)
          /\ got = arrived[Len(served) + 1]
      BY <1>0, <2>5 DEF Ordered, kernelVars
    <3>2. ASSUME NEW i \in 1 .. Len(served') PROVE served'[i].client = arrived'[i]
      <4>1. CASE i = Len(served) + 1
        BY <2>2, <2>4, <3>1, <4>1
      <4>2. CASE i # Len(served) + 1
        <5>1. i \in 1 .. Len(served)
          BY <2>3, <2>4, <4>2
        <5>. QED BY <1>0, <2>4, <3>1, <5>1 DEF Ordered
      <4>. QED BY <4>1, <4>2
    <3>3. Len(arrived') = Len(served') + Taken' + Len(backlog')
      BY <2>3, <2>4, <2>5, <3>1
    <3>4. ASSUME NEW i \in 1 .. Len(backlog')
          PROVE  backlog'[i] = arrived'[Len(served') + Taken' + i]
      <4>1. backlog[i] = arrived[Len(served) + 1 + i]
        BY <1>0, <2>5, <3>1 DEF Ordered
      <4>2. Len(served') + Taken' + i = Len(served) + 1 + i
        BY <2>3, <2>4, <2>5
      <4>. QED BY <3>1, <4>1, <4>2
    <3>. QED BY <2>5, <3>2, <3>3, <3>4 DEF Ordered
  <2>10. Noticed' /\ Blamed'
    BY <2>1 DEF Noticed, Blamed
  <2>. QED BY <2>6, <2>7, <2>8, <2>9, <2>10 DEF IInv
<1>. QED BY <1>1, <1>2

\* The loop of Acceptor::OnAccept works for the first request.
LEMMA OnAcceptKeeps ==
  ASSUME IInv, OnAccept
  PROVE  IInv'
<1>0. /\ TypeOK /\ Queued /\ Numbered /\ Ordered /\ Noticed /\ Blamed
      /\ pc = "accept" /\ conn' = Head(reqs)
      /\ Accepts \/ Fails \/ Blocks("wait")
      /\ UNCHANGED <<arrived, rdy, listen, reqs, made, served, base>>
  BY DEF IInv, OnAccept
<1>1. /\ base = "event" /\ Len(reqs) = 1 /\ listen = Watched
      /\ reqs \in Seq(Nat) /\ conn' = reqs[1] /\ conn' = made /\ conn' \in Nat
  BY <1>0 DEF Queued, Numbered, TypeOK
<1>2. Ordered' /\ backlog' \in Seq(Clients)
  BY <1>0, AcceptKeepsOrder DEF Blocks
<1>3. /\ pc' \in {"session", "wait"}
      /\ got' \in Clients \cup {NoClient}
      /\ failed' \in BOOLEAN
      /\ pc' = "session" /\ got' = NoClient => failed'
      /\ pc' = "wait" => backlog' = <<>>
  BY <1>0, AcceptOutcome
<1>4. TypeOK'
  BY <1>0, <1>1, <1>2, <1>3 DEF TypeOK
<1>5. Queued' /\ Numbered'
  BY <1>0, <1>1, <1>3 DEF Queued, Numbered
<1>6. Noticed' /\ Blamed'
  BY <1>3 DEF Noticed, Blamed
<1>. QED BY <1>2, <1>4, <1>5, <1>6 DEF IInv

\* What is left of a list of two.
LEMMA TailOfTwo ==
  ASSUME NEW S, NEW q \in Seq(S), Len(q) = 2
  PROVE  /\ Tail(q) \in Seq(S)
         /\ Len(Tail(q)) = 1
         /\ Tail(q)[1] = q[2]
         /\ Tail(q) # <<>>
<1>1. q # <<>>
  OBVIOUS
<1>2. Tail(q) \in Seq(S) /\ Len(Tail(q)) = 1
  BY <1>1, HeadTailProperties
<1>3. Tail(q)[1] = q[2]
  <2>1. 1 \in 1 .. 1 /\ 1 + 1 = 2
    OBVIOUS
  <2>2. Tail(q)[1] = q[1 + 1]
    BY <1>1, <1>2, <2>1, HeadTailProperties, Zenon
  <2>. QED BY <2>1, <2>2, Zenon
<1>4. Tail(q) # <<>>
  <2>1. Len(<<>>) = 0 /\ 0 # 1
    OBVIOUS
  <2>. QED BY <1>2, <2>1, Zenon
<1>. QED BY <1>2, <1>3, <1>4

\* What remains after the handler is the request that the handler made.
LEMMA PopKeeps ==
  ASSUME IInv, Pop
  PROVE  IInv'
<1>0. /\ TypeOK /\ Queued /\ Numbered /\ Ordered /\ Noticed /\ Blamed
      /\ pc = "pop" /\ reqs' = Tail(reqs)
      /\ UNCHANGED <<kernelVars, made, served, failed, base, conn, got>>
  BY DEF IInv, Pop
<1>1. base = "event" /\ Len(reqs) = 2 /\ listen = Watched /\ reqs \in Seq(Nat)
  BY <1>0 DEF Queued, TypeOK
<1>2. reqs' \in Seq(Nat) /\ Len(reqs') = 1 /\ reqs'[1] = reqs[2] /\ reqs' # <<>>
  BY <1>0, <1>1, TailOfTwo
<1>3. pc' = "accept" /\ listen' = listen
  <2>1. Tail(reqs) # <<>>
    BY <1>0, <1>2
  <2>2. IF Tail(reqs) = <<>>
        THEN pc' = "wait" /\ listen' = SetInEvent(listen, "none").fd
        ELSE pc' = "accept" /\ UNCHANGED listen
    BY DEF Pop
  <2>. QED BY <2>1, <2>2
<1>4. TypeOK'
  BY <1>0, <1>2, <1>3 DEF TypeOK, kernelVars
<1>5. Queued' /\ Numbered'
  BY <1>0, <1>1, <1>2, <1>3 DEF Queued, Numbered
<1>6. Ordered'
  BY <1>0, <1>3, AcceptKeepsOrder DEF kernelVars
<1>7. Noticed' /\ Blamed'
  BY <1>3 DEF Noticed, Blamed
<1>. QED BY <1>4, <1>5, <1>6, <1>7 DEF IInv

\* Loop::Run keeps the invariant when it drops or handles the event.
LEMMA RunKeeps ==
  ASSUME IInv, Drop \/ Dispatch
  PROVE  IInv'
<1>0. /\ TypeOK /\ Queued /\ Numbered /\ Ordered /\ Noticed /\ Blamed
      /\ pc = "wait" /\ pc' \in {"wait", "accept"} /\ rdy' = FALSE
      /\ pc' = "wait" => backlog = <<>> /\ base' = base
      /\ pc' = "accept" => base' = "event"
      /\ UNCHANGED <<arrived, backlog, listen, reqs, made, served, failed, conn, got>>
  BY DEF IInv, Drop, Dispatch
<1>1. TypeOK'
  BY <1>0 DEF TypeOK
<1>2. Queued' /\ Numbered'
  BY <1>0 DEF Queued, Numbered
<1>3. Ordered'
  BY <1>0, AcceptKeepsOrder
<1>4. Noticed' /\ Blamed'
  BY <1>0 DEF Noticed, Blamed
<1>. QED BY <1>1, <1>2, <1>3, <1>4 DEF IInv

\* Every step keeps the invariant.
LEMMA INext == IInv /\ [Next]_vars => IInv'
<1> SUFFICES ASSUME IInv, [Next]_vars PROVE IInv'
  OBVIOUS
<1>1. ASSUME NEW c \in Clients, Arrive(c) PROVE IInv'
  BY <1>1, ArriveKeeps
<1>2. CASE Drop \/ Dispatch
  BY <1>2, RunKeeps
<1>3. CASE AsyncAccept
  BY <1>3, AsyncAcceptKeeps
<1>4. CASE Watch
  BY <1>4, WatchKeeps
<1>5. CASE OnAccepted
  BY <1>5, OnAcceptedKeeps
<1>6. CASE OnAccept
  BY <1>6, OnAcceptKeeps
<1>7. CASE Pop
  BY <1>7, PopKeeps
<1>8. CASE UNCHANGED vars
  BY <1>8 DEF vars, kernelVars, IInv, TypeOK, Queued, Numbered, Ordered, Taken,
              Noticed, Blamed
<1>. QED BY <1>1, <1>2, <1>3, <1>4, <1>5, <1>6, <1>7, <1>8 DEF Next, Handler

\* In every reachable state, for any set of clients, the list of requests, the
\* registration and the place of the thread fit each other, Conns are used in
\* turn, and the arrivals are the served, the accepted and the waiting ones.
THEOREM Listening == Spec => []IInv
<1>. QED BY IInit, INext, PTL DEF Spec

\* The variables of Acceptor have their types.
THEOREM AcceptorTypeCorrect == Spec => []TypeOK
<1>1. IInv => TypeOK
  BY DEF IInv
<1>. QED BY <1>1, Listening, PTL

\* Between events exactly one accept is pending and watched for.
THEOREM PendingCorrect == Spec => []AcceptPending
<1>1. IInv => AcceptPending
  BY DEF IInv, Queued, AcceptPending
<1>. QED BY <1>1, Listening, PTL

\* No client that connects is overlooked by the edge-triggered loop.
THEOREM ConnectsNoticed == Spec => []NoLostConnect
<1>1. IInv => NoLostConnect
  BY DEF IInv, Queued, Noticed, NoLostConnect
<1>. QED BY <1>1, Listening, PTL

\* Clients are served once, in the order of their arrival, each on its Conn.
THEOREM OrderCorrect == Spec => []ServedInOrder
<1>1. IInv => ServedInOrder
  <2> SUFFICES ASSUME IInv PROVE ServedInOrder
    OBVIOUS
  <2>1. \A i, j \in 1 .. Len(served) : i # j => served[i].conn # served[j].conn
    BY DEF IInv, Numbered
  <2>. QED BY <2>1 DEF IInv, Ordered, Taken, ServedInOrder
<1>. QED BY <1>1, Listening, PTL

\* Only a failed accept ends the process.
THEOREM DownCorrect == Spec => []DownOnlyByFailure
<1>1. IInv => DownOnlyByFailure
  BY DEF IInv, Blamed, DownOnlyByFailure
<1>. QED BY <1>1, Listening, PTL

=============================================================================
