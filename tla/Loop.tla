-------------------------------- MODULE Loop --------------------------------
(***************************************************************************)
(* The event loop of mydss (src/src/net/loop.cpp) seen by one descriptor.  *)
(* The loop keeps, for every descriptor it knows, a pair of handlers; the  *)
(* kernel keeps, for every descriptor registered with the epoll instance,  *)
(* the set of events it reports.  The two are separate pieces of state     *)
(* and epoll_ctl may fail between their updates, so a record has both:     *)
(*                                                                         *)
(*   known    the descriptor is a key of Loop::fds_                        *)
(*   first    fds_[fd].first, the handler of the readable event            *)
(*   second   fds_[fd].second, the handler of the writable event           *)
(*   watched  the descriptor is registered with the epoll instance         *)
(*   mask     the events it is registered for (always with EPOLLET)        *)
(*                                                                         *)
(* Every operator returns the new record, whether the Status is ok, and    *)
(* whether an ADD or a MOD succeeded: these make the kernel look at the    *)
(* descriptor again, so an edge that came before is reported after all.    *)
(***************************************************************************)

\* "none" is the empty std::function.
Handlers == {"none", "OnRecv", "OnSend", "OnAccept"}
Events == {"IN", "OUT"}

Descriptors == [known : BOOLEAN, first : Handlers, second : Handlers,
                watched : BOOLEAN, mask : SUBSET Events]

\* A descriptor the loop has never seen.
Unknown == [known |-> FALSE, first |-> "none", second |-> "none",
            watched |-> FALSE, mask |-> {}]

\* The events that a pair of handlers asks for.
Wanted(first, second) ==
  (IF first = "none" THEN {} ELSE {"IN"}) \cup
  (IF second = "none" THEN {} ELSE {"OUT"})

Answer(d, ok, polled) == [fd |-> d, ok |-> ok, polled |-> polled]

\* epoll_ctl(ADD) for the single event e; EEXIST if it is registered already.
Add(d, e, first, second) ==
  IF d.watched
  THEN Answer(d, FALSE, FALSE)
  ELSE Answer([known |-> TRUE, first |-> first, second |-> second,
               watched |-> TRUE, mask |-> {e}], TRUE, TRUE)

\* The branch that stops watching: EPOLL_CTL_DEL, and then, for want of a
\* return, the EPOLL_CTL_MOD below it, which fails with ENOENT.
DelThenMod(d) ==
  Answer([d EXCEPT !.watched = FALSE, !.mask = {}], FALSE, FALSE)

\* epoll_ctl(MOD); ENOENT if the descriptor is not registered.
Mod(d, first, second) ==
  IF d.watched
  THEN Answer([d EXCEPT !.first = first, !.second = second,
                        !.mask = Wanted(first, second)], TRUE, TRUE)
  ELSE Answer(d, FALSE, FALSE)

\* Variant with a mistake: the events are computed from the new handler alone.
SetInEventForgetsOut(d, h) ==
  IF ~d.known THEN Add(d, "IN", h, "none")
  ELSE Answer([d EXCEPT !.first = h, !.mask = Wanted(h, "none")], TRUE, TRUE)

\* Loop::SetInEvent.  On an unknown descriptor it registers for EPOLLIN even
\* when the handler is empty; no caller passes an empty one there.
SetInEvent(d, h) ==
  LET wanted == Wanted(h, d.second)
  IN IF ~d.known THEN Add(d, "IN", h, "none")
     ELSE IF wanted = {} THEN DelThenMod(d)
     ELSE IF wanted = Wanted(d.first, d.second)
          THEN Answer([d EXCEPT !.first = h], TRUE, FALSE)
          ELSE Mod(d, h, d.second)

\* Loop::SetOutEvent.  When the events stay the same it stores the handler
\* of the writable event in "first", the place of the readable one.
SetOutEvent(d, h) ==
  LET wanted == Wanted(d.first, h)
  IN IF ~d.known THEN Add(d, "OUT", "none", h)
     ELSE IF wanted = {} THEN DelThenMod(d)
     ELSE IF wanted = Wanted(d.first, d.second)
          THEN Answer([d EXCEPT !.first = h], TRUE, FALSE)
          ELSE Mod(d, d.first, h)

\* Loop::Remove.  An unknown descriptor is left alone; EPOLL_CTL_DEL fails on
\* one that is not registered, and then it stays in fds_.
Remove(d) ==
  IF ~d.known THEN Answer(d, TRUE, FALSE)
  ELSE IF d.watched THEN Answer(Unknown, TRUE, FALSE)
  ELSE Answer(d, FALSE, FALSE)

-----------------------------------------------------------------------------

\* fds_ and the epoll instance agree on the descriptor, and the loop knows it
\* only while it watches it for something.
Agree(d) ==
  /\ d.known = d.watched
  /\ d.known = (d.mask # {})
  /\ d.mask = Wanted(d.first, d.second)

=============================================================================
