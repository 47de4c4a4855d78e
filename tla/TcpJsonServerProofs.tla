------------------------ MODULE TcpJsonServerProofs -------------------------
(***************************************************************************)
(* For any number of threads and clients, any lines and any limits: the    *)
(* server answers every client in order, refuses only what is too large,   *)
(* never runs a session twice at once nor loses one, and keeps accepting.  *)
(***************************************************************************)
EXTENDS TcpJsonServerSteps

-----------------------------------------------------------------------------
(* The network threads keep the sessions, and so does every step.          *)

\* An idle thread takes a handler: what it does to a session S that the handler
\* is not of.
LEMMA TakeOther ==
  ASSUME IInv, NEW t \in Threads, thread[t].op = "idle", ready # <<>>, ready' = Tail(ready),
         NEW d \in Clients, Head(ready).client # d,
         NEW g, g \notin Session(d), thread' = thread \/ thread' = [thread EXCEPT ![t] = g],
         pending' = pending
  PROVE  Undisturbed(Session(d))
<1>1. /\ ready \in Seq(Operations) /\ thread \in [Threads -> Operations]
  BY Zenon DEF IInv, TypeOK
<1>2. Head(ready) \notin Session(d)
  BY HeadType, Membership, Zenon
<1>3. thread[t] \notin Session(d)
  BY PlaceHoldsNothing, Zenon DEF Places
<1>4. CASE thread' = [thread EXCEPT ![t] = g]
  BY <1>1, <1>2, <1>3, <1>4, MoveTake, Zenon
<1>5. CASE thread' = thread
  <2>1. PICK f : f = thread[t]
    BY Zenon
  <2>2. thread' = [thread EXCEPT ![t] = f]
    BY <1>1, <1>5, <2>1, Zenon
  <2> QED BY <1>1, <1>2, <1>3, <2>1, <2>2, MoveTake, Zenon
<1> QED BY <1>4, <1>5, Zenon

\* The same for the session the handler is of.
LEMMA TakeOwn ==
  ASSUME IInv, NEW t \in Threads, thread[t].op = "idle", ready # <<>>, ready' = Tail(ready),
         NEW d \in Clients, Head(ready).client = d, pending' = pending
  PROVE  /\ \A g : g \in Session(d) /\ thread' = [thread EXCEPT ![t] = g] => OnOnly(Session(d), t, g)
         /\ thread' = thread => Nowhere(Session(d))
<1>1. /\ ready \in Seq(Operations) /\ thread \in [Threads -> Operations] /\ AtMostOnce(Session(d))
  BY Zenon DEF IInv, TypeOK, SessionInv
<1>2. Head(ready) \in Session(d)
  BY HeadType, Membership, Zenon
<1>3. thread[t] \notin Session(d)
  BY PlaceHoldsNothing, Zenon DEF Places
<1>4. ASSUME NEW g, g \in Session(d), thread' = [thread EXCEPT ![t] = g]
      PROVE  OnOnly(Session(d), t, g)
  BY <1>1, <1>2, <1>3, <1>4, MoveTake, Zenon
<1>5. ASSUME thread' = thread PROVE Nowhere(Session(d))
  <2>1. PICK f : f = thread[t]
    BY Zenon
  <2>2. thread' = [thread EXCEPT ![t] = f]
    BY <1>1, <1>5, <2>1, Zenon
  <2> QED BY <1>1, <1>2, <1>3, <2>1, <2>2, MoveTake, Zenon
<1> QED BY <1>4, <1>5, Zenon

\* A thread takes an accept handler: the session goes with it, or is dropped when running_ is clear.
LEMMA SessionTakeAccept ==
  ASSUME IInv, NEW t \in Threads, TakeAccept(t), NEW d \in Clients
  PROVE  Kept(d)
<1>1. /\ thread[t].op = "idle" /\ ready # <<>> /\ ready' = Tail(ready) /\ pending' = pending
      /\ Head(ready).op = "accept"
      /\ IF running
         THEN thread' = [thread EXCEPT ![t] = Head(ready)] /\ UNCHANGED client
         ELSE client' = HungUp({Head(ready).client}) /\ UNCHANGED thread
      /\ UNCHANGED <<sent, arrived, taken, received>>
  BY Zenon DEF TakeAccept, Takes
<1>2. TypeOK /\ LinesInv(d)
  BY Zenon DEF IInv
<1>3. PICK g : g = Head(ready)
  BY Zenon
<1>4. g \in Operations /\ (g \in Session(d) <=> g.client = d)
  BY <1>1, <1>3, HeadType, Membership, Zenon
<1>5. CASE Head(ready).client # d
  <2>1. Undisturbed(Session(d))
    BY <1>1, <1>3, <1>4, <1>5, TakeOther, Zenon
  <2>2. Same(d)
    BY <1>1, <1>2, <1>5, HungUpType DEF Same
  <2> QED BY <2>1, <2>2, ClientFrame, Zenon
<1>6. CASE Head(ready).client = d /\ running
  <2>1. OnOnly(Session(d), t, g)
    BY <1>1, <1>3, <1>4, <1>6, TakeOwn, Zenon
  <2>2. DueOf(d, g) /\ client[d] \in Open
    BY <1>1, <1>3, <1>6, HeadType, Zenon
  <2>3. RunningOf(d, g)'
    BY <1>1, <1>3, <2>2, Zenon DEF DueOf, RunningOf, Fresh
  <2>4. SessionInv(d)'
    BY <1>1, <1>6, <2>1, <2>2, <2>3, SessionOn, Zenon
  <2>5. LinesInv(d)'
    BY <1>1, <1>2, <1>6, LinesFrame, Zenon
  <2> QED BY <2>4, <2>5, Zenon DEF Kept
<1>7. CASE Head(ready).client = d /\ ~running
  <2>1. Nowhere(Session(d))
    BY <1>1, <1>7, TakeOwn, Zenon
  <2>2. client'[d] = "gone"
    BY <1>1, <1>2, <1>7, HeadType, HungUpType DEF Open
  <2>3. SessionInv(d)'
    BY <2>1, <2>2, SessionOver, Zenon DEF Served
  <2>4. LinesInv(d)'
    BY <1>1, <1>2, <2>2, LinesFrame, Zenon
  <2> QED BY <2>3, <2>4, Zenon DEF Kept
<1> QED BY <1>5, <1>6, <1>7, Zenon

\* on_accept: the new session reads its first line, and no other is concerned.
LEMMA SessionOnAccept ==
  ASSUME IInv, NEW t \in Threads, OnAccept(t), NEW d \in Clients
  PROVE  Kept(d)
<1>1. PICK session : session = IF thread[t].error THEN {} ELSE {DoRead(thread[t].client)}
  BY Zenon
<1>2. /\ thread[t].op = "accept" /\ thread' = [thread EXCEPT ![t] = At("idle")]
      /\ IF acceptor = "closed"
         THEN pending' = pending \cup session /\ ready' = Append(ready, Failed(DoAccept))
         ELSE pending' = pending \cup (session \cup {DoAccept}) /\ ready' = ready
      /\ UNCHANGED <<client, sent, arrived, taken, received>>
  BY <1>1, Zenon DEF OnAccept, clientVars
<1>3. /\ ready \in Seq(Operations) /\ thread \in [Threads -> Operations]
      /\ AtMostOnce(Session(d)) /\ LinesInv(d)
  BY Zenon DEF IInv, TypeOK, SessionInv
<1>4. thread[t] \in Session(d) <=> thread[t].client = d
  BY ThreadType, Membership, Zenon
<1>5. /\ DoAccept \notin Session(d) /\ Failed(DoAccept) \notin Session(d)
      /\ At("idle") \notin Session(d) /\ Failed(DoAccept) \in Operations
      /\ \A c \in Clients : DoRead(c) \in Session(d) <=> d = c
  BY SessionOps, BegunNone, SizesAssumption DEF Places
<1>6. PICK A : A = session \cup {DoAccept}
  BY Zenon
<1>7. CASE thread[t].client # d
  <2>1. session \cap Session(d) = {}
    <3>1. ~thread[t].error => thread[t].client \in Clients
      BY <1>2, ThreadType, Membership, Zenon
    <3> QED BY <1>1, <1>5, <1>7, <3>1, Zenon
  <2>2. A \cap Session(d) = {}
    BY <1>5, <1>6, <2>1, Zenon
  <2>3. Undisturbed(Session(d))
    <3>1. CASE acceptor = "closed"
      BY <1>2, <1>3, <1>4, <1>5, <1>7, <2>1, <3>1, MoveFail, Zenon
    <3>2. CASE acceptor # "closed"
      BY <1>2, <1>3, <1>4, <1>5, <1>6, <1>7, <2>2, <3>2, MoveBegin, Zenon
    <3> QED BY <3>1, <3>2, Zenon
  <2> QED BY <1>2, <2>3, ClientFrame, Zenon DEF Same
<1>8. CASE thread[t].client = d
  <2>1. ~thread[t].error
    BY <1>2, <1>8, ThreadType, ClientsAssumption, Zenon
  <2>2. session \cap Session(d) = {DoRead(d)} /\ A \cap Session(d) = {DoRead(d)}
    BY <1>1, <1>5, <1>6, <1>8, <2>1, Zenon
  <2>3. PendingOnly(Session(d), DoRead(d))
    <3>1. CASE acceptor = "closed"
      BY <1>2, <1>3, <1>4, <1>5, <1>8, <2>2, <3>1, MoveFail, Zenon
    <3>2. CASE acceptor # "closed"
      BY <1>2, <1>3, <1>4, <1>5, <1>6, <1>8, <2>2, <3>2, MoveBegin, Zenon
    <3> QED BY <3>1, <3>2, Zenon
  <2>4. Fresh(d) /\ client[d] \in Open
    <3>1. RunningOf(d, thread[t]) /\ client[d] \in Open
      BY <1>8, ThreadType, Zenon
    <3>2. Operation("handle", d, taken[d]).op = "handle"
      BY OperationFields
    <3> QED BY <1>2, <3>1, <3>2, Zenon DEF RunningOf
  <2>5. PendingOf(d, DoRead(d))'
    <3>1. taken'[d] = 0 /\ Len(received'[d]) = 0
      BY <1>2, <2>4, Zenon DEF Fresh
    <3> QED BY <3>1, Zenon DEF PendingOf, Settled
  <2>6. SessionInv(d)'
    BY <1>2, <2>3, <2>4, <2>5, SessionPending, Zenon
  <2>7. LinesInv(d)'
    BY <1>2, <1>3, LinesFrame, Zenon
  <2> QED BY <2>6, <2>7, Zenon DEF Kept
<1> QED BY <1>7, <1>8, Zenon

\* handle() returns: its session's only operation is now the write of the answer.
LEMMA SessionHandled ==
  ASSUME IInv, NEW t \in Threads, Handled(t), NEW d \in Clients
  PROVE  Kept(d)
<1>1. PICK o, A : o = DoWrite(thread[t].client, thread[t].line) /\ A = {o}
  BY Zenon
<1>2. /\ thread[t].op = "handle" /\ thread' = [thread EXCEPT ![t] = At("idle")]
      /\ pending' = pending \cup A /\ ready' = ready
      /\ UNCHANGED <<client, sent, arrived, taken, received>>
  BY <1>1, Zenon DEF Handled, clientVars
<1>3. /\ thread \in [Threads -> Operations] /\ AtMostOnce(Session(d)) /\ LinesInv(d)
  BY Zenon DEF IInv, TypeOK, SessionInv
<1>4. thread[t] \in Session(d) <=> thread[t].client = d
  BY ThreadType, Membership, Zenon
<1>5. /\ At("idle") \notin Session(d)
      /\ o \in Session(d) <=> d = thread[t].client
  <2>1. thread[t].client \in Clients /\ thread[t].line \in 0 .. MaxLines
    BY <1>2, ThreadType, Zenon DEF Operations, OperationsOf
  <2> QED BY <1>1, <2>1, SessionOps DEF Places
<1>6. CASE thread[t].client # d
  <2>1. A \cap Session(d) = {}
    BY <1>1, <1>5, <1>6, Zenon
  <2>2. Undisturbed(Session(d))
    BY <1>2, <1>3, <1>4, <1>5, <1>6, <2>1, MoveBegin, Zenon
  <2> QED BY <1>2, <2>2, ClientFrame, Zenon DEF Same
<1>7. CASE thread[t].client = d
  <2>1. A \cap Session(d) = {o}
    BY <1>1, <1>5, <1>7, Zenon
  <2>2. PendingOnly(Session(d), o)
    BY <1>2, <1>3, <1>4, <1>5, <1>7, <2>1, MoveBegin, Zenon
  <2>3. thread[t] = Operation("handle", d, taken[d]) /\ Working(d) /\ client[d] \in Open
    <3>1. RunningOf(d, thread[t]) /\ client[d] \in Open
      BY <1>7, ThreadType, Zenon
    <3> QED BY <1>2, <3>1, Zenon DEF RunningOf
  <2>4. o = DoWrite(d, taken[d])
    BY <1>1, <1>7, <2>3, OperationFields
  <2>5. PendingOf(d, o)'
    BY <1>2, <2>3, <2>4, Zenon DEF PendingOf, Working
  <2>6. SessionInv(d)'
    BY <1>2, <2>2, <2>3, <2>5, SessionPending, Zenon
  <2>7. LinesInv(d)'
    BY <1>2, <1>3, LinesFrame, Zenon
  <2> QED BY <2>6, <2>7, Zenon DEF Kept
<1> QED BY <1>6, <1>7, Zenon

\* The handler of async_write: its session reads again, or ends.
LEMMA SessionOnWrite ==
  ASSUME IInv, NEW t \in Threads, OnWrite(t), NEW d \in Clients
  PROVE  Kept(d)
<1>1. PICK o : o = DoRead(Head(ready).client)
  BY Zenon
<1>2. /\ thread[t].op = "idle" /\ ready # <<>> /\ ready' = Tail(ready) /\ thread' = thread
      /\ Head(ready).op = "write"
      /\ pending' = IF Head(ready).error THEN pending ELSE pending \cup {o}
      /\ UNCHANGED <<client, sent, arrived, taken, received>>
  BY <1>1, Zenon DEF OnWrite, Takes, clientVars
<1>3. ready \in Seq(Operations) /\ AtMostOnce(Session(d)) /\ LinesInv(d)
  BY Zenon DEF IInv, TypeOK, SessionInv
<1>4. Head(ready) \in Session(d) <=> Head(ready).client = d
  BY <1>2, HeadType, Membership, Zenon
<1>5. o \in Session(d) <=> Head(ready).client = d
  <2>1. Head(ready).client \in Clients
    BY <1>2, HeadType, Zenon
  <2> QED BY <1>1, <2>1, SessionOps, SizesAssumption
<1>6. CASE Head(ready).client # d
  <2>1. Undisturbed(Session(d))
    <3>1. CASE Head(ready).error
      <4>1. At("idle") \notin Session(d)
        BY SessionOps, Zenon DEF Places
      <4> QED BY <1>2, <1>6, <3>1, <4>1, TakeOther, Zenon
    <3>2. CASE ~Head(ready).error
      BY <1>2, <1>3, <1>4, <1>5, <1>6, <3>2, MoveNext, Zenon
    <3> QED BY <3>1, <3>2, Zenon
  <2> QED BY <1>2, <2>1, ClientFrame, Zenon DEF Same
<1>7. CASE Head(ready).client = d
  <2>1. PICK h : h = Head(ready)
    BY Zenon
  <2>2. Settled(d) /\ (h.error => client[d] = "gone") /\ client[d] \in Open
    <3>1. DueOf(d, h) /\ client[d] \in Open
      BY <1>2, <1>7, <2>1, HeadType, Zenon
    <3> QED BY <1>2, <2>1, <3>1, Zenon DEF DueOf
  <2>3. LinesInv(d)'
    BY <1>2, <1>3, LinesFrame, Zenon
  <2>4. CASE h.error
    <3>1. Nowhere(Session(d))
      BY <1>2, <1>7, <2>1, <2>4, TakeOwn, Zenon
    <3>2. ~Served(d)'
      BY <1>2, <2>2, <2>4, Zenon DEF Served
    <3> QED BY <2>3, <3>1, <3>2, SessionOver, Zenon DEF Kept
  <2>5. CASE ~h.error
    <3>1. PendingOnly(Session(d), o)
      BY <1>2, <1>3, <1>4, <1>5, <1>7, <2>1, <2>5, MoveNext
    <3>2. PendingOf(d, o)'
      BY <1>1, <1>2, <1>7, <2>2, Zenon DEF PendingOf, Settled
    <3>3. SessionInv(d)'
      BY <1>2, <2>2, <3>1, <3>2, SessionPending
    <3> QED BY <2>3, <3>3, Zenon DEF Kept
  <2> QED BY <2>4, <2>5, Zenon
<1> QED BY <1>6, <1>7, Zenon

\* on_read: the session ends, is refused, or hands its next line on.
LEMMA SessionOnRead ==
  ASSUME IInv, NEW t \in Threads, OnRead(t), NEW d \in Clients
  PROVE  Kept(d)
<1>1. PICK h, c : h = Head(ready) /\ c = h.client
  BY Zenon
<1>2. /\ thread[t].op = "idle" /\ ready # <<>> /\ ready' = Tail(ready) /\ pending' = pending
      /\ h.op = "read"
      /\ \/ h.error /\ UNCHANGED <<client, taken, thread>>
         \/ /\ ~h.error /\ TooLarge(c)
            /\ client' = [client EXCEPT ![c] = IF @ = "gone" THEN @ ELSE "refused"]
            /\ UNCHANGED <<taken, thread>>
         \/ /\ ~h.error /\ ~TooLarge(c)
            /\ taken' = [taken EXCEPT ![c] = @ + 1]
            /\ thread' = [thread EXCEPT ![t] = Operation("handle", c, taken[c] + 1)]
            /\ UNCHANGED client
      /\ UNCHANGED <<sent, arrived, received>>
  BY <1>1, Zenon DEF OnRead, Close, Takes
<1>3. c \in Clients /\ DueOf(c, h) /\ client[c] \in Open
  BY <1>1, <1>2, HeadType, Zenon
<1>4. Settled(c) /\ (IF h.error THEN Ended(c) ELSE arrived[c] > taken[c])
  BY <1>2, <1>3, Zenon DEF DueOf
<1>5. TypeOK /\ LinesInv(d) /\ LinesInv(c)
  BY <1>3, Zenon DEF IInv
<1>6. PICK n, g : n = taken[c] + 1 /\ g = Operation("handle", c, n)
  BY Zenon
<1>7. ~h.error => n \in 1 .. MaxLines /\ n \in 0 .. MaxLines /\ n <= arrived[c] /\ n <= Len(sent[c])
  <2>1. arrived[c] \in Nat /\ taken[c] \in Nat /\ Len(sent[c]) \in Nat
    BY <1>3, <1>5, LinesTypes, Zenon
  <2>2. arrived[c] <= Len(sent[c]) /\ Len(sent[c]) <= MaxLines
    BY <1>5, Zenon DEF LinesInv
  <2> QED BY <1>4, <1>6, <2>1, <2>2, SizesAssumption
<1>8. CASE d # c
  <2>1. Same(d)
    BY <1>2, <1>5, <1>8, Zenon DEF Same, TypeOK
  <2>2. PICK f : f \notin Session(d) /\ (thread' = thread \/ thread' = [thread EXCEPT ![t] = f])
    <3>1. ~h.error => g \notin Session(d)
      BY <1>3, <1>6, <1>7, <1>8, SessionOps
    <3>2. At("idle") \notin Session(d)
      BY SessionOps, Zenon DEF Places
    <3> QED BY <1>2, <1>6, <3>1, <3>2
  <2>3. Undisturbed(Session(d))
    BY <1>1, <1>2, <1>8, <2>2, TakeOther, Zenon
  <2> QED BY <2>1, <2>3, ClientFrame, Zenon
<1>9. CASE d = c /\ h.error
  <2>1. thread' = thread /\ UNCHANGED <<client, taken, sent, arrived, received>>
    BY <1>2, <1>9, Zenon
  <2>2. Nowhere(Session(d))
    BY <1>1, <1>2, <1>9, <2>1, TakeOwn, Zenon
  <2>3. ~Served(d)'
    <3>1. client[d] = "gone" \/ (client[d] = "finished" /\ Len(received[d]) = Len(sent[d]))
      BY <1>4, <1>9, Zenon DEF Ended, Settled
    <3>2. Len(received[d]) = Len(sent[d]) => ~(Len(received[d]) < Len(sent[d]))
      BY LinesTypes
    <3> QED BY <2>1, <3>1, <3>2, Zenon DEF Served
  <2>4. LinesInv(d)'
    BY <1>5, <2>1, LinesFrame, Zenon
  <2> QED BY <2>2, <2>3, <2>4, SessionOver, Zenon DEF Kept
<1>10. CASE d = c /\ ~h.error /\ TooLarge(c)
  <2>1. /\ thread' = thread /\ UNCHANGED <<taken, sent, arrived, received>>
        /\ client' = [client EXCEPT ![c] = IF @ = "gone" THEN @ ELSE "refused"]
    BY <1>2, <1>10, Zenon
  <2>2. client'[d] = IF client[d] = "gone" THEN "gone" ELSE "refused"
    BY <1>5, <1>10, <2>1, Zenon DEF TypeOK
  <2>3. Nowhere(Session(d))
    BY <1>1, <1>2, <1>10, <2>1, TakeOwn, Zenon
  <2>4. ~Served(d)'
    BY <2>2, Zenon DEF Served
  <2>5. LinesInv(d)'
    <3>1. client[d] # "gone" =>
            taken[d] = Len(received[d]) /\ taken[d] < Len(sent[d]) /\ sent[d][taken[d] + 1] > MaxMessageSize
      BY <1>4, <1>5, <1>10, LinesTypes DEF Settled, TooLarge, LinesInv
    <3> QED BY <1>5, <2>1, <2>2, <3>1 DEF LinesInv
  <2> QED BY <2>3, <2>4, <2>5, SessionOver, Zenon DEF Kept
<1>11. CASE d = c /\ ~h.error /\ ~TooLarge(c)
  <2>1. /\ thread' = [thread EXCEPT ![t] = g] /\ taken' = [taken EXCEPT ![c] = n]
        /\ UNCHANGED <<client, sent, arrived, received>>
    BY <1>2, <1>5, <1>6, <1>11 DEF TypeOK
  <2>2. taken'[d] = n /\ n = taken[d] + 1 /\ taken[d] \in Nat /\ n > 0
    BY <1>5, <1>6, <1>11, <2>1, LinesTypes DEF TypeOK
  <2>3. g \in Session(d)
    BY <1>6, <1>7, <1>11, SessionOps
  <2>4. OnOnly(Session(d), t, g)
    BY <1>1, <1>2, <1>11, <2>1, <2>3, TakeOwn, Zenon
  <2>5. RunningOf(d, g)'
    <3>1. Working(d)'
      BY <1>4, <1>11, <2>1, <2>2, Zenon DEF Working, Settled
    <3> QED BY <1>6, <1>11, <2>2, <3>1, Zenon DEF RunningOf
  <2>6. SessionInv(d)'
    BY <1>3, <1>11, <2>1, <2>4, <2>5, SessionOn, Zenon
  <2>7. LinesInv(d)'
    <3>1. client[d] \notin {"new", "backlog", "refused"}
      BY <1>3, <1>11, Zenon DEF Open
    <3>2. sent[d][n] <= MaxMessageSize
      <4>1. sent[d][n] \in Sizes
        BY <1>7, <1>11, LinesTypes
      <4>2. ~(sent[d][n] > MaxMessageSize)
        BY <1>6, <1>11, Zenon DEF TooLarge
      <4>3. \A x \in Sizes : ~(x > MaxMessageSize) => x <= MaxMessageSize
        BY SizesAssumption
      <4> QED BY <4>1, <4>2, <4>3, Zenon
    <3>3. \A i \in 1 .. n : i \in 1 .. taken[d] \/ i = n
      BY <2>2
    <3>4. \A i \in 1 .. n : sent[d][i] <= MaxMessageSize
      BY <1>5, <3>2, <3>3, Zenon DEF LinesInv
    <3>5. Len(received[d]) <= n /\ n <= arrived[d]
      BY <1>5, <1>7, <1>11, <2>2, LinesTypes DEF LinesInv
    <3> QED BY <1>5, <2>1, <2>2, <3>1, <3>4, <3>5, Zenon DEF LinesInv
  <2> QED BY <2>6, <2>7, Zenon DEF Kept
<1> QED BY <1>8, <1>9, <1>10, <1>11

\* The posted close: only the accept loop and clients without a session are concerned.
LEMMA SessionOnClose ==
  ASSUME IInv, NEW t \in Threads, OnClose(t), NEW d \in Clients
  PROVE  Kept(d)
<1>1. /\ thread[t].op = "idle" /\ ready # <<>> /\ thread' = thread /\ Head(ready).op = "close"
      /\ pending' = pending \ {DoAccept}
      /\ client' = HungUp({c \in Clients : client[c] = "backlog"})
      /\ UNCHANGED <<sent, arrived, taken, received>>
  BY Zenon DEF OnClose
<1>2. TypeOK /\ ready \in Seq(Operations) /\ SessionInv(d) /\ LinesInv(d)
  BY Zenon DEF IInv, TypeOK
<1>3. /\ DoAccept \notin Session(d) /\ Failed(DoAccept) \notin Session(d)
      /\ At("idle") \notin Session(d)
  BY SessionOps, Zenon DEF Places
<1>4. Head(ready).client # d /\ Head(ready) \notin Session(d)
  BY <1>1, HeadType, Membership, ClientsAssumption
<1>5. Undisturbed(Session(d))
  <2>1. CASE DoAccept \in pending
    <3>1. MovedUp(Failed(DoAccept))
      BY <1>1, <1>2, <2>1, BegunNone, MovesUp DEF OnClose
    <3> QED BY <1>1, <1>3, <1>4, <2>1, <3>1, MoveClose, Zenon
  <2>2. CASE DoAccept \notin pending
    <3>1. ready' = Tail(ready) /\ pending' = pending
      BY <1>1, <2>2, Zenon DEF OnClose
    <3> QED BY <1>1, <1>3, <1>4, <3>1, TakeOther, Zenon
  <2> QED BY <2>1, <2>2, Zenon
<1>6. client'[d] = IF client[d] = "backlog" THEN "gone" ELSE client[d]
  BY <1>1, <1>2, HungUpType
<1>7. CASE client[d] # "backlog"
  BY <1>1, <1>5, <1>6, <1>7, ClientFrame, Zenon DEF Same
<1>8. CASE client[d] = "backlog"
  <2>1. ~Held(Session(d))
    BY <1>2, <1>8, Zenon DEF SessionInv
  <2>2. Nowhere(Session(d))
    BY <1>5, <2>1, Zenon DEF Undisturbed, Held, Nowhere
  <2>3. SessionInv(d)'
    BY <1>6, <1>8, <2>2, SessionOver, Zenon DEF Served
  <2>4. LinesInv(d)'
    BY <1>1, <1>2, <1>6, <1>8, LinesFrame, Zenon
  <2> QED BY <2>3, <2>4, Zenon DEF Kept
<1> QED BY <1>7, <1>8, Zenon

\* A network thread that leaves run() takes no session with it.
LEMMA SessionExit ==
  ASSUME IInv, NEW t \in Threads, Exit(t), NEW d \in Clients
  PROVE  Kept(d)
<1>1. /\ thread[t].op = "idle" /\ thread' = [thread EXCEPT ![t] = At("exited")]
      /\ pending' = pending /\ ready' = ready
      /\ UNCHANGED <<client, sent, arrived, taken, received>>
  BY Zenon DEF Exit, clientVars
<1>2. thread \in [Threads -> Operations]
  BY Zenon DEF IInv, TypeOK
<1>3. thread[t] \notin Session(d) /\ At("exited") \notin Session(d)
  BY <1>1, PlaceHoldsNothing, SessionOps, Zenon DEF Places
<1>4. Undisturbed(Session(d))
  BY <1>1, <1>2, <1>3, MoveExit, Zenon
<1> QED BY <1>1, <1>4, ClientFrame, Zenon DEF Same

\* start() finds no session, stop() leaves them alone, and the destructor ends them.
LEMMA SessionOwner ==
  ASSUME IInv, Start \/ StartFails \/ Stop \/ OwnerStops, NEW d \in Clients
  PROVE  Kept(d)
<1>1. TypeOK /\ ready \in Seq(Operations) /\ SessionInv(d) /\ LinesInv(d)
  BY Zenon DEF IInv, TypeOK
<1>2. CASE Start \/ StartFails
  <2>1. UNCHANGED <<client, sent, arrived, taken, received>>
    BY <1>2, Zenon DEF Start, StartFails, clientVars
  <2>2. ~Held(Session(d)) /\ Nowhere(Session(d))
    BY <1>2, SessionOps, MoveStart, Zenon
  <2>3. ~Served(d)'
    BY <1>1, <2>1, <2>2, Zenon DEF SessionInv, Served
  <2>4. LinesInv(d)'
    BY <1>1, <2>1, LinesFrame, Zenon
  <2> QED BY <2>2, <2>3, <2>4, SessionOver, Zenon DEF Kept
<1>3. CASE Stop \/ ReleaseGuard \/ StopContext \/ Join
  <2>1. UNCHANGED loopVars /\ UNCHANGED <<client, sent, arrived, taken, received>>
    BY <1>3, Zenon DEF Stop, ReleaseGuard, StopContext, Join, clientVars
  <2> QED BY <2>1, SameLoop, ClientFrame, Zenon DEF Same
<1>4. CASE PostClose
  <2>1. /\ ready' = Append(ready, Operation("close", None, 0)) /\ pending' = pending
        /\ thread' = thread /\ UNCHANGED <<client, sent, arrived, taken, received>>
    BY <1>4, Zenon DEF PostClose, clientVars
  <2>2. Undisturbed(Session(d))
    BY <1>1, <2>1, BegunNone, SessionOps, MoveAppend, Zenon
  <2> QED BY <2>1, <2>2, ClientFrame, Zenon DEF Same
<1>5. CASE Destroy
  <2>1. client' = HungUp(Clients) /\ UNCHANGED <<sent, arrived, taken, received>>
    BY <1>5, Zenon DEF Destroy
  <2>2. Nowhere(Session(d))
    BY <1>5, PlaceHoldsNothing, MoveDestroy, Zenon
  <2>3. client'[d] = IF client[d] \in {"backlog", "connected", "finished"} THEN "gone" ELSE client[d]
    BY <1>1, <2>1, HungUpType, Zenon
  <2>4. SessionInv(d)'
    BY <2>2, <2>3, SessionOver, Zenon DEF Served
  <2>5. LinesInv(d)'
    BY <1>1, <2>1, <2>3, LinesFrame, Zenon
  <2> QED BY <2>4, <2>5, Zenon DEF Kept
<1> QED BY <1>2, <1>3, <1>4, <1>5, Zenon DEF OwnerStops

\* A failed accept concerns no session.
LEMMA SessionAcceptFails ==
  ASSUME IInv, AcceptFails, NEW d \in Clients
  PROVE  Kept(d)
<1>1. ready \in Seq(Operations)
  BY Zenon DEF IInv, TypeOK
<1>2. Complete(DoAccept, Failed(DoAccept)) /\ UNCHANGED <<client, sent, arrived, taken, received>>
  BY Zenon DEF AcceptFails, Complete
<1>3. Undisturbed(Session(d))
  BY <1>1, <1>2, BegunNone, SessionOps, MoveComplete
<1> QED BY <1>2, <1>3, ClientFrame, Zenon DEF Same

\* Every step keeps every session's invariant and the order of its answers.
LEMMA SessionStep ==
  ASSUME IInv, Next, NEW d \in Clients
  PROVE  SessionInv(d)' /\ LinesInv(d)'
<1>1. ASSUME NEW c \in Clients, Completes(c) PROVE Kept(d)
  <2>1. CASE d # c
    BY <1>1, <2>1, OtherSession, Zenon
  <2>2. CASE d = c
    BY <1>1, <2>2, SessionAcceptCompletes, SessionReadCompletes, SessionReadFails, SessionWriteCompletes
       DEF Completes
  <2> QED BY <2>1, <2>2, Zenon
<1>2. ASSUME NEW t \in Threads, Runs(t) \/ Handled(t) PROVE Kept(d)
  BY <1>2, SessionTakeAccept, SessionOnAccept, SessionOnRead, SessionOnWrite, SessionOnClose, SessionExit,
     SessionHandled, Zenon DEF Runs
<1>3. Kept(d)
  BY <1>1, <1>2, SessionOwner, SessionAcceptFails, SessionClient, Zenon DEF Next
<1> QED BY <1>3, Zenon DEF Kept

-----------------------------------------------------------------------------
(* The invariant holds, and with it the properties of the server.          *)

\* The constructed server has no session and no operation.
LEMMA InitIInv == Init => IInv
<1> SUFFICES ASSUME Init PROVE IInv
  BY Zenon
<1>1. At("none") \in Operations /\ At("none").op = "none" /\ At("none").client = None
  BY BegunNone, OperationFields DEF At, Places
<1>2. TypeOK
  <2>1. /\ ready \in Seq(Operations) /\ thread \in [Threads -> Operations]
        /\ sent \in [Clients -> Seq(Sizes)] /\ received \in [Clients -> Seq(1 .. MaxLines)]
    BY <1>1 DEF Init
  <2>2. 0 \in 0 .. MaxLines /\ 0 \in 0 .. MaxLosses
    BY SizesAssumption, ClientsAssumption
  <2>3. arrived \in [Clients -> 0 .. MaxLines] /\ taken \in [Clients -> 0 .. MaxLines]
    BY <2>2, Zenon DEF Init
  <2> QED BY <2>1, <2>2, <2>3, Zenon DEF Init, TypeOK
<1>3. pending = {} /\ Len(ready) = 0 /\ \A t \in Threads : thread[t] = At("none")
  BY Zenon DEF Init
<1>4. LoopInv
  BY <1>3, MayNone DEF LoopInv, Places
<1>5. OwnerInv
  BY <1>3, Zenon DEF Init, OwnerInv
<1>6. ASSUME NEW S, At("none") \notin S PROVE AtMostOnce(S) /\ ~Held(S) /\ Due(S) = {} /\ On(S) = {}
  <2>1. Due(S) = {} /\ On(S) = {}
    BY <1>3, <1>6 DEF Due, On
  <2> QED BY <1>3, <2>1, Zenon DEF AtMostOnce, Held
<1>7. AtMostOnce(AcceptLoop)
  BY <1>6, AcceptOps, Zenon DEF Places
<1>8. ASSUME NEW c \in Clients PROVE SessionInv(c) /\ LinesInv(c)
  <2>1. client[c] = "new" /\ Fresh(c) /\ sent[c] = <<>>
    BY Zenon DEF Init, Fresh
  <2>2. AtMostOnce(Session(c)) /\ ~Held(Session(c)) /\ Due(Session(c)) = {} /\ On(Session(c)) = {}
    BY <1>6, SessionOps, Zenon DEF Places
  <2>3. SessionInv(c)
    BY <1>3, <2>1, <2>2, Zenon DEF SessionInv, Served
  <2>4. taken[c] = 0 /\ arrived[c] = 0 /\ Len(received[c]) = 0 /\ Len(sent[c]) = 0
    BY <2>1, Zenon DEF Fresh
  <2>5. LinesInv(c)
    BY <2>1, <2>4, SizesAssumption DEF LinesInv
  <2> QED BY <2>3, <2>5, Zenon
<1> QED BY <1>2, <1>4, <1>5, <1>7, <1>8, Zenon DEF IInv

\* Every step keeps the inductive invariant.
LEMMA NextIInv == IInv /\ [Next]_vars => IInv'
<1> SUFFICES ASSUME IInv, [Next]_vars PROVE IInv'
  BY Zenon
<1>1. CASE Next
  <2>1. AtMostOnce(AcceptLoop)'
    BY <1>1, AcceptStep, Zenon DEF LoopWhole
  <2>2. TypeOK' /\ LoopInv' /\ OwnerInv'
    BY <1>1, TypeStep, LoopStep, OwnerStep, Zenon
  <2>3. \A d \in Clients : SessionInv(d)' /\ LinesInv(d)'
    BY <1>1, SessionStep, Zenon
  <2> QED BY <2>1, <2>2, <2>3, Zenon DEF IInv
<1>2. CASE UNCHANGED vars
  <2>1. UNCHANGED loopVars /\ UNCHANGED ownerVars /\ UNCHANGED clientVars
    BY <1>2, Zenon DEF vars
  <2>2. AtMostOnce(AcceptLoop)' /\ (Held(AcceptLoop)' <=> Held(AcceptLoop))
    BY <2>1, SameLoop, UndisturbedHeld, Zenon DEF IInv
  <2>3. TypeOK' /\ LoopInv' /\ OwnerInv'
    <3>1. TypeOK'
      BY <2>1 DEF IInv, TypeOK, loopVars, ownerVars, clientVars
    <3>2. LoopInv'
      BY <2>1, LoopAfter, Zenon DEF IInv, LoopInv, loopVars
    <3>3. OwnerInv'
      BY <2>1, <2>2, Zenon DEF IInv, OwnerInv, loopVars, ownerVars
    <3> QED BY <3>1, <3>2, <3>3, Zenon
  <2>4. \A d \in Clients : Kept(d)
    BY <2>1, SameLoop, ClientFrame, Zenon DEF Same, clientVars
  <2> QED BY <2>2, <2>3, <2>4, Zenon DEF IInv, Kept
<1> QED BY <1>1, <1>2, Zenon

\* IInv is an invariant of the server.
LEMMA Invariance == Spec => []IInv
BY InitIInv, NextIInv, PTL DEF Spec

\* The state of the server, of its sessions and of the io_context keeps its
\* type, whatever errors, losses and shutdowns happen.
THEOREM TypeCorrect == Spec => []TypeOK
<1>1. IInv => TypeOK
  BY Zenon DEF IInv
<1> QED BY <1>1, Invariance, PTL

\* Session::on_read, on_write: for any number of threads and of lines sent
\* ahead, a client gets the answers to its lines in their order, each once,
\* and none to a line above max_message_size.
THEOREM InOrder == Spec => []AnswersInOrder
<1>1. ASSUME IInv PROVE AnswersInOrder
  <2> SUFFICES ASSUME NEW c \in Clients, NEW i \in 1 .. Len(received[c])
               PROVE  received[c][i] = i /\ sent[c][i] <= MaxMessageSize
    BY Zenon DEF AnswersInOrder
  <2>1. LinesInv(c)
    BY <1>1, Zenon DEF IInv
  <2>2. i \in 1 .. taken[c]
    BY <1>1, <2>1, LinesTypes DEF LinesInv
  <2> QED BY <2>1, <2>2, Zenon DEF LinesInv
<1> QED BY <1>1, Invariance, PTL

\* on_read closes a connection only over a line above the limit, when every
\* line before it has been answered.
THEOREM RefusedRightly == Spec => []RefusedOnlyTooLarge
<1>1. IInv => RefusedOnlyTooLarge
  BY Zenon DEF IInv, LinesInv, RefusedOnlyTooLarge
<1> QED BY <1>1, Invariance, PTL

\* Sessions have no lock, and need none: whatever the threads do, a session is
\* in at most one handler or operation; and it is in one as long as its client
\* is to be served.
THEOREM OneAtATime == Spec => []OneOperationPerSession
<1>1. IInv => OneOperationPerSession
  BY Zenon DEF IInv, SessionInv, OneOperationPerSession
<1> QED BY <1>1, Invariance, PTL

\* do_accept is called again after every accept, so from start() to stop() the
\* server is accepting, or about to, exactly once.
THEOREM KeepsAccepting == Spec => []AcceptLoopLives
<1>1. IInv => AcceptLoopLives
  BY Zenon DEF IInv, OwnerInv, AcceptLoopLives
<1> QED BY <1>1, Invariance, PTL

\* A line that on_read has handed to the request handler is not dropped by stop():
\* its answer is being made or being written, until the connection is lost or the
\* server destroyed.
THEOREM NoAnswerDropped == Spec => []HandledIsAnswered
<1>1. ASSUME IInv PROVE HandledIsAnswered
  <2> SUFFICES ASSUME NEW c \in Clients, client[c] # "gone", taken[c] > Len(received[c])
               PROVE  \/ DoWrite(c, taken[c]) \in pending
                      \/ \E t \in Threads : thread[t] = Operation("handle", c, taken[c])
    BY Zenon DEF HandledIsAnswered
  <2>1. SessionInv(c) /\ LinesInv(c)
    BY <1>1, Zenon DEF IInv
  <2>2. ~Settled(c) /\ ~Fresh(c)
    BY <1>1, LinesTypes DEF Settled, Fresh
  <2>3. Held(Session(c))
    <3>1. client[c] \in {"connected", "finished"}
      <4>1. client[c] \in {"new", "backlog", "connected", "finished", "gone", "refused"}
        BY <1>1, Zenon DEF IInv, TypeOK
      <4>2. taken[c] # Len(received[c])
        BY <1>1, LinesTypes
      <4> QED BY <2>1, <2>2, <4>1, <4>2, Zenon DEF LinesInv
    <3>2. Len(received[c]) < Len(sent[c])
      BY <1>1, <2>1, LinesTypes DEF LinesInv
    <3> QED BY <2>1, <3>1, <3>2, Zenon DEF SessionInv, Served
  <2> QED BY <2>1, <2>2, <2>3, Zenon DEF SessionInv, Held, PendingOf, DueOf, RunningOf, On
<1> QED BY <1>1, Invariance, PTL
=============================================================================
