----------------------- MODULE TcpJsonServerInvariant -----------------------
(***************************************************************************)
(* The inductive invariant of the server, and the parts of it that speak of*)
(* the io_context alone: the types, and what may be due or running.        *)
(***************************************************************************)
EXTENDS TcpJsonServer, TLAPS

-----------------------------------------------------------------------------
(* The operations, and the sets they belong to.                            *)

\* The fields of an operation, and of one that has failed.
LEMMA OperationFields ==
  ASSUME NEW op, NEW c, NEW line
  PROVE  /\ Operation(op, c, line).op = op /\ Operation(op, c, line).client = c
         /\ Operation(op, c, line).line = line /\ ~Operation(op, c, line).error
         /\ Failed(Operation(op, c, line)).op = op /\ Failed(Operation(op, c, line)).client = c
         /\ Failed(Operation(op, c, line)).line = line /\ Failed(Operation(op, c, line)).error
<1>1. /\ Operation(op, c, line).op = op /\ Operation(op, c, line).client = c
      /\ Operation(op, c, line).line = line /\ ~Operation(op, c, line).error
  BY Zenon DEF Operation
<1>2. /\ Failed(Operation(op, c, line)).op = op /\ Failed(Operation(op, c, line)).client = c
      /\ Failed(Operation(op, c, line)).line = line /\ Failed(Operation(op, c, line)).error
  BY Zenon DEF Operation, Failed
<1> QED BY <1>1, <1>2, Zenon

\* Every operation the code begins, and every handler asio completes it with,
\* with or without an error.
LEMMA OperationType ==
  ASSUME NEW op \in Kinds, NEW c \in Clients \cup {None}, NEW line \in 0 .. MaxLines
  PROVE  Operation(op, c, line) \in Operations /\ Failed(Operation(op, c, line)) \in Operations
BY Zenon DEF Operation, Failed, Operations, OperationsOf

\* Which session an operation belongs to, and whether to the accept loop.
LEMMA Membership ==
  ASSUME NEW o \in Operations
  PROVE  /\ \A c \in Clients : o \in Session(c) <=> o.client = c
         /\ o \in AcceptLoop <=> o.op = "accept"
         /\ o.op \in Kinds /\ o.client \in Clients \cup {None} /\ o.error \in BOOLEAN
<1>1. /\ o.op \in Kinds /\ o.client \in Clients \cup {None} /\ o.error \in BOOLEAN
      /\ o.line \in 0 .. MaxLines
      /\ o = [op |-> o.op, client |-> o.client, line |-> o.line, error |-> o.error]
  BY Zenon DEF Operations, OperationsOf
<1>2. \A c \in Clients : o \in Session(c) <=> o.client = c
  BY <1>1, Zenon DEF Session, OperationsOf
<1>3. o \in AcceptLoop <=> o.op = "accept"
  BY <1>1, Zenon DEF AcceptLoop, OperationsOf
<1> QED BY <1>1, <1>2, <1>3, Zenon

\* The operations that occur.
LEMMA Begun ==
  ASSUME NEW c \in Clients, NEW line \in 0 .. MaxLines
  PROVE  /\ {DoAccept, Failed(DoAccept), Operation("accept", c, 0), Operation("close", None, 0),
             DoRead(c), Failed(DoRead(c)), DoWrite(c, line), Failed(DoWrite(c, line)),
             Operation("handle", c, line)} \subseteq Operations
         /\ \A p \in Places : At(p) \in Operations
<1>1. 0 \in 0 .. MaxLines
  BY SizesAssumption
<1>2. Places \subseteq Kinds /\ {"accept", "read", "write", "handle", "close"} \subseteq Kinds
  BY Zenon DEF Kinds
<1> QED BY <1>1, <1>2, OperationType DEF DoAccept, DoRead, DoWrite, At

\* The operations that belong to no session, and what a thread is that runs none.
LEMMA BegunNone ==
  /\ {DoAccept, Failed(DoAccept), Operation("close", None, 0)} \subseteq Operations
  /\ \A p \in Places : At(p) \in Operations
<1>1. 0 \in 0 .. MaxLines
  BY SizesAssumption
<1>2. Places \subseteq Kinds /\ {"accept", "close"} \subseteq Kinds
  BY Zenon DEF Kinds
<1> QED BY <1>1, <1>2, OperationType, Zenon DEF DoAccept, At

\* Which of the operations are the accept loop's.
LEMMA AcceptOps ==
  /\ DoAccept \in AcceptLoop /\ Failed(DoAccept) \in AcceptLoop
  /\ Operation("close", None, 0) \notin AcceptLoop
  /\ \A p \in Places : At(p) \notin AcceptLoop
  /\ \A c \in Clients, line \in 0 .. MaxLines :
       /\ Operation("accept", c, 0) \in AcceptLoop
       /\ DoRead(c) \notin AcceptLoop /\ Failed(DoRead(c)) \notin AcceptLoop
       /\ DoWrite(c, line) \notin AcceptLoop /\ Failed(DoWrite(c, line)) \notin AcceptLoop
       /\ Operation("handle", c, line) \notin AcceptLoop
<1>1. \A o \in Operations : o \in AcceptLoop <=> o.op = "accept"
  BY Membership, Zenon
<1>2. /\ DoAccept \in AcceptLoop /\ Failed(DoAccept) \in AcceptLoop
      /\ Operation("close", None, 0) \notin AcceptLoop
  BY <1>1, BegunNone, OperationFields DEF DoAccept
<1>3. \A p \in Places : At(p) \notin AcceptLoop
  <2>1. \A p \in Places : At(p) \in Operations /\ At(p).op = p /\ p # "accept"
    BY BegunNone, OperationFields DEF At, Places
  <2> QED BY <1>1, <2>1, Zenon
<1>4. ASSUME NEW c \in Clients, NEW line \in 0 .. MaxLines
      PROVE  /\ Operation("accept", c, 0) \in AcceptLoop
             /\ DoRead(c) \notin AcceptLoop /\ Failed(DoRead(c)) \notin AcceptLoop
             /\ DoWrite(c, line) \notin AcceptLoop /\ Failed(DoWrite(c, line)) \notin AcceptLoop
             /\ Operation("handle", c, line) \notin AcceptLoop
  <2>1. {Operation("accept", c, 0), DoRead(c), Failed(DoRead(c)), DoWrite(c, line),
         Failed(DoWrite(c, line)), Operation("handle", c, line)} \subseteq Operations
    BY Begun, Zenon
  <2>2. /\ Operation("accept", c, 0).op = "accept"
        /\ DoRead(c).op = "read" /\ Failed(DoRead(c)).op = "read"
        /\ DoWrite(c, line).op = "write" /\ Failed(DoWrite(c, line)).op = "write"
        /\ Operation("handle", c, line).op = "handle"
    BY OperationFields DEF DoRead, DoWrite
  <2> QED BY <1>1, <2>1, <2>2, Zenon
<1> QED BY <1>2, <1>3, <1>4, Zenon

\* Which session an operation is of.
LEMMA SessionOps ==
  ASSUME NEW d \in Clients
  PROVE  /\ DoAccept \notin Session(d) /\ Failed(DoAccept) \notin Session(d)
         /\ Operation("close", None, 0) \notin Session(d)
         /\ \A p \in Places : At(p) \notin Session(d)
         /\ \A c \in Clients, line \in 0 .. MaxLines :
              /\ Operation("accept", c, 0) \in Session(d) <=> d = c
              /\ DoRead(c) \in Session(d) <=> d = c
              /\ Failed(DoRead(c)) \in Session(d) <=> d = c
              /\ DoWrite(c, line) \in Session(d) <=> d = c
              /\ Failed(DoWrite(c, line)) \in Session(d) <=> d = c
              /\ Operation("handle", c, line) \in Session(d) <=> d = c
<1>1. /\ \A o \in Operations : o \in Session(d) <=> o.client = d
      /\ d # None
  BY Membership, ClientsAssumption, Zenon
<1>2. /\ DoAccept \notin Session(d) /\ Failed(DoAccept) \notin Session(d)
      /\ Operation("close", None, 0) \notin Session(d)
  BY <1>1, BegunNone, OperationFields DEF DoAccept
<1>3. \A p \in Places : At(p) \notin Session(d)
  BY <1>1, BegunNone, OperationFields DEF At
<1>4. ASSUME NEW c \in Clients, NEW line \in 0 .. MaxLines
      PROVE  /\ Operation("accept", c, 0) \in Session(d) <=> d = c
             /\ DoRead(c) \in Session(d) <=> d = c
             /\ Failed(DoRead(c)) \in Session(d) <=> d = c
             /\ DoWrite(c, line) \in Session(d) <=> d = c
             /\ Failed(DoWrite(c, line)) \in Session(d) <=> d = c
             /\ Operation("handle", c, line) \in Session(d) <=> d = c
  <2>1. {Operation("accept", c, 0), DoRead(c), Failed(DoRead(c)), DoWrite(c, line),
         Failed(DoWrite(c, line)), Operation("handle", c, line)} \subseteq Operations
    BY Begun, Zenon
  <2>2. /\ Operation("accept", c, 0).client = c
        /\ DoRead(c).client = c /\ Failed(DoRead(c)).client = c
        /\ DoWrite(c, line).client = c /\ Failed(DoWrite(c, line)).client = c
        /\ Operation("handle", c, line).client = c
    BY OperationFields DEF DoRead, DoWrite
  <2> QED BY <1>1, <2>1, <2>2, Zenon
<1> QED BY <1>2, <1>3, <1>4, Zenon

\* What post() and the completion of an operation do to the queue.
LEMMA AppendElements ==
  ASSUME NEW q \in Seq(Operations), NEW h \in Operations, NEW r, r = Append(q, h)
  PROVE  /\ Len(r) = Len(q) + 1
         /\ \A i \in 1 .. Len(q) : r[i] = q[i]
         /\ r[Len(q) + 1] = h
OBVIOUS

-----------------------------------------------------------------------------
(* The inductive invariant.  A session has no variable of its own, so its  *)
(* state is read off the one operation or handler that holds it: the       *)
(* invariant says, for each kind of holder, how far the lines of the       *)
(* client have come.                                                       *)

\* Every line taken has been answered, respectively all but the last.
Settled(c) == client[c] # "gone" => taken[c] = Len(received[c])
Working(c) == taken[c] > 0 /\ (client[c] # "gone" => taken[c] = Len(received[c]) + 1)

Fresh(c) == taken[c] = 0 /\ arrived[c] = 0 /\ received[c] = <<>>

\* Nothing more will come from the client.
Ended(c) ==
  /\ arrived[c] = taken[c]
  /\ client[c] = "gone" \/ (client[c] = "finished" /\ arrived[c] = Len(sent[c]))

\* A client the server has accepted and not refused.
Open == {"connected", "finished", "gone"}

\* An asynchronous operation of the session is in progress.
PendingOf(c, o) ==
  \/ o = DoRead(c) /\ Settled(c)
  \/ o = DoWrite(c, taken[c]) /\ Working(c)

\* A handler of the session is due.
DueOf(c, h) ==
  \/ h.op = "accept" /\ ~h.error /\ Fresh(c)
  \/ /\ h.op = "read" /\ Settled(c)
     /\ IF h.error THEN Ended(c) ELSE arrived[c] > taken[c]
  \/ h.op = "write" /\ Settled(c) /\ (h.error => client[c] = "gone")

\* A thread is in a handler of the session.
RunningOf(c, h) ==
  \/ h.op = "accept" /\ ~h.error /\ Fresh(c)
  \/ h = Operation("handle", c, taken[c]) /\ Working(c)

SessionInv(c) ==
  /\ AtMostOnce(Session(c))
  /\ \A o \in pending \cap Session(c) : PendingOf(c, o)
  /\ \A i \in Due(Session(c)) : DueOf(c, ready[i])
  /\ \A t \in On(Session(c)) : RunningOf(c, thread[t])
  /\ Held(Session(c)) => client[c] \in {"connected", "finished", "gone"}
  /\ Served(c) => Held(Session(c))

\* The lines of a client: sent, arrived, taken, answered.
LinesInv(c) ==
  /\ Len(received[c]) <= taken[c] /\ taken[c] <= arrived[c]
  /\ arrived[c] <= Len(sent[c]) /\ Len(sent[c]) <= MaxLines
  /\ \A i \in 1 .. Len(received[c]) : received[c][i] = i
  /\ \A i \in 1 .. taken[c] : sent[c][i] <= MaxMessageSize
  /\ client[c] \in {"new", "backlog"} => Fresh(c)
  /\ client[c] = "refused" =>
       /\ taken[c] = Len(received[c]) /\ taken[c] < Len(sent[c])
       /\ sent[c][taken[c] + 1] > MaxMessageSize

\* What may be due, and what a thread may be doing: an accept that failed has
\* no client; the handler that closes and an idle thread have none either.
MayBeDue(h) ==
  /\ h.op \in {"accept", "read", "write", "close"}
  /\ h.op = "accept" => (h.error <=> h.client = None)
  /\ h.op = "close" <=> h.client = None /\ h.op # "accept"

MayRun(h) ==
  /\ h.op \in {"accept", "handle"} \cup Places
  /\ h.op = "accept" => (h.error <=> h.client = None)
  /\ h.op \in Places <=> h.client = None /\ h.op # "accept"

LoopInv ==
  /\ \A o \in pending : o.client = None => o = DoAccept
  /\ \A i \in 1 .. Len(ready) : MayBeDue(ready[i])
  /\ \A t \in Threads : MayRun(thread[t])

OwnerInv ==
  /\ owner = "created" =>
       pending = {} /\ ready = <<>> /\ \A t \in Threads : thread[t] = At("none")
  /\ owner = "running" => running /\ Held(AcceptLoop)
  /\ owner \in {"stopped", "destroyed"} => \A t \in Threads : thread[t].op \in {"none", "exited"}

IInv ==
  /\ TypeOK /\ LoopInv /\ OwnerInv /\ AtMostOnce(AcceptLoop)
  /\ \A c \in Clients : SessionInv(c) /\ LinesInv(c)

-----------------------------------------------------------------------------
(* Every step keeps the types.                                             *)

\* Closing connections keeps the clients' states and touches only open ones.
LEMMA HungUpType ==
  ASSUME TypeOK, NEW cs
  PROVE  /\ HungUp(cs) \in [Clients -> {"new", "backlog", "connected", "finished", "gone", "refused"}]
         /\ \A c \in Clients : HungUp(cs)[c] = IF c \in cs /\ client[c] \in {"backlog", "connected", "finished"}
                                               THEN "gone" ELSE client[c]
BY Zenon DEF TypeOK, HungUp

\* What Complete does to the types, whatever the operation.
LEMMA CompleteType ==
  ASSUME TypeOK, NEW o, NEW h \in Operations, Complete(o, h)
  PROVE  /\ pending' \subseteq Operations /\ \A p \in pending' : (p.op = "accept" <=> p.client = None)
         /\ ready' \in Seq(Operations) /\ thread' \in [Threads -> Operations]
         /\ running' \in BOOLEAN /\ guard' \in BOOLEAN /\ stopped' \in BOOLEAN
         /\ acceptor' = acceptor /\ owner' = owner /\ sent' = sent /\ taken' = taken
BY DEF TypeOK, Complete, ownerVars

\* A completed accept, read or write keeps the types.
LEMMA CompletesType ==
  ASSUME IInv, NEW c \in Clients, Completes(c)
  PROVE  TypeOK'
<1> USE DEF IInv
<1>1. CASE AcceptCompletes(c)
  <2>1. Operation("accept", c, 0) \in Operations
    BY Begun, SizesAssumption
  <2>2. Complete(DoAccept, Operation("accept", c, 0))
    BY <1>1, Zenon DEF AcceptCompletes
  <2> QED BY <1>1, <2>1, <2>2, CompleteType, Zenon DEF AcceptCompletes, TypeOK
<1>2. CASE ReadCompletes(c)
  <2>1. DoRead(c) \in Operations
    BY Begun, SizesAssumption
  <2>2. Complete(DoRead(c), DoRead(c))
    BY <1>2, Zenon DEF ReadCompletes
  <2>3. arrived' \in [Clients -> 0 .. MaxLines]
    <3>1. PICK n \in arrived[c] .. Len(sent[c]) : arrived' = [arrived EXCEPT ![c] = n]
      BY <1>2, Zenon DEF ReadCompletes
    <3>2. n \in 0 .. MaxLines
      BY SizesAssumption DEF TypeOK, LinesInv
    <3> QED BY <3>1, <3>2, Zenon DEF TypeOK
  <2> QED BY <1>2, <2>1, <2>2, <2>3, CompleteType, Zenon DEF ReadCompletes, TypeOK
<1>3. CASE ReadFails(c)
  <2>1. Failed(DoRead(c)) \in Operations
    BY Begun, SizesAssumption
  <2>2. Complete(DoRead(c), Failed(DoRead(c)))
    BY <1>3, Zenon DEF ReadFails
  <2> QED BY <1>3, <2>1, <2>2, CompleteType, Zenon DEF ReadFails, TypeOK
<1>4. CASE WriteCompletes(c)
  <2>1. PICK line \in 1 .. MaxLines : \E h \in {DoWrite(c, line), Failed(DoWrite(c, line))} :
          /\ Complete(DoWrite(c, line), h)
          /\ received' = received \/ received' = [received EXCEPT ![c] = Append(@, line)]
          /\ UNCHANGED <<client, arrived, losses>>
    BY <1>4, Zenon DEF WriteCompletes
  <2>2. {DoWrite(c, line), Failed(DoWrite(c, line))} \subseteq Operations
    BY Begun, SizesAssumption
  <2>3. PICK h \in Operations : Complete(DoWrite(c, line), h)
    BY <2>1, <2>2, Zenon
  <2>4. received' \in [Clients -> Seq(1 .. MaxLines)]
    <3>1. received \in [Clients -> Seq(1 .. MaxLines)] /\ received[c] \in Seq(1 .. MaxLines)
      BY Zenon DEF TypeOK
    <3>2. Append(received[c], line) \in Seq(1 .. MaxLines)
      BY <3>1
    <3> QED BY <2>1, <3>1, <3>2, Zenon
  <2> QED BY <2>1, <2>3, <2>4, CompleteType, Zenon DEF TypeOK
<1> QED BY <1>1, <1>2, <1>3, <1>4, Zenon DEF Completes

\* So does whatever a client does.
LEMMA ClientType ==
  ASSUME IInv, NEW c \in Clients, Client(c)
  PROVE  TypeOK'
<1> USE DEF IInv
<1>1. CASE Connect(c)
  BY <1>1, Zenon DEF Connect, TypeOK, ownerVars, loopVars
<1>2. ASSUME NEW size \in Sizes, Send(c, size) PROVE TypeOK'
  BY <1>2 DEF Send, TypeOK, ownerVars, loopVars
<1>3. CASE Finish(c)
  BY <1>3 DEF Finish, TypeOK, ownerVars, loopVars
<1>4. CASE Lose(c)
  BY <1>4, ClientsAssumption DEF Lose, TypeOK, ownerVars, loopVars
<1> QED BY <1>1, <1>2, <1>3, <1>4, Zenon DEF Client

\* The head of the queue, whose handler a thread takes.
LEMMA HeadType ==
  ASSUME IInv, ready # <<>>
  PROVE  /\ Head(ready) \in Operations /\ Tail(ready) \in Seq(Operations)
         /\ Head(ready).op = "accept" => (Head(ready).error <=> Head(ready).client = None)
         /\ Head(ready).op \in {"read", "write"} => Head(ready).client \in Clients
         /\ Head(ready).op = "close" => Head(ready).client = None
         /\ \A c \in Clients : Head(ready).client = c =>
              /\ Held(Session(c)) /\ client[c] \in Open
              /\ \A h : h = Head(ready) => DueOf(c, h)
<1>1. /\ Head(ready) = ready[1] /\ 1 \in 1 .. Len(ready)
      /\ Head(ready) \in Operations /\ Tail(ready) \in Seq(Operations)
  BY DEF IInv, TypeOK
<1>2. Head(ready).client \in Clients \cup {None}
  BY <1>1, Membership, Zenon
<1>3. /\ Head(ready).op = "accept" => (Head(ready).error <=> Head(ready).client = None)
      /\ Head(ready).op = "close" <=> (Head(ready).client = None /\ Head(ready).op # "accept")
  BY <1>1, Zenon DEF IInv, LoopInv, MayBeDue
<1>4. ASSUME NEW c \in Clients, Head(ready).client = c
      PROVE  /\ Held(Session(c)) /\ client[c] \in Open
             /\ \A h : h = Head(ready) => DueOf(c, h)
  <2>1. Head(ready) \in Session(c)
    BY <1>1, <1>4, Membership, Zenon
  <2>2. 1 \in Due(Session(c))
    BY <1>1, <2>1, Zenon DEF Due
  <2>3. Held(Session(c)) /\ DueOf(c, ready[1]) /\ client[c] \in Open
    BY <2>2, Zenon DEF Held, IInv, SessionInv, Open
  <2> QED BY <1>1, <2>3, Zenon
<1> QED BY <1>1, <1>2, <1>3, <1>4, Zenon

\* The handler a thread runs.
LEMMA ThreadType ==
  ASSUME IInv, NEW t \in Threads
  PROVE  /\ thread[t] \in Operations
         /\ thread[t].op = "accept" => (thread[t].error <=> thread[t].client = None)
         /\ thread[t].op = "handle" => thread[t].client \in Clients
         /\ thread[t].op \in Places => thread[t].client = None
         /\ \A c \in Clients : thread[t].client = c =>
              /\ Held(Session(c)) /\ client[c] \in Open
              /\ \A h : h = thread[t] => RunningOf(c, h)
<1>1. thread[t] \in Operations
  BY Zenon DEF IInv, TypeOK
<1>2. thread[t].client \in Clients \cup {None}
  BY <1>1, Membership, Zenon
<1>3. /\ thread[t].op = "accept" => (thread[t].error <=> thread[t].client = None)
      /\ thread[t].op \in Places <=> (thread[t].client = None /\ thread[t].op # "accept")
  BY Zenon DEF IInv, LoopInv, MayRun
<1>4. ASSUME NEW c \in Clients, thread[t].client = c
      PROVE  /\ Held(Session(c)) /\ client[c] \in Open
             /\ \A h : h = thread[t] => RunningOf(c, h)
  <2>1. thread[t] \in Session(c)
    BY <1>1, <1>4, Membership, Zenon
  <2>2. t \in On(Session(c))
    BY <2>1, Zenon DEF On
  <2>3. Held(Session(c)) /\ RunningOf(c, thread[t]) /\ client[c] \in Open
    BY <2>2, Zenon DEF Held, IInv, SessionInv, Open
  <2> QED BY <2>3, Zenon
<1>5. thread[t].op = "handle" => thread[t].client \in Clients
  BY <1>2, <1>3, Zenon DEF Places
<1> QED BY <1>1, <1>3, <1>4, <1>5, Zenon

\* So does a network thread, in any handler.
LEMMA RunsType ==
  ASSUME IInv, NEW t \in Threads, Runs(t) \/ Handled(t)
  PROVE  TypeOK'
<1>1. TypeOK
  BY Zenon DEF IInv
<1>2. At("idle") \in Operations /\ At("exited") \in Operations
  BY BegunNone, Zenon DEF Places
<1>3. CASE TakeAccept(t)
  <2>1. /\ ready # <<>> /\ ready' = Tail(ready)
        /\ thread' = thread \/ thread' = [thread EXCEPT ![t] = Head(ready)]
        /\ client' = client \/ client' = HungUp({Head(ready).client})
    BY <1>3, Zenon DEF TakeAccept, Takes
  <2>2. Head(ready) \in Operations /\ Tail(ready) \in Seq(Operations)
    BY <2>1, HeadType, Zenon
  <2>3. client' \in [Clients -> {"new", "backlog", "connected", "finished", "gone", "refused"}]
    BY <1>1, <2>1, HungUpType DEF TypeOK
  <2>4. thread' \in [Threads -> Operations]
    BY <1>1, <2>1, <2>2, Zenon DEF TypeOK
  <2> QED BY <1>1, <1>3, <2>1, <2>2, <2>3, <2>4 DEF TakeAccept, TypeOK, ownerVars
<1>4. CASE OnAccept(t)
  <2>1. thread[t].op = "accept" /\ thread[t] \in Operations /\ thread' = [thread EXCEPT ![t] = At("idle")]
    BY <1>4, ThreadType, Zenon DEF OnAccept
  <2>2. ASSUME ~thread[t].error PROVE thread[t].client \in Clients
    BY <2>1, <2>2, ThreadType, Membership, Zenon
  <2>3. \A c \in Clients : DoRead(c) \in Operations /\ DoRead(c).op = "read" /\ DoRead(c).client = c
    BY Begun, SizesAssumption, OperationFields DEF DoRead
  <2>4. DoAccept \in Operations /\ DoAccept.op = "accept" /\ DoAccept.client = None
    BY BegunNone, OperationFields DEF DoAccept
  <2>5. pending' \subseteq pending \cup {DoAccept} \cup {DoRead(c) : c \in Clients}
    BY <1>4, <2>2, Zenon DEF OnAccept
  <2>6. pending' \subseteq Operations /\ \A o \in pending' : (o.op = "accept" <=> o.client = None)
    <3>1. ASSUME NEW o \in pending' PROVE o \in Operations /\ (o.op = "accept" <=> o.client = None)
      <4>1. CASE o \in pending
        BY <1>1, <4>1, Zenon DEF TypeOK
      <4>2. CASE o = DoAccept
        BY <2>4, <4>2, Zenon
      <4>3. ASSUME NEW c \in Clients, o = DoRead(c)
            PROVE  o \in Operations /\ (o.op = "accept" <=> o.client = None)
        BY <2>3, <4>3, ClientsAssumption, Zenon
      <4> QED BY <2>5, <4>1, <4>2, <4>3, Zenon
    <3> QED BY <3>1, Zenon
  <2>7. ready' \in Seq(Operations)
    <3>1. ready \in Seq(Operations) /\ Failed(DoAccept) \in Operations
      BY <1>1, BegunNone, Zenon DEF TypeOK
    <3>2. ready' = ready \/ ready' = Append(ready, Failed(DoAccept))
      BY <1>4, Zenon DEF OnAccept
    <3> QED BY <3>1, <3>2
  <2> QED BY <1>1, <1>2, <1>4, <2>1, <2>6, <2>7 DEF OnAccept, TypeOK, ownerVars, clientVars
<1>5. CASE OnRead(t)
  <2> DEFINE c == Head(ready).client
  <2>1. /\ ready # <<>> /\ ready' = Tail(ready) /\ Head(ready).op = "read"
        /\ \/ Head(ready).error /\ UNCHANGED <<client, taken, thread>>
           \/ /\ ~Head(ready).error
              /\ client' = [client EXCEPT ![c] = IF @ = "gone" THEN @ ELSE "refused"]
              /\ UNCHANGED <<taken, thread>>
           \/ /\ ~Head(ready).error
              /\ taken' = [taken EXCEPT ![c] = @ + 1]
              /\ thread' = [thread EXCEPT ![t] = Operation("handle", c, taken[c] + 1)]
              /\ UNCHANGED client
        /\ UNCHANGED <<ownerVars, pending, sent, arrived, received, losses>>
    BY <1>5, Zenon DEF OnRead, Close, Takes
  <2>2. c \in Clients /\ Tail(ready) \in Seq(Operations)
    BY <2>1, HeadType, Zenon
  <2>3. ASSUME ~Head(ready).error PROVE taken[c] + 1 \in 0 .. MaxLines
    <3>1. arrived[c] > taken[c]
      BY <2>1, <2>2, <2>3, HeadType, Zenon DEF DueOf
    <3> QED BY <1>1, <2>2, <3>1, SizesAssumption DEF TypeOK
  <2>4. ASSUME ~Head(ready).error PROVE Operation("handle", c, taken[c] + 1) \in Operations
    <3>1. \A d \in Clients, n \in 0 .. MaxLines : Operation("handle", d, n) \in Operations
      BY Begun, Zenon
    <3> QED BY <2>2, <2>3, <2>4, <3>1, Zenon
  <2> HIDE DEF c
  <2>5. client' \in [Clients -> {"new", "backlog", "connected", "finished", "gone", "refused"}]
    BY <1>1, <2>1, <2>2, Zenon DEF TypeOK
  <2>6. taken' \in [Clients -> 0 .. MaxLines]
    BY <1>1, <2>1, <2>2, <2>3, Zenon DEF TypeOK
  <2>7. thread' \in [Threads -> Operations]
    BY <1>1, <2>1, <2>4, Zenon DEF TypeOK
  <2> QED BY <1>1, <2>1, <2>2, <2>5, <2>6, <2>7, Zenon DEF TypeOK, ownerVars
<1>6. CASE OnWrite(t)
  <2>1. ready # <<>> /\ ready' = Tail(ready) /\ Head(ready).op = "write"
    BY <1>6, Zenon DEF OnWrite, Takes
  <2>2. Head(ready).client \in Clients /\ Tail(ready) \in Seq(Operations)
    BY <2>1, HeadType, Zenon
  <2>3. /\ DoRead(Head(ready).client) \in Operations
        /\ DoRead(Head(ready).client).op = "read" /\ DoRead(Head(ready).client).client # None
    <3>1. \A c \in Clients : DoRead(c) \in Operations /\ DoRead(c).op = "read" /\ DoRead(c).client = c
      BY Begun, SizesAssumption, OperationFields DEF DoRead
    <3> QED BY <2>2, <3>1, ClientsAssumption, Zenon
  <2>4. pending' \subseteq Operations /\ \A o \in pending' : (o.op = "accept" <=> o.client = None)
    BY <1>1, <1>6, <2>3, Zenon DEF OnWrite, TypeOK
  <2> QED BY <1>1, <1>6, <2>1, <2>2, <2>4, Zenon DEF OnWrite, TypeOK, ownerVars, clientVars
<1>7. CASE OnClose(t)
  <2>1. ready # <<>> /\ Tail(ready) \in Seq(Operations)
    BY <1>7, HeadType, Zenon DEF OnClose
  <2>2. ready' \in Seq(Operations)
    BY <1>7, <2>1, BegunNone DEF OnClose
  <2>3. client' \in [Clients -> {"new", "backlog", "connected", "finished", "gone", "refused"}]
    BY <1>1, <1>7, HungUpType, Zenon DEF OnClose
  <2> QED BY <1>1, <1>7, <2>2, <2>3, Zenon DEF OnClose, TypeOK
<1>8. CASE Exit(t)
  BY <1>1, <1>2, <1>8, Zenon DEF Exit, TypeOK, ownerVars, clientVars
<1>9. CASE Handled(t)
  <2>1. /\ thread[t].op = "handle" /\ thread[t].client \in Clients
        /\ thread[t].line \in 0 .. MaxLines
    BY <1>9, ThreadType, Zenon DEF Handled, Operations, OperationsOf
  <2>2. PICK o : /\ o = DoWrite(thread[t].client, thread[t].line)
                 /\ o \in Operations /\ o.op = "write" /\ o.client # None
    BY <2>1, Begun, ClientsAssumption, OperationFields DEF DoWrite
  <2>3. pending' \subseteq Operations /\ \A p \in pending' : (p.op = "accept" <=> p.client = None)
    BY <1>1, <1>9, <2>2, Zenon DEF Handled, TypeOK
  <2> QED BY <1>1, <1>2, <1>9, <2>3 DEF Handled, TypeOK, ownerVars, clientVars
<1> QED BY <1>3, <1>4, <1>5, <1>6, <1>7, <1>8, <1>9, Zenon DEF Runs

\* Every step keeps the types.
LEMMA TypeStep ==
  ASSUME IInv, Next
  PROVE  TypeOK'
<1>1. TypeOK
  BY Zenon DEF IInv
<1>2. /\ DoAccept \in Operations /\ DoAccept.op = "accept" /\ DoAccept.client = None
      /\ Operation("close", None, 0) \in Operations /\ Failed(DoAccept) \in Operations
      /\ At("idle") \in Operations /\ At("none") \in Operations
  BY BegunNone, OperationFields DEF DoAccept, Places
<1>3. CASE Start
  BY <1>1, <1>2, <1>3, Zenon DEF Start, TypeOK, clientVars
<1>4. CASE StartFails
  <2>1. thread' \in [Threads -> Operations]
    BY <1>1, <1>2, <1>4, Zenon DEF StartFails, TypeOK
  <2>2. pending' \subseteq Operations /\ \A o \in pending' : (o.op = "accept" <=> o.client = None)
    BY <1>1, <1>2, <1>4, Zenon DEF StartFails, TypeOK
  <2>3. acceptor' \in {"closed", "open", "listening"}
    BY <1>4, Zenon DEF StartFails
  <2> QED BY <1>1, <1>4, <2>1, <2>2, <2>3, Zenon DEF StartFails, TypeOK, clientVars
<1>5. CASE Stop
  BY <1>1, <1>5, Zenon DEF Stop, TypeOK, loopVars, clientVars
<1>6. CASE PostClose
  BY <1>1, <1>2, <1>6 DEF PostClose, TypeOK, clientVars
<1>7. CASE ReleaseGuard \/ StopContext \/ Join
  BY <1>1, <1>7, Zenon DEF ReleaseGuard, StopContext, Join, TypeOK, loopVars, clientVars
<1>8. CASE Destroy
  <2>1. client' \in [Clients -> {"new", "backlog", "connected", "finished", "gone", "refused"}]
    BY <1>1, <1>8, HungUpType, Zenon DEF Destroy
  <2> QED BY <1>1, <1>8, <2>1 DEF Destroy, TypeOK
<1>9. CASE AcceptFails
  <2>1. Complete(DoAccept, Failed(DoAccept)) /\ losses' \in 0 .. MaxLosses
    BY <1>1, <1>9, ClientsAssumption DEF AcceptFails, TypeOK
  <2> QED BY <1>1, <1>2, <1>9, <2>1, CompleteType, Zenon DEF AcceptFails, TypeOK
<1> QED BY <1>3, <1>4, <1>5, <1>6, <1>7, <1>8, <1>9, ClientType, CompletesType, RunsType, Zenon
        DEF Next, OwnerStops

-----------------------------------------------------------------------------
(* Every step keeps LoopInv.                                               *)

\* What may be due stays so when a handler is queued, taken, or both.
LEMMA DueStays ==
  ASSUME ready \in Seq(Operations), LoopInv
  PROVE  /\ \A h \in Operations : MayBeDue(h) /\ ready' = Append(ready, h) =>
              \A i \in 1 .. Len(ready') : MayBeDue(ready'[i])
         /\ ready # <<>> /\ ready' = Tail(ready) => \A i \in 1 .. Len(ready') : MayBeDue(ready'[i])
         /\ \A h \in Operations : MayBeDue(h) /\ ready # <<>> /\ ready' = Append(Tail(ready), h) =>
              \A i \in 1 .. Len(ready') : MayBeDue(ready'[i])
<1>1. ASSUME NEW q \in Seq(Operations), NEW h \in Operations, NEW r, r = Append(q, h), MayBeDue(h),
             \A i \in 1 .. Len(q) : MayBeDue(q[i])
      PROVE  \A i \in 1 .. Len(r) : MayBeDue(r[i])
  <2>1. /\ Len(q) \in Nat /\ Len(r) = Len(q) + 1
        /\ \A i \in 1 .. Len(q) : r[i] = q[i]
        /\ r[Len(q) + 1] = h
    BY <1>1, AppendElements
  <2>2. \A i \in 1 .. Len(r) : i \in 1 .. Len(q) \/ i = Len(q) + 1
    BY <2>1
  <2> QED BY <1>1, <2>1, <2>2, Zenon
<1>2. ASSUME NEW r, r = Tail(ready), ready # <<>>
      PROVE  r \in Seq(Operations) /\ \A i \in 1 .. Len(r) : MayBeDue(r[i])
  <2>1. /\ r \in Seq(Operations)
        /\ \A i \in 1 .. Len(r) : i + 1 \in 1 .. Len(ready) /\ r[i] = ready[i + 1]
    BY <1>2
  <2> QED BY <2>1, Zenon DEF LoopInv
<1>3. \A h \in Operations : MayBeDue(h) /\ ready' = Append(ready, h) =>
        \A i \in 1 .. Len(ready') : MayBeDue(ready'[i])
  BY <1>1, Zenon DEF LoopInv
<1>4. ready # <<>> /\ ready' = Tail(ready) => \A i \in 1 .. Len(ready') : MayBeDue(ready'[i])
  BY <1>2, Zenon
<1>5. ASSUME NEW h \in Operations, MayBeDue(h), ready # <<>>, ready' = Append(Tail(ready), h)
      PROVE  \A i \in 1 .. Len(ready') : MayBeDue(ready'[i])
  <2>1. PICK q : q = Tail(ready)
    BY Zenon
  <2>2. q \in Seq(Operations) /\ \A i \in 1 .. Len(q) : MayBeDue(q[i])
    BY <1>2, <1>5, <2>1, Zenon
  <2>3. ready' = Append(q, h)
    BY <1>5, <2>1, Zenon
  <2> QED BY <1>1, <1>5, <2>2, <2>3, Zenon
<1> QED BY <1>3, <1>4, <1>5, Zenon

\* What asio and the threads put in their places.
LEMMA MayHandlers ==
  ASSUME NEW c \in Clients, NEW line
  PROVE  /\ MayBeDue(Operation("accept", c, 0)) /\ MayRun(Operation("handle", c, line))
         /\ MayBeDue(DoRead(c)) /\ MayBeDue(Failed(DoRead(c)))
         /\ MayBeDue(DoWrite(c, line)) /\ MayBeDue(Failed(DoWrite(c, line)))
         /\ DoRead(c).client # None /\ DoWrite(c, line).client # None
<1>1. c # None
  BY ClientsAssumption, Zenon
<1> QED BY <1>1, OperationFields DEF MayBeDue, MayRun, DoRead, DoWrite, Places

\* A failed accept and the posted close may be due; a thread may be between handlers.
LEMMA MayNone ==
  /\ MayBeDue(Failed(DoAccept)) /\ MayBeDue(Operation("close", None, 0))
  /\ \A p \in Places : MayRun(At(p))
<1>1. MayBeDue(Failed(DoAccept)) /\ MayBeDue(Operation("close", None, 0))
  BY OperationFields DEF MayBeDue, DoAccept
<1>2. ASSUME NEW p \in Places PROVE MayRun(At(p))
  <2>1. At(p).op = p /\ At(p).client = None /\ p # "accept"
    BY OperationFields DEF At, Places
  <2> QED BY <2>1, Zenon DEF MayRun
<1> QED BY <1>1, <1>2, Zenon

\* An operation that completes leaves only handlers that may be due.
LEMMA LoopComplete ==
  ASSUME IInv, NEW o, NEW h \in Operations, MayBeDue(h), Complete(o, h)
  PROVE  LoopInv'
<1>1. ready \in Seq(Operations) /\ LoopInv
  BY Zenon DEF IInv, TypeOK
<1>2. pending' = pending \ {o} /\ ready' = Append(ready, h) /\ thread' = thread
  BY Zenon DEF Complete
<1>3. \A i \in 1 .. Len(ready') : MayBeDue(ready'[i])
  BY <1>1, <1>2, DueStays, Zenon
<1>4. \A p \in pending' : p.client = None => p = DoAccept
  BY <1>1, <1>2, Zenon DEF LoopInv
<1>5. \A t \in Threads : MayRun(thread'[t])
  BY <1>1, <1>2, Zenon DEF LoopInv
<1> QED BY <1>3, <1>4, <1>5, Zenon DEF LoopInv, MayBeDue, MayRun

\* The parts of LoopInv, after a step.
LEMMA LoopAfter ==
  ASSUME \A o \in pending' : o.client = None => o = DoAccept,
         \A i \in 1 .. Len(ready') : MayBeDue(ready'[i]),
         \A t \in Threads : MayRun(thread'[t])
  PROVE  LoopInv'
BY Zenon DEF LoopInv, MayBeDue, MayRun

\* The kernel's completions keep LoopInv.
LEMMA LoopCompletes ==
  ASSUME IInv, NEW c \in Clients, Completes(c)
  PROVE  LoopInv'
<1>1. 0 \in 0 .. MaxLines
  BY SizesAssumption
<1>2. CASE AcceptCompletes(c)
  BY <1>1, <1>2, Begun, MayHandlers, LoopComplete, Zenon DEF AcceptCompletes
<1>3. CASE ReadCompletes(c)
  BY <1>1, <1>3, Begun, MayHandlers, LoopComplete, Zenon DEF ReadCompletes
<1>4. CASE ReadFails(c)
  BY <1>1, <1>4, Begun, MayHandlers, LoopComplete, Zenon DEF ReadFails
<1>5. CASE WriteCompletes(c)
  <2>1. PICK line \in 1 .. MaxLines : \E h \in {DoWrite(c, line), Failed(DoWrite(c, line))} :
          Complete(DoWrite(c, line), h)
    BY <1>5, Zenon DEF WriteCompletes
  <2>2. \A h \in {DoWrite(c, line), Failed(DoWrite(c, line))} : h \in Operations /\ MayBeDue(h)
    BY Begun, MayHandlers, SizesAssumption
  <2> QED BY <2>1, <2>2, LoopComplete, Zenon
<1> QED BY <1>2, <1>3, <1>4, <1>5, Zenon DEF Completes

\* So do the handlers on the network threads.
LEMMA LoopRuns ==
  ASSUME IInv, NEW t \in Threads, Runs(t) \/ Handled(t)
  PROVE  LoopInv'
<1>1. /\ LoopInv /\ ready \in Seq(Operations) /\ thread \in [Threads -> Operations]
      /\ \A o \in pending : o.client = None => o = DoAccept
      /\ \A i \in 1 .. Len(ready) : MayBeDue(ready[i])
      /\ \A u \in Threads : MayRun(thread[u])
  BY Zenon DEF IInv, TypeOK, LoopInv
<1>2. MayRun(At("idle")) /\ MayRun(At("exited"))
  BY MayNone, Zenon DEF Places
<1>3. \A c \in Clients : DoRead(c).client # None /\ \A line : DoWrite(c, line).client # None
  BY MayHandlers, Zenon
<1>4. ready # <<>> /\ ready' = Tail(ready) => \A i \in 1 .. Len(ready') : MayBeDue(ready'[i])
  BY <1>1, DueStays, Zenon
<1>5. CASE TakeAccept(t)
  <2>1. /\ ready # <<>> /\ ready' = Tail(ready) /\ pending' = pending
        /\ Head(ready).op = "accept"
        /\ thread' = thread \/ thread' = [thread EXCEPT ![t] = Head(ready)]
    BY <1>5, Zenon DEF TakeAccept, Takes
  <2>2. MayRun(Head(ready))
    BY <2>1, HeadType, Zenon DEF MayRun, Places
  <2>3. \A u \in Threads : MayRun(thread'[u])
    BY <1>1, <2>1, <2>2, Zenon
  <2> QED BY <1>1, <1>4, <2>1, <2>3, LoopAfter, Zenon
<1>6. CASE OnAccept(t)
  <2>1. /\ thread[t].op = "accept" /\ thread' = [thread EXCEPT ![t] = At("idle")]
        /\ ready' = ready \/ ready' = Append(ready, Failed(DoAccept))
    BY <1>6, Zenon DEF OnAccept
  <2>2. ~thread[t].error => thread[t].client \in Clients
    BY <2>1, ThreadType, Membership, Zenon
  <2>3. \A o \in pending' : o \in pending \/ o = DoAccept \/ o.client # None
    BY <1>3, <1>6, <2>2 DEF OnAccept
  <2>4. \A i \in 1 .. Len(ready') : MayBeDue(ready'[i])
    BY <1>1, <2>1, BegunNone, MayNone, DueStays, Zenon
  <2>5. \A u \in Threads : MayRun(thread'[u])
    BY <1>1, <1>2, <2>1, Zenon
  <2> QED BY <1>1, <2>3, <2>4, <2>5, LoopAfter, Zenon
<1>7. CASE OnRead(t)
  <2>1. /\ ready # <<>> /\ ready' = Tail(ready) /\ pending' = pending
        /\ Head(ready).op = "read"
        /\ \/ thread' = thread
           \/ thread' = [thread EXCEPT ![t] = Operation("handle", Head(ready).client, taken[Head(ready).client] + 1)]
    BY <1>7, Zenon DEF OnRead, Close, Takes
  <2>2. PICK g : g = Operation("handle", Head(ready).client, taken[Head(ready).client] + 1)
    BY Zenon
  <2>3. MayRun(g)
    BY <2>1, <2>2, HeadType, MayHandlers, Zenon
  <2>4. \A u \in Threads : MayRun(thread'[u])
    BY <1>1, <2>1, <2>2, <2>3, Zenon
  <2> QED BY <1>1, <1>4, <2>1, <2>4, LoopAfter, Zenon
<1>8. CASE OnWrite(t)
  <2>1. /\ ready # <<>> /\ ready' = Tail(ready) /\ thread' = thread
        /\ Head(ready).op = "write"
        /\ pending' = pending \/ pending' = pending \cup {DoRead(Head(ready).client)}
    BY <1>8, Zenon DEF OnWrite, Takes
  <2>2. DoRead(Head(ready).client).client # None
    BY <1>3, <2>1, HeadType, Zenon
  <2>3. \A o \in pending' : o.client = None => o = DoAccept
    BY <1>1, <2>1, <2>2, Zenon
  <2> QED BY <1>1, <1>4, <2>1, <2>3, LoopAfter, Zenon
<1>9. CASE OnClose(t)
  <2>1. /\ ready # <<>> /\ thread' = thread /\ pending' \subseteq pending
        /\ ready' = Append(Tail(ready), Failed(DoAccept)) \/ ready' = Tail(ready)
    BY <1>9, Zenon DEF OnClose
  <2>2. \A i \in 1 .. Len(ready') : MayBeDue(ready'[i])
    BY <1>1, <2>1, BegunNone, MayNone, DueStays, Zenon
  <2> QED BY <1>1, <2>1, <2>2, LoopAfter, Zenon
<1>10. CASE Exit(t)
  <2>1. /\ pending' = pending /\ ready' = ready
        /\ thread' = [thread EXCEPT ![t] = At("exited")]
    BY <1>10, Zenon DEF Exit
  <2> QED BY <1>1, <1>2, <2>1, LoopAfter, Zenon
<1>11. CASE Handled(t)
  <2>1. /\ thread[t].op = "handle" /\ ready' = ready
        /\ pending' = pending \cup {DoWrite(thread[t].client, thread[t].line)}
        /\ thread' = [thread EXCEPT ![t] = At("idle")]
    BY <1>11, Zenon DEF Handled
  <2>2. DoWrite(thread[t].client, thread[t].line).client # None
    BY <1>3, <2>1, ThreadType, Zenon
  <2> QED BY <1>1, <1>2, <2>1, <2>2, LoopAfter, Zenon
<1> QED BY <1>5, <1>6, <1>7, <1>8, <1>9, <1>10, <1>11, Zenon DEF Runs

\* Every step keeps LoopInv: only handlers that some operation can have are queued or run.
LEMMA LoopStep ==
  ASSUME IInv, Next
  PROVE  LoopInv'
<1>1. /\ LoopInv /\ ready \in Seq(Operations) /\ thread \in [Threads -> Operations]
      /\ \A o \in pending : o.client = None => o = DoAccept
      /\ \A i \in 1 .. Len(ready) : MayBeDue(ready[i])
      /\ \A u \in Threads : MayRun(thread[u])
  BY Zenon DEF IInv, TypeOK, LoopInv
<1>2. \A p \in Places : MayRun(At(p))
  BY MayNone, Zenon
<1>3. CASE Start \/ StartFails
  <2>1. /\ pending' \subseteq pending \cup {DoAccept} /\ ready' = ready
        /\ \/ thread' = thread
           \/ \E ts \in SUBSET Threads :
                thread' = [t \in Threads |-> At(IF t \in ts THEN "idle" ELSE "none")]
    <3>1. CASE Start
      <4>1. thread' = [t \in Threads |-> At(IF t \in Threads THEN "idle" ELSE "none")]
        BY <3>1, Zenon DEF Start
      <4> QED BY <3>1, <4>1, Zenon DEF Start
    <3>2. CASE StartFails
      BY <3>2, Zenon DEF StartFails
    <3> QED BY <1>3, <3>1, <3>2, Zenon
  <2>2. \A t \in Threads : MayRun(thread'[t])
    BY <1>1, <1>2, <2>1, Zenon DEF Places
  <2> QED BY <1>1, <2>1, <2>2, LoopAfter, Zenon
<1>4. CASE UNCHANGED loopVars
  BY <1>1, <1>4, LoopAfter, Zenon DEF loopVars
<1>5. CASE PostClose
  <2>1. /\ ready' = Append(ready, Operation("close", None, 0)) /\ pending' = pending
        /\ thread' = thread
    BY <1>5, Zenon DEF PostClose
  <2>2. \A i \in 1 .. Len(ready') : MayBeDue(ready'[i])
    BY <1>1, <2>1, BegunNone, MayNone, DueStays, Zenon
  <2> QED BY <1>1, <2>1, <2>2, LoopAfter, Zenon
<1>6. CASE Destroy
  <2>1. pending' = {} /\ Len(ready') = 0 /\ thread' = thread
    BY <1>6, Zenon DEF Destroy
  <2> QED BY <1>1, <2>1, LoopAfter
<1>7. CASE AcceptFails
  BY <1>7, BegunNone, MayNone, LoopComplete, Zenon DEF AcceptFails
<1>8. CASE Stop \/ ReleaseGuard \/ StopContext \/ Join
  BY <1>4, <1>8, Zenon DEF Stop, ReleaseGuard, StopContext, Join
<1>9. CASE \E c \in Clients : Client(c)
  BY <1>4, <1>9, Zenon DEF Client, Connect, Send, Finish, Lose
<1> QED BY <1>3, <1>5, <1>6, <1>7, <1>8, <1>9, LoopCompletes, LoopRuns, Zenon DEF Next, OwnerStops

-----------------------------------------------------------------------------
(* A session after a step that moves it from place to place, or does not.  *)

\* The step leaves the holders of S as they are, but for their places in the
\* queue.
Undisturbed(S) ==
  /\ pending' \cap S = pending \cap S
  /\ On(S)' = On(S) /\ \A t \in On(S) : thread'[t] = thread[t]
  /\ Due(S)' = {} <=> Due(S) = {}
  /\ \A i \in Due(S)' : \E j \in Due(S) : ready'[i] = ready[j]
  /\ (\A i, j \in Due(S) : i = j) => (\A i, j \in Due(S)' : i = j)

\* After the step S is held at one place, or nowhere.
Nowhere(S) == pending' \cap S = {} /\ Due(S)' = {} /\ On(S)' = {}
PendingOnly(S, o) == pending' \cap S = {o} /\ Due(S)' = {} /\ On(S)' = {}
DueOnly(S, h) == pending' \cap S = {} /\ On(S)' = {} /\ \E i : Due(S)' = {i} /\ ready'[i] = h
OnOnly(S, t, h) == pending' \cap S = {} /\ Due(S)' = {} /\ On(S)' = {t} /\ thread'[t] = h

\* A step that does not disturb a set of operations leaves it held, once, as it was.
LEMMA UndisturbedHeld ==
  ASSUME NEW S, Undisturbed(S)
  PROVE  (Held(S)' <=> Held(S)) /\ (AtMostOnce(S) => AtMostOnce(S)')
BY Zenon DEF Undisturbed, Held, AtMostOnce

\* Whatever single place a step leaves an operation of the set in, it is held at most once.
LEMMA OnceHeld ==
  ASSUME NEW S
  PROVE  /\ Nowhere(S) => AtMostOnce(S)' /\ ~Held(S)'
         /\ \A o : PendingOnly(S, o) => AtMostOnce(S)' /\ Held(S)'
         /\ \A h : DueOnly(S, h) => AtMostOnce(S)' /\ Held(S)'
         /\ \A t, h : OnOnly(S, t, h) => AtMostOnce(S)' /\ Held(S)'
<1>1. Nowhere(S) => AtMostOnce(S)' /\ ~Held(S)'
  BY Zenon DEF Nowhere, AtMostOnce, Held
<1>2. \A o : PendingOnly(S, o) => AtMostOnce(S)' /\ Held(S)'
  BY Zenon DEF PendingOnly, AtMostOnce, Held
<1>3. \A h : DueOnly(S, h) => AtMostOnce(S)' /\ Held(S)'
  BY Zenon DEF DueOnly, AtMostOnce, Held
<1>4. \A t, h : OnOnly(S, t, h) => AtMostOnce(S)' /\ Held(S)'
  BY Zenon DEF OnOnly, AtMostOnce, Held
<1> QED BY <1>1, <1>2, <1>3, <1>4, Zenon

\* A step that leaves the io_context alone moves nothing.
LEMMA SameLoop ==
  ASSUME NEW S, UNCHANGED loopVars
  PROVE  Undisturbed(S)
<1>1. pending' = pending /\ ready' = ready /\ thread' = thread
  BY Zenon DEF loopVars
<1>2. Due(S)' = Due(S) /\ On(S)' = On(S)
  BY <1>1, Zenon DEF Due, On
<1> QED BY <1>1, <1>2, Zenon DEF Undisturbed

\* The step does not touch the client.
Same(c) ==
  /\ client'[c] = client[c] /\ sent'[c] = sent[c] /\ arrived'[c] = arrived[c]
  /\ taken'[c] = taken[c] /\ received'[c] = received[c]

\* A session whose operation is not disturbed keeps its invariant when nothing it
\* depends on gets worse.
LEMMA SessionLater ==
  ASSUME NEW c, SessionInv(c), Undisturbed(Session(c)),
         \A o : PendingOf(c, o) => PendingOf(c, o)',
         \A h : DueOf(c, h) => DueOf(c, h)',
         \A h : RunningOf(c, h) => RunningOf(c, h)',
         Held(Session(c)) => client'[c] \in Open,
         Served(c)' => Served(c)
  PROVE  SessionInv(c)'
<1> DEFINE S == Session(c)
<1>1. (Held(S)' <=> Held(S)) /\ AtMostOnce(S)'
  BY UndisturbedHeld, Zenon DEF SessionInv
<1>2. \A o \in pending' \cap S : PendingOf(c, o)'
  BY Zenon DEF Undisturbed, SessionInv
<1>3. ASSUME NEW i \in Due(S)' PROVE DueOf(c, ready[i])'
  <2>1. PICK j \in Due(S) : ready'[i] = ready[j]
    BY <1>3, Zenon DEF Undisturbed
  <2>2. PICK h : h = ready[j]
    BY Zenon
  <2>3. DueOf(c, h)
    BY <2>2, Zenon DEF SessionInv
  <2>4. DueOf(c, h)'
    BY <2>3, Zenon
  <2> QED BY <2>1, <2>2, <2>4, Zenon DEF DueOf
<1>4. ASSUME NEW t \in On(S)' PROVE RunningOf(c, thread[t])'
  <2>1. t \in On(S) /\ thread'[t] = thread[t]
    BY <1>4, Zenon DEF Undisturbed
  <2>2. PICK h : h = thread[t]
    BY Zenon
  <2>3. RunningOf(c, h)
    BY <2>1, <2>2, Zenon DEF SessionInv
  <2>4. RunningOf(c, h)'
    BY <2>3, Zenon
  <2> QED BY <2>1, <2>2, <2>4, Zenon DEF RunningOf
<1>5. Served(c)' => Held(S)'
  BY <1>1, Zenon DEF SessionInv
<1>6. Held(S)' => client'[c] \in Open
  BY <1>1, Zenon
<1> QED BY <1>1, <1>2, <1>3, <1>4, <1>5, <1>6, Zenon DEF SessionInv, Open

\* A session that a step does not touch keeps its invariant.
LEMMA SessionFrame ==
  ASSUME NEW c, SessionInv(c), Undisturbed(Session(c)), Same(c)
  PROVE  SessionInv(c)'
<1>1. \A o : PendingOf(c, o) => PendingOf(c, o)'
  BY Zenon DEF Same, PendingOf, Settled, Working
<1>2. \A h : DueOf(c, h) => DueOf(c, h)'
  BY Zenon DEF Same, DueOf, Settled, Ended, Fresh
<1>3. \A h : RunningOf(c, h) => RunningOf(c, h)'
  BY Zenon DEF Same, RunningOf, Working, Fresh
<1>4. Held(Session(c)) => client'[c] \in Open
  BY Zenon DEF SessionInv, Same, Open
<1>5. Served(c)' => Served(c)
  BY Zenon DEF Served, Same
<1> QED BY <1>1, <1>2, <1>3, <1>4, <1>5, SessionLater, Zenon

\* A session whose only operation was just begun (do_read, do_write).
LEMMA SessionPending ==
  ASSUME NEW c, NEW o, PendingOnly(Session(c), o), PendingOf(c, o)', client'[c] \in Open
  PROVE  SessionInv(c)'
<1>1. AtMostOnce(Session(c))' /\ Held(Session(c))'
  BY OnceHeld, Zenon
<1> QED BY <1>1, Zenon DEF PendingOnly, SessionInv, Open

\* A session whose only operation has just completed.
LEMMA SessionDue ==
  ASSUME NEW c, NEW h, DueOnly(Session(c), h), DueOf(c, h)', client'[c] \in Open
  PROVE  SessionInv(c)'
<1>1. AtMostOnce(Session(c))' /\ Held(Session(c))'
  BY OnceHeld, Zenon
<1>2. \A i \in Due(Session(c))' : DueOf(c, ready[i])'
  BY Zenon DEF DueOnly, DueOf
<1> QED BY <1>1, <1>2, Zenon DEF DueOnly, SessionInv, Open

\* A session whose handler a thread has just begun (on_read).
LEMMA SessionOn ==
  ASSUME NEW c, NEW t, NEW h, OnOnly(Session(c), t, h), RunningOf(c, h)', client'[c] \in Open
  PROVE  SessionInv(c)'
<1>1. AtMostOnce(Session(c))' /\ Held(Session(c))'
  BY OnceHeld, Zenon
<1>2. \A u \in On(Session(c))' : RunningOf(c, thread[u])'
  BY Zenon DEF OnOnly, RunningOf
<1> QED BY <1>1, <1>2, Zenon DEF OnOnly, SessionInv, Open

\* A session that has just ended.
LEMMA SessionOver ==
  ASSUME NEW c, Nowhere(Session(c)), ~Served(c)'
  PROVE  SessionInv(c)'
<1>1. AtMostOnce(Session(c))' /\ ~Held(Session(c))'
  BY OnceHeld, Zenon
<1> QED BY <1>1, Zenon DEF Nowhere, SessionInv

\* The lines of a client that the step leaves alone, or only hangs up on.
LEMMA LinesFrame ==
  ASSUME NEW c, LinesInv(c),
         sent'[c] = sent[c], arrived'[c] = arrived[c], taken'[c] = taken[c],
         received'[c] = received[c],
         client'[c] \in {"new", "backlog"} => client[c] \in {"new", "backlog"},
         client'[c] = "refused" => client[c] = "refused"
  PROVE  LinesInv(c)'
BY Zenon DEF LinesInv, Fresh
=============================================================================
