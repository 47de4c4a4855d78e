---------------------------- MODULE TcpJsonServer ---------------------------
(***************************************************************************)
(* Server::TcpJsonServer and its Sessions: network threads run completion  *)
(* handlers of one io_context, in the order in which they became ready.  A *)
(* session is not a variable: it lives as long as an operation or a        *)
(* handler refers to it.  Lines are their lengths, newline included; the   *)
(* answer to the i-th line of a client is i.                               *)
(***************************************************************************)
EXTENDS Integers, Sequences

CONSTANTS None,
          Threads,         \* workers_
          Clients,         \* each connects once
          Sizes,           \* lengths of lines that occur
          MaxMessageSize,  \* config_.max_message_size()
          MaxLines,        \* bound on the lines of a client
          MaxLosses        \* bound on lost connections and failed accepts

ASSUME SizesAssumption == Sizes \subseteq Nat /\ MaxMessageSize \in Nat /\ MaxLines \in Nat
ASSUME ClientsAssumption == None \notin Clients /\ MaxLosses \in Nat

VARIABLES running,   \* running_
          acceptor,  \* acceptor_: closed, open, listening
          guard,     \* work_guard_ holds the io_context
          stopped,   \* io_context_ has been stopped
          owner,     \* where the thread that owns the server is
          pending,   \* asynchronous operations in progress
          ready,     \* their completion handlers that are due, oldest first
          thread,    \* what a network thread is doing
          client,    \* the connection of a client
          sent,      \* the lines a client has sent
          arrived,   \* how many of them have come into buffer_
          taken,     \* how many of them have been taken out of it
          received,  \* the answers written to the client
          losses     \* lost connections and failed accepts so far

ownerVars == <<running, acceptor, guard, stopped, owner>>
loopVars == <<pending, ready, thread>>
clientVars == <<client, sent, arrived, taken, received, losses>>
vars == <<ownerVars, loopVars, clientVars>>

Operation(op, c, line) == [op |-> op, client |-> c, line |-> line, error |-> FALSE]
Failed(o) == [o EXCEPT !.error = TRUE]
Places == {"none", "idle", "exited"}
At(place) == Operation(place, None, 0)
Kinds == {"accept", "read", "write", "handle", "close"} \cup Places
OperationsOf(kinds, clients) == [op : kinds, client : clients, line : 0 .. MaxLines, error : BOOLEAN]
Operations == OperationsOf(Kinds, Clients \cup {None})

TypeOK ==
  /\ running \in BOOLEAN /\ guard \in BOOLEAN /\ stopped \in BOOLEAN
  /\ acceptor \in {"closed", "open", "listening"}
  /\ owner \in {"created", "running", "failed", "stopping", "posted", "released",
                "joining", "stopped", "destroyed"}
  /\ pending \subseteq Operations /\ \A o \in pending : (o.op = "accept" <=> o.client = None)
  /\ ready \in Seq(Operations)
  /\ thread \in [Threads -> Operations]
  /\ client \in [Clients -> {"new", "backlog", "connected", "finished", "gone", "refused"}]
  /\ sent \in [Clients -> Seq(Sizes)]
  /\ arrived \in [Clients -> 0 .. MaxLines] /\ taken \in [Clients -> 0 .. MaxLines]
  /\ received \in [Clients -> Seq(1 .. MaxLines)]
  /\ losses \in 0 .. MaxLosses

\* The constructor.
Init ==
  /\ running = FALSE /\ acceptor = "closed" /\ guard = TRUE /\ stopped = FALSE
  /\ owner = "created"
  /\ pending = {} /\ ready = <<>> /\ thread = [t \in Threads |-> At("none")]
  /\ client = [c \in Clients |-> "new"] /\ sent = [c \in Clients |-> <<>>]
  /\ arrived = [c \in Clients |-> 0] /\ taken = [c \in Clients |-> 0]
  /\ received = [c \in Clients |-> <<>>] /\ losses = 0

\* acceptor_.async_accept, async_read_until and async_write are begun.
DoAccept == Operation("accept", None, 0)
DoRead(c) == Operation("read", c, 0)
DoWrite(c, line) == Operation("write", c, line)

\* The connections of these clients end because the server's side of them, a
\* socket or the backlog of the acceptor, is destroyed.
HungUp(cs) ==
  [c \in Clients |-> IF c \in cs /\ client[c] \in {"backlog", "connected", "finished"}
                     THEN "gone" ELSE client[c]]

-----------------------------------------------------------------------------
(* The owner.                                                              *)

\* start(); a thread that is not created yet is one that has not run yet.
Start ==
  /\ owner = "created"
  /\ owner' = "running" /\ running' = TRUE
  /\ acceptor' = "listening"
  /\ pending' = {DoAccept}
  /\ thread' = [t \in Threads |-> At("idle")]
  /\ UNCHANGED <<guard, stopped, ready, clientVars>>

\* start() throws: the address, open, bind or listen, or a thread cannot be
\* created when some already run.  running_ stays set.
StartFails ==
  /\ owner = "created"
  /\ owner' = "failed" /\ running' = TRUE
  /\ \/ acceptor' \in {"closed", "open"} /\ UNCHANGED <<pending, thread>>
     \/ /\ acceptor' = "listening" /\ pending' = {DoAccept}
        /\ \E ts \in SUBSET Threads :
             ts # Threads /\ thread' = [t \in Threads |-> At(IF t \in ts THEN "idle" ELSE "none")]
  /\ UNCHANGED <<guard, stopped, ready, clientVars>>

\* stop(), also from the destructor after a failed start(); called again it
\* returns at once.
Stop ==
  /\ owner \in {"running", "failed"}
  /\ owner' = "stopping" /\ running' = FALSE
  /\ UNCHANGED <<acceptor, guard, stopped, loopVars, clientVars>>

PostClose ==
  /\ owner = "stopping" /\ owner' = "posted"
  /\ ready' = Append(ready, Operation("close", None, 0))
  /\ UNCHANGED <<running, acceptor, guard, stopped, pending, thread, clientVars>>

ReleaseGuard ==
  /\ owner = "posted" /\ owner' = "released"
  /\ guard' = FALSE
  /\ UNCHANGED <<running, acceptor, stopped, loopVars, clientVars>>

StopContext ==
  /\ owner = "released" /\ owner' = "joining"
  /\ stopped' = TRUE
  /\ UNCHANGED <<running, acceptor, guard, loopVars, clientVars>>

Join ==
  /\ owner = "joining" /\ owner' = "stopped"
  /\ \A t \in Threads : thread[t].op \in {"none", "exited"}
  /\ UNCHANGED <<running, acceptor, guard, stopped, loopVars, clientVars>>

\* The members are destroyed: the acceptor, and with the io_context the
\* handlers that never ran and the sessions they hold.
Destroy ==
  /\ owner = "stopped" /\ owner' = "destroyed"
  /\ acceptor' = "closed" /\ pending' = {} /\ ready' = <<>>
  /\ client' = HungUp(Clients)
  /\ UNCHANGED <<running, guard, stopped, thread, sent, arrived, taken, received, losses>>

-----------------------------------------------------------------------------
(* The clients.                                                            *)

Connect(c) ==
  /\ client[c] = "new" /\ acceptor = "listening"
  /\ client' = [client EXCEPT ![c] = "backlog"]
  /\ UNCHANGED <<ownerVars, loopVars, sent, arrived, taken, received, losses>>

\* A client may send before it is accepted, and before it has an answer.
Send(c, size) ==
  /\ client[c] \in {"backlog", "connected"} /\ Len(sent[c]) < MaxLines
  /\ sent' = [sent EXCEPT ![c] = Append(@, size)]
  /\ UNCHANGED <<ownerVars, loopVars, client, arrived, taken, received, losses>>

\* The client has sent its last line, and goes on reading.
Finish(c) ==
  /\ client[c] = "connected"
  /\ client' = [client EXCEPT ![c] = "finished"]
  /\ UNCHANGED <<ownerVars, loopVars, sent, arrived, taken, received, losses>>

Lose(c) ==
  /\ client[c] \in {"connected", "finished"} /\ losses < MaxLosses
  /\ client' = [client EXCEPT ![c] = "gone"]
  /\ losses' = losses + 1
  /\ UNCHANGED <<ownerVars, loopVars, sent, arrived, taken, received>>

-----------------------------------------------------------------------------
(* The io_context: an operation completes and its handler is due.          *)

Complete(o, handler) ==
  /\ o \in pending
  /\ pending' = pending \ {o}
  /\ ready' = Append(ready, handler)
  /\ UNCHANGED <<ownerVars, thread, sent, taken>>

AcceptCompletes(c) ==
  /\ client[c] = "backlog"
  /\ Complete(DoAccept, Operation("accept", c, 0))
  /\ client' = [client EXCEPT ![c] = "connected"]
  /\ UNCHANGED <<arrived, received, losses>>

AcceptFails ==
  /\ losses < MaxLosses /\ losses' = losses + 1
  /\ Complete(DoAccept, Failed(DoAccept))
  /\ UNCHANGED <<client, arrived, received>>

\* async_read_until: at once when buffer_ holds a line, else when one has come;
\* several may come together.
ReadCompletes(c) ==
  /\ \E n \in arrived[c] .. Len(sent[c]) :
       /\ IF arrived[c] > taken[c] THEN n = arrived[c] ELSE n > arrived[c]
       /\ arrived' = [arrived EXCEPT ![c] = n]
  /\ Complete(DoRead(c), DoRead(c))
  /\ UNCHANGED <<client, received, losses>>

\* The end of the stream, or an error, with no line left.
ReadFails(c) ==
  /\ arrived[c] = taken[c]
  /\ client[c] = "gone" \/ (client[c] = "finished" /\ arrived[c] = Len(sent[c]))
  /\ Complete(DoRead(c), Failed(DoRead(c)))
  /\ UNCHANGED <<client, arrived, received, losses>>

WriteCompletes(c) ==
  /\ \E line \in 1 .. MaxLines :
       \/ /\ client[c] # "gone"
          /\ Complete(DoWrite(c, line), DoWrite(c, line))
          /\ received' = [received EXCEPT ![c] = Append(@, line)]
       \/ /\ client[c] = "gone"
          /\ \E h \in {DoWrite(c, line), Failed(DoWrite(c, line))} : Complete(DoWrite(c, line), h)
          /\ UNCHANGED received
  /\ UNCHANGED <<client, arrived, losses>>

-----------------------------------------------------------------------------
(* The network threads: io_context_.run().                                 *)

\* An idle thread takes the next handler, a handler of this kind.
Takes(t, op) ==
  /\ thread[t].op = "idle" /\ ~stopped
  /\ ready # <<>> /\ Head(ready).op = op
  /\ ready' = Tail(ready)

\* The accept handler looks at running_ first; if it is clear the socket goes.
TakeAccept(t) ==
  /\ Takes(t, "accept")
  /\ IF running
     THEN thread' = [thread EXCEPT ![t] = Head(ready)] /\ UNCHANGED client
     ELSE client' = HungUp({Head(ready).client}) /\ UNCHANGED thread
  /\ UNCHANGED <<ownerVars, pending, sent, arrived, taken, received, losses>>

\* Mutant: an error ends the accept loop.
OnAccept_GivesUp(t) ==
  /\ thread[t].op = "accept"
  /\ pending' = IF thread[t].error THEN pending
                ELSE pending \cup {DoAccept, DoRead(thread[t].client)}
  /\ thread' = [thread EXCEPT ![t] = At("idle")]
  /\ UNCHANGED <<ownerVars, ready, clientVars>>

\* Mutant: a session is started after an error as well.
OnAccept_AnySession(t) ==
  /\ thread[t].op = "accept"
  /\ pending' = pending \cup {DoAccept, DoRead(thread[t].client)}
  /\ thread' = [thread EXCEPT ![t] = At("idle")]
  /\ UNCHANGED <<ownerVars, ready, clientVars>>

\* Then it starts the session and accepts again; on a closed acceptor that
\* fails at once.
OnAccept(t) ==
  /\ thread[t].op = "accept"
  /\ LET session == IF thread[t].error THEN {} ELSE {DoRead(thread[t].client)}
     IN  IF acceptor = "closed"
         THEN pending' = pending \cup session /\ ready' = Append(ready, Failed(DoAccept))
         ELSE pending' = pending \cup session \cup {DoAccept} /\ UNCHANGED ready
  /\ thread' = [thread EXCEPT ![t] = At("idle")]
  /\ UNCHANGED <<ownerVars, clientVars>>

\* Mutant: the limit is compared with all that is in the buffer.
TooLarge_WholeBuffer(c) ==
  LET size[n \in 0 .. MaxLines] == IF n <= taken[c] THEN 0 ELSE sent[c][n] + size[n - 1]
  IN  size[arrived[c]] > MaxMessageSize

\* bytes_transferred > max_message_size_, for the first line in the buffer.
TooLarge(c) == sent[c][taken[c] + 1] > MaxMessageSize

\* The session ends and its client sees the end of the stream.
Close(c) == client' = [client EXCEPT ![c] = IF @ = "gone" THEN @ ELSE "refused"]

\* Mutant: the whole buffer is taken, and its last line is handled.
OnRead_WholeBuffer(t) ==
  LET h == Head(ready)
      c == h.client
  IN  /\ Takes(t, "read")
      /\ \/ h.error /\ UNCHANGED <<client, taken, thread>>
         \/ /\ ~h.error /\ TooLarge(c)
            /\ Close(c)
            /\ UNCHANGED <<taken, thread>>
         \/ /\ ~h.error /\ ~TooLarge(c)
            /\ taken' = [taken EXCEPT ![c] = arrived[c]]
            /\ thread' = [thread EXCEPT ![t] = Operation("handle", c, arrived[c])]
            /\ UNCHANGED client
      /\ UNCHANGED <<ownerVars, pending, sent, arrived, received, losses>>

\* on_read up to request_handler_->handle().  After an error the session ends.
OnRead(t) ==
  LET h == Head(ready)
      c == h.client
  IN  /\ Takes(t, "read")
      /\ \/ h.error /\ UNCHANGED <<client, taken, thread>>
         \/ /\ ~h.error /\ TooLarge(c)
            /\ Close(c)
            /\ UNCHANGED <<taken, thread>>
         \/ /\ ~h.error /\ ~TooLarge(c)
            /\ taken' = [taken EXCEPT ![c] = @ + 1]
            /\ thread' = [thread EXCEPT ![t] = Operation("handle", c, taken[c] + 1)]
            /\ UNCHANGED client
      /\ UNCHANGED <<ownerVars, pending, sent, arrived, received, losses>>

\* Mutant: no answer is written once the server stops.
Handled_Stopping(t) ==
  /\ thread[t].op = "handle"
  /\ pending' = IF running THEN pending \cup {DoWrite(thread[t].client, thread[t].line)} ELSE pending
  /\ thread' = [thread EXCEPT ![t] = At("idle")]
  /\ UNCHANGED <<ownerVars, ready, clientVars>>

\* handle() returns and its answer is written.
Handled(t) ==
  /\ thread[t].op = "handle"
  /\ pending' = pending \cup {DoWrite(thread[t].client, thread[t].line)}
  /\ thread' = [thread EXCEPT ![t] = At("idle")]
  /\ UNCHANGED <<ownerVars, ready, clientVars>>

\* Mutant: the session does not read again.
OnWrite_Once(t) ==
  /\ Takes(t, "write")
  /\ UNCHANGED <<ownerVars, pending, thread, clientVars>>

\* The handler of async_write: the next read, or the end of the session.
OnWrite(t) ==
  /\ Takes(t, "write")
  /\ pending' = IF Head(ready).error THEN pending ELSE pending \cup {DoRead(Head(ready).client)}
  /\ UNCHANGED <<ownerVars, thread, clientVars>>

\* The handler stop() posts: an accept in progress is aborted.
OnClose(t) ==
  /\ thread[t].op = "idle" /\ ~stopped
  /\ ready # <<>> /\ Head(ready).op = "close"
  /\ acceptor' = "closed"
  /\ pending' = pending \ {DoAccept}
  /\ ready' = IF DoAccept \in pending THEN Append(Tail(ready), Failed(DoAccept)) ELSE Tail(ready)
  /\ client' = HungUp({c \in Clients : client[c] = "backlog"})
  /\ UNCHANGED <<running, guard, stopped, owner, thread, sent, arrived, taken, received, losses>>

\* run() returns: the context is stopped, or nothing is left to do.
Exit(t) ==
  /\ thread[t].op = "idle"
  /\ \/ stopped
     \/ ~guard /\ pending = {} /\ ready = <<>> /\ \A u \in Threads : thread[u].op \in Places
  /\ thread' = [thread EXCEPT ![t] = At("exited")]
  /\ UNCHANGED <<ownerVars, pending, ready, clientVars>>

-----------------------------------------------------------------------------
OwnerStops == PostClose \/ ReleaseGuard \/ StopContext \/ Join \/ Destroy
Client(c) == Connect(c) \/ (\E size \in Sizes : Send(c, size)) \/ Finish(c) \/ Lose(c)
Completes(c) == AcceptCompletes(c) \/ ReadCompletes(c) \/ ReadFails(c) \/ WriteCompletes(c)
Runs(t) == TakeAccept(t) \/ OnAccept(t) \/ OnRead(t) \/ OnWrite(t) \/ OnClose(t) \/ Exit(t)

Next ==
  \/ Start \/ StartFails \/ Stop \/ OwnerStops
  \/ \E c \in Clients : Client(c) \/ Completes(c)
  \/ AcceptFails
  \/ \E t \in Threads : Runs(t) \/ Handled(t)

Spec == Init /\ [][Next]_vars

-----------------------------------------------------------------------------
\* The answers a client gets are those to its lines, in their order, each
\* once, however the handlers of its session move between threads ("one JSON
\* request, one JSON response"), and none is to a line above the limit.
AnswersInOrder ==
  \A c \in Clients : \A i \in 1 .. Len(received[c]) :
    received[c][i] = i /\ sent[c][i] <= MaxMessageSize

\* The server closes a connection only over a line above the limit, all lines
\* before it having been answered (on_read).
RefusedOnlyTooLarge ==
  \A c \in Clients : client[c] = "refused" =>
    /\ taken[c] = Len(received[c])
    /\ sent[c][taken[c] + 1] > MaxMessageSize

\* The operations and handlers of a session, and those of the accept loop.
Session(c) == OperationsOf(Kinds, {c})
AcceptLoop == OperationsOf({"accept"}, Clients \cup {None})

\* The handlers of a set that are due, and the threads that run one.
Due(S) == {i \in 1 .. Len(ready) : ready[i] \in S}
On(S) == {t \in Threads : thread[t] \in S}

Held(S) == pending \cap S # {} \/ Due(S) # {} \/ On(S) # {}

AtMostOnce(S) ==
  /\ \A o, p \in pending \cap S : o = p
  /\ \A i, j \in Due(S) : i = j
  /\ \A t, u \in On(S) : t = u
  /\ pending \cap S = {} \/ Due(S) = {}
  /\ pending \cap S = {} \/ On(S) = {}
  /\ Due(S) = {} \/ On(S) = {}

\* The client may still send, or waits for an answer.
Served(c) == client[c] = "connected" \/ (client[c] = "finished" /\ Len(received[c]) < Len(sent[c]))

\* A session is never in two handlers, or in a handler and an operation, at
\* once: its socket and its buffer have no lock.  And while its client is to be
\* served it is in one: no path through its handlers leaves it with nothing to
\* wake it.
OneOperationPerSession ==
  \A c \in Clients : AtMostOnce(Session(c)) /\ (Served(c) => Held(Session(c)))

\* While the server runs it is accepting, or about to, exactly once, whatever
\* errors accept has met.
AcceptLoopLives == owner = "running" => AtMostOnce(AcceptLoop) /\ Held(AcceptLoop)

\* A request that was handed to the handler is answered, also when stop() comes
\* meanwhile and while its threads are joined: its answer is being made, being
\* written, or written (on_read, do_write).  That lasts until the connection is
\* lost or the server destroyed, which drops the writes still in progress.
HandledIsAnswered ==
  \A c \in Clients :
    client[c] # "gone" /\ taken[c] > Len(received[c]) =>
      \/ DoWrite(c, taken[c]) \in pending
      \/ \E t \in Threads : thread[t] = Operation("handle", c, taken[c])
=============================================================================
