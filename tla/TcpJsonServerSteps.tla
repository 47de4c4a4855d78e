------------------------- MODULE TcpJsonServerSteps -------------------------
(***************************************************************************)
(* How the steps of the io_context move operations and handlers between    *)
(* the operations in progress, the queue and the threads, for any set S of *)
(* them; what follows for the accept loop and for the owner; and what the  *)
(* steps of the clients and of the operating system do to a session.       *)
(***************************************************************************)
EXTENDS TcpJsonServerInvariant

-----------------------------------------------------------------------------
(* How a step moves the operations and handlers of a set S.                *)

DueIn(q, S) == {i \in 1 .. Len(q) : q[i] \in S}

\* A thread takes the oldest handler.
LEMMA DueTail ==
  ASSUME NEW S, NEW q \in Seq(Operations), q # <<>>
  PROVE  /\ Head(q) \in S => 1 \in DueIn(q, S)
         /\ \A i \in DueIn(Tail(q), S) :
              i \in Int /\ i + 1 \in DueIn(q, S) /\ i + 1 # 1 /\ Tail(q)[i] = q[i + 1]
         /\ \A i \in DueIn(q, S) : i \in Int /\ (i = 1 => Head(q) \in S) /\ (i # 1 => i - 1 \in DueIn(Tail(q), S))
<1>1. /\ Len(q) \in Nat /\ Len(q) > 0 /\ Len(Tail(q)) = Len(q) - 1
      /\ \A i \in 1 .. Len(q) - 1 : Tail(q)[i] = q[i + 1]
      /\ Head(q) = q[1]
  OBVIOUS
<1>2. Head(q) \in S => 1 \in DueIn(q, S)
  BY <1>1 DEF DueIn
<1>3. ASSUME NEW i \in DueIn(Tail(q), S)
      PROVE  i \in Int /\ i + 1 \in DueIn(q, S) /\ i + 1 # 1 /\ Tail(q)[i] = q[i + 1]
  BY <1>1, <1>3 DEF DueIn
<1>4. ASSUME NEW i \in DueIn(q, S)
      PROVE  i \in Int /\ (i = 1 => Head(q) \in S) /\ (i # 1 => i - 1 \in DueIn(Tail(q), S))
  <2>1. i \in 1 .. Len(q) /\ q[i] \in S
    BY <1>4, Zenon DEF DueIn
  <2>2. CASE i # 1
    <3>1. i - 1 \in 1 .. Len(Tail(q)) /\ Tail(q)[i - 1] = q[i]
      BY <1>1, <2>1, <2>2
    <3> QED BY <2>1, <2>2, <3>1 DEF DueIn
  <2> QED BY <1>1, <2>1, <2>2
<1> QED BY <1>2, <1>3, <1>4, Zenon

\* Due is DueIn of the handlers that are queued, before and after a step.
LEMMA DueIsDueIn == ASSUME NEW S PROVE Due(S) = DueIn(ready, S) /\ Due(S)' = DueIn(ready', S)
BY Zenon DEF Due, DueIn

\* What the queue shows of S after a handler became due (asio appends it).
LEMMA AfterAppend ==
  ASSUME NEW S, ready \in Seq(Operations), NEW h \in Operations, ready' = Append(ready, h)
  PROVE  /\ h \notin S => Due(S)' = Due(S)
         /\ h \in S /\ Due(S) = {} => \E i : Due(S)' = {i} /\ ready'[i] = h
         /\ \A i \in Due(S) : ready'[i] = ready[i]
<1>1. /\ Len(ready) \in Nat /\ Len(ready') = Len(ready) + 1
      /\ \A i \in 1 .. Len(ready) : ready'[i] = ready[i]
      /\ ready'[Len(ready) + 1] = h
  OBVIOUS
<1>2. \A i : i \in 1 .. (Len(ready) + 1) <=> i \in 1 .. Len(ready) \/ i = Len(ready) + 1
  BY <1>1
<1>3. h \notin S => Due(S)' = Due(S)
  BY <1>1, <1>2, Zenon DEF Due
<1>4. h \in S /\ Due(S) = {} => Due(S)' = {Len(ready) + 1}
  BY <1>1, <1>2, Zenon DEF Due
<1>5. \A i \in Due(S) : ready'[i] = ready[i]
  BY <1>1, Zenon DEF Due
<1> QED BY <1>1, <1>3, <1>4, <1>5, Zenon

\* The same after the head was taken.
LEMMA AfterTail ==
  ASSUME NEW S, ready \in Seq(Operations), ready # <<>>, ready' = Tail(ready)
  PROVE  /\ Head(ready) \in S => Due(S) # {}
         /\ Head(ready) \notin S =>
              /\ Due(S)' = {} <=> Due(S) = {}
              /\ (\A i, j \in Due(S) : i = j) => (\A i, j \in Due(S)' : i = j)
         /\ Head(ready) \in S /\ (\A i, j \in Due(S) : i = j) => Due(S)' = {}
         /\ \A i \in Due(S)' : \E j \in Due(S) : ready'[i] = ready[j]
<1>1. /\ Head(ready) \in S => 1 \in Due(S)
      /\ \A i \in Due(S)' : i \in Int /\ i + 1 \in Due(S) /\ i + 1 # 1 /\ ready'[i] = ready[i + 1]
      /\ \A i \in Due(S) : i \in Int /\ (i = 1 => Head(ready) \in S) /\ (i # 1 => i - 1 \in Due(S)')
  <2>1. /\ Head(ready) \in S => 1 \in DueIn(ready, S)
        /\ \A i \in DueIn(ready', S) :
             i \in Int /\ i + 1 \in DueIn(ready, S) /\ i + 1 # 1 /\ ready'[i] = ready[i + 1]
        /\ \A i \in DueIn(ready, S) :
             i \in Int /\ (i = 1 => Head(ready) \in S) /\ (i # 1 => i - 1 \in DueIn(ready', S))
    BY DueTail, Zenon
  <2> QED BY <2>1, DueIsDueIn, Zenon
<1>2. ASSUME \A i, j \in Due(S) : i = j, NEW i \in Due(S)', NEW j \in Due(S)'
      PROVE  i = j
  <2>1. i + 1 = j + 1
    BY <1>1, <1>2, Zenon
  <2> QED BY <1>1, <2>1
<1>3. (Head(ready) \in S /\ \A i, j \in Due(S) : i = j) => Due(S)' = {}
  BY <1>1, Zenon
<1>4. Head(ready) \notin S => (Due(S)' = {} <=> Due(S) = {})
  BY <1>1, Zenon
<1> QED BY <1>1, <1>2, <1>3, <1>4, Zenon

\* Complete: an operation of S becomes a handler of S.
LEMMA MoveComplete ==
  ASSUME NEW S, ready \in Seq(Operations), NEW o, NEW h \in Operations, Complete(o, h)
  PROVE  /\ o \notin S /\ h \notin S => Undisturbed(S)
         /\ o \in S /\ h \in S /\ AtMostOnce(S) => DueOnly(S, h)
         /\ o \notin S /\ h \in S /\ ~Held(S) => DueOnly(S, h)
<1>1. o \in pending /\ pending' = pending \ {o} /\ ready' = Append(ready, h) /\ thread' = thread
  BY Zenon DEF Complete
<1>2. /\ h \notin S => Due(S)' = Due(S)
      /\ h \in S /\ Due(S) = {} => \E i : Due(S)' = {i} /\ ready'[i] = h
      /\ \A i \in Due(S) : ready'[i] = ready[i]
  BY <1>1, AfterAppend, Zenon
<1>3. On(S)' = On(S)
  BY <1>1, Zenon DEF On
<1>4. o \notin S /\ h \notin S => Undisturbed(S)
  <2> SUFFICES ASSUME o \notin S, h \notin S PROVE Undisturbed(S)
    BY Zenon
  <2>1. pending' \cap S = pending \cap S
    BY <1>1, Zenon
  <2> QED BY <1>1, <1>2, <1>3, <2>1, Zenon DEF Undisturbed
<1>5. o \in S /\ h \in S /\ AtMostOnce(S) => DueOnly(S, h)
  <2> SUFFICES ASSUME o \in S, h \in S, AtMostOnce(S) PROVE DueOnly(S, h)
    BY Zenon
  <2>1. pending' \cap S = {} /\ Due(S) = {} /\ On(S) = {}
    BY <1>1 DEF AtMostOnce
  <2> QED BY <1>2, <1>3, <2>1, Zenon DEF DueOnly
<1>6. o \notin S /\ h \in S /\ ~Held(S) => DueOnly(S, h)
  <2> SUFFICES ASSUME o \notin S, h \in S, ~Held(S) PROVE DueOnly(S, h)
    BY Zenon
  <2>1. pending' \cap S = {} /\ Due(S) = {} /\ On(S) = {}
    BY <1>1, Zenon DEF Held
  <2> QED BY <1>2, <1>3, <2>1, Zenon DEF DueOnly
<1> QED BY <1>4, <1>5, <1>6, Zenon

\* Takes: a thread that does nothing takes the head, and then does g.
LEMMA MoveTake ==
  ASSUME NEW S, ready \in Seq(Operations), thread \in [Threads -> Operations],
         NEW t \in Threads, thread[t] \notin S, NEW g,
         ready # <<>>, ready' = Tail(ready), pending' = pending,
         thread' = [thread EXCEPT ![t] = g]
  PROVE  /\ Head(ready) \notin S /\ g \notin S => Undisturbed(S)
         /\ Head(ready) \in S /\ g \in S /\ AtMostOnce(S) => OnOnly(S, t, g)
         /\ Head(ready) \in S /\ g \notin S /\ AtMostOnce(S) => Nowhere(S)
<1>1. thread'[t] = g /\ \A u \in Threads : u # t => thread'[u] = thread[u]
  BY Zenon
<1>2. /\ Head(ready) \in S => Due(S) # {}
      /\ Head(ready) \notin S =>
           /\ Due(S)' = {} <=> Due(S) = {}
           /\ (\A i, j \in Due(S) : i = j) => (\A i, j \in Due(S)' : i = j)
      /\ Head(ready) \in S /\ (\A i, j \in Due(S) : i = j) => Due(S)' = {}
      /\ \A i \in Due(S)' : \E j \in Due(S) : ready'[i] = ready[j]
  BY AfterTail, Zenon
<1>3. /\ t \notin On(S) /\ \A u \in On(S) : thread'[u] = thread[u]
      /\ On(S)' = IF g \in S THEN On(S) \cup {t} ELSE On(S)
  BY <1>1, Zenon DEF On
<1>4. Head(ready) \notin S /\ g \notin S => Undisturbed(S)
  BY <1>2, <1>3, Zenon DEF Undisturbed
<1>5. Head(ready) \in S /\ AtMostOnce(S) => pending' \cap S = {} /\ Due(S)' = {} /\ On(S) = {}
  BY <1>2, Zenon DEF AtMostOnce
<1> QED BY <1>1, <1>3, <1>4, <1>5, Zenon DEF OnOnly, Nowhere

\* OnWrite: the head is taken and an operation is begun for it.
LEMMA MoveNext ==
  ASSUME NEW S, ready \in Seq(Operations), NEW o,
         ready # <<>>, ready' = Tail(ready), pending' = pending \cup {o}, thread' = thread
  PROVE  /\ Head(ready) \notin S /\ o \notin S => Undisturbed(S)
         /\ Head(ready) \in S /\ o \in S /\ AtMostOnce(S) => PendingOnly(S, o)
<1>1. /\ Head(ready) \in S => Due(S) # {}
      /\ Head(ready) \notin S =>
           /\ Due(S)' = {} <=> Due(S) = {}
           /\ (\A i, j \in Due(S) : i = j) => (\A i, j \in Due(S)' : i = j)
      /\ Head(ready) \in S /\ (\A i, j \in Due(S) : i = j) => Due(S)' = {}
      /\ \A i \in Due(S)' : \E j \in Due(S) : ready'[i] = ready[j]
  BY AfterTail, Zenon
<1>2. On(S)' = On(S)
  BY Zenon DEF On
<1>3. o \notin S => pending' \cap S = pending \cap S
  BY Zenon
<1>4. Head(ready) \notin S /\ o \notin S => Undisturbed(S)
  BY <1>1, <1>2, <1>3, Zenon DEF Undisturbed
<1>5. Head(ready) \in S /\ o \in S /\ AtMostOnce(S) =>
        pending' \cap S = {o} /\ Due(S)' = {} /\ On(S) = {}
  BY <1>1, Zenon DEF AtMostOnce
<1> QED BY <1>2, <1>4, <1>5, Zenon DEF PendingOnly

\* OnAccept, Handled: a thread begins operations, and then does nothing.
LEMMA MoveBegin ==
  ASSUME NEW S, thread \in [Threads -> Operations],
         NEW t \in Threads, At("idle") \notin S, thread' = [thread EXCEPT ![t] = At("idle")],
         NEW A, pending' = pending \cup A, ready' = ready
  PROVE  /\ thread[t] \notin S /\ A \cap S = {} => Undisturbed(S)
         /\ \A o : thread[t] \in S /\ A \cap S = {o} /\ AtMostOnce(S) => PendingOnly(S, o)
         /\ thread[t] \in S /\ A \cap S = {} /\ AtMostOnce(S) => Nowhere(S)
<1>1. thread'[t] = At("idle") /\ \A u \in Threads : u # t => thread'[u] = thread[u]
  BY Zenon
<1>2. On(S)' = On(S) \ {t} /\ \A u \in On(S) : u # t => thread'[u] = thread[u]
  BY <1>1, Zenon DEF On
<1>3. thread[t] \in S <=> t \in On(S)
  BY Zenon DEF On
<1>4. Due(S)' = Due(S)
  BY Zenon DEF Due
<1>5. pending' \cap S = (pending \cap S) \cup (A \cap S)
  BY Zenon
<1>6. thread[t] \notin S /\ A \cap S = {} => Undisturbed(S)
  BY <1>2, <1>3, <1>4, <1>5 DEF Undisturbed
<1>7. thread[t] \in S /\ AtMostOnce(S) => pending \cap S = {} /\ Due(S)' = {} /\ On(S)' = {}
  BY <1>2, <1>3, <1>4, Zenon DEF AtMostOnce
<1> QED BY <1>5, <1>6, <1>7, Zenon DEF PendingOnly, Nowhere

\* OnAccept on a closed acceptor: a handler is due at once as well.
LEMMA MoveFail ==
  ASSUME NEW S, ready \in Seq(Operations), thread \in [Threads -> Operations],
         NEW t \in Threads, At("idle") \notin S, thread' = [thread EXCEPT ![t] = At("idle")],
         NEW A, pending' = pending \cup A, NEW h \in Operations, ready' = Append(ready, h)
  PROVE  /\ thread[t] \notin S /\ A \cap S = {} /\ h \notin S => Undisturbed(S)
         /\ \A o : thread[t] \in S /\ A \cap S = {o} /\ h \notin S /\ AtMostOnce(S) => PendingOnly(S, o)
         /\ thread[t] \in S /\ A \cap S = {} /\ h \in S /\ AtMostOnce(S) => DueOnly(S, h)
<1>1. thread'[t] = At("idle") /\ \A u \in Threads : u # t => thread'[u] = thread[u]
  BY Zenon
<1>2. On(S)' = On(S) \ {t} /\ \A u \in On(S) : u # t => thread'[u] = thread[u]
  BY <1>1, Zenon DEF On
<1>3. thread[t] \in S <=> t \in On(S)
  BY Zenon DEF On
<1>4. /\ h \notin S => Due(S)' = Due(S)
      /\ h \in S /\ Due(S) = {} => \E i : Due(S)' = {i} /\ ready'[i] = h
      /\ \A i \in Due(S) : ready'[i] = ready[i]
  BY AfterAppend, Zenon
<1>5. pending' \cap S = (pending \cap S) \cup (A \cap S)
  BY Zenon
<1>6. ASSUME thread[t] \notin S, A \cap S = {}, h \notin S
      PROVE  Undisturbed(S)
  <2>1. On(S)' = On(S) /\ \A u \in On(S) : thread'[u] = thread[u]
    BY <1>2, <1>3, <1>6, Zenon
  <2>2. Due(S)' = Due(S) /\ \A i \in Due(S) : ready'[i] = ready[i]
    BY <1>4, <1>6, Zenon
  <2>3. pending' \cap S = pending \cap S
    BY <1>5, <1>6, Zenon
  <2> QED BY <2>1, <2>2, <2>3, Zenon DEF Undisturbed
<1>7. thread[t] \in S /\ AtMostOnce(S) => pending \cap S = {} /\ Due(S) = {} /\ On(S)' = {}
  BY <1>2, <1>3, Zenon DEF AtMostOnce
<1> QED BY <1>4, <1>5, <1>6, <1>7, Zenon DEF PendingOnly, DueOnly

\* A place in a queue that is not the last has a next one.
LEMMA NextPlace ==
  ASSUME NEW n \in Nat, NEW i \in 1 .. n, i # n
  PROVE  i \in 1 .. n - 1 /\ i + 1 \in 1 .. n
OBVIOUS

\* The queue has lost its head and got h at its end.
MovedUp(h) ==
  /\ Len(ready) \in Nat /\ Len(ready) > 0 /\ Len(ready') = Len(ready)
  /\ \A i \in 1 .. Len(ready) - 1 : ready'[i] = ready[i + 1]
  /\ ready'[Len(ready)] = h /\ Head(ready) = ready[1]

\* The handler at the front goes, one is appended, and the others move up a place (OnClose).
LEMMA MovesUp ==
  ASSUME ready \in Seq(Operations), ready # <<>>,
         NEW h \in Operations, ready' = Append(Tail(ready), h)
  PROVE  MovedUp(h)
<1>1. PICK q : q = Tail(ready)
  BY Zenon
<1>2. /\ q \in Seq(Operations) /\ Len(q) = Len(ready) - 1
      /\ \A i \in 1 .. Len(ready) - 1 : q[i] = ready[i + 1]
      /\ Len(ready) \in Nat /\ Len(ready) > 0 /\ Head(ready) = ready[1]
  BY <1>1
<1>3. /\ Len(ready') = Len(q) + 1
      /\ \A i \in 1 .. Len(q) : ready'[i] = q[i]
      /\ ready'[Len(q) + 1] = h
  BY <1>1, <1>2, AppendElements
<1> QED BY <1>2, <1>3 DEF MovedUp

\* OnClose: the head goes, and an operation in progress, if there is one, is
\* aborted.
LEMMA MoveClose ==
  ASSUME NEW S, thread' = thread, Head(ready) \notin S,
         NEW o \in pending, pending' = pending \ {o}, NEW h, MovedUp(h)
  PROVE  /\ o \notin S /\ h \notin S => Undisturbed(S)
         /\ o \in S /\ h \in S /\ AtMostOnce(S) => DueOnly(S, h)
<1>1. /\ Len(ready) \in Nat /\ Len(ready) > 0 /\ Len(ready') = Len(ready)
      /\ \A i \in 1 .. Len(ready) - 1 : ready'[i] = ready[i + 1]
      /\ ready'[Len(ready)] = h /\ Head(ready) = ready[1]
  BY Zenon DEF MovedUp
<1>2. On(S)' = On(S)
  BY Zenon DEF On
<1>3. ASSUME NEW i \in Due(S)', h \notin S
      PROVE  i \in Int /\ i + 1 \in Due(S) /\ ready'[i] = ready[i + 1]
  <2>1. i \in 1 .. Len(ready) /\ ready'[i] \in S
    BY <1>1, <1>3, Zenon DEF Due
  <2>2. i # Len(ready)
    BY <1>1, <1>3, <2>1, Zenon
  <2>3. i \in 1 .. Len(ready) - 1 /\ i + 1 \in 1 .. Len(ready)
    BY <1>1, <2>1, <2>2, NextPlace, Zenon
  <2> QED BY <1>1, <2>1, <2>3 DEF Due
<1>4. ASSUME NEW i \in Due(S), h \notin S PROVE i \in Int /\ i - 1 \in Due(S)'
  <2>1. i \in 1 .. Len(ready) /\ i # 1 /\ ready[i] \in S
    BY <1>1, <1>4, Zenon DEF Due
  <2>2. i - 1 \in 1 .. Len(ready) /\ i - 1 \in 1 .. Len(ready) - 1 /\ ready'[i - 1] = ready[i]
    BY <1>1, <2>1
  <2> QED BY <1>1, <2>1, <2>2 DEF Due
<1>5. ASSUME h \notin S, \A i, j \in Due(S) : i = j, NEW i \in Due(S)', NEW j \in Due(S)'
      PROVE  i = j
  <2>1. i + 1 = j + 1 /\ i \in Int /\ j \in Int
    BY <1>3, <1>5, Zenon
  <2> QED BY <2>1
<1>6. o \notin S /\ h \notin S => Undisturbed(S)
  <2> SUFFICES ASSUME o \notin S, h \notin S PROVE Undisturbed(S)
    BY Zenon
  <2>1. pending' \cap S = pending \cap S
    BY Zenon
  <2>2. Due(S)' = {} <=> Due(S) = {}
    BY <1>3, <1>4, Zenon
  <2>3. \A i \in Due(S)' : \E j \in Due(S) : ready'[i] = ready[j]
    BY <1>3, Zenon
  <2> QED BY <1>2, <1>5, <2>1, <2>2, <2>3, Zenon DEF Undisturbed
<1>7. o \in S /\ h \in S /\ AtMostOnce(S) => DueOnly(S, h)
  <2> SUFFICES ASSUME o \in S, h \in S, AtMostOnce(S) PROVE DueOnly(S, h)
    BY Zenon
  <2>1. pending' \cap S = {} /\ Due(S) = {} /\ On(S) = {}
    BY DEF AtMostOnce
  <2>2. ASSUME NEW i \in Due(S)' PROVE i = Len(ready)
    <3>1. i \in 1 .. Len(ready) /\ ready'[i] \in S
      BY <1>1, <2>2, Zenon DEF Due
    <3>2. i # Len(ready) => i \in 1 .. Len(ready) - 1 /\ i + 1 \in 1 .. Len(ready)
      BY <1>1, <3>1, NextPlace, Zenon
    <3> QED BY <1>1, <2>1, <3>1, <3>2, Zenon DEF Due
  <2>3. Len(ready) \in Due(S)'
    BY <1>1 DEF Due
  <2>4. Due(S)' = {Len(ready)}
    BY <2>2, <2>3, Zenon
  <2> QED BY <1>1, <1>2, <2>1, <2>4, Zenon DEF DueOnly
<1> QED BY <1>6, <1>7, Zenon

\* PostClose: the handler that is appended is none of S.
LEMMA MoveAppend ==
  ASSUME NEW S, ready \in Seq(Operations), NEW h \in Operations, h \notin S,
         ready' = Append(ready, h), pending' = pending, thread' = thread
  PROVE  Undisturbed(S)
<1>1. Due(S)' = Due(S) /\ \A i \in Due(S) : ready'[i] = ready[i]
  BY AfterAppend, Zenon
<1>2. On(S)' = On(S)
  BY Zenon DEF On
<1> QED BY <1>1, <1>2, Zenon DEF Undisturbed

\* Exit: a thread that is in no handler goes.
LEMMA MoveExit ==
  ASSUME NEW S, thread \in [Threads -> Operations], NEW t \in Threads, NEW g,
         thread[t] \notin S, g \notin S, thread' = [thread EXCEPT ![t] = g],
         pending' = pending, ready' = ready
  PROVE  Undisturbed(S)
<1>1. thread'[t] = g /\ \A u \in Threads : u # t => thread'[u] = thread[u]
  BY Zenon
<1>2. On(S)' = On(S) /\ \A u \in On(S) : thread'[u] = thread[u]
  BY <1>1, Zenon DEF On
<1>3. Due(S)' = Due(S)
  BY Zenon DEF Due
<1> QED BY <1>2, <1>3, Zenon DEF Undisturbed

-----------------------------------------------------------------------------
(* Every step keeps the accept loop whole.                                 *)

\* What follows when the loop was not touched, or is now at one place.
LoopWhole == AtMostOnce(AcceptLoop)' /\ (owner' = "running" => Held(AcceptLoop)')

\* One accept operation, in whichever place, keeps the accept loop whole.
LEMMA LoopWholeAt ==
  ASSUME IInv
  PROVE  /\ Undisturbed(AcceptLoop) /\ (owner' = "running" => owner = "running") => LoopWhole
         /\ \A o : PendingOnly(AcceptLoop, o) => LoopWhole
         /\ \A h : DueOnly(AcceptLoop, h) => LoopWhole
         /\ \A t, h : OnOnly(AcceptLoop, t, h) => LoopWhole
         /\ Nowhere(AcceptLoop) /\ owner' # "running" => LoopWhole
BY UndisturbedHeld, OnceHeld, Zenon DEF LoopWhole, IInv, OwnerInv

\* An idle thread is in no session and not in the accept loop.
LEMMA PlaceHoldsNothing ==
  ASSUME IInv, NEW t \in Threads, thread[t].op \in Places
  PROVE  thread[t] \notin AcceptLoop /\ \A c \in Clients : thread[t] \notin Session(c)
<1>1. thread[t] \in Operations /\ thread[t].client = None
  BY ThreadType, Zenon
<1> QED BY <1>1, Membership, ClientsAssumption DEF Places

\* A completion in the kernel keeps the accept loop whole (do_accept's handler is due).
LEMMA AcceptCompletesLoop ==
  ASSUME IInv, NEW c \in Clients, Completes(c)
  PROVE  LoopWhole
<1>1. /\ ready \in Seq(Operations) /\ AtMostOnce(AcceptLoop)
      /\ owner' = owner
  BY Zenon DEF IInv, TypeOK, Completes, AcceptCompletes, ReadCompletes, ReadFails, WriteCompletes,
         Complete, ownerVars
<1>2. 0 \in 0 .. MaxLines
  BY SizesAssumption
<1>3. CASE AcceptCompletes(c)
  <2>1. Complete(DoAccept, Operation("accept", c, 0))
    BY <1>3, Zenon DEF AcceptCompletes
  <2>2. DueOnly(AcceptLoop, Operation("accept", c, 0))
    BY <1>1, <1>2, <2>1, Begun, AcceptOps, MoveComplete
  <2> QED BY <2>2, LoopWholeAt, Zenon
<1>4. CASE ReadCompletes(c) \/ ReadFails(c)
  <2>1. PICK h \in {DoRead(c), Failed(DoRead(c))} : Complete(DoRead(c), h)
    BY <1>4, Zenon DEF ReadCompletes, ReadFails
  <2>2. h \in Operations /\ h \notin AcceptLoop /\ DoRead(c) \notin AcceptLoop
    BY <1>2, Begun, AcceptOps, Zenon
  <2> QED BY <1>1, <2>1, <2>2, MoveComplete, LoopWholeAt
<1>5. CASE WriteCompletes(c)
  <2>1. PICK line \in 1 .. MaxLines : \E h \in {DoWrite(c, line), Failed(DoWrite(c, line))} :
          Complete(DoWrite(c, line), h)
    BY <1>5, Zenon DEF WriteCompletes
  <2>2. line \in 0 .. MaxLines
    BY SizesAssumption
  <2>3. /\ \A h \in {DoWrite(c, line), Failed(DoWrite(c, line))} : h \in Operations /\ h \notin AcceptLoop
        /\ DoWrite(c, line) \notin AcceptLoop
    BY <2>2, Begun, AcceptOps, Zenon
  <2> QED BY <1>1, <2>1, <2>3, MoveComplete, LoopWholeAt
<1> QED BY <1>3, <1>4, <1>5, Zenon DEF Completes

\* So does a handler on a network thread: the accept handler begins the next accept.
LEMMA AcceptRunsLoop ==
  ASSUME IInv, NEW t \in Threads, Runs(t) \/ Handled(t)
  PROVE  LoopWhole
<1> DEFINE S == AcceptLoop
<1>1. /\ ready \in Seq(Operations) /\ thread \in [Threads -> Operations] /\ AtMostOnce(S)
      /\ owner' = owner /\ (owner = "running" => running)
  BY Zenon DEF IInv, TypeOK, OwnerInv, Runs, TakeAccept, OnAccept, OnRead, OnWrite, OnClose, Exit, Handled, ownerVars
<1>2. /\ At("idle") \notin S /\ At("exited") \notin S
      /\ \A c \in Clients : DoRead(c) \notin S
      /\ \A c \in Clients, line \in 0 .. MaxLines :
           DoWrite(c, line) \notin S /\ Operation("handle", c, line) \notin S
  BY AcceptOps, SizesAssumption DEF Places
<1>3. thread[t] \in S <=> thread[t].op = "accept"
  BY <1>1, Membership, Zenon
<1>4. ready # <<>> => (Head(ready) \in S <=> Head(ready).op = "accept")
  BY HeadType, Membership, Zenon
<1>5. thread[t].op = "idle" => thread[t] \notin S
  BY <1>3, Zenon
<1> HIDE DEF S
<1>6. ASSUME thread' = thread PROVE thread' = [thread EXCEPT ![t] = thread[t]]
  BY <1>1, <1>6, Zenon
<1>7. CASE TakeAccept(t)
  <2>1. /\ thread[t].op = "idle" /\ ready # <<>> /\ ready' = Tail(ready) /\ pending' = pending
        /\ Head(ready).op = "accept"
        /\ running => thread' = [thread EXCEPT ![t] = Head(ready)]
        /\ ~running => thread' = thread
    BY <1>7, Zenon DEF TakeAccept, Takes
  <2>2. CASE running
    <3>1. PICK g : g = Head(ready)
      BY Zenon
    <3>2. OnOnly(S, t, g)
      BY <1>1, <1>4, <1>5, <2>1, <2>2, <3>1, MoveTake
    <3> QED BY <3>2, LoopWholeAt, Zenon DEF S
  <2>3. CASE ~running
    <3>1. PICK g : g = thread[t]
      BY Zenon
    <3>2. Nowhere(S)
      BY <1>1, <1>4, <1>5, <1>6, <2>1, <2>3, <3>1, MoveTake
    <3> QED BY <1>1, <2>3, <3>2, LoopWholeAt, Zenon DEF S
  <2> QED BY <2>2, <2>3, Zenon
<1>8. CASE OnAccept(t)
  <2>1. PICK session : session = IF thread[t].error THEN {} ELSE {DoRead(thread[t].client)}
    BY Zenon
  <2>2. thread[t].op = "accept" /\ thread' = [thread EXCEPT ![t] = At("idle")]
    BY <1>8, Zenon DEF OnAccept
  <2>3. session \cap S = {}
    <3>1. ~thread[t].error => thread[t].client \in Clients
      BY <2>2, ThreadType, Membership, Zenon
    <3> QED BY <1>2, <2>1, <3>1, Zenon
  <2>4. CASE acceptor = "closed"
    <3>1. pending' = pending \cup session /\ ready' = Append(ready, Failed(DoAccept))
      BY <1>8, <2>1, <2>4, Zenon DEF OnAccept
    <3>2. Failed(DoAccept) \in Operations /\ Failed(DoAccept) \in S
      BY BegunNone, AcceptOps, Zenon DEF S
    <3>3. DueOnly(S, Failed(DoAccept))
      BY <1>1, <1>2, <1>3, <2>2, <2>3, <3>1, <3>2, MoveFail, Zenon
    <3> QED BY <3>3, LoopWholeAt, Zenon DEF S
  <2>5. CASE acceptor # "closed"
    <3>1. PICK A : A = session \cup {DoAccept}
      BY Zenon
    <3>2. pending' = pending \cup A /\ ready' = ready
      BY <1>8, <2>1, <2>5, <3>1, Zenon DEF OnAccept
    <3>3. A \cap S = {DoAccept}
      BY <2>3, <3>1, AcceptOps, Zenon DEF S
    <3>4. PendingOnly(S, DoAccept)
      BY <1>1, <1>2, <1>3, <2>2, <3>2, <3>3, MoveBegin, Zenon
    <3> QED BY <3>4, LoopWholeAt, Zenon DEF S
  <2> QED BY <2>4, <2>5, Zenon
<1>9. CASE OnRead(t)
  <2>1. /\ thread[t].op = "idle" /\ ready # <<>> /\ ready' = Tail(ready) /\ pending' = pending
        /\ Head(ready).op = "read"
        /\ \/ thread' = thread
           \/ thread' = [thread EXCEPT ![t] = Operation("handle", Head(ready).client, taken'[Head(ready).client])]
    <3>1. Head(ready).op = "read" /\ ready # <<>>
      BY <1>9, Zenon DEF OnRead, Close, Takes
    <3>2. Head(ready).client \in Clients
      BY <3>1, HeadType, Zenon
    <3>3. taken \in [Clients -> 0 .. MaxLines]
      BY Zenon DEF IInv, TypeOK
    <3> QED BY <1>9, <3>2, <3>3, Zenon DEF OnRead, Close, Takes
  <2>2. PICK g : thread' = [thread EXCEPT ![t] = g] /\ g \notin S
    <3>1. Head(ready).client \in Clients
      BY <2>1, HeadType, Zenon
    <3>2. taken'[Head(ready).client] \in 0 .. MaxLines
      BY <3>1, RunsType, Zenon DEF TypeOK
    <3> QED BY <1>2, <1>5, <1>6, <2>1, <3>1, <3>2
  <2>3. Undisturbed(S)
    BY <1>1, <1>4, <1>5, <2>1, <2>2, MoveTake, Zenon
  <2> QED BY <1>1, <2>3, LoopWholeAt, Zenon DEF S
<1>10. CASE OnWrite(t)
  <2>1. /\ thread[t].op = "idle" /\ ready # <<>> /\ ready' = Tail(ready) /\ thread' = thread
        /\ Head(ready).op = "write"
        /\ pending' = pending \/ pending' = pending \cup {DoRead(Head(ready).client)}
    BY <1>10, Zenon DEF OnWrite, Takes
  <2>2. PICK o : o = DoRead(Head(ready).client)
    BY Zenon
  <2>3. o \notin S
    BY <1>2, <2>1, <2>2, HeadType
  <2>4. PICK g : g = thread[t]
    BY Zenon
  <2>5. Undisturbed(S)
    <3>1. CASE pending' = pending
      BY <1>1, <1>4, <1>5, <1>6, <2>1, <2>4, <3>1, MoveTake
    <3>2. CASE pending' = pending \cup {o}
      BY <1>1, <1>4, <2>1, <2>3, <3>2, MoveNext
    <3> QED BY <2>1, <2>2, <3>1, <3>2
  <2> QED BY <1>1, <2>5, LoopWholeAt, Zenon DEF S
<1>11. CASE OnClose(t)
  <2>1. /\ thread[t].op = "idle" /\ ready # <<>> /\ thread' = thread /\ Head(ready).op = "close"
        /\ pending' = pending \ {DoAccept}
    BY <1>11 DEF OnClose
  <2>2. CASE DoAccept \in pending
    <3>1. MovedUp(Failed(DoAccept))
      BY <1>1, <1>11, <2>2, BegunNone, MovesUp DEF OnClose
    <3>2. Failed(DoAccept) \in S /\ DoAccept \in S
      BY AcceptOps, Zenon DEF S
    <3>3. DueOnly(S, Failed(DoAccept))
      BY <1>1, <1>4, <2>1, <2>2, <3>1, <3>2, MoveClose
    <3> QED BY <3>3, LoopWholeAt, Zenon DEF S
  <2>3. CASE DoAccept \notin pending
    <3>1. ready' = Tail(ready) /\ pending' = pending
      BY <1>11, <2>1, <2>3 DEF OnClose
    <3>2. PICK g : g = thread[t]
      BY Zenon
    <3>3. Undisturbed(S)
      BY <1>1, <1>4, <1>5, <1>6, <2>1, <3>1, <3>2, MoveTake
    <3> QED BY <1>1, <3>3, LoopWholeAt, Zenon DEF S
  <2> QED BY <2>2, <2>3, Zenon
<1>12. CASE Exit(t)
  <2>1. Undisturbed(S)
    <3>1. /\ thread[t].op = "idle" /\ thread' = [thread EXCEPT ![t] = At("exited")]
          /\ pending' = pending /\ ready' = ready
      BY <1>12 DEF Exit
    <3> QED BY <1>1, <1>2, <1>5, <3>1, MoveExit, Zenon
  <2> QED BY <1>1, <2>1, LoopWholeAt, Zenon DEF S
<1>13. CASE Handled(t)
  <2>1. /\ thread[t].op = "handle" /\ ready' = ready
        /\ thread' = [thread EXCEPT ![t] = At("idle")]
        /\ pending' = pending \cup {DoWrite(thread[t].client, thread[t].line)}
    BY <1>13, Zenon DEF Handled
  <2>2. PICK A : A = {DoWrite(thread[t].client, thread[t].line)}
    BY Zenon
  <2>3. A \cap S = {}
    <3>1. thread[t].client \in Clients /\ thread[t].line \in 0 .. MaxLines
      BY <2>1, ThreadType, Zenon DEF Operations, OperationsOf
    <3> QED BY <1>2, <2>2, <3>1, Zenon
  <2>4. Undisturbed(S)
    BY <1>1, <1>2, <1>3, <2>1, <2>2, <2>3, MoveBegin, Zenon
  <2> QED BY <1>1, <2>4, LoopWholeAt, Zenon DEF S
<1> QED BY <1>7, <1>8, <1>9, <1>10, <1>11, <1>12, <1>13 DEF Runs

\* The server before start(), and what start() makes of it, for a set S that
\* no idle thread is in.
LEMMA MoveStart ==
  ASSUME IInv, Start \/ StartFails, NEW S, \A p \in Places : At(p) \notin S
  PROVE  /\ ~Held(S)
         /\ DoAccept \notin S => Nowhere(S)
         /\ DoAccept \in S => Nowhere(S) \/ PendingOnly(S, DoAccept)
         /\ DoAccept \in S /\ Start => PendingOnly(S, DoAccept)
<1>1. owner = "created" /\ ready' = ready
  BY Zenon DEF Start, StartFails
<1>2. pending = {} /\ ready = <<>> /\ \A t \in Threads : thread[t] = At("none")
  BY <1>1, Zenon DEF IInv, OwnerInv
<1>3. Len(ready) = 0 /\ Due(S) = {} /\ Due(S)' = {}
  BY <1>1, <1>2 DEF Due
<1>4. On(S) = {}
  BY <1>2, Zenon DEF On, Places
<1>5. /\ pending' = pending \/ pending' = {DoAccept}
      /\ \A t \in Threads : thread'[t] = At("none") \/ thread'[t] = At("idle")
  <2>1. CASE Start
    BY <2>1, Zenon DEF Start
  <2>2. CASE StartFails
    BY <1>2, <2>2, Zenon DEF StartFails
  <2> QED BY <2>1, <2>2, Zenon
<1>6. On(S)' = {}
  BY <1>5, Zenon DEF On, Places
<1>7. ~Held(S)
  BY <1>2, <1>3, <1>4, Zenon DEF Held
<1>8. Start => pending' = {DoAccept}
  BY Zenon DEF Start
<1> QED BY <1>2, <1>3, <1>5, <1>6, <1>7, <1>8 DEF Nowhere, PendingOnly

\* The server when its members are destroyed.
LEMMA MoveDestroy ==
  ASSUME IInv, Destroy, NEW S, \A t \in Threads : thread[t].op \in Places => thread[t] \notin S
  PROVE  Nowhere(S)
<1>1. pending' = {} /\ ready' = <<>> /\ thread' = thread /\ owner = "stopped"
  BY Zenon DEF Destroy
<1>2. \A t \in Threads : thread[t] \notin S
  BY <1>1, Zenon DEF IInv, OwnerInv, Places
<1>3. Due(S)' = {}
  BY <1>1 DEF Due
<1>4. On(S)' = {}
  BY <1>1, <1>2, Zenon DEF On
<1> QED BY <1>1, <1>3, <1>4, Zenon DEF Nowhere

\* Every step keeps the accept loop whole.
LEMMA AcceptStep ==
  ASSUME IInv, Next
  PROVE  LoopWhole
<1>1. ready \in Seq(Operations) /\ AtMostOnce(AcceptLoop)
  BY Zenon DEF IInv, TypeOK
<1>2. CASE Start
  <2>1. PendingOnly(AcceptLoop, DoAccept)
    BY <1>2, AcceptOps, MoveStart, Zenon
  <2> QED BY <2>1, LoopWholeAt, Zenon
<1>3. CASE StartFails
  <2>1. Nowhere(AcceptLoop) \/ PendingOnly(AcceptLoop, DoAccept)
    BY <1>3, AcceptOps, MoveStart, Zenon
  <2>2. owner' # "running"
    BY <1>3, Zenon DEF StartFails
  <2> QED BY <2>1, <2>2, LoopWholeAt, Zenon
<1>4. CASE Stop \/ ReleaseGuard \/ StopContext \/ Join
  <2>1. UNCHANGED loopVars /\ owner' # "running"
    BY <1>4, Zenon DEF Stop, ReleaseGuard, StopContext, Join
  <2> QED BY <2>1, SameLoop, LoopWholeAt, Zenon
<1>5. CASE PostClose
  <2>1. /\ ready' = Append(ready, Operation("close", None, 0)) /\ pending' = pending
        /\ thread' = thread /\ owner' # "running"
    BY <1>5, Zenon DEF PostClose
  <2>2. Undisturbed(AcceptLoop)
    BY <1>1, <2>1, BegunNone, AcceptOps, MoveAppend, Zenon
  <2> QED BY <2>1, <2>2, LoopWholeAt, Zenon
<1>6. CASE Destroy
  <2>1. Nowhere(AcceptLoop)
    BY <1>6, PlaceHoldsNothing, MoveDestroy, Zenon
  <2>2. owner' # "running"
    BY <1>6, Zenon DEF Destroy
  <2> QED BY <2>1, <2>2, LoopWholeAt, Zenon
<1>7. CASE AcceptFails
  <2>1. Complete(DoAccept, Failed(DoAccept))
    BY <1>7, Zenon DEF AcceptFails
  <2>2. DueOnly(AcceptLoop, Failed(DoAccept))
    BY <1>1, <2>1, BegunNone, AcceptOps, MoveComplete, Zenon
  <2> QED BY <2>2, LoopWholeAt, Zenon
<1>8. CASE \E c \in Clients : Client(c)
  <2>1. UNCHANGED loopVars /\ owner' = owner
    BY <1>8, Zenon DEF Client, Connect, Send, Finish, Lose, ownerVars
  <2> QED BY <2>1, SameLoop, LoopWholeAt, Zenon
<1> QED BY <1>2, <1>3, <1>4, <1>5, <1>6, <1>7, <1>8, AcceptCompletesLoop, AcceptRunsLoop
        DEF Next, OwnerStops

-----------------------------------------------------------------------------
(* Every step keeps OwnerInv.                                              *)

\* A thread that takes a step is in its loop: before start() none is, and none
\* is once stop() has joined them.
LEMMA ThreadsAlive ==
  ASSUME IInv, NEW t \in Threads, Runs(t) \/ Handled(t)
  PROVE  owner \notin {"created", "stopped", "destroyed"} /\ UNCHANGED <<owner, running>>
<1>1. thread[t].op \in {"idle", "accept", "handle"} /\ UNCHANGED <<owner, running>>
  BY Zenon DEF Runs, TakeAccept, OnAccept, OnRead, OnWrite, OnClose, Exit, Handled, Takes, ownerVars
<1>2. At("none").op = "none"
  BY OperationFields DEF At
<1> QED BY <1>1, <1>2, Zenon DEF IInv, OwnerInv

\* Every step keeps what is known of the owner in start() and stop().
LEMMA OwnerStep ==
  ASSUME IInv, Next
  PROVE  OwnerInv'
<1>1. OwnerInv /\ LoopWhole
  BY AcceptStep, Zenon DEF IInv
<1>2. CASE \E t \in Threads : Runs(t) \/ Handled(t)
  BY <1>1, <1>2, ThreadsAlive, Zenon DEF OwnerInv, LoopWhole
<1>3. CASE AcceptFails \/ \E c \in Clients : Completes(c)
  <2>1. pending # {} /\ thread' = thread /\ UNCHANGED <<owner, running>>
    BY <1>3 DEF AcceptFails, Completes, AcceptCompletes, ReadCompletes, ReadFails, WriteCompletes,
                Complete, ownerVars
  <2> QED BY <1>1, <2>1, Zenon DEF OwnerInv, LoopWhole
<1>4. CASE \E c \in Clients : Client(c)
  <2>1. pending' = pending /\ ready' = ready /\ thread' = thread /\ UNCHANGED <<owner, running>>
    BY <1>4, Zenon DEF Client, Connect, Send, Finish, Lose, ownerVars, loopVars
  <2> QED BY <1>1, <2>1, Zenon DEF OwnerInv, LoopWhole
<1>5. CASE Start \/ StartFails
  BY <1>1, <1>5, Zenon DEF OwnerInv, LoopWhole, Start, StartFails
<1>6. CASE Stop \/ PostClose \/ ReleaseGuard \/ StopContext
  BY <1>6, Zenon DEF OwnerInv, Stop, PostClose, ReleaseGuard, StopContext
<1>7. CASE Join \/ Destroy
  BY <1>1, <1>7, Zenon DEF OwnerInv, Join, Destroy, loopVars
<1> QED BY <1>2, <1>3, <1>4, <1>5, <1>6, <1>7, Zenon DEF Next, OwnerStops

-----------------------------------------------------------------------------
(* The clients and the operating system keep the sessions and the lines.   *)

\* What every step has to keep of a client.
Kept(d) == SessionInv(d)' /\ LinesInv(d)'

\* A client whose session the step does not touch.
LEMMA ClientFrame ==
  ASSUME IInv, NEW d \in Clients, Undisturbed(Session(d)), Same(d)
  PROVE  Kept(d)
<1>1. SessionInv(d) /\ LinesInv(d)
  BY Zenon DEF IInv
<1>2. SessionInv(d)'
  BY <1>1, SessionFrame, Zenon
<1>3. LinesInv(d)'
  BY <1>1, LinesFrame, Zenon DEF Same
<1> QED BY <1>2, <1>3, Zenon DEF Kept

\* The client's own steps: they move no handler, and what a handler knows of
\* the client's lines stays true.
LEMMA SessionClient ==
  ASSUME IInv, NEW c \in Clients, Client(c), NEW d \in Clients
  PROVE  Kept(d)
<1>1. UNCHANGED loopVars
  BY Zenon DEF Client, Connect, Send, Finish, Lose
<1>2. Undisturbed(Session(d))
  BY <1>1, SameLoop, Zenon
<1>3. TypeOK /\ SessionInv(d) /\ LinesInv(d)
  BY Zenon DEF IInv
<1>4. CASE d # c
  <2>1. Same(d)
    BY <1>3, <1>4 DEF Same, TypeOK, Client, Connect, Send, Finish, Lose
  <2> QED BY <1>2, <2>1, ClientFrame, Zenon
<1>5. CASE d = c /\ Connect(c)
  <2>1. client[d] = "new" /\ client'[d] = "backlog" /\ UNCHANGED <<sent, arrived, taken, received>>
    BY <1>3, <1>5 DEF Connect, TypeOK
  <2>2. ~Held(Session(d))
    BY <1>3, <2>1, Zenon DEF SessionInv
  <2>3. Nowhere(Session(d))
    BY <1>2, <2>2, Zenon DEF Undisturbed, Held, Nowhere
  <2>4. ~Served(d)'
    BY <2>1, Zenon DEF Served
  <2>5. LinesInv(d)'
    BY <1>3, <2>1, LinesFrame
  <2> QED BY <2>3, <2>4, <2>5, SessionOver DEF Kept
<1>6. ASSUME d = c, NEW size \in Sizes, Send(c, size)
      PROVE  Kept(d)
  <2>1. /\ client[d] \in {"backlog", "connected"} /\ Len(sent[d]) < MaxLines
        /\ sent'[d] = Append(sent[d], size) /\ sent[d] \in Seq(Sizes)
        /\ UNCHANGED <<client, arrived, taken, received>>
    BY <1>3, <1>6, Zenon DEF Send, TypeOK
  <2>2. /\ Len(sent[d]) \in Nat /\ Len(sent'[d]) = Len(sent[d]) + 1
        /\ \A i \in 1 .. Len(sent[d]) : sent'[d][i] = sent[d][i]
    BY <2>1
  <2>3. \A o : PendingOf(d, o) => PendingOf(d, o)'
    BY <2>1, Zenon DEF PendingOf, Settled, Working
  <2>4. \A h : DueOf(d, h) => DueOf(d, h)'
    BY <2>1, Zenon DEF DueOf, Settled, Ended, Fresh
  <2>5. \A h : RunningOf(d, h) => RunningOf(d, h)'
    BY <2>1, Zenon DEF RunningOf, Working, Fresh
  <2>6. Held(Session(d)) => client'[d] \in Open
    BY <1>3, <2>1, Zenon DEF SessionInv, Open
  <2>7. Served(d)' => Served(d)
    BY <2>1, Zenon DEF Served
  <2>8. SessionInv(d)'
    BY <1>2, <1>3, <2>3, <2>4, <2>5, <2>6, <2>7, SessionLater
  <2>9. /\ taken[d] \in Nat /\ arrived[d] \in Nat /\ MaxLines \in Nat /\ Len(received[d]) \in Nat
    BY <1>3, SizesAssumption DEF TypeOK
  <2>10. \A i \in 1 .. taken[d] : sent'[d][i] <= MaxMessageSize
    <3>1. \A i \in 1 .. taken[d] : i \in 1 .. Len(sent[d])
      BY <1>3, <2>2, <2>9 DEF LinesInv
    <3> QED BY <1>3, <2>2, <3>1, Zenon DEF LinesInv
  <2>11. arrived[d] <= Len(sent'[d]) /\ Len(sent'[d]) <= MaxLines
    BY <1>3, <2>1, <2>2, <2>9 DEF LinesInv
  <2>12. LinesInv(d)'
    BY <1>3, <2>1, <2>10, <2>11, Zenon DEF LinesInv, Fresh
  <2> QED BY <2>8, <2>12, Zenon DEF Kept
<1>7. CASE d = c /\ (Finish(c) \/ Lose(c))
  <2>1. /\ client[d] \in {"connected", "finished"}
        /\ (client[d] = "connected" /\ client'[d] = "finished") \/ client'[d] = "gone"
        /\ UNCHANGED <<sent, arrived, taken, received>>
    BY <1>3, <1>7, Zenon DEF Finish, Lose, TypeOK
  <2>2. \A o : PendingOf(d, o) => PendingOf(d, o)'
    BY <2>1, Zenon DEF PendingOf, Settled, Working
  <2>3. \A h : DueOf(d, h) => DueOf(d, h)'
    BY <2>1, Zenon DEF DueOf, Settled, Ended, Fresh
  <2>4. \A h : RunningOf(d, h) => RunningOf(d, h)'
    BY <2>1, Zenon DEF RunningOf, Working, Fresh
  <2>5. Held(Session(d)) => client'[d] \in Open
    BY <2>1, Zenon DEF Open
  <2>6. Served(d)' => Served(d)
    BY <2>1, Zenon DEF Served
  <2>7. SessionInv(d)'
    BY <1>2, <1>3, <2>2, <2>3, <2>4, <2>5, <2>6, SessionLater
  <2>8. LinesInv(d)'
    BY <1>3, <2>1, LinesFrame, Zenon
  <2> QED BY <2>7, <2>8 DEF Kept
<1> QED BY <1>4, <1>5, <1>6, <1>7 DEF Client

\* What is known of a session from its operation in progress.
LEMMA PendingKnown ==
  ASSUME IInv, NEW c \in Clients
  PROVE  /\ DoRead(c) \in pending => Settled(c) /\ client[c] \in Open
         /\ \A line \in 0 .. MaxLines :
              DoWrite(c, line) \in pending => line = taken[c] /\ Working(c) /\ client[c] \in Open
<1>1. 0 \in 0 .. MaxLines
  BY SizesAssumption
<1>2. \A line \in 0 .. MaxLines : DoRead(c) \in Session(c) /\ DoWrite(c, line) \in Session(c)
  BY SessionOps, Zenon
<1>3. \A o \in pending \cap Session(c) : PendingOf(c, o) /\ client[c] \in Open
  BY Zenon DEF IInv, SessionInv, Held, Open
<1>4. DoRead(c).op = "read" /\ \A line : DoWrite(c, line).op = "write" /\ DoWrite(c, line).line = line
  BY OperationFields DEF DoRead, DoWrite
<1> QED BY <1>1, <1>2, <1>3, <1>4 DEF PendingOf

\* The counts and lines of a client, typed.
LEMMA LinesTypes ==
  ASSUME IInv, NEW c \in Clients
  PROVE  /\ taken[c] \in Nat /\ arrived[c] \in Nat /\ MaxLines \in Nat
         /\ Len(received[c]) \in Nat /\ Len(sent[c]) \in Nat
         /\ received[c] \in Seq(1 .. MaxLines) /\ sent[c] \in Seq(Sizes)
BY SizesAssumption DEF IInv, TypeOK

\* The completion of an operation of a session touches no other one.
LEMMA OtherSession ==
  ASSUME IInv, NEW c \in Clients, Completes(c), NEW d \in Clients, d # c
  PROVE  Kept(d)
<1>1. ready \in Seq(Operations) /\ TypeOK
  BY Zenon DEF IInv, TypeOK
<1>2. 0 \in 0 .. MaxLines
  BY SizesAssumption
<1>3. Same(d)
  BY <1>1, Zenon DEF Same, TypeOK, Completes, AcceptCompletes, ReadCompletes, ReadFails, WriteCompletes, Complete
<1>4. PICK o, h \in Operations : Complete(o, h) /\ o \notin Session(d) /\ h \notin Session(d)
  <2>1. CASE AcceptCompletes(c)
    BY <1>2, <2>1, Begun, SessionOps, Zenon DEF AcceptCompletes
  <2>2. CASE ReadCompletes(c)
    BY <1>2, <2>2, Begun, SessionOps, Zenon DEF ReadCompletes
  <2>3. CASE ReadFails(c)
    BY <1>2, <2>3, Begun, SessionOps, Zenon DEF ReadFails
  <2>4. CASE WriteCompletes(c)
    <3>1. PICK line \in 1 .. MaxLines : \E h \in {DoWrite(c, line), Failed(DoWrite(c, line))} :
            Complete(DoWrite(c, line), h)
      BY <2>4, Zenon DEF WriteCompletes
    <3>2. line \in 0 .. MaxLines
      BY SizesAssumption
    <3>3. \A h \in {DoWrite(c, line), Failed(DoWrite(c, line))} : h \in Operations /\ h \notin Session(d)
      BY <3>2, Begun, SessionOps
    <3> QED BY <3>1, <3>3, Zenon
  <2> QED BY <2>1, <2>2, <2>3, <2>4, Zenon DEF Completes
<1>5. Undisturbed(Session(d))
  BY <1>1, <1>4, MoveComplete, Zenon
<1> QED BY <1>3, <1>5, ClientFrame, Zenon

\* An accepted client has no session yet, and now one that is due to start.
LEMMA SessionAcceptCompletes ==
  ASSUME IInv, NEW c \in Clients, AcceptCompletes(c)
  PROVE  Kept(c)
<1>1. PICK h : h = Operation("accept", c, 0)
  BY Zenon
<1>2. /\ TypeOK /\ ready \in Seq(Operations) /\ SessionInv(c) /\ LinesInv(c)
  BY Zenon DEF IInv, TypeOK
<1>3. /\ client[c] = "backlog" /\ client'[c] = "connected"
      /\ Complete(DoAccept, h) /\ UNCHANGED <<sent, arrived, taken, received>>
  BY <1>1, <1>2, Zenon DEF AcceptCompletes, Complete, TypeOK
<1>4. /\ h \in Operations /\ h \in Session(c) /\ DoAccept \notin Session(c)
      /\ h.op = "accept" /\ ~h.error
  BY <1>1, Begun, SessionOps, OperationFields, SizesAssumption
<1>5. ~Held(Session(c)) /\ Fresh(c)
  BY <1>2, <1>3, Zenon DEF SessionInv, LinesInv
<1>6. DueOnly(Session(c), h)
  BY <1>2, <1>3, <1>4, <1>5, MoveComplete, Zenon
<1>7. DueOf(c, h)'
  BY <1>3, <1>4, <1>5, Zenon DEF DueOf, Fresh
<1>8. SessionInv(c)'
  BY <1>3, <1>6, <1>7, SessionDue, Zenon DEF Open
<1>9. LinesInv(c)'
  BY <1>2, <1>3, LinesFrame
<1> QED BY <1>8, <1>9, Zenon DEF Kept

\* A read completes when a line is in the buffer; the session is due to take it.
LEMMA SessionReadCompletes ==
  ASSUME IInv, NEW c \in Clients, ReadCompletes(c)
  PROVE  Kept(c)
<1>1. /\ TypeOK /\ ready \in Seq(Operations) /\ SessionInv(c) /\ LinesInv(c) /\ AtMostOnce(Session(c))
  BY Zenon DEF IInv, TypeOK, SessionInv
<1>2. Complete(DoRead(c), DoRead(c)) /\ UNCHANGED <<client, sent, taken, received>>
  BY Zenon DEF ReadCompletes, Complete
<1>3. /\ DoRead(c) \in Operations /\ DoRead(c) \in Session(c)
      /\ DoRead(c).op = "read" /\ ~DoRead(c).error
  BY Begun, SessionOps, OperationFields, SizesAssumption DEF DoRead
<1>4. Settled(c) /\ client[c] \in Open
  BY <1>2, PendingKnown, Zenon DEF Complete
<1>5. arrived'[c] > taken[c] /\ arrived'[c] <= Len(sent[c]) /\ arrived'[c] >= arrived[c]
  <2>1. PICK n \in arrived[c] .. Len(sent[c]) :
          /\ IF arrived[c] > taken[c] THEN n = arrived[c] ELSE n > arrived[c]
          /\ arrived' = [arrived EXCEPT ![c] = n]
    BY Zenon DEF ReadCompletes
  <2>2. arrived'[c] = n
    BY <1>1, <2>1, Zenon DEF TypeOK
  <2> QED BY <1>1, <2>1, <2>2, LinesTypes DEF LinesInv
<1>6. DueOnly(Session(c), DoRead(c))
  BY <1>1, <1>2, <1>3, MoveComplete, Zenon
<1>7. DueOf(c, DoRead(c))'
  BY <1>2, <1>3, <1>4, <1>5, Zenon DEF DueOf, Settled
<1>8. SessionInv(c)'
  BY <1>2, <1>4, <1>6, <1>7, SessionDue
<1>9. LinesInv(c)'
  <2>1. arrived'[c] \in Nat
    BY TypeStep, SizesAssumption DEF TypeOK, Next, Completes
  <2>2. client[c] \notin {"new", "backlog"}
    BY <1>4, Zenon DEF Open
  <2>3. taken[c] <= arrived'[c]
    BY <1>5, <2>1, LinesTypes
  <2> QED BY <1>1, <1>2, <1>5, <2>2, <2>3 DEF LinesInv
<1> QED BY <1>8, <1>9, Zenon DEF Kept

\* A read fails at the end of the stream; the session is due to end.
LEMMA SessionReadFails ==
  ASSUME IInv, NEW c \in Clients, ReadFails(c)
  PROVE  Kept(c)
<1>1. PICK h : h = Failed(DoRead(c))
  BY Zenon
<1>2. /\ TypeOK /\ ready \in Seq(Operations) /\ SessionInv(c) /\ LinesInv(c) /\ AtMostOnce(Session(c))
  BY Zenon DEF IInv, TypeOK, SessionInv
<1>3. /\ Complete(DoRead(c), h) /\ UNCHANGED <<client, sent, arrived, taken, received>> /\ Ended(c)
  BY <1>1, Zenon DEF ReadFails, Complete, Ended
<1>4. /\ h \in Operations /\ h \in Session(c) /\ DoRead(c) \in Session(c)
      /\ h.op = "read" /\ h.error
  BY <1>1, Begun, SessionOps, OperationFields, SizesAssumption DEF DoRead
<1>5. Settled(c) /\ client[c] \in Open
  BY <1>3, PendingKnown, Zenon DEF Complete
<1>6. DueOnly(Session(c), h)
  BY <1>2, <1>3, <1>4, MoveComplete, Zenon
<1>7. DueOf(c, h)'
  BY <1>3, <1>4, <1>5, Zenon DEF DueOf, Settled, Ended
<1>8. SessionInv(c)'
  BY <1>3, <1>5, <1>6, <1>7, SessionDue, Zenon
<1>9. LinesInv(c)'
  BY <1>2, <1>3, LinesFrame, Zenon
<1> QED BY <1>8, <1>9, Zenon DEF Kept

\* A write completes: the answer is received next in order, or the client is gone.
LEMMA SessionWriteCompletes ==
  ASSUME IInv, NEW c \in Clients, WriteCompletes(c)
  PROVE  Kept(c)
<1>1. /\ TypeOK /\ ready \in Seq(Operations) /\ SessionInv(c) /\ LinesInv(c) /\ AtMostOnce(Session(c))
  BY Zenon DEF IInv, TypeOK, SessionInv
<1>2. PICK line \in 1 .. MaxLines : \E h \in {DoWrite(c, line), Failed(DoWrite(c, line))} :
        /\ Complete(DoWrite(c, line), h)
        /\ \/ /\ client[c] # "gone" /\ h = DoWrite(c, line)
              /\ received' = [received EXCEPT ![c] = Append(@, line)]
           \/ client[c] = "gone" /\ received' = received
        /\ UNCHANGED <<client, sent, arrived, taken>>
  BY Zenon DEF WriteCompletes, Complete
<1>3. PICK h \in {DoWrite(c, line), Failed(DoWrite(c, line))} :
        /\ Complete(DoWrite(c, line), h)
        /\ \/ /\ client[c] # "gone" /\ h = DoWrite(c, line)
              /\ received' = [received EXCEPT ![c] = Append(@, line)]
           \/ client[c] = "gone" /\ received' = received
        /\ UNCHANGED <<client, sent, arrived, taken>>
  BY <1>2, Zenon
<1>4. line \in 0 .. MaxLines
  BY SizesAssumption
<1>5. /\ h \in Operations /\ h \in Session(c) /\ DoWrite(c, line) \in Session(c)
  BY <1>4, Begun, SessionOps
<1>6. h.op = "write" /\ (h.error => h # DoWrite(c, line))
  BY OperationFields DEF DoWrite
<1>7. line = taken[c] /\ Working(c) /\ client[c] \in Open
  BY <1>3, <1>4, PendingKnown, Zenon DEF Complete
<1>8. ASSUME client[c] # "gone"
      PROVE  /\ Len(received'[c]) = taken[c] /\ Len(received'[c]) = Len(received[c]) + 1
             /\ \A i \in 1 .. Len(received[c]) : received'[c][i] = received[c][i]
             /\ received'[c][taken[c]] = taken[c]
  <2>1. received'[c] = Append(received[c], line) /\ taken[c] = Len(received[c]) + 1
    BY <1>1, <1>3, <1>7, <1>8 DEF TypeOK, Working
  <2> QED BY <1>7, <2>1, LinesTypes
<1>9. DueOnly(Session(c), h)
  BY <1>1, <1>3, <1>5, MoveComplete, Zenon
<1>10. DueOf(c, h)'
  <2>1. Settled(c)'
    BY <1>3, <1>8, Zenon DEF Settled
  <2>2. h.error => client'[c] = "gone"
    BY <1>3, <1>6, Zenon
  <2> QED BY <1>6, <2>1, <2>2, Zenon DEF DueOf
<1>11. SessionInv(c)'
  BY <1>3, <1>7, <1>9, <1>10, SessionDue
<1>12. LinesInv(c)'
  <2>1. client[c] \notin {"new", "backlog", "refused"}
    BY <1>7, Zenon DEF Open
  <2>2. CASE client[c] = "gone"
    <3>1. received' = received
      BY <1>3, <2>2, Zenon
    <3> QED BY <1>1, <1>3, <3>1, LinesFrame
  <2>3. CASE client[c] # "gone"
    <3>1. \A i \in 1 .. Len(received'[c]) : received'[c][i] = i
      <4>1. \A i \in 1 .. Len(received'[c]) : i \in 1 .. Len(received[c]) \/ i = taken[c]
        BY <1>8, <2>3, LinesTypes
      <4>2. \A i \in 1 .. Len(received[c]) : received[c][i] = i
        BY <1>1, Zenon DEF LinesInv
      <4> QED BY <1>8, <2>3, <4>1, <4>2, Zenon
    <3>2. Len(received'[c]) <= taken[c]
      BY <1>8, <2>3, LinesTypes
    <3> QED BY <1>1, <1>3, <2>1, <3>1, <3>2 DEF LinesInv
  <2> QED BY <2>2, <2>3, Zenon
<1> QED BY <1>11, <1>12 DEF Kept
=============================================================================
