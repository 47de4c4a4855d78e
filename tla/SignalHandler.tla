---------------------------- MODULE SignalHandler ---------------------------
(***************************************************************************)
(* Server::SignalHandler: SIGINT and SIGTERM are blocked and a thread of   *)
(* its own takes them with sigwait().  Both count as one signal here: it   *)
(* is pending for the process, or for the signal thread (pthread_kill),    *)
(* once at most in each place.                                             *)
(***************************************************************************)
VARIABLES running,  \* running_
          thread,   \* where thread_main is
          owner,    \* where the thread that calls start() and stop() is
          blocked,  \* the signals are blocked in every thread
          signals   \* where a signal is pending

vars == <<running, thread, owner, blocked, signals>>

TypeOK ==
  /\ running \in BOOLEAN /\ blocked \in BOOLEAN
  /\ thread \in {"none", "loop", "waiting", "woken", "clearing", "callback", "notify", "exited"}
  /\ owner \in {"created", "running", "failed", "killing", "joining", "stopped"}
  /\ signals \subseteq {"process", "thread"}

Init ==
  /\ running = FALSE /\ thread = "none" /\ owner = "created"
  /\ blocked = FALSE /\ signals = {}

\* Someone sends SIGINT or SIGTERM to the process that blocks them.
Raise ==
  /\ blocked
  /\ signals' = signals \cup {"process"}
  /\ UNCHANGED <<running, thread, owner, blocked>>

-----------------------------------------------------------------------------
(* The owner: start() and stop().                                          *)

Start ==
  /\ owner = "created" /\ owner' = "running"
  /\ running' = TRUE /\ blocked' = TRUE /\ thread' = "loop"
  /\ UNCHANGED signals

\* pthread_sigmask fails, or the thread cannot be created: then running_ stays
\* set and the signals stay blocked.
StartFails ==
  /\ owner = "created" /\ owner' = "failed"
  /\ \/ UNCHANGED <<running, blocked>>
     \/ running' = TRUE /\ blocked' = TRUE
  /\ UNCHANGED <<thread, signals>>

\* running_.exchange(false) decides whether the thread has to be woken.
Stop ==
  /\ owner \in {"running", "failed"}
  /\ owner' = IF running /\ thread # "none" THEN "killing" ELSE "joining"
  /\ running' = FALSE
  /\ UNCHANGED <<thread, blocked, signals>>

\* Mutant: the signal thread is not woken.
Kill_Forgotten ==
  /\ owner = "killing" /\ owner' = "joining"
  /\ UNCHANGED <<running, thread, blocked, signals>>

\* pthread_kill(); a thread that has left takes no signal.
Kill ==
  /\ owner = "killing" /\ owner' = "joining"
  /\ signals' = IF thread = "exited" THEN signals ELSE signals \cup {"thread"}
  /\ UNCHANGED <<running, thread, blocked>>

\* Mutant: the thread is detached.
Join_Detached ==
  /\ owner = "joining" /\ owner' = "stopped"
  /\ UNCHANGED <<running, thread, blocked, signals>>

Join ==
  /\ owner = "joining" /\ thread \in {"none", "exited"}
  /\ owner' = "stopped"
  /\ UNCHANGED <<running, thread, blocked, signals>>

-----------------------------------------------------------------------------
(* The signal thread: thread_main().                                       *)

Loop ==
  /\ thread = "loop"
  /\ thread' = IF running THEN "waiting" ELSE "exited"
  /\ UNCHANGED <<running, owner, blocked, signals>>

SigWait ==
  /\ thread = "waiting"
  /\ \E s \in signals : signals' = signals \ {s}
  /\ thread' = "woken"
  /\ UNCHANGED <<running, owner, blocked>>

\* running_ is looked at again after sigwait().
Woken ==
  /\ thread = "woken"
  /\ thread' = IF running THEN "clearing" ELSE "loop"
  /\ UNCHANGED <<running, owner, blocked, signals>>

Clear ==
  /\ thread = "clearing" /\ thread' = "callback"
  /\ running' = FALSE
  /\ UNCHANGED <<owner, blocked, signals>>

\* callback_ is one critical section and a notification after it.
Callback ==
  /\ thread = "callback" /\ thread' = "notify"
  /\ UNCHANGED <<running, owner, blocked, signals>>

CallbackNotify ==
  /\ thread = "notify" /\ thread' = "exited"
  /\ UNCHANGED <<running, owner, blocked, signals>>

Thread == Loop \/ SigWait \/ Woken \/ Clear
OwnerStops == Stop \/ Kill \/ Join
=============================================================================
