------------------------------- MODULE Logger -------------------------------
(***************************************************************************)
(* Calculator::Logger: one logger for the process, without a lock, created *)
(* by init() or, at the default path, by the first message.  The file is   *)
(* truncated when it is opened.                                            *)
(***************************************************************************)
CONSTANT None
VARIABLE logger    \* the file logger_ writes to, or None

TypeOK == logger \in {None, "default", "configured"}

Init == logger = None

\* init(); it returns at once when there is a logger.
Create(file) == logger' = IF logger = None THEN file ELSE logger

\* Any message: logger() creates what it needs.
Log == Create("default")

Shutdown == logger' = None
=============================================================================
