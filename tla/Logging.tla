------------------------------- MODULE Logging -------------------------------
(***************************************************************************)
(* The logger and its providers (Include/Log) when several threads log at  *)
(* the same time: the logger drops what no provider wants, each provider   *)
(* drops what is below its own level, and the console provider writes a    *)
(* message in four pieces under a lock or, when it is of level trace or    *)
(* debug, in one piece without it.                                         *)
(***************************************************************************)
EXTENDS Integers, Sequences, SequencesExt

CONSTANTS
  Threads,   \* threads that log
  Providers, \* the log providers, in the logger's order
  Console,   \* ConsoleLogProvider, one of them; the others are the user's
  MaxLogs    \* bound: messages of one thread

Trace       == 0
Debug       == 1
Information == 2
None        == 6
Levels      == Trace..None

LogProviders == {Providers[n] : n \in DOMAIN Providers}
Pieces       == <<"color", "head", "reset", "tail">>

ASSUME LoggingAssumption ==
  /\ Providers \in Seq(LogProviders)
  /\ \A m, n \in DOMAIN Providers : Providers[m] = Providers[n] => m = n
  /\ MaxLogs \in Nat

VARIABLES
  level,    \* level of every provider
  mutex,    \* threads that hold the console provider's lock
  said,     \* levels of the messages every thread has logged
  next,     \* the provider a thread's log() is at
  piece,    \* the piece a thread is to write next, 0 without the lock
  written,  \* pieces on the console
  received  \* messages every provider has written

logVars == <<level, mutex, said, next, piece, written, received>>

Messages == Threads \X (1..MaxLogs)

-----------------------------------------------------------------------------
(* Mutation: the logger takes the highest level of its providers. *)
LoggerLevelMax ==
  CHOOSE l \in {Information} \union {level[p] : p \in LogProviders} :
    l >= Information /\ \A p \in LogProviders : l >= level[p]

(* Logger::setLogLevel: the lowest level of the providers and Information. *)
LoggerLevel ==
  CHOOSE l \in {Information} \union {level[p] : p \in LogProviders} :
    l <= Information /\ \A p \in LogProviders : l <= level[p]

Takes(p, l) == l >= level[p] /\ l # None

Logged(t)  == next[t] > Len(Providers)
Message(t) == <<t, Len(said[t])>>

(* Logger::log *)
Log(t, l) ==
  /\ Logged(t) /\ Len(said[t]) < MaxLogs
  /\ said' = [said EXCEPT ![t] = Append(@, l)]
  /\ next' = IF l < LoggerLevel THEN next ELSE [next EXCEPT ![t] = 1]
  /\ UNCHANGED <<level, mutex, piece, written, received>>

(* The message m of thread t is at provider p. *)
At(t, p) == ~Logged(t) /\ piece[t] = 0 /\ Providers[next[t]] = p

Advance(t) == next' = [next EXCEPT ![t] = @ + 1]

Receive(t, p) == received' = [received EXCEPT ![p] = @ \union {Message(t)}]

(* LogProviderBase::log: below the provider's level. *)
Skip(t, p) ==
  /\ At(t, p) /\ ~Takes(p, Last(said[t]))
  /\ Advance(t)
  /\ UNCHANGED <<level, mutex, said, piece, written, received>>

Write(t, p) ==
  /\ At(t, p) /\ Takes(p, Last(said[t]))
  /\ p # Console
  /\ Receive(t, p) /\ Advance(t)
  /\ UNCHANGED <<level, mutex, said, piece, written>>

(* ConsoleLogProvider::logImpl *)
WriteWhole(t) ==
  /\ At(t, Console) /\ Takes(Console, Last(said[t]))
  /\ Last(said[t]) <= Debug
  /\ written' = Append(written, <<Message(t), "whole">>)
  /\ Receive(t, Console) /\ Advance(t)
  /\ UNCHANGED <<level, mutex, said, piece>>

(* Mutation: each thread locks a mutex of its own. *)
LockOwn(t) ==
  /\ At(t, Console) /\ Takes(Console, Last(said[t]))
  /\ Last(said[t]) > Debug
  /\ mutex' = mutex \union {t}
  /\ piece' = [piece EXCEPT ![t] = 1]
  /\ UNCHANGED <<level, said, next, written, received>>

Lock(t) ==
  /\ At(t, Console) /\ Takes(Console, Last(said[t]))
  /\ Last(said[t]) > Debug
  /\ mutex = {}
  /\ mutex' = {t}
  /\ piece' = [piece EXCEPT ![t] = 1]
  /\ UNCHANGED <<level, said, next, written, received>>

WritePiece(t) ==
  /\ piece[t] \in 1..3
  /\ written' = Append(written, <<Message(t), Pieces[piece[t]]>>)
  /\ piece' = [piece EXCEPT ![t] = @ + 1]
  /\ UNCHANGED <<level, mutex, said, next, received>>

(* Mutation: the lock is kept. *)
WriteTailLocked(t) ==
  /\ piece[t] = 4
  /\ written' = Append(written, <<Message(t), Pieces[piece[t]]>>)
  /\ piece' = [piece EXCEPT ![t] = 0]
  /\ Receive(t, Console) /\ Advance(t)
  /\ UNCHANGED <<level, mutex, said>>

WriteTail(t) ==
  /\ piece[t] = 4
  /\ written' = Append(written, <<Message(t), Pieces[piece[t]]>>)
  /\ piece' = [piece EXCEPT ![t] = 0]
  /\ mutex' = mutex \ {t}
  /\ Receive(t, Console) /\ Advance(t)
  /\ UNCHANGED <<level, said>>

-----------------------------------------------------------------------------
LogInit ==
  /\ level = [p \in LogProviders |-> Information]
  /\ mutex = {}
  /\ said = [t \in Threads |-> <<>>]
  /\ next = [t \in Threads |-> Len(Providers) + 1]
  /\ piece = [t \in Threads |-> 0]
  /\ written = <<>>
  /\ received = [p \in LogProviders |-> {}]

LogStep(t) ==
  \/ \E p \in LogProviders : Skip(t, p) \/ Write(t, p)
  \/ WriteWhole(t) \/ Lock(t) \/ WritePiece(t) \/ WriteTail(t)

LogNext == \E t \in Threads : LogStep(t) \/ \E l \in Levels : Log(t, l)

-----------------------------------------------------------------------------
LogTypeOK ==
  /\ level \in [LogProviders -> Levels]
  /\ mutex \subseteq Threads
  /\ said \in [Threads -> Seq(Levels)]
  /\ next \in [Threads -> 1..(Len(Providers) + 1)]
  /\ piece \in [Threads -> 0..4]
  /\ written \in Seq(Messages \X {"color", "head", "reset", "tail", "whole"})
  /\ received \in [LogProviders -> SUBSET Messages]

(* A message reaches exactly the providers whose level it has, although    *)
(* the logger drops messages before any provider sees them.                *)
Delivered ==
  \A t \in Threads : \A n \in DOMAIN said[t] :
    n < Len(said[t]) \/ Logged(t) =>
      \A p \in LogProviders : <<t, n>> \in received[p] <=> Takes(p, said[t][n])

(* Between the pieces of a message that is written under the lock there    *)
(* are pieces of messages written without it at most.                      *)
LinesWhole ==
  \A i, k \in DOMAIN written : \A j \in i..k :
    written[i][1] = written[k][1] =>
      written[j][1] = written[i][1] \/ written[j][2] = "whole"

(* Every log() returns. *)
LogReturns == \A t \in Threads : ~Logged(t) ~> Logged(t)
=============================================================================
