------------------------------- MODULE Hosting -------------------------------
(***************************************************************************)
(* An application is set up and built: the configuration, or what of it    *)
(* was loaded, decides the server's settings                               *)
(* (Include/Services/ServerSettingsProvider.hpp) and the levels of the log *)
(* providers, once; then threads log.                                      *)
(***************************************************************************)
EXTENDS Configuration, Logging

CONSTANTS
  UserThreads,  \* numbers of threads the user may set
  UserUrls,     \* numbers of URLs the user may set
  Hardware      \* std::thread::hardware_concurrency()

(* Values: text that is a number n for atoi, numbers as the JSON parser or *)
(* the user makes them, lists of n strings, and the object "Logging" with  *)
(* the texts of the providers' levels.                                     *)
Unset    == -1
NoString == -2
Texts    == Levels \union {Unset, NoString}

(* uint16_t, the type of a number of threads. *)
UInt16 == 0..(2^16 - 1)

ASSUME HostingAssumption ==
  /\ Keys = {"url", "threadsNumber", "Logging"}
  /\ Absent \notin Values
  /\ \A v \in Values :
       \/ v.kind \in {"string", "signed", "unsigned"} /\ v.n \in Int
       \/ v.kind = "array" /\ v.n \in Nat
       \/ v.kind = "object" /\ v.own \in [LogProviders -> Texts] /\ v.common \in Texts
       \/ v.kind = "other"
  /\ UserThreads \subseteq UInt16
  /\ UserUrls \subseteq Nat
  /\ Hardware \in UInt16

VARIABLES
  phase,     \* "setup", "built" or "failed", "running"
  settings   \* ServerSettings: the number of threads and where its URLs are from

vars == <<confVars, logVars, phase, settings>>

Unsettled == [threads |-> 0, urls |-> "none", user |-> 0]

-----------------------------------------------------------------------------
(* ServerSettingsProvider *)

(* Mutation: a signed byte. *)
Narrow8(n) == ((n + 128) % 256) - 128

(* Mutation: the int is kept. *)
NarrowNot(n) == n

(* int, then uint16_t. *)
Narrow(n) == n % 2^16

NumberFrom(v) ==
  IF v = Absent THEN {0}
  ELSE IF v.kind \in {"signed", "string"} THEN {Narrow(v.n)} ELSE {}

(* tryGetThreadsNumberFromConfig and the hardware's number; no number when *)
(* get_signed or get_string throws: the parser makes numbers that are not  *)
(* negative unsigned.                                                      *)
ThreadsFrom(n) ==
  IF n >= 1 THEN {n}
  ELSE {IF m >= 1 THEN m ELSE Narrow(IF Hardware >= 1 THEN Hardware ELSE 1) :
          m \in NumberFrom(conf["threadsNumber"])}

(* setUrls; get_string of a list throws, and of anything but a string.     *)
UrlsFrom(n) ==
  IF n > 0 THEN {"user"}
  ELSE IF conf["url"] = Absent THEN {"default"}
  ELSE IF conf["url"].kind = "string" THEN {"configured"}
  ELSE IF conf["url"].kind = "array" /\ conf["url"].n = 0 THEN {"default"} ELSE {}

(* LogProviderBase::getLogLevelFromConfig *)
LevelFrom(p) ==
  LET v == conf["Logging"]
  IN  IF v = Absent THEN Information
      ELSE IF v.kind # "object" THEN NoString
      ELSE IF v.own[p] # Unset THEN v.own[p]
      ELSE IF v.common # Unset THEN v.common ELSE Information

(* EngineDependencies resolves the logger, which has all providers made,   *)
(* and the settings.                                                       *)
BuildApplication(threads, urls) ==
  /\ phase = "setup" /\ ~loading
  /\ \A p \in LogProviders : LevelFrom(p) # NoString
  /\ \E n \in ThreadsFrom(threads), u \in UrlsFrom(urls) :
       settings' = [threads |-> n, urls |-> u, user |-> threads]
  /\ level' = [p \in LogProviders |-> LevelFrom(p)]
  /\ phase' = "built"
  /\ UNCHANGED <<confVars, mutex, said, next, piece, written, received>>

(* Of the set-up only the levels count when it is over; the model forgets  *)
(* the rest.                                                               *)
Forget ==
  /\ environment' = Production /\ files' = [f \in Files |-> Missing]
  /\ sources' = <<>> /\ providers' = <<>> /\ conf' = Nothing
  /\ merged' = 0 /\ direct' = {} /\ loading' = FALSE /\ edits' = 0 /\ loads' = 0
  /\ settings' = Unsettled
  /\ UNCHANGED logVars

BuildFails(threads, urls) ==
  /\ phase = "setup" /\ ~loading
  /\ \/ \E p \in LogProviders : LevelFrom(p) = NoString
     \/ ThreadsFrom(threads) = {}
     \/ UrlsFrom(urls) = {}
  /\ phase' = "failed"
  /\ Forget

(* run(): threads begin to log. *)
Run ==
  /\ phase = "built"
  /\ phase' = "running"
  /\ Forget

-----------------------------------------------------------------------------
Init ==
  /\ ConfInit
  /\ LogInit
  /\ phase = "setup"
  /\ settings = Unsettled

Configure == phase = "setup" /\ ConfNext /\ UNCHANGED <<logVars, phase, settings>>

Serve == phase = "running" /\ LogNext /\ UNCHANGED <<confVars, phase, settings>>

Next ==
  \/ Configure
  \/ \E n \in UserThreads, u \in UserUrls : BuildApplication(n, u) \/ BuildFails(n, u)
  \/ Run \/ Serve

Spec == Init /\ [][Next]_vars

(* A thread that is in log() goes on, if the lock it waits for is free.    *)
FairSpec ==
  /\ Spec
  /\ \A t \in Threads : WF_vars(LogStep(t) /\ UNCHANGED <<confVars, phase, settings>>)

-----------------------------------------------------------------------------
TypeOK ==
  /\ ConfTypeOK
  /\ LogTypeOK
  /\ phase \in {"setup", "built", "failed", "running"}
  /\ settings \in [threads : UInt16, user : UserThreads \union {0},
                   urls : {"none", "user", "configured", "default"}]

(* A built application has at least one thread, and exactly as many as the *)
(* user set or else, when 16 bits hold it, the configuration says.         *)
SettingsAsConfigured ==
  phase = "built" =>
    /\ settings.threads >= 1
    /\ IF settings.user >= 1 THEN settings.threads = settings.user
       ELSE \A v \in Values :
              v = conf["threadsNumber"] /\ v.kind \in {"string", "signed"} /\ v.n \in UInt16 \ {0}
                => settings.threads = v.n
=============================================================================
