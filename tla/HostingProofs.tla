---------------------------- MODULE HostingProofs ----------------------------
(***************************************************************************)
(* Proofs about Hosting, for every set of keys, values, sources, files,    *)
(* log providers and threads, and every bound: which source wins, which    *)
(* settings an application has, who receives a message, and that lines     *)
(* stay whole.                                                             *)
(***************************************************************************)
EXTENDS Hosting, SequenceTheorems, TLAPS

-----------------------------------------------------------------------------
(* The configuration. *)

CInv == ConfTypeOK /\ FirstSourceWins

LEMMA MergeType ==
  ASSUME NEW c \in Contents, NEW d \in Contents
  PROVE  MergeMaps(c, d) \in Contents
BY DEF MergeMaps, Contents

LEMMA Constants ==
  /\ EnvVars \subseteq Contents /\ CliVars \subseteq Contents /\ Settings \subseteq Contents
  /\ FileStates \subseteq FileKinds
  /\ Absent \notin Values /\ Absent \notin Names
  /\ MaxSources \in Nat /\ MaxEdits \in Nat /\ MaxLoads \in Nat
BY ConfigurationAssumption

LEMMA StartNames ==
  ASSUME NEW start \in Starts
  PROVE  StartName(start) \in Names
<1>1. start \in [option : Names \union {Absent}, cli : Names \union {Absent},
                var : Names \union {Absent}]
      /\ Production \in Names
  BY ConfigurationAssumption
<1>2. QED
  BY <1>1 DEF StartName

LEMMA NothingType == Nothing \in Contents
BY DEF Nothing, Contents

LEMMA LoadsType ==
  ASSUME ConfTypeOK, NEW source \in Sources, NEW data \in Loads(source)
  PROVE  data \in Contents
<1> USE DEF ConfTypeOK
<1>1. CASE source.kind \in {"json", "variables"}
  <2>1. source.content \in Contents
    <3>1. CASE source \in {Json(c) : c \in Settings}
      BY <3>1, Constants DEF Json
    <3>2. CASE source \in {Variables(c, clash) : c \in EnvVars \union CliVars, clash \in BOOLEAN}
      BY <3>2, Constants DEF Variables
    <3>3. QED
      BY <1>1, <3>1, <3>2 DEF Sources
  <2>2. QED
    BY <1>1, <2>1 DEF Loads
<1>2. CASE source.kind = "appsettings"
  <2>1. source.name \in Names
    BY <1>2 DEF Sources, Json, Variables
  <2>2. files[Base] \in FileKinds /\ files[source.name] \in FileKinds
    BY <2>1 DEF Files
  <2>3. files[Base].content \in Contents /\ files[source.name].content \in Contents
    BY <2>2 DEF FileKinds
  <2>4. data = MergeMaps(files[Base].content, files[source.name].content)
    BY <1>2 DEF Loads
  <2>5. QED
    BY <2>3, <2>4, MergeType
<1>3. CASE source.kind = "file"
  <2>1. files[UserFile] \in FileKinds
    BY DEF Files
  <2>2. data = files[UserFile].content
    BY <1>3 DEF Loads
  <2>3. QED
    BY <2>1, <2>2 DEF FileKinds
<1>4. source.kind \in {"json", "variables", "appsettings", "file"}
  BY DEF Sources, Json, Variables
<1>5. QED
  BY <1>1, <1>2, <1>3, <1>4

(* Nothing is merged yet. *)
LEMMA Cleared ==
  ASSUME conf = Nothing, merged = 0
  PROVE  FirstSourceWins
<1>1. \A k \in Keys : conf[k] = Absent
  BY DEF Nothing
<1>2. \A k \in Keys : Having(k) = {}
  BY DEF Having
<1>3. QED
  BY <1>1, <1>2 DEF FirstSourceWins

LEMMA ConfInitOK == ConfInit => CInv
<1> SUFFICES ASSUME ConfInit PROVE CInv
  OBVIOUS
<1>1. PICK start \in Starts, v \in EnvVars, c \in CliVars, clash \in BOOLEAN :
        /\ environment = StartName(start)
        /\ sources = <<[kind |-> "appsettings", name |-> StartName(start)],
                       Variables(v, FALSE), Variables(c, clash)>>
  BY DEF ConfInit
<1>2. StartName(start) \in Names
  BY StartNames
<1>3. sources \in Seq(Sources)
  <2>1. [kind |-> "appsettings", name |-> StartName(start)] \in Sources
    BY <1>2 DEF Sources
  <2>2. Variables(v, FALSE) \in Sources /\ Variables(c, clash) \in Sources
    <3>1. \A x \in EnvVars \union CliVars, b \in BOOLEAN : Variables(x, b) \in Sources
      BY DEF Sources, Variables
    <3>2. v \in EnvVars \union CliVars /\ c \in EnvVars \union CliVars
      OBVIOUS
    <3>3. QED
      BY <3>1, <3>2
  <2> DEFINE first == [kind |-> "appsettings", name |-> StartName(start)]
             second == Variables(v, FALSE)
             third == Variables(c, clash)
  <2>3. sources = <<first, second, third>>
    BY <1>1
  <2>4. first \in Sources /\ second \in Sources /\ third \in Sources
    BY <2>1, <2>2
  <2> HIDE DEF first, second, third
  <2>5. QED
    BY <2>3, <2>4
<1>4. /\ providers = <<>> /\ conf = Nothing /\ merged = 0 /\ direct = {} /\ loading = FALSE
      /\ files = [f \in Files |-> Missing] /\ edits = 0 /\ loads = 0
  BY DEF ConfInit
<1>5. files \in [Files -> FileKinds]
  BY <1>4, NothingType DEF Missing, FileKinds
<1>6. ConfTypeOK
  <2>1. providers \in Seq([source : Sources, data : Contents]) /\ merged \in 0..Len(providers)
    BY <1>4
  <2>2. environment \in Names /\ conf \in Contents
    BY <1>1, <1>2, <1>4, NothingType
  <2>3. loading \in BOOLEAN /\ edits \in 0..MaxEdits /\ loads \in 0..MaxLoads
    <3>1. 0 \in 0..MaxEdits /\ 0 \in 0..MaxLoads
      BY Constants
    <3>2. QED
      BY <1>4, <3>1
  <2>4. QED
    BY <1>3, <1>4, <1>5, <2>1, <2>2, <2>3 DEF ConfTypeOK
<1>7. FirstSourceWins
  BY <1>4, Cleared
<1>8. QED
  BY <1>6, <1>7 DEF CInv

LEMMA Same ==
  ASSUME CInv, UNCHANGED <<providers, conf, merged, direct>>
  PROVE  FirstSourceWins'
BY DEF CInv, FirstSourceWins, Having

(* A provider more. *)
LEMMA LoadNextOK ==
  ASSUME CInv, LoadNext
  PROVE  CInv'
<1> DEFINE n == merged + 1
<1>1. /\ n \in 1..Len(providers) /\ merged' = n /\ merged \in Nat
      /\ UNCHANGED <<environment, sources, direct, loading, files, edits, loads>>
  BY DEF LoadNext, CInv, ConfTypeOK
<1>2. PICK data \in Loads(providers[n].source) :
        providers' = [providers EXCEPT ![n].data = data] /\ conf' = MergeMaps(conf, data)
  BY DEF LoadNext
<1>3. /\ providers \in Seq([source : Sources, data : Contents]) /\ conf \in Contents
      /\ providers[n] \in [source : Sources, data : Contents]
  <2> DEFINE P == [source : Sources, data : Contents]
  <2>1. providers \in Seq(P) /\ conf \in Contents
    BY DEF CInv, ConfTypeOK
  <2> HIDE DEF P
  <2>2. providers[n] \in P
    BY <1>1, <2>1
  <2>3. QED
    BY <2>1, <2>2 DEF P
<1>4. data \in Contents
  BY <1>3, LoadsType DEF CInv
<1> HIDE DEF n
<1>5. /\ providers' \in Seq([source : Sources, data : Contents])
      /\ Len(providers') = Len(providers)
      /\ \A m \in 1..Len(providers) : m # n => providers'[m] = providers[m]
      /\ providers'[n].data = data
  BY <1>1, <1>2, <1>3, <1>4
<1>6. ConfTypeOK'
  BY <1>1, <1>2, <1>3, <1>4, <1>5, MergeType DEF CInv, ConfTypeOK
<1>7. ASSUME NEW k \in Keys \ direct
      PROVE  IF Having(k)' = {} THEN conf'[k] = Absent
             ELSE \E m \in Having(k)' :
                    /\ \A x \in Having(k)' : m <= x
                    /\ conf'[k] = (providers')[m].data[k]
  <2>1. Having(k)' = Having(k) \union (IF data[k] # Absent THEN {n} ELSE {})
    BY <1>1, <1>5 DEF Having, n, CInv, ConfTypeOK
  <2>2. conf'[k] = IF conf[k] # Absent THEN conf[k] ELSE data[k]
    BY <1>2 DEF MergeMaps
  <2>3. \A m \in Having(k) : m \in Nat /\ m < n /\ (providers')[m].data[k] # Absent
                             /\ (providers')[m] = providers[m]
    BY <1>1, <1>5 DEF Having, n, CInv, ConfTypeOK
  <2>4. CASE Having(k) = {}
    <3>1. conf[k] = Absent
      BY <2>4 DEF CInv, FirstSourceWins
    <3>2. QED
      BY <1>1, <1>5, <2>1, <2>2, <2>4, <3>1
  <2>5. CASE Having(k) # {}
    <3>1. PICK m \in Having(k) : /\ \A x \in Having(k) : m <= x
                                 /\ conf[k] = providers[m].data[k]
      BY <2>5 DEF CInv, FirstSourceWins
    <3>2. conf'[k] = (providers')[m].data[k]
      BY <2>2, <2>3, <3>1
    <3>3. m \in Having(k)' /\ \A x \in Having(k)' : m <= x
      BY <1>1, <2>1, <2>3, <3>1
    <3>4. QED
      BY <3>2, <3>3
  <2>6. QED
    BY <2>4, <2>5
<1>8. FirstSourceWins'
  BY <1>1, <1>7 DEF FirstSourceWins
<1>9. QED
  BY <1>6, <1>8 DEF CInv

LEMMA ConfStep == CInv /\ [ConfNext]_confVars => CInv'
<1> SUFFICES ASSUME CInv, [ConfNext]_confVars PROVE CInv'
  OBVIOUS
<1> USE DEF CInv
<1>1. CASE UNCHANGED confVars
  BY <1>1, Same DEF confVars, ConfTypeOK
<1>2. ASSUME NEW name \in Names, UseEnvironment(name) PROVE CInv'
  BY <1>2, Same DEF UseEnvironment, ConfTypeOK
<1>3. ASSUME NEW source \in Sources, AddSource(source) PROVE CInv'
  <2>1. sources' \in Seq(Sources)
    BY <1>3 DEF AddSource, ConfTypeOK
  <2>2. QED
    BY <1>3, <2>1, Same DEF AddSource, ConfTypeOK
<1>4. CASE Reload
  <2>1. FirstSourceWins'
    <3>1. \A k \in Keys : Having(k)' = {} /\ conf'[k] = Absent
      BY <1>4 DEF Reload, Having, Nothing
    <3>2. QED
      BY <3>1 DEF FirstSourceWins
  <2>2. ConfTypeOK'
    BY <1>4, NothingType, Constants DEF Reload, ConfTypeOK
  <2>3. QED
    BY <2>1, <2>2
<1>5. CASE Build
  <2>1. FirstSourceWins'
    <3>1. \A k \in Keys : Having(k)' = {} /\ conf'[k] = Absent
      BY <1>5 DEF Build, Having, Nothing
    <3>2. QED
      BY <3>1 DEF FirstSourceWins
  <2>2. providers' \in Seq([source : Sources, data : Contents])
    <3>1. \A n \in 1..Len(sources) : Provider(sources[n]) \in [source : Sources, data : Contents]
      BY NothingType DEF Provider, ConfTypeOK
    <3>2. providers' = [n \in 1..Len(sources) |-> Provider(sources[n])] /\ Len(sources) \in Nat
      BY <1>5 DEF Build, ConfTypeOK
    <3> HIDE DEF Provider
    <3>3. QED
      BY <3>1, <3>2
  <2>3. ConfTypeOK'
    BY <1>5, <2>2, NothingType, Constants DEF Build, ConfTypeOK
  <2>4. QED
    BY <2>1, <2>3
<1>6. CASE LoadThrows \/ LoadEnds
  BY <1>6, Same DEF LoadThrows, LoadEnds, ConfTypeOK
<1>7. ASSUME NEW f \in Files, NEW state \in FileStates, EditFile(f, state) PROVE CInv'
  <2>1. state \in FileKinds
    BY Constants
  <2>2. ConfTypeOK'
    BY <1>7, <2>1, Constants DEF EditFile, ConfTypeOK
  <2>3. QED
    BY <1>7, <2>2, Same DEF EditFile
<1>8. ASSUME NEW w \in Writes, Assign(w.key, w.value) PROVE CInv'
  <2>1. w.key \in Keys /\ w.value \in Values \union {Absent}
    BY ConfigurationAssumption
  <2>2. /\ conf' = [conf EXCEPT ![w.key] = w.value] /\ direct' = direct \union {w.key}
        /\ UNCHANGED <<environment, sources, providers, merged, loading, files, edits, loads>>
    BY <1>8 DEF Assign
  <2>3. ConfTypeOK'
    BY <2>1, <2>2 DEF ConfTypeOK, Contents
  <2>4. \A k \in Keys \ direct' : k \in Keys \ direct /\ conf'[k] = conf[k] /\ Having(k)' = Having(k)
    BY <2>1, <2>2 DEF ConfTypeOK, Contents, Having
  <2>5. FirstSourceWins'
    BY <2>2, <2>4 DEF FirstSourceWins
  <2>6. QED
    BY <2>3, <2>5
<1>9. \A c \in Settings : Json(c) \in Sources
  BY DEF Sources
<1>10. \A optional \in BOOLEAN : [kind |-> "file", optional |-> optional] \in Sources
  BY DEF Sources
<1>11. QED
  BY <1>1, <1>2, <1>3, <1>4, <1>5, <1>6, <1>7, <1>8, <1>9, <1>10, LoadNextOK DEF ConfNext


-----------------------------------------------------------------------------
(* Logging. *)

(* The message that t is logging has been at p. *)
Passed(t, p) == \E m \in 1..(next[t] - 1) : Providers[m] = p

(* What a thread in log() is about. *)
Calling ==
  \A t \in Threads :
    /\ Len(said[t]) <= MaxLogs
    /\ ~Logged(t) => said[t] # <<>>
    /\ piece[t] > 0 => /\ ~Logged(t) /\ Providers[next[t]] = Console
                       /\ Takes(Console, Last(said[t]))

(* Who writes pieces has the lock, and has it alone. *)
Locked ==
  /\ \A t \in Threads : piece[t] > 0 <=> t \in mutex
  /\ \A t, u \in mutex : t = u

(* What is received: nothing of messages to come, of the last one what it  *)
(* has passed.                                                             *)
Received ==
  \A t \in Threads, p \in LogProviders, n \in 1..MaxLogs :
    /\ n > Len(said[t]) => <<t, n>> \notin received[p]
    /\ n <= Len(said[t]) =>
         (<<t, n>> \in received[p] <=>
            Takes(p, said[t][n]) /\ (n = Len(said[t]) => Passed(t, p)))

(* The console has nothing of messages to come, of the last one no more    *)
(* than it was given, and since its first piece nothing else but whole     *)
(* messages.                                                               *)
Begun ==
  \A i \in DOMAIN written, t \in Threads, n \in 1..MaxLogs :
    written[i][1] = <<t, n>> =>
      /\ n <= Len(said[t])
      /\ n = Len(said[t]) => piece[t] > 1 \/ Passed(t, Console)

Since(m) ==
  \A i \in DOMAIN written : written[i][1] = m =>
    \A j \in i..Len(written) : written[j][1] = m \/ written[j][2] = "whole"

Unbroken == \A t \in Threads : piece[t] > 0 => Since(Message(t))

LInv == LogTypeOK /\ Calling /\ Locked /\ Received /\ Begun /\ Unbroken /\ LinesWhole

Lines == Messages \X {"color", "head", "reset", "tail", "whole"}

LEMMA ProvidersSeq ==
  /\ Providers \in Seq(LogProviders) /\ Len(Providers) \in Nat /\ MaxLogs \in Nat
  /\ DOMAIN Providers = 1..Len(Providers)
  /\ \A m, n \in 1..Len(Providers) : Providers[m] = Providers[n] => m = n
  /\ \A p \in LogProviders : \E n \in 1..Len(Providers) : Providers[n] = p
BY LoggingAssumption DEF LogProviders

LEMMA Appended ==
  ASSUME NEW S, NEW s \in Seq(S), NEW e \in S
  PROVE  /\ Append(s, e) \in Seq(S) /\ Len(s) \in Nat
         /\ DOMAIN s = 1..Len(s) /\ DOMAIN Append(s, e) = 1..Len(s) + 1
         /\ Len(Append(s, e)) = Len(s) + 1
         /\ Append(s, e)[Len(s) + 1] = e
         /\ \A i \in 1..Len(s) : Append(s, e)[i] = s[i]
  OBVIOUS

LEMMA LogInitOK == LogInit => LInv
<1> SUFFICES ASSUME LogInit PROVE LInv
  OBVIOUS
<1>1. /\ level = [p \in LogProviders |-> Information] /\ mutex = {}
      /\ said = [t \in Threads |-> <<>>] /\ next = [t \in Threads |-> Len(Providers) + 1]
      /\ piece = [t \in Threads |-> 0] /\ written = <<>>
      /\ received = [p \in LogProviders |-> {}]
  BY DEF LogInit
<1>2. LogTypeOK
  BY <1>1, ProvidersSeq DEF LogTypeOK, Levels, Information, Trace, None
<1>3. Calling /\ Locked
  BY <1>1, ProvidersSeq DEF Calling, Locked, Logged
<1>4. Received
  BY <1>1, ProvidersSeq DEF Received
<1>5. DOMAIN written = {}
  BY <1>1
<1>6. Begun /\ LinesWhole /\ Unbroken
  BY <1>1, <1>5 DEF Begun, LinesWhole, Unbroken
<1>7. QED
  BY <1>2, <1>3, <1>4, <1>6 DEF LInv

(* A step of the message to the next provider. *)
LEMMA PassedNext ==
  ASSUME LogTypeOK, NEW t \in Threads, ~Logged(t), next' = [next EXCEPT ![t] = @ + 1]
  PROVE  /\ next[t] \in 1..Len(Providers)
         /\ \A u \in Threads, q \in LogProviders :
              Passed(u, q)' <=> Passed(u, q) \/ (u = t /\ q = Providers[next[t]])
         /\ ~Passed(t, Providers[next[t]])
         /\ \A u \in Threads : u # t => (Logged(u)' <=> Logged(u))
         /\ next' \in [Threads -> 1..(Len(Providers) + 1)]
<1>1. next[t] \in 1..Len(Providers) /\ next \in [Threads -> 1..(Len(Providers) + 1)]
  BY ProvidersSeq DEF LogTypeOK, Logged
<1>2. \A u \in Threads : next'[u] = IF u = t THEN next[t] + 1 ELSE next[u]
  BY <1>1
<1>3. ASSUME NEW q \in LogProviders
      PROVE  Passed(t, q)' <=> Passed(t, q) \/ q = Providers[next[t]]
  <2>1. 1..(next'[t] - 1) = 1..(next[t] - 1) \union {next[t]}
    BY <1>1, <1>2
  <2>2. QED
    BY <2>1 DEF Passed
<1>4. \A u \in Threads, q \in LogProviders : u # t => (Passed(u, q)' <=> Passed(u, q))
  BY <1>2 DEF Passed
<1>5. ~Passed(t, Providers[next[t]])
  BY <1>1, ProvidersSeq DEF Passed
<1>6. \A u \in Threads : u # t => (Logged(u)' <=> Logged(u))
  BY <1>2 DEF Logged
<1>7. next' \in [Threads -> 1..(Len(Providers) + 1)]
  BY <1>1, ProvidersSeq
<1>8. QED
  BY <1>1, <1>3, <1>4, <1>5, <1>6, <1>7

(* It has been at every provider when log() has returned. *)
LEMMA PassedAll ==
  ASSUME LogTypeOK, NEW t \in Threads, Logged(t), NEW p \in LogProviders
  PROVE  Passed(t, p)
<1>1. next[t] = Len(Providers) + 1
  <2>1. next[t] \in 1..(Len(Providers) + 1)
    BY DEF LogTypeOK
  <2>2. QED
    BY <2>1, ProvidersSeq DEF Logged
<1>2. QED
  BY <1>1, ProvidersSeq DEF Passed

(* The logger's level is the lowest. *)
LEMMA LoggerLevelLowest ==
  ASSUME level \in [LogProviders -> Levels], NEW p \in LogProviders
  PROVE  LoggerLevel <= level[p] /\ level[p] \in Int /\ LoggerLevel \in Int
<1> DEFINE L == {Information} \union {level[q] : q \in LogProviders}
<1>1. L \subseteq 0..6 /\ 2 \in L
  BY DEF Levels, Information, Trace, None
<1>2. \E l \in L : \A x \in L : l <= x
  <2>1. CASE 0 \in L
    BY <1>1, <2>1
  <2>2. CASE 0 \notin L /\ 1 \in L
    BY <1>1, <2>2
  <2>3. CASE 0 \notin L /\ 1 \notin L
    BY <1>1, <2>3
  <2>4. QED
    BY <2>1, <2>2, <2>3
<1>3. \E l \in L : l <= Information /\ \A q \in LogProviders : l <= level[q]
  BY <1>2
<1>4. LoggerLevel \in L /\ \A q \in LogProviders : LoggerLevel <= level[q]
  BY <1>3 DEF LoggerLevel
<1>5. QED
  BY <1>1, <1>4


LEMMA MessageType ==
  ASSUME LInv, NEW t \in Threads, said[t] # <<>>
  PROVE  /\ Len(said[t]) \in 1..MaxLogs /\ Message(t) \in Messages
         /\ Last(said[t]) = said[t][Len(said[t])] /\ Last(said[t]) \in Levels
<1>1. said[t] \in Seq(Levels) /\ Len(said[t]) <= MaxLogs
  BY DEF LInv, LogTypeOK, Calling
<1>2. Len(said[t]) \in 1..MaxLogs
  BY <1>1, ProvidersSeq
<1>3. Last(said[t]) = said[t][Len(said[t])]
  BY DEF Last
<1>4. said[t][Len(said[t])] \in Levels
  BY <1>1, <1>2, ProvidersSeq
<1>5. QED
  BY <1>2, <1>3, <1>4 DEF Message, Messages

(* A provider gets the message exactly if it takes it. *)
LEMMA Advances ==
  ASSUME LInv, NEW t \in Threads, NEW p, ~Logged(t), p = Providers[next[t]],
         next' = [next EXCEPT ![t] = @ + 1], UNCHANGED <<level, said>>,
         received' = IF Takes(p, Last(said[t]))
                     THEN [received EXCEPT ![p] = @ \union {Message(t)}] ELSE received
  PROVE  Received' /\ received' \in [LogProviders -> SUBSET Messages]
<1>1. p \in LogProviders /\ ~Passed(t, p)
      /\ \A u \in Threads, q \in LogProviders :
           Passed(u, q)' <=> Passed(u, q) \/ (u = t /\ q = p)
  BY PassedNext, ProvidersSeq DEF LInv, LogProviders
<1>2. /\ Len(said[t]) \in 1..MaxLogs /\ Message(t) = <<t, Len(said[t])>>
      /\ Message(t) \in Messages /\ Last(said[t]) = said[t][Len(said[t])]
  BY MessageType DEF Message, LInv, Calling
<1>3. received \in [LogProviders -> SUBSET Messages]
  BY DEF LInv, LogTypeOK
<1>4. received' \in [LogProviders -> SUBSET Messages]
  BY <1>1, <1>2, <1>3
<1>5. \A u \in Threads, q \in LogProviders, n \in 1..MaxLogs :
        <<u, n>> \in received'[q] <=>
          <<u, n>> \in received[q]
            \/ (Takes(p, Last(said[t])) /\ q = p /\ u = t /\ n = Len(said[t]))
  BY <1>1, <1>2, <1>3
<1> HIDE DEF Takes
<1>6. ASSUME NEW u \in Threads, NEW q \in LogProviders, NEW n \in 1..MaxLogs
      PROVE  /\ n > Len(said[u]) => <<u, n>> \notin received'[q]
             /\ n <= Len(said[u]) =>
                  (<<u, n>> \in received'[q] <=>
                     Takes(q, said[u][n]) /\ (n = Len(said[u]) => Passed(u, q)'))
  <2>1. /\ n > Len(said[u]) => <<u, n>> \notin received[q]
        /\ n <= Len(said[u]) =>
             (<<u, n>> \in received[q] <=>
                Takes(q, said[u][n]) /\ (n = Len(said[u]) => Passed(u, q)))
    BY DEF LInv, Received
  <2>2. CASE u = t /\ q = p /\ n = Len(said[t])
    BY <1>1, <1>2, <1>5, <2>1, <2>2
  <2>3. CASE ~(u = t /\ q = p) 
    BY <1>1, <1>5, <2>1, <2>3
  <2>4. CASE u = t /\ q = p /\ n # Len(said[t])
    BY <1>1, <1>5, <2>1, <2>4
  <2>5. QED
    BY <2>2, <2>3, <2>4
<1>7. \A q, l : Takes(q, l)' <=> Takes(q, l)
  BY DEF Takes
<1>8. Received'
  BY <1>6, <1>7 DEF Received
<1>9. QED
  BY <1>4, <1>8

(* What is received of messages as before. *)
LEMMA ReceivedSame ==
  ASSUME LInv, UNCHANGED <<level, said, next, received>>
  PROVE  Received'
BY DEF LInv, Received, Takes, Passed

(* The console stays as it is. *)
LEMMA LinesSame ==
  ASSUME LInv, UNCHANGED <<written, said>>,
         \A t \in Threads : piece[t] > 1 \/ Passed(t, Console)
                            => piece'[t] > 1 \/ Passed(t, Console)',
         \A t \in Threads : piece'[t] > 0 => piece[t] > 0 \/ Since(Message(t))
  PROVE  Begun' /\ Unbroken' /\ LinesWhole'
<1>1. Begun'
  BY DEF LInv, Begun
<1>2. Unbroken'
  BY DEF LInv, Unbroken, Since, Message
<1>3. LinesWhole'
  BY DEF LInv, LinesWhole
<1>4. QED
  BY <1>1, <1>2, <1>3


(* A line more on the console. *)
LEMMA LinesGrow ==
  ASSUME LInv, NEW t \in Threads, NEW kind \in {"color", "head", "reset", "tail", "whole"},
         said[t] # <<>>, said' = said, written' = Append(written, <<Message(t), kind>>),
         Since(Message(t)),
         kind = "whole" \/ \A u \in Threads : u # t => piece'[u] = 0,
         piece'[t] > 1 \/ Passed(t, Console)',
         \A u \in Threads : u # t => /\ piece'[u] = piece[u]
                                     /\ Passed(u, Console)' <=> Passed(u, Console)
  PROVE  Begun' /\ Unbroken' /\ LinesWhole' /\ written' \in Seq(Lines)
<1> DEFINE N == Len(written)
           m == Message(t)
<1>1. m \in Messages /\ m = <<t, Len(said[t])>> /\ Len(said[t]) \in 1..MaxLogs
  BY MessageType DEF Message
<1>2. written \in Seq(Lines)
  BY DEF LInv, LogTypeOK, Lines
<1>3. <<m, kind>> \in Lines
  BY <1>1 DEF Lines
<1>4. /\ written' \in Seq(Lines) /\ N \in Nat /\ Len(written') = N + 1
      /\ DOMAIN written = 1..N /\ DOMAIN written' = 1..(N + 1)
      /\ written'[N + 1] = <<m, kind>> /\ \A i \in 1..N : written'[i] = written[i]
  BY <1>2, <1>3, Appended
<1>5. \A i \in 1..N, j \in 1..N : written[i][1] = m /\ i <= j
                                => written[j][1] = m \/ written[j][2] = "whole"
  BY <1>4 DEF Since
<1> HIDE DEF N, m
<1>6. Begun'
  <2>1. ASSUME NEW i \in DOMAIN written', NEW u \in Threads, NEW n \in 1..MaxLogs,
               written'[i][1] = <<u, n>>
        PROVE  /\ n <= Len(said[u])
               /\ n = Len(said[u]) => piece'[u] > 1 \/ Passed(u, Console)'
    <3>1. CASE i \in 1..N
      <4>1. /\ n <= Len(said[u])
            /\ n = Len(said[u]) => piece[u] > 1 \/ Passed(u, Console)
        BY <1>4, <2>1, <3>1 DEF LInv, Begun
      <4>2. CASE u = t
        BY <4>1, <4>2
      <4>3. CASE u # t
        BY <4>1, <4>3
      <4>4. QED
        BY <4>2, <4>3
    <3>2. CASE i = N + 1
      <4>1. <<u, n>> = m
        BY <1>4, <2>1, <3>2
      <4>2. u = t /\ n = Len(said[t])
        BY <1>1, <4>1
      <4>3. QED
        BY <1>1, <4>2
    <3>3. QED
      BY <1>4, <3>1, <3>2
  <2>2. QED
    BY <2>1 DEF Begun
<1>7. Unbroken'
  <2>1. ASSUME NEW u \in Threads, piece'[u] > 0
        PROVE  Since(Message(u))'
    <3>1. Message(u)' = Message(u)
      BY DEF Message
    <3>2. Since(Message(u))
      <4>1. CASE u = t
        BY <4>1
      <4>2. CASE u # t
        BY <2>1, <4>2 DEF LInv, Unbroken
      <4>3. QED
        BY <4>1, <4>2
    <3>3. u = t \/ kind = "whole"
      BY <2>1
    <3>4. ASSUME NEW i \in 1..(N + 1), NEW j \in 1..(N + 1), i <= j,
                 written'[i][1] = Message(u)
          PROVE  written'[j][1] = Message(u) \/ written'[j][2] = "whole"
      <4>1. CASE j = N + 1
        BY <1>4, <3>3, <4>1 DEF m
      <4>2. CASE j # N + 1
        <5>1. i \in 1..N /\ j \in 1..N
          BY <1>4, <3>4, <4>2
        <5>2. j \in i..Len(written)
          BY <1>4, <3>4, <5>1 DEF N
        <5>3. QED
          BY <1>4, <3>2, <3>4, <5>1, <5>2 DEF Since
      <4>3. QED
        BY <4>1, <4>2
    <3>5. ASSUME NEW i \in DOMAIN written', written'[i][1] = Message(u)',
                 NEW j \in i..Len(written')
          PROVE  written'[j][1] = Message(u)' \/ written'[j][2] = "whole"
      <4>1. i \in 1..(N + 1) /\ j \in 1..(N + 1) /\ i <= j
        BY <1>4, <3>5
      <4>2. QED
        BY <3>1, <3>4, <3>5, <4>1
    <3>6. QED
      BY <3>5 DEF Since
  <2>2. QED
    BY <2>1 DEF Unbroken
<1>8. LinesWhole'
  <2>1. ASSUME NEW i \in DOMAIN written', NEW k \in DOMAIN written', NEW j \in i..k,
               written'[i][1] = written'[k][1]
        PROVE  written'[j][1] = written'[i][1] \/ written'[j][2] = "whole"
    <3>1. i \in 1..(N + 1) /\ k \in 1..(N + 1) /\ j \in 1..(N + 1) /\ i <= j /\ j <= k
      BY <1>4
    <3>2. CASE k \in 1..N
      <4>1. i \in 1..N /\ j \in 1..N
        BY <1>4, <3>1, <3>2
      <4>2. QED
        BY <1>4, <2>1, <3>2, <4>1 DEF LInv, LinesWhole
    <3>3. CASE k = N + 1 /\ j = N + 1
      BY <2>1, <3>3
    <3>4. CASE k = N + 1 /\ j # N + 1
      <4>1. i \in 1..N /\ j \in 1..N
        BY <1>4, <3>1, <3>4
      <4>2. written[i][1] = m
        BY <1>4, <2>1, <3>4, <4>1
      <4>3. QED
        BY <1>4, <1>5, <3>1, <4>1, <4>2
    <3>5. QED
      BY <3>1, <3>2, <3>3, <3>4, <1>4
  <2>2. QED
    BY <2>1 DEF LinesWhole
<1>9. QED
  BY <1>4, <1>6, <1>7, <1>8

LEMMA LogOK ==
  ASSUME LInv, NEW t \in Threads, NEW l \in Levels, Log(t, l)
  PROVE  LInv'
<1> DEFINE N == Len(said[t])
<1>1. /\ Logged(t) /\ N < MaxLogs /\ said' = [said EXCEPT ![t] = Append(@, l)]
      /\ next' = IF l < LoggerLevel THEN next ELSE [next EXCEPT ![t] = 1]
      /\ UNCHANGED <<level, mutex, piece, written, received>>
  BY DEF Log
<1>2. /\ said \in [Threads -> Seq(Levels)] /\ next \in [Threads -> 1..(Len(Providers) + 1)]
      /\ level \in [LogProviders -> Levels] /\ piece \in [Threads -> 0..4]
  BY DEF LInv, LogTypeOK
<1>3. /\ N \in Nat /\ \A u \in Threads : u # t => said'[u] = said[u] /\ next'[u] = next[u]
      /\ said'[t] \in Seq(Levels) /\ Len(said'[t]) = N + 1 /\ said'[t][N + 1] = l
      /\ \A n \in 1..N : said'[t][n] = said[t][n]
  BY <1>1, <1>2, Appended
<1>4. piece[t] = 0
  <2>1. piece[t] \in 0..4 /\ ~(piece[t] > 0)
    BY <1>1, <1>2 DEF LInv, Calling
  <2>2. QED
    BY <2>1
<1>5. LogTypeOK'
  <2>1. next' \in [Threads -> 1..(Len(Providers) + 1)]
    BY <1>1, <1>2, ProvidersSeq
  <2>2. said' \in [Threads -> Seq(Levels)]
    BY <1>1, <1>2, <1>3
  <2>3. QED
    BY <1>1, <2>1, <2>2 DEF LInv, LogTypeOK
<1> HIDE DEF N
<1>6. Calling'
  <2>1. ASSUME NEW u \in Threads
        PROVE  /\ Len(said'[u]) <= MaxLogs
               /\ ~Logged(u)' => said'[u] # <<>>
               /\ piece'[u] > 0 => /\ ~Logged(u)' /\ Providers[next'[u]] = Console
                                   /\ Takes(Console, Last(said'[u]))
    <3>1. CASE u = t
      <4>1. said'[t] # <<>>
        BY <1>3
      <4>2. QED
        BY <1>1, <1>3, <1>4, <3>1, <4>1, ProvidersSeq DEF N
    <3>2. CASE u # t
      <4>1. said'[u] = said[u] /\ next'[u] = next[u] /\ piece'[u] = piece[u]
        BY <1>1, <1>3, <3>2
      <4>2. Logged(u)' <=> Logged(u)
        BY <4>1 DEF Logged
      <4>3. QED
        BY <4>1, <4>2 DEF LInv, Calling
    <3>3. QED
      BY <3>1, <3>2
  <2>2. \A q, x : Takes(q, x)' <=> Takes(q, x)
    BY <1>1 DEF Takes
  <2>3. QED
    BY <2>1, <2>2 DEF Calling
<1>7. Locked'
  BY <1>1 DEF LInv, Locked
<1>8. Received'
  <2>1. ASSUME NEW u \in Threads, NEW p \in LogProviders, NEW n \in 1..MaxLogs
        PROVE  /\ n > Len(said'[u]) => <<u, n>> \notin received[p]
               /\ n <= Len(said'[u]) =>
                    (<<u, n>> \in received[p] <=>
                       Takes(p, said'[u][n]) /\ (n = Len(said'[u]) => Passed(u, p)'))
    <3>1. /\ n > Len(said[u]) => <<u, n>> \notin received[p]
          /\ n <= Len(said[u]) =>
               (<<u, n>> \in received[p] <=>
                  Takes(p, said[u][n]) /\ (n = Len(said[u]) => Passed(u, p)))
      BY DEF LInv, Received
    <3>2. CASE u # t
      <4>1. Passed(u, p)' <=> Passed(u, p)
        BY <1>3, <3>2 DEF Passed
      <4>2. QED
        BY <1>3, <3>1, <3>2, <4>1
    <3>3. CASE u = t /\ n <= N
      <4>1. Passed(t, p)
        BY <1>1, PassedAll DEF LInv
      <4>2. QED
        BY <1>3, <3>1, <3>3, <4>1 DEF N
    <3>4. CASE u = t /\ n > N
      <4>1. <<u, n>> \notin received[p]
        BY <3>1, <3>4 DEF N
      <4>2. ASSUME n <= Len(said'[u])
            PROVE  ~(Takes(p, said'[u][n]) /\ (n = Len(said'[u]) => Passed(u, p)'))
        <5>1. n = N + 1
          BY <1>3, <3>4, <4>2
        <5>2. CASE l < LoggerLevel
          <6>1. ~Takes(p, l)
            <7>1. l \in Int /\ level[p] \in Int /\ LoggerLevel <= level[p] /\ LoggerLevel \in Int
              BY <1>2, LoggerLevelLowest DEF Levels, Trace, None
            <7>2. l < level[p]
              BY <5>2, <7>1
            <7>3. QED
              BY <7>1, <7>2 DEF Takes
          <6>2. QED
            BY <1>3, <3>4, <5>1, <6>1
        <5>3. CASE ~(l < LoggerLevel)
          <6>1. next'[t] = 1
            BY <1>1, <1>2, <5>3
          <6>2. ~Passed(t, p)'
            BY <6>1 DEF Passed
          <6>3. QED
            BY <1>3, <3>4, <5>1, <6>2
        <5>4. QED
          BY <5>2, <5>3
      <4>3. QED
        BY <4>1, <4>2
    <3>5. QED
      BY <1>3, <3>2, <3>3, <3>4
  <2>2. \A q, x : Takes(q, x)' <=> Takes(q, x)
    BY <1>1 DEF Takes
  <2>3. QED
    BY <1>1, <2>1, <2>2 DEF Received
<1>9. Begun'
  <2>1. ASSUME NEW i \in DOMAIN written, NEW u \in Threads, NEW n \in 1..MaxLogs,
               written[i][1] = <<u, n>>
        PROVE  /\ n <= Len(said'[u])
               /\ n = Len(said'[u]) => piece[u] > 1 \/ Passed(u, Console)'
    <3>1. /\ n <= Len(said[u])
          /\ n = Len(said[u]) => piece[u] > 1 \/ Passed(u, Console)
      BY <2>1 DEF LInv, Begun
    <3>2. CASE u = t
      BY <1>3, <3>1, <3>2 DEF N
    <3>3. CASE u # t
      BY <1>3, <3>1, <3>3 DEF Passed
    <3>4. QED
      BY <3>2, <3>3
  <2>2. QED
    BY <1>1, <2>1 DEF Begun
<1>10. Unbroken'
  <2>1. ASSUME NEW u \in Threads, piece[u] > 0
        PROVE  Message(u)' = Message(u)
    <3>1. u # t
      BY <1>4, <2>1
    <3>2. QED
      BY <1>3, <3>1 DEF Message
  <2>2. QED
    BY <1>1, <2>1 DEF LInv, Unbroken, Since
<1>11. LinesWhole'
  BY <1>1 DEF LInv, LinesWhole
<1>12. QED
  BY <1>5, <1>6, <1>7, <1>8, <1>9, <1>10, <1>11 DEF LInv


(* The message goes to the next provider, without the lock. *)
LEMMA Onwards ==
  ASSUME LInv, NEW t \in Threads, NEW p \in LogProviders, At(t, p),
         next' = [next EXCEPT ![t] = @ + 1], UNCHANGED <<level, mutex, said, piece>>,
         received' = IF Takes(p, Last(said[t]))
                     THEN [received EXCEPT ![p] = @ \union {Message(t)}] ELSE received,
         written' = written \/ (p = Console /\ written' = Append(written, <<Message(t), "whole">>))
  PROVE  LInv'
<1>1. ~Logged(t) /\ piece[t] = 0 /\ p = Providers[next[t]]
  BY DEF At
<1>2. Received' /\ received' \in [LogProviders -> SUBSET Messages]
  BY <1>1, Advances
<1>3. /\ next' \in [Threads -> 1..(Len(Providers) + 1)]
      /\ \A u \in Threads, q \in LogProviders :
           Passed(u, q)' <=> Passed(u, q) \/ (u = t /\ q = p)
      /\ ~Passed(t, p)
      /\ \A u \in Threads : u # t => (Logged(u)' <=> Logged(u)) /\ next'[u] = next[u]
  BY <1>1, PassedNext DEF LInv, LogTypeOK
<1>4. said[t] # <<>>
  BY <1>1 DEF LInv, Calling
<1>5. Calling'
  <2>1. ASSUME NEW u \in Threads
        PROVE  /\ Len(said[u]) <= MaxLogs
               /\ ~Logged(u)' => said[u] # <<>>
               /\ piece[u] > 0 => /\ ~Logged(u)' /\ Providers[next'[u]] = Console
                                  /\ Takes(Console, Last(said[u]))
    BY <1>1, <1>3, <1>4 DEF LInv, Calling
  <2>2. \A q, l : Takes(q, l)' <=> Takes(q, l)
    BY DEF Takes
  <2>3. QED
    BY <2>1, <2>2 DEF Calling
<1>6. Locked'
  BY DEF LInv, Locked
<1>7. Begun' /\ Unbroken' /\ LinesWhole' /\ written' \in Seq(Lines)
  <2>0. \A u \in Threads : Passed(u, Console) => Passed(u, Console)'
    <3>1. \A u \in Threads : next[u] \in Nat /\ next'[u] \in Nat /\ next[u] <= next'[u]
      <4>1. next \in [Threads -> 1..(Len(Providers) + 1)]
        BY DEF LInv, LogTypeOK
      <4>2. next'[t] = next[t] + 1
        BY <4>1
      <4>3. QED
        BY <1>3, <4>1, <4>2, ProvidersSeq
    <3>2. QED
      BY <3>1 DEF Passed
  <2>1. CASE written' = written
    <3>1. written \in Seq(Lines)
      BY DEF LInv, LogTypeOK, Lines
    <3>2. QED
      BY <2>0, <2>1, <3>1, LinesSame
  <2>2. CASE p = Console /\ written' = Append(written, <<Message(t), "whole">>)
    <3>1. Len(said[t]) \in 1..MaxLogs /\ Message(t) = <<t, Len(said[t])>>
      BY <1>4, MessageType DEF Message
    <3>2. Since(Message(t))
      <4>1. \A i \in DOMAIN written : written[i][1] # Message(t)
        BY <1>1, <1>3, <2>2, <3>1 DEF LInv, Begun
      <4>2. QED
        BY <4>1 DEF Since
    <3>3. \A u \in Threads : u # t => /\ piece'[u] = piece[u]
                                      /\ Passed(u, Console)' <=> Passed(u, Console)
      BY <1>3, <2>2
    <3>4. Passed(t, Console)'
      BY <1>3, <2>2
    <3>5. QED
      BY <1>4, <2>2, <3>2, <3>3, <3>4, LinesGrow
  <2>3. QED
    BY <2>1, <2>2
<1>8. LogTypeOK'
  BY <1>2, <1>3, <1>7 DEF LInv, LogTypeOK, Lines
<1>9. QED
  BY <1>2, <1>5, <1>6, <1>7, <1>8 DEF LInv

LEMMA LockOK ==
  ASSUME LInv, NEW t \in Threads, Lock(t)
  PROVE  LInv'
<1>1. /\ ~Logged(t) /\ piece[t] = 0 /\ Providers[next[t]] = Console
      /\ Takes(Console, Last(said[t])) /\ mutex = {} /\ mutex' = {t}
      /\ piece' = [piece EXCEPT ![t] = 1] /\ UNCHANGED <<level, said, next, written, received>>
  BY DEF Lock, At
<1>2. piece \in [Threads -> 0..4] /\ said[t] # <<>>
  BY <1>1 DEF LInv, LogTypeOK, Calling
<1>3. LogTypeOK'
  BY <1>1, <1>2 DEF LInv, LogTypeOK
<1>4. Calling'
  BY <1>1, <1>2 DEF LInv, Calling, Logged, Takes
<1>5. Locked'
  BY <1>1, <1>2 DEF LInv, Locked
<1>6. Received'
  BY <1>1, ReceivedSame
<1>7. ~Passed(t, Console)
  <2>1. next[t] \in 1..Len(Providers)
    BY <1>1, ProvidersSeq DEF LInv, LogTypeOK, Logged
  <2>2. QED
    BY <1>1, <2>1, ProvidersSeq DEF Passed
<1>8. Since(Message(t))
  <2>1. Len(said[t]) \in 1..MaxLogs /\ Message(t) = <<t, Len(said[t])>>
    BY <1>2, MessageType DEF Message
  <2>2. \A i \in DOMAIN written : written[i][1] # Message(t)
    BY <1>1, <1>7, <2>1 DEF LInv, Begun
  <2>3. QED
    BY <2>2 DEF Since
<1>9. /\ \A u \in Threads : piece[u] > 1 \/ Passed(u, Console)
                           => piece'[u] > 1 \/ Passed(u, Console)'
      /\ \A u \in Threads : piece'[u] > 0 => piece[u] > 0 \/ Since(Message(u))
  <2>1. \A u \in Threads : Passed(u, Console)' <=> Passed(u, Console)
    BY <1>1 DEF Passed
  <2>2. QED
    BY <1>1, <1>2, <1>8, <2>1
<1>10. QED
  BY <1>1, <1>3, <1>4, <1>5, <1>6, <1>9, LinesSame DEF LInv

(* Alone with the lock, and its pieces so far have nothing between them. *)
LEMMA Holding ==
  ASSUME LInv, NEW t \in Threads, piece[t] > 0
  PROVE  /\ \A u \in Threads : u # t => piece[u] = 0
         /\ said[t] # <<>> /\ Since(Message(t))
         /\ ~Logged(t) /\ Providers[next[t]] = Console /\ Takes(Console, Last(said[t]))
         /\ Console \in LogProviders /\ t \in mutex
         /\ \A u \in mutex : u = t
<1>1. piece \in [Threads -> 0..4] /\ t \in mutex /\ \A u \in mutex : u = t
  BY DEF LInv, LogTypeOK, Locked
<1>2. \A u \in Threads : u # t => piece[u] = 0
  BY <1>1 DEF LInv, Locked
<1>3. ~Logged(t) /\ Providers[next[t]] = Console /\ Takes(Console, Last(said[t]))
      /\ said[t] # <<>> /\ Since(Message(t))
  BY DEF LInv, Calling, Unbroken
<1>4. next[t] \in 1..Len(Providers)
  BY <1>3, ProvidersSeq DEF LInv, LogTypeOK, Logged
<1>5. QED
  BY <1>1, <1>2, <1>3, <1>4, ProvidersSeq DEF LogProviders

LEMMA PieceOK ==
  ASSUME LInv, NEW t \in Threads, WritePiece(t)
  PROVE  LInv'
<1>1. /\ piece[t] \in 1..3 /\ written' = Append(written, <<Message(t), Pieces[piece[t]]>>)
      /\ piece' = [piece EXCEPT ![t] = @ + 1] /\ UNCHANGED <<level, mutex, said, next, received>>
  BY DEF WritePiece
<1>2. piece \in [Threads -> 0..4]
  BY DEF LInv, LogTypeOK
<1>3. Pieces[piece[t]] \in {"color", "head", "reset", "tail", "whole"}
  BY <1>1 DEF Pieces
<1>4. \A u \in Threads : u # t => piece[u] = 0 /\ piece'[u] = 0
  BY <1>1, <1>2, Holding
<1>5. piece'[t] = piece[t] + 1 /\ piece' \in [Threads -> 0..4]
  BY <1>1, <1>2
<1>6. said[t] # <<>> /\ Since(Message(t))
  BY <1>1, Holding
<1>7. \A u \in Threads : Passed(u, Console)' <=> Passed(u, Console)
  BY <1>1 DEF Passed
<1>8. Begun' /\ Unbroken' /\ LinesWhole' /\ written' \in Seq(Lines)
  BY <1>1, <1>3, <1>4, <1>5, <1>6, <1>7, LinesGrow
<1>9. LogTypeOK'
  BY <1>1, <1>5, <1>8 DEF LInv, LogTypeOK, Lines
<1>10. Calling' /\ Locked'
  BY <1>1, <1>4, <1>5 DEF LInv, Calling, Locked, Logged, Takes
<1>11. Received'
  BY <1>1, ReceivedSame
<1>12. QED
  BY <1>8, <1>9, <1>10, <1>11 DEF LInv

LEMMA TailOK ==
  ASSUME LInv, NEW t \in Threads, WriteTail(t)
  PROVE  LInv'
<1>1. /\ piece[t] = 4 /\ written' = Append(written, <<Message(t), Pieces[piece[t]]>>)
      /\ piece' = [piece EXCEPT ![t] = 0] /\ mutex' = mutex \ {t}
      /\ received' = [received EXCEPT ![Console] = @ \union {Message(t)}]
      /\ next' = [next EXCEPT ![t] = @ + 1] /\ UNCHANGED <<level, said>>
  BY DEF WriteTail, Receive, Advance
<1>2. piece \in [Threads -> 0..4]
  BY DEF LInv, LogTypeOK
<1>3. /\ \A u \in Threads : u # t => piece[u] = 0
      /\ said[t] # <<>> /\ Since(Message(t))
      /\ ~Logged(t) /\ Providers[next[t]] = Console /\ Takes(Console, Last(said[t]))
      /\ Console \in LogProviders /\ t \in mutex /\ \A u \in mutex : u = t
  BY <1>1, Holding
<1>4. \A u \in Threads : piece'[u] = 0
  BY <1>1, <1>2, <1>3
<1>5. /\ next' \in [Threads -> 1..(Len(Providers) + 1)]
      /\ \A u \in Threads, q \in LogProviders :
           Passed(u, q)' <=> Passed(u, q) \/ (u = t /\ q = Console)
      /\ \A u \in Threads : u # t => (Logged(u)' <=> Logged(u))
  BY <1>1, <1>3, PassedNext DEF LInv
<1>6. Pieces[piece[t]] \in {"color", "head", "reset", "tail", "whole"}
  BY <1>1 DEF Pieces
<1>7. Begun' /\ Unbroken' /\ LinesWhole' /\ written' \in Seq(Lines)
  BY <1>1, <1>3, <1>4, <1>5, <1>6, LinesGrow
<1>8. Received' /\ received' \in [LogProviders -> SUBSET Messages]
  BY <1>1, <1>3, Advances
<1>9. LogTypeOK'
  <2>1. piece' \in [Threads -> 0..4]
    BY <1>1, <1>2
  <2>2. QED
    BY <1>1, <1>5, <1>7, <1>8, <2>1 DEF LInv, LogTypeOK, Lines
<1>10. Calling'
  <2>1. \A u \in Threads : ~Logged(u)' => said[u] # <<>>
    BY <1>3, <1>5 DEF LInv, Calling
  <2>2. QED
    BY <1>1, <1>4, <2>1 DEF LInv, Calling
<1>11. Locked'
  BY <1>1, <1>3, <1>4 DEF Locked
<1>12. QED
  BY <1>7, <1>8, <1>9, <1>10, <1>11 DEF LInv

LEMMA LogStepOK == LInv /\ [LogNext]_logVars => LInv'
<1> SUFFICES ASSUME LInv, [LogNext]_logVars PROVE LInv'
  OBVIOUS
<1>1. ASSUME NEW t \in Threads, NEW p \in LogProviders, Skip(t, p) PROVE LInv'
  BY <1>1, Onwards DEF Skip, Advance
<1>2. ASSUME NEW t \in Threads, NEW p \in LogProviders, Write(t, p) PROVE LInv'
  BY <1>2, Onwards DEF Write, Advance, Receive
<1>3. ASSUME NEW t \in Threads, WriteWhole(t) PROVE LInv'
  <2>1. At(t, Console) /\ ~Logged(t)
    BY <1>3 DEF WriteWhole, At
  <2>2. Console \in LogProviders
    <3>1. next[t] \in 1..Len(Providers)
      BY <2>1, ProvidersSeq DEF LInv, LogTypeOK, Logged
    <3>2. QED
      BY <2>1, <3>1, ProvidersSeq DEF At, LogProviders
  <2>3. QED
    BY <1>3, <2>1, <2>2, Onwards DEF WriteWhole, Advance, Receive
<1>4. CASE UNCHANGED logVars
  <2>1. Received'
    BY <1>4, ReceivedSame DEF logVars
  <2>2. Begun' /\ Unbroken' /\ LinesWhole'
    BY <1>4, LinesSame DEF logVars, Passed
  <2>3. LogTypeOK' /\ Calling' /\ Locked'
    BY <1>4 DEF logVars, LInv, LogTypeOK, Calling, Locked, Logged, Takes
  <2>4. QED
    BY <2>1, <2>2, <2>3 DEF LInv
<1>5. QED
  BY <1>1, <1>2, <1>3, <1>4, LogOK, LockOK, PieceOK, TailOK DEF LogNext, LogStep

-----------------------------------------------------------------------------
(* Hosting. *)

(* Nothing is logged before the application runs. *)
Silent == phase # "running" => \A t \in Threads : said[t] = <<>>

IInv == TypeOK /\ CInv /\ LInv /\ Silent /\ SettingsAsConfigured

LEMMA Short ==
  /\ \A x : x \in UInt16 <=> x \in Int /\ 0 <= x /\ x <= 65535
  /\ UInt16 \subseteq Nat /\ 0 \in UInt16 /\ 1 \in UInt16
<1>1. 2^16 = 65536
  OBVIOUS
<1>2. QED
  BY <1>1 DEF UInt16

LEMMA Width ==
  ASSUME NEW n \in Int
  PROVE  /\ Narrow(n) \in UInt16
         /\ n \in UInt16 => Narrow(n) = n
<1>1. 2^16 = 65536
  OBVIOUS
<1>2. Narrow(n) = n % 65536
  BY <1>1 DEF Narrow
<1>3. Narrow(n) \in UInt16
  <2> DEFINE m == n % 65536
  <2>1. m \in Int /\ 0 <= m /\ m <= 65535
    OBVIOUS
  <2>2. Narrow(n) = m
    BY <1>2
  <2> HIDE DEF m
  <2>3. QED
    BY <2>1, <2>2, Short, SMT
<1>4. ASSUME n \in UInt16
      PROVE  Narrow(n) = n
  <2>1. 0 <= n /\ n <= 65535
    BY <1>4, Short, SMT
  <2>2. n % 65536 = n
    BY <2>1
  <2>3. QED
    BY <1>2, <2>2, SMT
<1>5. QED
  BY <1>3, <1>4, SMT

(* The same, without the number. *)
LEMMA UInts ==
  /\ UInt16 \subseteq Nat /\ 0 \in UInt16 /\ 1 \in UInt16
  /\ UserThreads \subseteq UInt16 /\ Hardware \in UInt16
BY Short, HostingAssumption

LEMMA Confs ==
  ASSUME CInv, NEW k \in Keys
  PROVE  conf[k] \in Values \union {Absent}
<1>1. conf \in Contents
  BY DEF CInv, ConfTypeOK
<1>2. QED
  BY <1>1 DEF Contents

LEMMA KeysKnown ==
  "threadsNumber" \in Keys /\ "url" \in Keys /\ "Logging" \in Keys /\ Absent \notin Values
BY HostingAssumption

LEMMA NumberKinds ==
  ASSUME NEW v \in Values, v.kind \in {"signed", "string"}
  PROVE  v.n \in Int
BY HostingAssumption

(* What the settings may be. *)
LEMMA ThreadsKnown ==
  ASSUME CInv, NEW n \in UserThreads, NEW x \in ThreadsFrom(n)
  PROVE  /\ x \in UInt16 /\ x >= 1
         /\ n >= 1 => x = n
         /\ n \in Nat
         /\ n < 1 => \A v \in Values :
              v = conf["threadsNumber"] /\ v.kind \in {"string", "signed"} /\ v.n \in UInt16 \ {0}
                => x = v.n
<1> DEFINE H == IF Hardware >= 1 THEN Hardware ELSE 1
<1>1. n \in UInt16 /\ n \in Nat /\ Hardware \in UInt16 /\ Hardware \in Nat
  BY UInts
<1> DEFINE v == conf["threadsNumber"]
<1>2. v \in Values \union {Absent}
  BY KeysKnown, Confs
<1>3. ThreadsFrom(n) = IF n >= 1 THEN {n} ELSE {IF m >= 1 THEN m ELSE Narrow(H) : m \in NumberFrom(v)}
  BY DEF ThreadsFrom
<1>4. NumberFrom(v) = IF v = Absent THEN {0}
                      ELSE IF v.kind \in {"signed", "string"} THEN {Narrow(v.n)} ELSE {}
  BY DEF NumberFrom
<1>5. H \in UInt16 /\ H \in Int /\ H >= 1
  BY <1>1, UInts
<1> HIDE DEF H, v
<1>6. Narrow(H) \in UInt16 /\ Narrow(H) >= 1
  BY <1>5, Width
<1>7. CASE n >= 1
  <2>1. x = n
    BY <1>3, <1>7
  <2>2. ~(n < 1)
    BY <1>1, <1>7
  <2>3. QED
    BY <1>1, <1>7, <2>1, <2>2
<1>8. CASE ~(n >= 1)
  <2>1. PICK m \in NumberFrom(v) : x = IF m >= 1 THEN m ELSE Narrow(H)
    BY <1>3, <1>8
  <2>2. m \in UInt16
    <3>1. CASE v = Absent
      BY <1>4, <2>1, <3>1, UInts
    <3>2. CASE v # Absent
      <4>1. v.kind \in {"signed", "string"} /\ m = Narrow(v.n)
        BY <1>4, <2>1, <3>2
      <4>2. v.n \in Int
        BY <1>2, <3>2, <4>1, NumberKinds
      <4>3. QED
        BY <4>1, <4>2, Width
    <3>3. QED
      BY <3>1, <3>2
  <2>3. ASSUME v \in Values, v.kind \in {"string", "signed"}, v.n \in UInt16 \ {0}
        PROVE  x = v.n
    <3>1. v.n \in Int /\ v.n >= 1
      <4> DEFINE k == v.n
      <4>1. k \in UInt16 /\ k # 0
        BY <2>3
      <4> HIDE DEF k
      <4>2. k \in Int /\ k >= 1
        BY <4>1, UInts
      <4>3. QED
        BY <4>2 DEF k
    <3>2. m = Narrow(v.n)
      BY <1>4, <2>1, <2>3, KeysKnown
    <3>3. m = v.n
      BY <2>3, <3>1, <3>2, Width
    <3>4. QED
      BY <2>1, <3>1, <3>3
  <2>4. x \in UInt16 /\ x >= 1
    BY <1>6, <2>1, <2>2, UInts
  <2>5. QED
    BY <1>1, <1>8, <2>3, <2>4 DEF v
<1>9. QED
  BY <1>7, <1>8

LEMMA LevelsKnown ==
  ASSUME CInv, NEW p \in LogProviders, LevelFrom(p) # NoString
  PROVE  LevelFrom(p) \in Levels
<1> DEFINE v == conf["Logging"]
<1>1. v \in Values \union {Absent} /\ Absent \notin Values
  BY HostingAssumption, Confs
<1>2. Information \in Levels
  BY DEF Information, Levels, Trace, None
<1>3. CASE v # Absent /\ v.kind = "object"
  <2>1. v.own[p] \in Texts /\ v.common \in Texts
    BY <1>1, <1>3, HostingAssumption
  <2>2. LevelFrom(p) \in {v.own[p], v.common, Information} \ {Unset, NoString}
    BY <1>2, <1>3 DEF LevelFrom, Unset, NoString, Information
  <2>3. QED
    BY <1>2, <2>1, <2>2 DEF Texts
<1>4. CASE v = Absent \/ v.kind # "object"
  BY <1>2, <1>4 DEF LevelFrom
<1>5. QED
  BY <1>3, <1>4

LEMMA HostingInit == Init => IInv
<1> SUFFICES ASSUME Init PROVE IInv
  OBVIOUS
<1>1. CInv /\ LInv
  BY ConfInitOK, LogInitOK DEF Init
<1>2. Silent
  BY DEF Init, LogInit, Silent
<1>3. TypeOK
  <2>1. settings \in [threads : UInt16, user : UserThreads \union {0},
                      urls : {"none", "user", "configured", "default"}]
    BY UInts DEF Init, Unsettled
  <2>2. QED
    BY <1>1, <2>1 DEF TypeOK, CInv, LInv, Init
<1>4. SettingsAsConfigured
  BY DEF Init, SettingsAsConfigured
<1>5. QED
  BY <1>1, <1>2, <1>3, <1>4 DEF IInv

(* The levels are set while nothing has been logged. *)
LEMMA LevelsSet ==
  ASSUME LInv, \A t \in Threads : said[t] = <<>>, level' \in [LogProviders -> Levels],
         UNCHANGED <<mutex, said, next, piece, written, received>>
  PROVE  LInv'
<1>1. LogTypeOK'
  BY DEF LInv, LogTypeOK
<1>2. Calling' /\ Locked'
  BY DEF LInv, Calling, Locked, Logged
<1>3. Received'
  <2>1. \A t \in Threads : Len(said[t]) = 0
    OBVIOUS
  <2>2. MaxLogs \in Nat /\ Received
    BY LoggingAssumption DEF LInv
  <2>3. ASSUME NEW t \in Threads, NEW p \in LogProviders, NEW n \in 1..MaxLogs
        PROVE  n \in Int /\ n > Len(said[t]) /\ <<t, n>> \notin received[p]
    <3>1. n \in Int /\ n > 0
      BY <2>2
    <3>2. n > Len(said[t])
      BY <2>1, <3>1
    <3>3. QED
      BY <2>2, <3>1, <3>2 DEF Received
  <2>4. ASSUME NEW t \in Threads, NEW p \in LogProviders, NEW n \in 1..MaxLogs
        PROVE  ~(n <= Len(said'[t])) /\ <<t, n>> \notin received'[p]
    BY <2>1, <2>3, <2>4
  <2>5. QED
    BY <2>4 DEF Received
<1>4. Begun' /\ Unbroken' /\ LinesWhole'
  BY LinesSame DEF Passed
<1>5. QED
  BY <1>1, <1>2, <1>3, <1>4 DEF LInv

LEMMA BuildOK ==
  ASSUME IInv, NEW n \in UserThreads, NEW u \in UserUrls, BuildApplication(n, u)
  PROVE  IInv'
<1>1. /\ phase = "setup" /\ phase' = "built" /\ UNCHANGED confVars
      /\ level' = [p \in LogProviders |-> LevelFrom(p)]
      /\ \A p \in LogProviders : LevelFrom(p) # NoString
      /\ UNCHANGED <<mutex, said, next, piece, written, received>>
  BY DEF BuildApplication
<1>2. PICK x \in ThreadsFrom(n), y \in UrlsFrom(u) :
        settings' = [threads |-> x, urls |-> y, user |-> n]
  BY DEF BuildApplication
<1>3. level' \in [LogProviders -> Levels]
  BY <1>1, LevelsKnown DEF IInv
<1>4. \A t \in Threads : said[t] = <<>>
  BY <1>1 DEF IInv, Silent
<1>5. LInv' /\ Silent'
  BY <1>1, <1>3, <1>4, LevelsSet DEF IInv, Silent
<1>6. CInv'
  BY <1>1, ConfStep DEF IInv
<1>7. /\ x \in UInt16 /\ x >= 1 /\ (n >= 1 => x = n) /\ n \in Nat
      /\ n < 1 => \A v \in Values :
           v = conf["threadsNumber"] /\ v.kind \in {"string", "signed"} /\ v.n \in UInt16 \ {0}
             => x = v.n
  BY ThreadsKnown DEF IInv
<1>8. y \in {"user", "configured", "default"}
  BY <1>2 DEF UrlsFrom
<1>9. TypeOK'
  BY <1>1, <1>2, <1>5, <1>6, <1>7, <1>8 DEF TypeOK, CInv, LInv
<1>10. SettingsAsConfigured'
  <2>1. settings'.threads = x /\ settings'.user = n /\ conf' = conf
    BY <1>1, <1>2 DEF confVars
  <2>2. QED
    BY <1>7, <2>1 DEF SettingsAsConfigured
<1>11. QED
  BY <1>5, <1>6, <1>9, <1>10 DEF IInv

LEMMA ForgetOK ==
  ASSUME IInv, Forget, phase' = "running" \/ (phase' = "failed" /\ phase = "setup")
  PROVE  IInv'
<1>1. /\ environment' = Production /\ files' = [f \in Files |-> Missing]
      /\ sources' = <<>> /\ providers' = <<>> /\ conf' = Nothing /\ merged' = 0
      /\ direct' = {} /\ loading' = FALSE /\ edits' = 0 /\ loads' = 0 /\ settings' = Unsettled
      /\ UNCHANGED logVars
  BY DEF Forget
<1>2. ConfTypeOK'
  <2>1. Production \in Names /\ MaxEdits \in Nat /\ MaxLoads \in Nat
    BY ConfigurationAssumption
  <2>2. Missing \in FileKinds
    BY NothingType DEF Missing, FileKinds
  <2>3. providers' \in Seq([source : Sources, data : Contents]) /\ sources' \in Seq(Sources)
        /\ merged' \in 0..Len(providers')
    BY <1>1
  <2>4. files' \in [Files -> FileKinds] /\ conf' \in Contents /\ environment' \in Names
    BY <1>1, <2>1, <2>2, NothingType
  <2>5. 0 \in 0..MaxEdits /\ 0 \in 0..MaxLoads
    BY <2>1
  <2>6. QED
    BY <1>1, <2>3, <2>4, <2>5 DEF ConfTypeOK
<1>3. FirstSourceWins'
  <2>1. \A k \in Keys : conf'[k] = Absent
    BY <1>1 DEF Nothing
  <2>2. \A k \in Keys : Having(k)' = {}
    BY <1>1 DEF Having
  <2>3. QED
    BY <2>1, <2>2 DEF FirstSourceWins
<1>4. LInv'
  BY <1>1, LogStepOK DEF IInv
<1>5. Unsettled \in [threads : UInt16, user : UserThreads \union {0},
                    urls : {"none", "user", "configured", "default"}]
  BY UInts DEF Unsettled
<1>6. TypeOK'
  BY <1>1, <1>2, <1>4, <1>5 DEF TypeOK, LInv
<1>7. SettingsAsConfigured' /\ Silent'
  BY <1>1 DEF SettingsAsConfigured, Silent, IInv, logVars
<1>8. QED
  BY <1>2, <1>3, <1>4, <1>6, <1>7 DEF IInv, CInv

LEMMA HostingNext == IInv /\ [Next]_vars => IInv'
<1> SUFFICES ASSUME IInv, [Next]_vars PROVE IInv'
  OBVIOUS
<1>1. CASE Configure
  <2>1. phase = "setup" /\ ConfNext /\ UNCHANGED logVars /\ UNCHANGED <<phase, settings>>
    BY <1>1 DEF Configure
  <2>2. CInv' /\ LInv'
    BY <2>1, ConfStep, LogStepOK DEF IInv
  <2>3. SettingsAsConfigured' /\ Silent'
    BY <2>1 DEF SettingsAsConfigured, Silent, IInv, logVars
  <2>4. TypeOK'
    BY <2>1, <2>2 DEF IInv, TypeOK, CInv, LInv
  <2>5. QED
    BY <2>2, <2>3, <2>4 DEF IInv
<1>2. ASSUME NEW n \in UserThreads, NEW u \in UserUrls, BuildFails(n, u)
      PROVE  IInv'
  BY <1>2, ForgetOK DEF BuildFails
<1>3. CASE Serve
  <2>1. phase = "running" /\ LogNext /\ UNCHANGED confVars /\ UNCHANGED <<phase, settings>>
    BY <1>3 DEF Serve
  <2>2. CInv' /\ LInv'
    BY <2>1, ConfStep, LogStepOK DEF IInv
  <2>3. SettingsAsConfigured' /\ Silent'
    BY <2>1 DEF SettingsAsConfigured, Silent, IInv
  <2>4. TypeOK'
    BY <2>1, <2>2 DEF IInv, TypeOK, CInv, LInv
  <2>5. QED
    BY <2>2, <2>3, <2>4 DEF IInv
<1>4. CASE UNCHANGED vars
  <2>1. UNCHANGED confVars /\ UNCHANGED logVars /\ UNCHANGED <<phase, settings>>
    BY <1>4 DEF vars
  <2>2. CInv' /\ LInv'
    BY <2>1, ConfStep, LogStepOK DEF IInv
  <2>3. SettingsAsConfigured' /\ Silent'
    BY <2>1 DEF SettingsAsConfigured, Silent, IInv, confVars, logVars
  <2>4. TypeOK'
    BY <2>1, <2>2 DEF IInv, TypeOK, CInv, LInv
  <2>5. QED
    BY <2>2, <2>3, <2>4 DEF IInv
<1>5. QED
  BY <1>1, <1>2, <1>3, <1>4, BuildOK, ForgetOK DEF Next, Run

(* The inductive invariant: types, which source a key's value is from, what *)
(* providers and console have of each message, and that nothing is logged   *)
(* before the levels are set.                                               *)
THEOREM Invariant == Spec => []IInv
<1>1. QED
  BY HostingInit, HostingNext, PTL DEF Spec

(* The types of all variables: a number of threads fits 16 bits. *)
THEOREM TypeCorrect == Spec => []TypeOK
<1>1. IInv => TypeOK
  BY DEF IInv
<1>2. QED
  BY <1>1, Invariant, PTL

(* A source never overrides an earlier one and nothing of an older load,   *)
(* or written directly before it, stays, whatever sources there are,       *)
(* wherever a reload fails and however files change between two sources.   *)
THEOREM EarlierSourceWins == Spec => []FirstSourceWins
<1>1. IInv => FirstSourceWins
  BY DEF IInv, CInv
<1>2. QED
  BY <1>1, Invariant, PTL

(* An application has at least one thread, and as many as were asked for   *)
(* whenever 16 bits hold the number.                                       *)
THEOREM SettingsCorrect == Spec => []SettingsAsConfigured
<1>1. IInv => SettingsAsConfigured
  BY DEF IInv
<1>2. QED
  BY <1>1, Invariant, PTL

(* A message reaches exactly the providers that take its level, for any    *)
(* providers, levels and threads.                                          *)
THEOREM MessagesArrive == Spec => []Delivered
<1>1. IInv => Delivered
  <2> SUFFICES ASSUME IInv, NEW t \in Threads, NEW n \in DOMAIN said[t],
                      n < Len(said[t]) \/ Logged(t), NEW p \in LogProviders
               PROVE  <<t, n>> \in received[p] <=> Takes(p, said[t][n])
    BY DEF Delivered
  <2>1. said[t] \in Seq(Levels) /\ Len(said[t]) <= MaxLogs
    BY DEF IInv, LInv, LogTypeOK, Calling
  <2>2. n \in 1..MaxLogs /\ n <= Len(said[t])
    BY <2>1, ProvidersSeq
  <2>3. n = Len(said[t]) => Passed(t, p)
    BY <2>1, <2>2, PassedAll DEF IInv, LInv
  <2>4. QED
    BY <2>2, <2>3 DEF IInv, LInv, Received
<1>2. QED
  BY <1>1, Invariant, PTL

(* Of the threads that log with the lock none writes between another's     *)
(* pieces.                                                                 *)
THEOREM LinesStayWhole == Spec => []LinesWhole
<1>1. IInv => LinesWhole
  BY DEF IInv, LInv
<1>2. QED
  BY <1>1, Invariant, PTL
=============================================================================
