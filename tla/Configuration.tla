---------------------------- MODULE Configuration ----------------------------
(***************************************************************************)
(* The environment's name and the configuration of an application that is  *)
(* being set up (Include/Engine/EnvironmentBuilder.hpp,                    *)
(* Include/Configuration): sources are added, build() makes a provider of  *)
(* each, reload() has them load one after the other and merges what they   *)
(* read. Files may change or break between two loads, and a source that    *)
(* throws ends the reload where it is. Between loads entries may be        *)
(* written directly.                                                       *)
(***************************************************************************)
EXTENDS Integers, Sequences

CONSTANTS
  Keys,       \* keys at the root of the configuration
  Values,     \* values of a key
  Absent,     \* no value, no name
  Names,      \* names of environments
  Production, \* the name of an environment nobody named
  UserFile,   \* the file of FileConfigurationSource
  Starts,     \* option, argument and variable an application starts with
  EnvVars,    \* contents of the environment variables
  CliVars,    \* contents of the command line
  Settings,   \* contents of useSetting and useSettings
  FileStates, \* what a file can be
  Writes,     \* what is written to the configuration past its sources
  MaxSources, \* bound: sources added by the user
  MaxEdits,   \* bound: changes of files
  MaxLoads    \* bound: calls of build() and reload()

Base  == "appsettings"
Files == {Base, UserFile} \union Names

Contents  == [Keys -> Values \union {Absent}]
Nothing   == [k \in Keys |-> Absent]
Json(c)   == [kind |-> "json", content |-> c]
Variables(c, clash) == [kind |-> "variables", content |-> c, clash |-> clash]

Sources ==
       {Json(c) : c \in Settings}
  \union {Variables(c, clash) : c \in EnvVars \union CliVars, clash \in BOOLEAN}
  \union [kind : {"appsettings"}, name : Names]
  \union [kind : {"file"}, optional : BOOLEAN]

(* A file: missing, broken JSON, JSON that is no object, or an object. *)
FileKinds == [state : {"missing", "broken", "other", "object"}, content : Contents]
Missing   == [state |-> "missing", content |-> Nothing]

ASSUME ConfigurationAssumption ==
  /\ Production \in Names
  /\ Base \notin Names /\ UserFile \notin {Base} \union Names
  /\ Absent \notin Values /\ Absent \notin Names
  /\ Starts \subseteq [option : Names \union {Absent}, cli : Names \union {Absent},
                       var : Names \union {Absent}]
  /\ EnvVars \union CliVars \union Settings \subseteq Contents
  /\ Writes \subseteq [key : Keys, value : Values \union {Absent}]
  /\ FileStates \subseteq {f \in FileKinds : f.state # "object" => f.content = Nothing}
  /\ MaxSources \in Nat /\ MaxEdits \in Nat /\ MaxLoads \in Nat

VARIABLES
  environment, \* Environment::_envitonmentName
  sources,     \* sources, in the order they were added
  providers,   \* the provider of each source at the last build()
  conf,        \* the configuration
  merged,      \* providers merged into it since it was cleared
  direct,      \* keys written directly since then
  loading,     \* reload() is under way
  files,       \* the files on disk
  edits,       \* bound: changes of files so far
  loads        \* bound: calls of build() and reload() so far

confVars ==
  <<environment, sources, providers, conf, merged, direct, loading, files, edits, loads>>

-----------------------------------------------------------------------------
(* std::map::merge: keys that are there stay. *)
MergeLater(c, d) == [k \in Keys |-> IF d[k] # Absent THEN d[k] ELSE c[k]]
MergeMaps(c, d)  == [k \in Keys |-> IF c[k] # Absent THEN c[k] ELSE d[k]]

(* EnvironmentBuilder: variables, then arguments, then options. *)
StartName(start) ==
  IF start.option # Absent THEN start.option
  ELSE IF start.cli # Absent THEN start.cli
  ELSE IF start.var # Absent THEN start.var ELSE Production

(* What a provider's load() can do: the contents it may read, none when it *)
(* throws. Variables come in the order of a hash map: of two keys where    *)
(* one is to be an object within the other, the order decides whether the  *)
(* first is overwritten or the second throws.                              *)
Loads(source) ==
  CASE source.kind = "json" -> {source.content}
    [] source.kind = "variables" -> {source.content}
    [] source.kind = "appsettings" ->
         IF "broken" \in {files[Base].state, files[source.name].state} THEN {}
         ELSE {MergeMaps(files[Base].content, files[source.name].content)}
    [] source.kind = "file" ->
         IF files[UserFile].state = "object" \/ (files[UserFile].state = "missing" /\ source.optional)
         THEN {files[UserFile].content} ELSE {}

MayThrow(source) ==
  \/ Loads(source) = {}
  \/ source.kind = "variables" /\ source.clash

Provider(source) == [source |-> source, data |-> Nothing]

-----------------------------------------------------------------------------
UseEnvironment(name) ==
  /\ ~loading
  /\ environment' = name
  /\ UNCHANGED <<sources, providers, conf, merged, direct, loading, files, edits, loads>>

(* useSetting, useSettings, ConfigurationManager::add *)
AddSource(source) ==
  /\ ~loading /\ Len(sources) < 3 + MaxSources
  /\ sources' = Append(sources, source)
  /\ UNCHANGED <<environment, providers, conf, merged, direct, loading, files, edits, loads>>

Reload ==
  /\ ~loading /\ loads < MaxLoads
  /\ loads' = loads + 1
  /\ loading' = TRUE
  /\ conf' = Nothing
  /\ merged' = 0
  /\ direct' = {}
  /\ UNCHANGED <<environment, sources, providers, files, edits>>

Build ==
  /\ ~loading /\ loads < MaxLoads
  /\ loads' = loads + 1
  /\ providers' = [n \in DOMAIN sources |-> Provider(sources[n])]
  /\ loading' = TRUE
  /\ conf' = Nothing
  /\ merged' = 0
  /\ direct' = {}
  /\ UNCHANGED <<environment, sources, files, edits>>

(* The next provider loads and is merged. *)
LoadNext ==
  /\ loading /\ merged < Len(providers)
  /\ \E data \in Loads(providers[merged + 1].source) :
       /\ providers' = [providers EXCEPT ![merged + 1].data = data]
       /\ conf' = MergeMaps(conf, data)
  /\ merged' = merged + 1
  /\ UNCHANGED <<environment, sources, direct, loading, files, edits, loads>>

(* It throws: what it kept is cleared or half read. *)
LoadThrows ==
  /\ loading /\ merged < Len(providers)
  /\ MayThrow(providers[merged + 1].source)
  /\ loading' = FALSE
  /\ UNCHANGED <<environment, sources, providers, conf, merged, direct, files, edits, loads>>

LoadEnds ==
  /\ loading /\ merged = Len(providers)
  /\ loading' = FALSE
  /\ UNCHANGED <<environment, sources, providers, conf, merged, direct, files, edits, loads>>

(* operator[], at, find and root() hand out what is there to be assigned   *)
(* or erased.                                                              *)
Assign(k, value) ==
  /\ ~loading
  /\ conf' = [conf EXCEPT ![k] = value]
  /\ direct' = direct \union {k}
  /\ UNCHANGED <<environment, sources, providers, merged, loading, files, edits, loads>>

EditFile(f, state) ==
  /\ edits < MaxEdits
  /\ files' = [files EXCEPT ![f] = state]
  /\ edits' = edits + 1
  /\ UNCHANGED <<environment, sources, providers, conf, merged, direct, loading, loads>>

-----------------------------------------------------------------------------
(* The builder's constructor adds three sources: the settings files of the *)
(* environment as it is named then, environment variables, command line.   *)
ConfInit ==
  /\ \E start \in Starts, v \in EnvVars, c \in CliVars, clash \in BOOLEAN :
       /\ clash => c # Nothing
       /\ environment = StartName(start)
       /\ sources = <<[kind |-> "appsettings", name |-> StartName(start)],
                      Variables(v, FALSE), Variables(c, clash)>>
  /\ providers = <<>>
  /\ conf = Nothing
  /\ merged = 0
  /\ direct = {}
  /\ loading = FALSE
  /\ files = [f \in Files |-> Missing]
  /\ edits = 0
  /\ loads = 0

ConfNext ==
  \/ \E name \in Names : UseEnvironment(name)
  \/ \E c \in Settings : AddSource(Json(c))
  \/ \E optional \in BOOLEAN : AddSource([kind |-> "file", optional |-> optional])
  \/ Reload \/ Build \/ LoadNext \/ LoadThrows \/ LoadEnds
  \/ \E w \in Writes : Assign(w.key, w.value)
  \/ \E f \in Files, state \in FileStates : EditFile(f, state)

-----------------------------------------------------------------------------
ConfTypeOK ==
  /\ environment \in Names
  /\ sources \in Seq(Sources)
  /\ providers \in Seq([source : Sources, data : Contents])
  /\ conf \in Contents
  /\ merged \in 0..Len(providers)
  /\ direct \subseteq Keys
  /\ loading \in BOOLEAN
  /\ files \in [Files -> FileKinds]
  /\ edits \in 0..MaxEdits
  /\ loads \in 0..MaxLoads

(* At every moment, also half way through a reload and after one that      *)
(* threw, a key has the value of the first provider, in the order sources  *)
(* were added, that has read one since the configuration was cleared: a    *)
(* later source never overrides an earlier one, and nothing older stays,   *)
(* what was written directly before included. Only keys written directly   *)
(* since then may differ.                                                  *)
Having(k) == {n \in 1..merged : providers[n].data[k] # Absent}

FirstSourceWins ==
  \A k \in Keys \ direct :
    IF Having(k) = {} THEN conf[k] = Absent
    ELSE \E n \in Having(k) :
           /\ \A m \in Having(k) : n <= m
           /\ conf[k] = providers[n].data[k]
=============================================================================
