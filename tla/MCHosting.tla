------------------------------ MODULE MCHosting ------------------------------
(***************************************************************************)
(* An instance of Hosting: numbers of threads at the edges of 16 bits, as  *)
(* text and as JSON numbers of either sign, lists and single URLs.         *)
(***************************************************************************)
EXTENDS Hosting, TLC

Text(n)     == [kind |-> "string", n |-> n]
Signed(n)   == [kind |-> "signed", n |-> n]
Unsigned(n) == [kind |-> "unsigned", n |-> n]
List(n)     == [kind |-> "array", n |-> n]
Other       == [kind |-> "other"]

MCKeys      == {"url", "threadsNumber", "Logging"}
MCProviders == <<"Console", "File">>

LevelsOf(own, file, common) ==
  [kind |-> "object", own |-> "Console" :> own @@ "File" :> file, common |-> common]

Verbose == LevelsOf(Debug, Unset, Information)
Quiet   == LevelsOf(4, None, Unset)
Wrong   == LevelsOf(Unset, NoString, Unset)

MCValues ==
  {Text(4), Text(0), Text(65537), Signed(-1), Signed(200), Unsigned(4), List(0), List(2), Other,
   Verbose, Quiet, Wrong}

One(k, v) == [key \in Keys |-> IF key = k THEN v ELSE Absent]

MCEnvVars  == {Nothing, One("threadsNumber", Text(65537))}
MCCliVars  == {Nothing, [One("url", Text(0)) EXCEPT !["threadsNumber"] = Text(4)]}
MCSettings ==
  {One("threadsNumber", Signed(-1)), One("threadsNumber", Signed(200)),
   One("Logging", Quiet)}
File(c) == [state |-> "object", content |-> c]
MCFiles ==
  {[Missing EXCEPT !.state = state] : state \in {"broken", "other"}}
  \union {File(One("threadsNumber", Unsigned(4))), File(One("url", List(0))),
          File(One("url", List(2))), File(One("Logging", Wrong)), File(One("Logging", Other)),
          File([One("Logging", Verbose) EXCEPT !["threadsNumber"] = Text(0)])}

MCWrites == {[key |-> "threadsNumber", value |-> Text(4)]}

MCStarts ==
  {[option |-> Absent, cli |-> Absent, var |-> Absent],
   [option |-> Absent, cli |-> "development", var |-> "production"]}
=============================================================================
