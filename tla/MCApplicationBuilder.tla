----------------------- MODULE MCApplicationBuilder ------------------------
(***************************************************************************)
(* An instance of ApplicationBuilder for TLC: the user has services of its *)
(* own, replacements for framework services, and log providers.            *)
(***************************************************************************)
EXTENDS ApplicationBuilder

MCInterfaces ==
  {"IEnvironment", "IConfiguration", "IServerSettingsProvider", "ILogger", "ILogProvider"}

MCImpls ==
  {"Environment", "ConfigurationManager", "ServerSettingsProvider", "Logger",
   "ConsoleLogProvider", "FileLogger", "FileLogProvider"}

MCUserServices ==
  {<<"IEnvironment", "Environment">>, <<"ILogger", "FileLogger">>,
   <<"ILogProvider", "FileLogProvider">>}
=============================================================================
