------------------------------ MODULE Startup ------------------------------
(***************************************************************************)
(* run_cli of src/BsdRuntime.cpp: load .env, read the arguments, load the  *)
(* profile, apply the overrides of the process environment, build the      *)
(* logger and start the application.  The files are arbitrary: each turn   *)
(* of a reading loop takes any line of the given sets.                     *)
(***************************************************************************)
EXTENDS Config

CONSTANTS
  Defaults,      \* the Settings a process starts with
  EnvLines,      \* lines of the .env file: records with a key and a value
  ProfileLines,  \* lines of the profile, as Config describes them
  Environments,  \* process environments: from Overridable to sets of values,
                 \* {} for a name that is not set or set to nothing
  MaxEnvLines, MaxProfileLines  \* bounds on the length of the two files

Overridable == {"RUDP_RUNTIME_SERVER_BIND_ADDRESS", "RUDP_RUNTIME_SERVER_BIND_PORT",
                "RUDP_RUNTIME_CLIENT_BIND_ADDRESS", "RUDP_RUNTIME_CLIENT_BIND_PORT",
                "RUDP_RUNTIME_CLIENT_REMOTE_ADDRESS", "RUDP_RUNTIME_CLIENT_REMOTE_PORT",
                "RUDP_RUNTIME_SERVER_LOG_PATH", "RUDP_RUNTIME_CLIENT_LOG_PATH"}

ASSUME InputsWellFormed ==
  /\ DOMAIN Defaults = PortKeys \union WordKeys \union LongKeys \union FlagKeys
                          \union TextKeys
  /\ \A l \in EnvLines : IsValue(l.value)
  /\ \A l \in ProfileLines : IsValue(l.value) /\ l.shape \in {"section", "field", "bare"}
  /\ \A env \in Environments : \A name \in Overridable : 
       \A v \in env[name] : IsValue(v) /\ v.text # NoText

VARIABLES
  phase,       \* where run_cli stands
  g_settings,  \* the global settings
  loaded,      \* the copy that load_from_env_file works on
  parser,      \* the copy that load_runtime_profile_from_yaml works on
  profile,     \* the profile run_cli holds: the empty or the only one
  sinks,       \* where log lines go
  env_read, profile_read,  \* history: the lines of the two files so far
  environment              \* history: the process environment

vars == << phase, g_settings, loaded, parser, profile, sinks,
           env_read, profile_read, environment >>

Init == /\ phase = "start"
        /\ g_settings = Defaults
        /\ loaded = Defaults
        /\ parser = NewParser(Defaults)
        /\ profile = {}
        /\ sinks = {}
        /\ env_read = << >>
        /\ profile_read = << >>
        /\ environment \in Environments

\* run_cli returns 1: "bad env" because of .env, "failed" later.
Fail(where) == /\ phase' = where
               /\ UNCHANGED << g_settings, loaded, parser, profile, sinks,
                               env_read, profile_read, environment >>

\* .env exists and opens.
OpenEnvFile == /\ phase = "start"
               /\ phase' = "env"
               /\ loaded' = g_settings
               /\ UNCHANGED << g_settings, parser, profile, sinks,
                               env_read, profile_read, environment >>

NoEnvFile == /\ phase = "start"
             /\ phase' = "args"
             /\ UNCHANGED << g_settings, loaded, parser, profile, sinks,
                             env_read, profile_read, environment >>

\* Mutant: the lines are applied to the global settings.
ReadEnvLine_in_place(line) ==
  /\ phase = "env"
  /\ Len(env_read) < MaxEnvLines
  /\ env_read' = Append(env_read, line)
  /\ LET results == apply_kv(g_settings, line.key, line.value)
     IN  \/ \E s \in results : g_settings' = s /\ loaded' = s /\ phase' = "env"
         \/ results = {} /\ phase' = "bad env" /\ UNCHANGED << g_settings, loaded >>
  /\ UNCHANGED << parser, profile, sinks, profile_read, environment >>

ReadEnvLine(line) ==
  /\ phase = "env"
  /\ Len(env_read) < MaxEnvLines
  /\ env_read' = Append(env_read, line)
  /\ LET results == apply_kv(loaded, line.key, line.value)
     IN  \/ \E s \in results : loaded' = s /\ phase' = "env"
         \/ results = {} /\ phase' = "bad env" /\ UNCHANGED loaded
  /\ UNCHANGED << g_settings, parser, profile, sinks, profile_read, environment >>

EndOfEnvFile == /\ phase = "env"
                /\ phase' = "args"
                /\ g_settings' = loaded
                /\ UNCHANGED << loaded, parser, profile, sinks,
                                env_read, profile_read, environment >>

\* .env does not open, or has a line without "=".
BadEnvFile == phase \in {"start", "env"} /\ Fail("bad env")

\* parse_args, and the profile opens.
OpenProfile == /\ phase = "args"
               /\ phase' = "profile"
               /\ parser' = NewParser(g_settings)
               /\ UNCHANGED << g_settings, loaded, profile, sinks,
                               env_read, profile_read, environment >>

\* The wrong number of arguments, or a profile that does not open.
NoProfile == phase = "args" /\ Fail("failed")

ReadProfileLine(line) ==
  /\ phase = "profile"
  /\ Len(profile_read) < MaxProfileLines
  /\ profile_read' = Append(profile_read, line)
  /\ LET results == apply_profile_line(parser, line, g_settings)
     IN  \/ \E p \in results : parser' = p /\ phase' = "profile"
         \/ results = {} /\ phase' = "failed" /\ UNCHANGED parser
  /\ UNCHANGED << g_settings, loaded, profile, sinks, env_read, environment >>

EndOfProfile ==
  /\ phase = "profile"
  /\ profile' = Validated(WithDefaultChannel(parser.profile))
  /\ phase' = IF profile' = {} THEN "failed" ELSE "overrides"
  /\ UNCHANGED << g_settings, loaded, parser, sinks,
                  env_read, profile_read, environment >>

apply_string_override(p, field, values) ==
  IF values = {} THEN p
  ELSE [p EXCEPT ![field] = (CHOOSE v \in values : TRUE).text]

\* What stoul rejects is ignored.
apply_u16_override(p, field, values) ==
  LET numbers == {v.number : v \in values} \intersect (0 .. LongSpace - 1)
  IN  IF numbers = {} THEN p
      ELSE [p EXCEPT ![field] = (CHOOSE n \in numbers : TRUE) % PortSpace]

apply_connection_overrides(p, env) ==
  IF p.mode = "Server"
  THEN apply_u16_override(
         apply_string_override(p, "bind_address", env["RUDP_RUNTIME_SERVER_BIND_ADDRESS"]),
         "bind_port", env["RUDP_RUNTIME_SERVER_BIND_PORT"])
  ELSE LET bound == apply_u16_override(
             apply_string_override(p, "bind_address", env["RUDP_RUNTIME_CLIENT_BIND_ADDRESS"]),
             "bind_port", env["RUDP_RUNTIME_CLIENT_BIND_PORT"])
       IN  apply_u16_override(
             apply_string_override(bound, "remote_address",
                                   env["RUDP_RUNTIME_CLIENT_REMOTE_ADDRESS"]),
             "remote_port", env["RUDP_RUNTIME_CLIENT_REMOTE_PORT"])

LogPathOverride(mode, env) ==
  IF mode = "Server" THEN env["RUDP_RUNTIME_SERVER_LOG_PATH"]
                     ELSE env["RUDP_RUNTIME_CLIENT_LOG_PATH"]

apply_log_path_override(p, env) ==
  apply_string_override(p, "log_path", LogPathOverride(p.mode, env))

ApplyOverrides ==
  /\ phase = "overrides"
  /\ phase' = "logger"
  /\ profile' = {apply_log_path_override(apply_connection_overrides(p, environment),
                                         environment) : p \in profile}
  /\ UNCHANGED << g_settings, loaded, parser, sinks,
                  env_read, profile_read, environment >>

(* The file logger may be built, or fail in the logging library (caught:    *)
(* the console alone remains), or fail to create its directory, whose       *)
(* exception nothing catches.                                               *)
make_runtime_logger ==
  /\ phase = "logger"
  /\ \/ phase' = "running" /\ sinks' = {"console", "file"}
     \/ phase' = "running" /\ sinks' = {"console"}
     \/ phase' = "terminated" /\ UNCHANGED sinks
  /\ UNCHANGED << g_settings, loaded, parser, profile,
                  env_read, profile_read, environment >>

\* The application has taken over, or the process has ended.
Done == phase \in {"running", "bad env", "failed", "terminated"} /\ UNCHANGED vars

Next == \/ OpenEnvFile \/ NoEnvFile \/ EndOfEnvFile \/ BadEnvFile
        \/ \E line \in EnvLines : ReadEnvLine(line)
        \/ OpenProfile \/ NoProfile \/ EndOfProfile
        \/ \E line \in ProfileLines : ReadProfileLine(line)
        \/ ApplyOverrides \/ make_runtime_logger
        \/ Done

Spec == Init /\ [][Next]_vars
-----------------------------------------------------------------------------
Running == phase = "running"

\* Line i of .env is the last one that sets the key.
LastFor(key, i) == /\ env_read[i].key = key
                   /\ \A j \in DOMAIN env_read : j > i => env_read[j].key # key

\* What .env makes of the defaults: the last line for a key decides about it.
EnvFileSays(key, value) ==
  IF \A i \in DOMAIN env_read : env_read[i].key # key THEN value = Defaults[key]
  ELSE \E i \in DOMAIN env_read :
         /\ LastFor(key, i)
         /\ value \in {s[key] : s \in apply_kv(Defaults, key, env_read[i].value)}

(* A .env file counts as a whole: until its last line has been read, and    *)
(* for ever when one line is refused, the global settings are those the     *)
(* process started with; afterwards each one is what the last line for it   *)
(* says, so a repeated key overrides, and an unknown one changes nothing    *)
(* (load_from_env_file works on a copy).                                    *)
EnvFileIsAtomic ==
  \A key \in DOMAIN Defaults :
    IF phase \in {"start", "env", "bad env"}
    THEN g_settings[key] = Defaults[key]
    ELSE EnvFileSays(key, g_settings[key])

(* The application finds a channel to send plain text on: whatever the      *)
(* file says about channels and in which order, a started program has at    *)
(* least one channel marked default (apply_profile_yaml, its last step).    *)
DefaultChannelExists ==
  Running => \A p \in profile : \E i \in DOMAIN p.channels : p.channels[i].is_default

(* An override of the remote port leaves a port: it is refused as a number, *)
(* or the 16 bits that the cast keeps of it are not all zero.               *)
KeepsRemotePort(env) ==
  \A v \in env["RUDP_RUNTIME_CLIENT_REMOTE_PORT"] :
    v.number \in 0 .. LongSpace - 1 => v.number % PortSpace # 0

(* A client that starts has somewhere to send to (the last check of         *)
(* apply_profile_yaml), whatever the lines of both files, the narrowing of  *)
(* numbers to 16 bits, and the overrides, if they leave a port.             *)
ClientHasRemote ==
  Running => \A p \in profile :
    p.mode = "Client" => p.remote_address # NoText /\ p.remote_port # 0

\* Line i of the profile opens a section, sets the mode, or names a log path:
\* the last only inside the section runtime.
OpensSection(i) == profile_read[i].indent = 0 /\ profile_read[i].shape = "section"

InRuntime(i) ==
  \E j \in DOMAIN profile_read :
    /\ j < i /\ OpensSection(j) /\ KeyOf(profile_read[j]) = "runtime"
    /\ \A k \in DOMAIN profile_read : j < k /\ k < i => ~OpensSection(k)

SetsMode(i) == /\ profile_read[i].indent = 0 /\ profile_read[i].shape = "field"
               /\ KeyOf(profile_read[i]) = "mode"

NamesLogPath(i) == /\ profile_read[i].indent = 2 /\ InRuntime(i)
                   /\ KeyOf(profile_read[i]) = "log_path"

\* Line i names a log path, and no later line names another or sets the mode.
DecidesLogPath(i) ==
  /\ i \in DOMAIN profile_read /\ NamesLogPath(i)
  /\ \A j \in DOMAIN profile_read : j > i => ~NamesLogPath(j) /\ ~SetsMode(j)

(* The log goes where this mode's configuration says: to the override of    *)
(* the environment for this mode; without one, to the path named by the     *)
(* last log_path line of the profile, if no mode line comes after it (a     *)
(* mode line takes the path of .env again); and if no line decides in this  *)
(* way, to the path that .env gives for this mode and not for the other.    *)
LogPathBelongsToMode ==
  Running => \A p \in profile :
    LET override == LogPathOverride(p.mode, environment)
    IN  IF override # {} THEN p.log_path \in {v.text : v \in override}
        ELSE /\ \A i \in DOMAIN profile_read :
                  DecidesLogPath(i) => p.log_path = profile_read[i].value.text
             /\ (\A i \in DOMAIN profile_read : ~DecidesLogPath(i)) =>
                  p.log_path = LogPathOf(g_settings, p.mode)

(* The message of the last check of apply_profile_yaml: a client profile    *)
(* that is accepted defines connection.remote_address and                   *)
(* connection.remote_port itself.                                           *)
ClientDefinesRemote ==
  \A p \in profile :
    p.mode = "Client" =>
      {"remote_address", "remote_port"} \subseteq
        {profile_read[i].key : i \in DOMAIN profile_read}
=============================================================================
