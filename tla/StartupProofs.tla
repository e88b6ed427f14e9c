---------------------------- MODULE StartupProofs ----------------------------
(***************************************************************************)
(* What the two files and the environment may do to a program that starts, *)
(* for files of any length and any lines, and for every width of integers. *)
(***************************************************************************)
EXTENDS Startup, TLAPS

-----------------------------------------------------------------------------
(* The .env file *)

\* A line changes its own key only, and to what it makes of any settings.
LEMMA KvLocal ==
  ASSUME NEW settings, DOMAIN settings = DOMAIN Defaults, NEW key, NEW value,
         NEW s \in apply_kv(settings, key, value)
  PROVE  /\ DOMAIN s = DOMAIN Defaults
         /\ \A k \in DOMAIN Defaults : k # key => s[k] = settings[k]
         /\ key \in DOMAIN Defaults =>
              s[key] \in {t[key] : t \in apply_kv(Defaults, key, value)}
<1>1. CASE key \in PortKeys \/ key \in WordKeys \/ key \in LongKeys
  <2> DEFINE width == IF key \in PortKeys THEN PortSpace
                      ELSE IF key \in WordKeys THEN WordSpace ELSE LongSpace
  <2>1. \/ key \in PortKeys /\ key \notin WordKeys /\ key \notin LongKeys
        \/ key \notin PortKeys /\ key \in WordKeys /\ key \notin LongKeys
        \/ key \notin PortKeys /\ key \notin WordKeys /\ key \in LongKeys
    BY <1>1, Zenon DEF PortKeys, WordKeys, LongKeys
  <2>2. key \notin FlagKeys /\ key \notin TextKeys
    BY <1>1, Zenon DEF PortKeys, WordKeys, LongKeys, FlagKeys, TextKeys
  <2>3. /\ apply_kv(settings, key, value) = assign_integer(settings, key, width, value)
        /\ apply_kv(Defaults, key, value) = assign_integer(Defaults, key, width, value)
    BY <2>1, <2>2, Zenon DEF apply_kv
  <2> HIDE DEF width
  <2>4. /\ value.number \in 0 .. LongSpace - 1
        /\ s = [settings EXCEPT ![key] = value.number % width]
        /\ apply_kv(Defaults, key, value) = {[Defaults EXCEPT ![key] = value.number % width]}
    BY <2>3, Zenon DEF assign_integer
  <2> QED BY <2>4, Zenon
<1>2. CASE key \in FlagKeys
  <2>1. key \notin PortKeys /\ key \notin WordKeys /\ key \notin LongKeys
        /\ key \notin TextKeys
    BY <1>2, Zenon DEF FlagKeys, PortKeys, WordKeys, LongKeys, TextKeys
  <2>2. /\ apply_kv(settings, key, value) = {[settings EXCEPT ![key] = b] : b \in value.boolean}
        /\ apply_kv(Defaults, key, value) = {[Defaults EXCEPT ![key] = b] : b \in value.boolean}
    BY <1>2, <2>1, Zenon DEF apply_kv
  <2>3. PICK b \in value.boolean : s = [settings EXCEPT ![key] = b] BY <2>2, Zenon
  <2>4. [Defaults EXCEPT ![key] = b] \in apply_kv(Defaults, key, value) BY <2>2, Zenon
  <2>5. key \in DOMAIN Defaults => s[key] = [Defaults EXCEPT ![key] = b][key] BY <2>3, Zenon
  <2> QED BY <2>3, <2>4, <2>5, Zenon
<1>3. CASE key \in TextKeys
  <2>1. apply_kv(settings, key, value) = {[settings EXCEPT ![key] = value.text]}
    BY <1>3, Zenon DEF apply_kv, TextKeys, FlagKeys, PortKeys, WordKeys, LongKeys
  <2>2. apply_kv(Defaults, key, value) = {[Defaults EXCEPT ![key] = value.text]}
    BY <1>3, Zenon DEF apply_kv, TextKeys, FlagKeys, PortKeys, WordKeys, LongKeys
  <2> QED BY <2>1, <2>2, Zenon
<1>4. CASE key \notin PortKeys \union WordKeys \union LongKeys \union FlagKeys \union TextKeys
  <2>1. s = settings BY <1>4, Zenon DEF apply_kv
  <2>2. key \notin DOMAIN Defaults BY <1>4, InputsWellFormed, Zenon DEF InputsWellFormed
  <2> QED BY <2>1, <2>2, Zenon
<1> QED BY <1>1, <1>2, <1>3, <1>4, Zenon

\* The global settings stay what they were while .env is read; the copy is
\* what the lines read so far say.
EnvOK ==
  /\ env_read \in Seq(EnvLines)
  /\ phase = "start" => env_read = << >>
  /\ phase \in {"start", "env", "bad env"} => g_settings = Defaults
  /\ phase = "env" =>
       /\ DOMAIN loaded = DOMAIN Defaults
       /\ \A key \in DOMAIN Defaults : EnvFileSays(key, loaded[key])
  /\ phase \notin {"start", "env", "bad env"} =>
       \A key \in DOMAIN Defaults : EnvFileSays(key, g_settings[key])

LEMMA ReadEnvLineOK ==
  ASSUME EnvOK, NEW line \in EnvLines, ReadEnvLine(line)
  PROVE  EnvOK'
<1>1. /\ phase = "env" /\ env_read \in Seq(EnvLines)
      /\ g_settings = Defaults /\ DOMAIN loaded = DOMAIN Defaults
      /\ \A key \in DOMAIN Defaults : EnvFileSays(key, loaded[key])
  BY Zenon DEF EnvOK, ReadEnvLine
<1>2. env_read' = Append(env_read, line) /\ g_settings' = g_settings
  BY Zenon DEF ReadEnvLine
<1>3. env_read' \in Seq(EnvLines) BY <1>1, <1>2
<1>4. CASE phase' = "bad env" BY <1>1, <1>2, <1>3, <1>4, Zenon DEF EnvOK
<1>5. CASE phase' = "env" /\ loaded' \in apply_kv(loaded, line.key, line.value)
  <2>0. PICK last \in Nat : last = Len(env_read) + 1 BY <1>1
  <2>1. /\ DOMAIN env_read = 1 .. Len(env_read) /\ Len(env_read) \in Nat
        /\ DOMAIN env_read' = 1 .. last
        /\ env_read'[last] = line
        /\ \A i \in DOMAIN env_read : env_read'[i] = env_read[i]
    BY <1>1, <1>2, <2>0
  <2>2. /\ DOMAIN loaded' = DOMAIN Defaults
        /\ \A k \in DOMAIN Defaults : k # line.key => loaded'[k] = loaded[k]
        /\ line.key \in DOMAIN Defaults =>
             loaded'[line.key] \in {t[line.key] : t \in apply_kv(Defaults, line.key, line.value)}
    BY <1>1, <1>5, KvLocal
  <2>3. ASSUME NEW key \in DOMAIN Defaults PROVE EnvFileSays(key, loaded[key])'
    <3>1. CASE key = line.key
      <4>1. last \in DOMAIN env_read' /\ LastFor(key, last)' BY <2>0, <2>1, <3>1 DEF LastFor
      <4>2. loaded'[key] \in {s[key] : s \in apply_kv(Defaults, key, env_read'[last].value)}
        BY <2>1, <2>2, <3>1, Zenon
      <4>3. ~ \A i \in DOMAIN env_read' : env_read'[i].key # key BY <2>0, <2>1, <3>1
      <4> QED BY <4>1, <4>2, <4>3, Zenon DEF EnvFileSays
    <3>2. CASE key # line.key
      <4>1. loaded'[key] = loaded[key] BY <2>2, <3>2, Zenon
      <4>2. CASE \A i \in DOMAIN env_read : env_read[i].key # key
        <5>1. \A i \in DOMAIN env_read' : env_read'[i].key # key
          BY <2>0, <2>1, <3>2, <4>2
        <5>2. loaded[key] = Defaults[key] BY <1>1, <4>2, Zenon DEF EnvFileSays
        <5> QED BY <4>1, <5>1, <5>2, Zenon DEF EnvFileSays
      <4>3. CASE ~ \A i \in DOMAIN env_read : env_read[i].key # key
        <5>1. PICK i \in DOMAIN env_read :
                /\ LastFor(key, i)
                /\ loaded[key] \in {s[key] : s \in apply_kv(Defaults, key, env_read[i].value)}
          BY <1>1, <4>3, Zenon DEF EnvFileSays
        <5>2. i \in DOMAIN env_read' /\ LastFor(key, i)'
          BY <2>0, <2>1, <3>2, <5>1 DEF LastFor
        <5>3. env_read'[i] = env_read[i] BY <2>1, Zenon
        <5>4. ~ \A j \in DOMAIN env_read' : env_read'[j].key # key
          BY <5>2, Zenon DEF LastFor
        <5> QED BY <4>1, <5>1, <5>2, <5>3, <5>4, Zenon DEF EnvFileSays
      <4> QED BY <4>2, <4>3, Zenon
    <3> QED BY <3>1, <3>2, Zenon
  <2> QED BY <1>1, <1>2, <1>3, <1>5, <2>2, <2>3, Zenon DEF EnvOK
<1> QED BY <1>4, <1>5, Zenon DEF ReadEnvLine

\* Reading the file is the only step that extends env_read, and its end the
\* only one that changes the global settings.
LEMMA EnvStep == ASSUME EnvOK, [Next]_vars PROVE EnvOK'
<1>1. CASE OpenEnvFile
  <2>1. /\ env_read = << >> /\ env_read' = env_read /\ phase' = "env"
        /\ g_settings = Defaults /\ g_settings' = g_settings /\ loaded' = g_settings
        /\ env_read \in Seq(EnvLines)
    BY <1>1, Zenon DEF OpenEnvFile, EnvOK
  <2>2. \A key \in DOMAIN Defaults : EnvFileSays(key, loaded[key])'
    BY <2>1 DEF EnvFileSays
  <2> QED BY <2>1, <2>2, Zenon DEF EnvOK
<1>2. CASE NoEnvFile
  <2>1. /\ env_read = << >> /\ env_read' = env_read /\ phase' = "args"
        /\ g_settings = Defaults /\ g_settings' = g_settings
        /\ env_read \in Seq(EnvLines)
    BY <1>2, Zenon DEF NoEnvFile, EnvOK
  <2>2. \A key \in DOMAIN Defaults : EnvFileSays(key, g_settings[key])'
    BY <2>1 DEF EnvFileSays
  <2> QED BY <2>1, <2>2, Zenon DEF EnvOK
<1>3. CASE EndOfEnvFile
  <2>1. /\ env_read' = env_read /\ phase' = "args" /\ g_settings' = loaded
        /\ env_read \in Seq(EnvLines)
        /\ \A key \in DOMAIN Defaults : EnvFileSays(key, loaded[key])
    BY <1>3, Zenon DEF EndOfEnvFile, EnvOK
  <2>2. \A key \in DOMAIN Defaults : EnvFileSays(key, g_settings[key])'
    BY <2>1, Zenon DEF EnvFileSays, LastFor
  <2> QED BY <2>1, <2>2, Zenon DEF EnvOK
<1>4. CASE BadEnvFile BY <1>4, Zenon DEF BadEnvFile, Fail, EnvOK
<1>5. ASSUME NEW line \in EnvLines, ReadEnvLine(line) PROVE EnvOK'
  BY <1>5, ReadEnvLineOK, Zenon
<1>6. ASSUME UNCHANGED << g_settings, env_read >>,
             phase \notin {"start", "env", "bad env"},
             phase' \notin {"start", "env", "bad env"}
      PROVE  EnvOK'
  <2>1. /\ env_read \in Seq(EnvLines)
        /\ \A key \in DOMAIN Defaults : EnvFileSays(key, g_settings[key])
    BY <1>6, Zenon DEF EnvOK
  <2>2. \A key \in DOMAIN Defaults : EnvFileSays(key, g_settings[key])'
    BY <1>6, <2>1, Zenon DEF EnvFileSays, LastFor
  <2> QED BY <1>6, <2>1, <2>2, Zenon DEF EnvOK
<1>7. CASE OpenProfile \/ NoProfile \/ EndOfProfile \/ ApplyOverrides \/ make_runtime_logger
  BY <1>6, <1>7
 , Zenon DEF OpenProfile, NoProfile, Fail, EndOfProfile, ApplyOverrides, make_runtime_logger
<1>8. ASSUME NEW line \in ProfileLines, ReadProfileLine(line) PROVE EnvOK'
  BY <1>6, <1>8, Zenon DEF ReadProfileLine
<1>9. CASE UNCHANGED vars BY <1>9, ZenonT(60) DEF vars, EnvOK, EnvFileSays, LastFor
<1> QED BY <1>1, <1>2, <1>3, <1>4, <1>5, <1>7, <1>8, <1>9, Zenon DEF Next, Done

LEMMA EnvAlwaysOK == Spec => []EnvOK
<1>1. Init => EnvOK
  <2> SUFFICES ASSUME Init PROVE EnvOK BY Zenon
  <2>1. << >> \in Seq(EnvLines) OBVIOUS
  <2> QED BY <2>1, Zenon DEF Init, EnvOK
<1> QED BY <1>1, EnvStep, PTL DEF Spec

\* A .env file counts as a whole, however long it is and wherever a line of
\* it is refused; of several lines for one key the last one counts.
THEOREM EnvFileWhole == Spec => []EnvFileIsAtomic
<1>1. EnvOK => EnvFileIsAtomic BY Zenon DEF EnvOK, EnvFileIsAtomic
<1> QED BY <1>1, EnvAlwaysOK, PTL

-----------------------------------------------------------------------------
(* The profile *)

ChannelTypes == {"ReliableOrdered", "ReliableUnordered", "Unreliable", "MonotonicState"}
ChannelNames == {NoText, "default"} \union {l.value.text : l \in ProfileLines}
Channel == [id : Nat, name : ChannelNames, type : ChannelTypes, is_default : BOOLEAN]

ProfileFields == {"mode", "bind_address", "bind_port", "remote_address", "remote_port",
                  "log_path", "socket_buffer_size", "loop_sleep_us",
                  "select_timeout_us", "poll_budget", "channels"}
PlainFields == ProfileFields \ {"mode", "log_path", "channels"}

ProfileOK(p) == /\ DOMAIN p = ProfileFields
                /\ p.mode \in Modes
                /\ p.channels \in Seq(Channel)

\* current_channel is only followed where there is a channel.
ParserOK(q) == /\ DOMAIN q = {"profile", "section", "in_channel"}
               /\ ProfileOK(q.profile)
               /\ q.in_channel \in BOOLEAN
               /\ q.in_channel => q.profile.channels # << >>

\* What a line says, of itself: it opens a section, sets the mode, or names a
\* log path if it stands in the section runtime.
IsSection(line) == line.indent = 0 /\ line.shape = "section"
IsMode(line) == line.indent = 0 /\ line.shape = "field" /\ KeyOf(line) = "mode"
IsLogPath(line, section) ==
  line.indent = 2 /\ section = "runtime" /\ KeyOf(line) = "log_path"

\* Mode and log path when a line turns profile p into q.
LogSource(p, q, line, section, settings) ==
  /\ IsMode(line) => q.log_path = LogPathOf(settings, q.mode)
  /\ IsLogPath(line, section) => q.log_path = line.value.text
  /\ ~IsMode(line) /\ ~IsLogPath(line, section) =>
       q.mode = p.mode /\ q.log_path = p.log_path

\* The fields that no property looks at.
LEMMA PlainField ==
  ASSUME NEW p, DOMAIN p = ProfileFields, NEW field \in PlainFields, NEW v, NEW q,
         q = [p EXCEPT ![field] = v]
  PROVE  /\ DOMAIN q = ProfileFields /\ q.mode = p.mode
         /\ q.log_path = p.log_path /\ q.channels = p.channels
BY Zenon DEF PlainFields, ProfileFields

LEMMA PlainInteger ==
  ASSUME NEW p, DOMAIN p = ProfileFields, NEW field \in PlainFields, NEW space, NEW value,
         NEW q \in assign_integer(p, field, space, value)
  PROVE  /\ DOMAIN q = ProfileFields /\ q.mode = p.mode
         /\ q.log_path = p.log_path /\ q.channels = p.channels
<1>1. q = [p EXCEPT ![field] = value.number % space] BY Zenon DEF assign_integer
<1> QED BY <1>1, PlainField

LEMMA NewParserOK ==
  ASSUME NEW settings
  PROVE  /\ ParserOK(NewParser(settings))
         /\ NewParser(settings).profile.log_path =
              LogPathOf(settings, NewParser(settings).profile.mode)
<1> DEFINE p == default_runtime_profile(settings)
<1>1. /\ DOMAIN p = ProfileFields /\ p.mode = "Server" /\ p.channels = << >>
      /\ p.log_path = LogPathOf(settings, "Server")
  BY Zenon DEF default_runtime_profile, ProfileFields
<1>2. << >> \in Seq(Channel) OBVIOUS
<1>3. ProfileOK(p) BY <1>1, <1>2, Zenon DEF ProfileOK, Modes
<1> HIDE DEF p
<1>4. NewParser(settings) = [profile |-> p, section |-> NoText, in_channel |-> FALSE]
  BY Zenon DEF NewParser, p
<1>5. ParserOK(NewParser(settings)) BY <1>3, <1>4 DEF ParserOK
<1>6. NewParser(settings).profile = p BY <1>4
<1> QED BY <1>1, <1>5, <1>6, Zenon

LEMMA RootFieldOK ==
  ASSUME NEW p, ProfileOK(p), NEW key, NEW value, NEW settings,
         NEW q \in apply_root_field(p, key, value, settings)
  PROVE  /\ ProfileOK(q) /\ q.channels = p.channels
         /\ key = "mode" => q.log_path = LogPathOf(settings, q.mode)
         /\ key # "mode" => q.mode = p.mode /\ q.log_path = p.log_path
<1>1. CASE key # "mode"
  <2>1. q = p BY <1>1, Zenon DEF apply_root_field
  <2> QED BY <1>1, <2>1, Zenon
<1>2. CASE key = "mode"
  <2>1. PICK mode \in parse_runtime_mode(value.text) :
          q = [p EXCEPT !.mode = mode, !.log_path = LogPathOf(settings, mode)]
    BY <1>2, Zenon DEF apply_root_field
  <2>2. mode \in Modes BY Zenon DEF parse_runtime_mode, Modes
  <2>3. /\ DOMAIN q = ProfileFields /\ q.mode = mode /\ q.channels = p.channels
        /\ q.log_path = LogPathOf(settings, mode)
    BY <2>1, Zenon DEF ProfileOK, ProfileFields
  <2> QED BY <1>2, <2>2, <2>3, Zenon DEF ProfileOK
<1> QED BY <1>1, <1>2, Zenon

LEMMA ProfileFieldOK ==
  ASSUME NEW p, ProfileOK(p), NEW scope, NEW key, NEW value,
         NEW q \in apply_profile_field(p, scope, key, value)
  PROVE  /\ ProfileOK(q) /\ q.channels = p.channels /\ q.mode = p.mode
         /\ q.log_path = IF scope = "runtime" /\ key = "log_path"
                         THEN value.text ELSE p.log_path
<1>1. DOMAIN p = ProfileFields BY Zenon DEF ProfileOK
<1>2. CASE scope = "runtime" /\ key = "log_path"
  <2>1. q = [p EXCEPT !.log_path = value.text]
    BY <1>2, Zenon DEF apply_profile_field
  <2>2. /\ DOMAIN q = ProfileFields /\ q.mode = p.mode /\ q.channels = p.channels
        /\ q.log_path = value.text
    BY <1>1, <2>1, Zenon DEF ProfileFields
  <2> QED BY <1>2, <2>2, Zenon DEF ProfileOK
<1>3. CASE ~(scope = "runtime" /\ key = "log_path")
  <2>1. \/ q = p
        \/ /\ key \in {"socket_buffer_size", "loop_sleep_us", "select_timeout_us",
                       "poll_budget", "bind_address", "remote_address", "bind_port",
                       "remote_port"}
           /\ \/ \E space : q \in assign_integer(p, key, space, value)
              \/ q = [p EXCEPT ![key] = value.text]
    BY <1>3, Zenon DEF apply_profile_field
  <2>2. key \in {"socket_buffer_size", "loop_sleep_us", "select_timeout_us", "poll_budget",
                 "bind_address", "remote_address", "bind_port", "remote_port"}
          => key \in PlainFields
    BY Zenon DEF PlainFields, ProfileFields
  <2>3. CASE q = p BY <1>3, <2>3, Zenon
  <2>4. CASE /\ key \in PlainFields
             /\ \/ \E space : q \in assign_integer(p, key, space, value)
                \/ q = [p EXCEPT ![key] = value.text]
    <3>1. /\ DOMAIN q = ProfileFields /\ q.mode = p.mode
          /\ q.log_path = p.log_path /\ q.channels = p.channels
      BY <1>1, <2>4, PlainField, PlainInteger
    <3> QED BY <1>3, <3>1, Zenon DEF ProfileOK
  <2> QED BY <2>1, <2>2, <2>3, <2>4, Zenon
<1> QED BY <1>2, <1>3, Zenon

LEMMA ChannelFieldOK ==
  ASSUME NEW c \in Channel, NEW key, NEW value, IsValue(value), value.text \in ChannelNames,
         NEW d \in apply_channel_field(c, key, value)
  PROVE  d \in Channel
<1>1. CASE d = c BY <1>1, Zenon
<1>2. CASE \E n \in Nat : d = [c EXCEPT !.id = n] BY <1>2, Zenon DEF Channel
<1>3. CASE d = [c EXCEPT !.name = value.text] BY <1>3, Zenon DEF Channel
<1>4. CASE \E t \in parse_channel_type(value.text) : d = [c EXCEPT !.type = t]
  <2>1. parse_channel_type(value.text) \subseteq ChannelTypes
    BY Zenon DEF parse_channel_type, ChannelTypes
  <2> QED BY <1>4, <2>1, Zenon DEF Channel
<1>5. CASE \E b \in value.boolean : d = [c EXCEPT !.is_default = b]
  BY <1>5, Zenon DEF Channel, IsValue
<1>6. d \in assign_integer(c, "id", WordSpace, value) => \E n \in Nat : d = [c EXCEPT !.id = n]
  <2> HAVE d \in assign_integer(c, "id", WordSpace, value)
  <2>1. value.number \in Nat /\ d = [c EXCEPT !.id = value.number % WordSpace]
    BY DEF assign_integer
  <2>2. value.number % WordSpace \in Nat BY <2>1, SpacesNest DEF SpacesNest
  <2> QED BY <2>1, <2>2, Zenon
<1> QED BY <1>1, <1>2, <1>3, <1>4, <1>5, <1>6, Zenon DEF apply_channel_field

LEMMA LastChannelOK ==
  ASSUME NEW parser0, ParserOK(parser0), NEW channels \in Seq(Channel), channels # << >>,
         NEW key, NEW value, IsValue(value), value.text \in ChannelNames,
         NEW q \in WithLastChannel(parser0, channels, key, value)
  PROVE  /\ ParserOK(q) /\ q.section = parser0.section
         /\ q.profile.mode = parser0.profile.mode
         /\ q.profile.log_path = parser0.profile.log_path
<1> DEFINE last == Len(channels)
<1>1. last \in 1 .. last /\ channels[last] \in Channel OBVIOUS
<1>2. PICK c \in apply_channel_field(channels[last], key, value) :
        q = [parser0 EXCEPT !.profile.channels = [channels EXCEPT ![last] = c],
                            !.in_channel = TRUE]
  BY Zenon DEF WithLastChannel
<1>3. c \in Channel BY <1>1, <1>2, ChannelFieldOK, Zenon
<1> DEFINE new == [channels EXCEPT ![last] = c]
<1>4. new \in Seq(Channel) /\ Len(new) = last BY <1>1, <1>3
<1>5. new # << >> BY <1>1, <1>4
<1> HIDE DEF new
<1>6. DOMAIN parser0 = {"profile", "section", "in_channel"} /\ ProfileOK(parser0.profile)
  BY Zenon DEF ParserOK
<1>7. /\ DOMAIN q = {"profile", "section", "in_channel"}
      /\ q.in_channel = TRUE /\ q.section = parser0.section
      /\ q.profile = [parser0.profile EXCEPT !.channels = new]
  BY <1>2, <1>6, Zenon DEF new
<1>8. /\ DOMAIN q.profile = ProfileFields /\ q.profile.channels = new
      /\ q.profile.mode = parser0.profile.mode
      /\ q.profile.log_path = parser0.profile.log_path
  BY <1>6, <1>7 DEF ProfileOK, ProfileFields
<1> QED BY <1>4, <1>5, <1>6, <1>7, <1>8, Zenon DEF ParserOK, ProfileOK

\* One line of the profile.
LEMMA ProfileLineOK ==
  ASSUME NEW parser0, ParserOK(parser0), NEW line \in ProfileLines, NEW settings,
         NEW q \in apply_profile_line(parser0, line, settings)
  PROVE  /\ ParserOK(q)
         /\ q.section = IF IsSection(line) THEN KeyOf(line) ELSE parser0.section
         /\ LogSource(parser0.profile, q.profile, line, parser0.section, settings)
<1>1. /\ DOMAIN parser0 = {"profile", "section", "in_channel"}
      /\ ProfileOK(parser0.profile) /\ parser0.in_channel \in BOOLEAN
      /\ parser0.in_channel => parser0.profile.channels # << >>
  BY Zenon DEF ParserOK
<1>2. /\ IsValue(line.value) /\ line.shape \in {"section", "field", "bare"}
      /\ line.value.text \in ChannelNames
  BY InputsWellFormed, Zenon DEF InputsWellFormed, ChannelNames
<1>3. CASE line.indent = 0 /\ q \in RootLine(parser0, line, settings)
  <2> DEFINE outside == [parser0 EXCEPT !.in_channel = FALSE]
  <2>1. /\ DOMAIN outside = {"profile", "section", "in_channel"}
        /\ outside.profile = parser0.profile /\ outside.in_channel = FALSE
        /\ outside.section = parser0.section
    BY <1>1, Zenon
  <2>0. ~IsLogPath(line, parser0.section) BY <1>3 DEF IsLogPath
  <2>2. CASE line.shape = "section"
    <3>1. q = [outside EXCEPT !.section = KeyOf(line)] BY <1>3, <2>2, Zenon DEF RootLine
    <3>2. /\ DOMAIN q = {"profile", "section", "in_channel"}
          /\ q.profile = parser0.profile /\ q.in_channel = FALSE
          /\ q.section = KeyOf(line)
      BY <2>1, <3>1, Zenon
    <3>3. IsSection(line) /\ ~IsMode(line) BY <1>3, <2>2, Zenon DEF IsSection, IsMode
    <3> QED BY <1>1, <2>0, <3>2, <3>3, Zenon DEF ParserOK, LogSource
  <2>3. CASE line.shape = "field"
    <3> DEFINE key == KeyOf(line)
    <3>1. q \in WithProfile(outside, apply_root_field(parser0.profile, key,
                                                      line.value, settings))
      BY <1>3, <2>3, Zenon DEF RootLine
    <3>2. PICK p \in apply_root_field(parser0.profile, key, line.value, settings) :
            q = [outside EXCEPT !.profile = p]
      BY <3>1, Zenon DEF WithProfile
    <3>3. /\ ProfileOK(p)
          /\ key = "mode" => p.log_path = LogPathOf(settings, p.mode)
          /\ key # "mode" => /\ p.mode = parser0.profile.mode
                             /\ p.log_path = parser0.profile.log_path
      <4> HIDE DEF key
      <4> QED BY <1>1, RootFieldOK
    <3>4. /\ DOMAIN q = {"profile", "section", "in_channel"}
          /\ q.profile = p /\ q.in_channel = FALSE /\ q.section = parser0.section
      BY <2>1, <3>2, Zenon
    <3>5. ~IsSection(line) /\ (IsMode(line) <=> key = "mode")
      BY <1>3, <2>3, Zenon DEF IsSection, IsMode
    <3> QED BY <2>0, <3>3, <3>4, <3>5, Zenon DEF ParserOK, LogSource
  <2>4. line.shape # "bare" BY <1>3, Zenon DEF RootLine
  <2> QED BY <1>2, <2>2, <2>3, <2>4, Zenon
<1>4. CASE /\ line.indent # 0 /\ parser0.section = "channels"
           /\ q \in ChannelLine(parser0, line)
  <2> DEFINE channels == parser0.profile.channels
  <2>1. channels \in Seq(Channel) BY <1>1, Zenon DEF ProfileOK
  <2>2. NewChannel \in Channel BY Zenon DEF NewChannel, Channel, ChannelTypes, ChannelNames
  <2> DEFINE more == Append(channels, NewChannel)
  <2>3. more \in Seq(Channel) /\ more # << >> BY <2>1, <2>2
  <2>4. \/ q \in WithLastChannel(parser0, more, line.key, line.value)
        \/ /\ parser0.in_channel
           /\ q \in WithLastChannel(parser0, channels, KeyOf(line), line.value)
    BY <1>4, Zenon DEF ChannelLine
  <2> HIDE DEF channels, more
  <2>5. /\ ParserOK(q) /\ q.section = parser0.section
        /\ q.profile.mode = parser0.profile.mode
        /\ q.profile.log_path = parser0.profile.log_path
    <3>1. CASE q \in WithLastChannel(parser0, more, line.key, line.value)
      BY <1>2, <2>3, <3>1, LastChannelOK
    <3>2. CASE /\ parser0.in_channel
               /\ q \in WithLastChannel(parser0, channels, KeyOf(line), line.value)
      <4>1. channels # << >> BY <1>1, <3>2, Zenon DEF channels
      <4> QED BY <1>2, <2>1, <3>2, <4>1, LastChannelOK
    <3> QED BY <2>4, <3>1, <3>2, Zenon
  <2>6. ~IsSection(line) /\ ~IsMode(line) /\ ~IsLogPath(line, parser0.section)
    BY <1>4, Zenon DEF IsSection, IsMode, IsLogPath
  <2> QED BY <2>5, <2>6, Zenon DEF LogSource
<1>5. CASE /\ line.indent = 2
           /\ q \in WithProfile(parser0, apply_profile_field(parser0.profile, parser0.section,
                                                             KeyOf(line), line.value))
  <2> DEFINE p0 == parser0.profile
             scope == parser0.section
             key == KeyOf(line)
  <2>1. PICK p : /\ p \in apply_profile_field(p0, scope, key, line.value)
                 /\ q = [parser0 EXCEPT !.profile = p]
    BY <1>5, Zenon DEF WithProfile
  <2>2. /\ ProfileOK(p) /\ p.channels = p0.channels /\ p.mode = p0.mode
        /\ p.log_path = IF scope = "runtime" /\ key = "log_path"
                        THEN line.value.text ELSE p0.log_path
    <3>1. ProfileOK(p0) BY <1>1, Zenon
    <3> HIDE DEF p0, scope, key
    <3> QED BY <2>1, <3>1, ProfileFieldOK
  <2>3. /\ DOMAIN q = {"profile", "section", "in_channel"}
        /\ q.profile = p /\ q.in_channel = parser0.in_channel /\ q.section = scope
    BY <1>1, <2>1, Zenon
  <2>4. /\ ~IsSection(line) /\ ~IsMode(line)
        /\ IsLogPath(line, scope) <=> scope = "runtime" /\ key = "log_path"
    BY <1>5 DEF IsSection, IsMode, IsLogPath
  <2> HIDE DEF key
  <2> QED BY <1>1, <2>2, <2>3, <2>4, Zenon DEF ParserOK, LogSource
<1> QED BY <1>3, <1>4, <1>5, Zenon DEF apply_profile_line

HasDefault(p) == \E i \in DOMAIN p.channels : p.channels[i].is_default
HasRemote(p) == p.mode = "Client" => p.remote_address # NoText /\ p.remote_port # 0

\* The last step of apply_profile_yaml but one: a default channel.
LEMMA DefaultChannelOK ==
  ASSUME NEW p, ProfileOK(p)
  PROVE  LET q == WithDefaultChannel(p)
         IN  ProfileOK(q) /\ HasDefault(q) /\ q.mode = p.mode /\ q.log_path = p.log_path
<1> DEFINE q == WithDefaultChannel(p)
           only == [id |-> 1, name |-> "default", type |-> "Unreliable", is_default |-> TRUE]
           none == \A i \in DOMAIN p.channels : ~ p.channels[i].is_default
<1>1. DOMAIN p = ProfileFields /\ p.mode \in Modes /\ p.channels \in Seq(Channel)
  BY Zenon DEF ProfileOK
<1> SUFFICES ProfileOK(q) /\ HasDefault(q) /\ q.mode = p.mode /\ q.log_path = p.log_path
  BY Zenon
<1>2. CASE p.channels = << >>
  <2>1. q = [p EXCEPT !.channels = << only >>] BY <1>2, Zenon DEF WithDefaultChannel
  <2>2. only \in Channel BY Zenon DEF Channel, ChannelTypes, ChannelNames
  <2>3. /\ << only >> \in Seq(Channel)
        /\ 1 \in DOMAIN << only >> /\ << only >>[1].is_default
    BY <2>2
  <2> HIDE DEF only
  <2>4. /\ DOMAIN q = ProfileFields /\ q.mode = p.mode /\ q.log_path = p.log_path
        /\ q.channels = << only >>
    BY <1>1, <2>1, Zenon DEF ProfileFields
  <2> HIDE DEF q
  <2> QED BY <1>1, <2>3, <2>4, Zenon DEF ProfileOK, HasDefault
<1>3. CASE p.channels # << >> /\ none
  <2> DEFINE new == [p.channels EXCEPT ![1].is_default = TRUE]
  <2>1. q = [p EXCEPT !.channels[1].is_default = TRUE]
    BY <1>3, Zenon DEF WithDefaultChannel
  <2>2. 1 \in DOMAIN p.channels /\ p.channels[1] \in Channel BY <1>1, <1>3
  <2>3. [p.channels[1] EXCEPT !.is_default = TRUE] \in Channel BY <2>2, Zenon DEF Channel
  <2>4. new \in Seq(Channel) BY <1>1, <2>2, <2>3
  <2>5. 1 \in DOMAIN new /\ new[1].is_default BY <2>2, Zenon DEF Channel
  <2>6. q = [p EXCEPT !.channels = new] BY <2>1, Zenon
  <2> HIDE DEF new
  <2>7. /\ DOMAIN q = ProfileFields /\ q.mode = p.mode /\ q.log_path = p.log_path
        /\ q.channels = new
    BY <1>1, <2>6, Zenon DEF ProfileFields
  <2> HIDE DEF q
  <2> QED BY <1>1, <2>4, <2>5, <2>7, Zenon DEF ProfileOK, HasDefault
<1>4. CASE p.channels # << >> /\ ~ none
  <2>1. q = p BY <1>4, Zenon DEF WithDefaultChannel
  <2> QED BY <1>4, <2>1, Zenon DEF HasDefault
<1> QED BY <1>2, <1>3, <1>4, Zenon

\* Its last check.
LEMMA ValidatedOK ==
  ASSUME NEW p, ProfileOK(p), NEW q \in Validated(p)
  PROVE  /\ ProfileOK(q) /\ HasRemote(q) /\ q.mode = p.mode
         /\ q.log_path = p.log_path /\ q.channels = p.channels
<1>1. CASE p.mode = "Server"
  <2>1. q = [p EXCEPT !.remote_address = NoText, !.remote_port = 0] BY <1>1, Zenon DEF Validated
  <2> QED BY <1>1, <2>1, Zenon DEF ProfileOK, ProfileFields, HasRemote
<1>2. CASE p.mode = "Client"
  <2>1. q = p /\ p.remote_address # NoText /\ p.remote_port # 0 BY <1>2, Zenon DEF Validated
  <2> QED BY <2>1, Zenon DEF HasRemote
<1> QED BY <1>1, <1>2, Zenon DEF ProfileOK, Modes

-----------------------------------------------------------------------------
(* The overrides of the process environment *)

LEMMA StringOverride ==
  ASSUME NEW p, NEW field, NEW values
  PROVE  LET q == apply_string_override(p, field, values)
         IN  \/ values = {} /\ q = p
             \/ \E v \in values : q = [p EXCEPT ![field] = v.text]
<1>1. CASE values = {} BY <1>1, Zenon DEF apply_string_override
<1>2. CASE values # {}
  <2> DEFINE v == CHOOSE v \in values : TRUE
  <2>1. v \in values BY <1>2, Zenon
  <2>2. apply_string_override(p, field, values) = [p EXCEPT ![field] = v.text]
    BY <1>2, Zenon DEF apply_string_override
  <2> HIDE DEF v
  <2> QED BY <2>1, <2>2, Zenon
<1> QED BY <1>1, <1>2, Zenon

LEMMA U16Override ==
  ASSUME NEW p, NEW field, NEW values
  PROVE  LET q == apply_u16_override(p, field, values)
         IN  \/ q = p
             \/ \E v \in values : /\ v.number \in 0 .. LongSpace - 1
                                  /\ q = [p EXCEPT ![field] = v.number % PortSpace]
<1> DEFINE numbers == {v.number : v \in values} \intersect (0 .. LongSpace - 1)
<1>1. CASE numbers = {} BY <1>1, Zenon DEF apply_u16_override
<1>2. CASE numbers # {}
  <2> DEFINE n == CHOOSE n \in numbers : TRUE
  <2>1. n \in numbers BY <1>2, Zenon
  <2>2. apply_u16_override(p, field, values) = [p EXCEPT ![field] = n % PortSpace]
    BY <1>2, Zenon DEF apply_u16_override
  <2> HIDE DEF n
  <2> QED BY <2>1, <2>2, Zenon
<1> QED BY <1>1, <1>2, Zenon

\* An override of an address or a port touches nothing else.
Same(p, q) == /\ DOMAIN q = ProfileFields /\ q.mode = p.mode
              /\ q.log_path = p.log_path /\ q.channels = p.channels

LEMMA AddressOverride ==
  ASSUME NEW p, DOMAIN p = ProfileFields, NEW values,
         NEW field \in {"bind_address", "remote_address"}, NEW q,
         q = apply_string_override(p, field, values)
  PROVE  /\ Same(p, q) /\ q.remote_port = p.remote_port
         /\ field = "bind_address" => q.remote_address = p.remote_address
         /\ (\A v \in values : v.text # NoText) /\ p.remote_address # NoText => q.remote_address # NoText
<1>1. CASE q = p BY <1>1, Zenon DEF Same
<1>2. ASSUME NEW v \in values, q = [p EXCEPT ![field] = v.text]
      PROVE  /\ Same(p, q) /\ q.remote_port = p.remote_port
             /\ field = "bind_address" => q.remote_address = p.remote_address
             /\ (\A x \in values : x.text # NoText) /\ p.remote_address # NoText => q.remote_address # NoText
  BY <1>2, Zenon DEF Same, ProfileFields
<1> QED BY <1>1, <1>2, StringOverride

LEMMA PortOverrides ==
  ASSUME NEW p, DOMAIN p = ProfileFields, NEW values,
         NEW field \in {"bind_port", "remote_port"}, NEW q,
         q = apply_u16_override(p, field, values)
  PROVE  /\ Same(p, q) /\ q.remote_address = p.remote_address
         /\ field = "bind_port" => q.remote_port = p.remote_port
         /\ /\ \A v \in values : v.number \in 0 .. LongSpace - 1 => v.number % PortSpace # 0
            /\ p.remote_port # 0
            => q.remote_port # 0
<1>1. CASE q = p BY <1>1, Zenon DEF Same
<1>2. ASSUME NEW v \in values, v.number \in 0 .. LongSpace - 1,
             q = [p EXCEPT ![field] = v.number % PortSpace]
      PROVE  /\ Same(p, q) /\ q.remote_address = p.remote_address
             /\ field = "bind_port" => q.remote_port = p.remote_port
             /\ /\ \A x \in values : x.number \in 0 .. LongSpace - 1 => x.number % PortSpace # 0
                /\ p.remote_port # 0
                => q.remote_port # 0
  <2> DEFINE n == v.number % PortSpace
  <2>1. (\A x \in values : x.number \in 0 .. LongSpace - 1 => x.number % PortSpace # 0) => n # 0
    BY <1>2, Zenon
  <2>2. q = [p EXCEPT ![field] = n] BY <1>2, Zenon
  <2> HIDE DEF n
  <2> QED BY <2>1, <2>2, Zenon DEF Same, ProfileFields
<1> QED BY <1>1, <1>2, U16Override

LEMMA ConnectionOverrides ==
  ASSUME NEW p, ProfileOK(p), NEW env \in Environments, NEW q,
         q = apply_connection_overrides(p, env)
  PROVE  /\ Same(p, q)
         /\ HasRemote(p) /\ KeepsRemotePort(env) => HasRemote(q)
<1>1. DOMAIN p = ProfileFields /\ p.mode \in Modes BY Zenon DEF ProfileOK
<1>2. CASE p.mode = "Server"
  <2> DEFINE a == apply_string_override(p, "bind_address",
                                        env["RUDP_RUNTIME_SERVER_BIND_ADDRESS"])
  <2>1. q = apply_u16_override(a, "bind_port", env["RUDP_RUNTIME_SERVER_BIND_PORT"])
    BY <1>2, Zenon DEF apply_connection_overrides
  <2>2. Same(p, a) BY <1>1, AddressOverride, Zenon
  <2> HIDE DEF a
  <2>3. Same(a, q) BY <2>1, <2>2, PortOverrides DEF Same
  <2>4. Same(p, q) BY <2>2, <2>3, Zenon DEF Same
  <2> QED BY <1>2, <2>4, Zenon DEF Same, HasRemote
<1>3. CASE p.mode = "Client"
  <2> DEFINE a == apply_string_override(p, "bind_address",
                                        env["RUDP_RUNTIME_CLIENT_BIND_ADDRESS"])
             b == apply_u16_override(a, "bind_port", env["RUDP_RUNTIME_CLIENT_BIND_PORT"])
             addresses == env["RUDP_RUNTIME_CLIENT_REMOTE_ADDRESS"]
             ports == env["RUDP_RUNTIME_CLIENT_REMOTE_PORT"]
             c == apply_string_override(b, "remote_address", addresses)
  <2>1. q = apply_u16_override(c, "remote_port", ports)
    BY <1>3, Zenon DEF apply_connection_overrides
  <2>2. /\ Same(p, a) /\ a.remote_port = p.remote_port
        /\ a.remote_address = p.remote_address
    BY <1>1, AddressOverride
  <2> HIDE DEF a
  <2>3. /\ Same(a, b) /\ b.remote_port = a.remote_port
        /\ b.remote_address = a.remote_address
    BY <2>2, PortOverrides DEF Same
  <2>4. \A v \in addresses : v.text # NoText
    BY InputsWellFormed, Zenon DEF InputsWellFormed, Overridable
  <2>5. KeepsRemotePort(env) =>
          \A v \in ports : v.number \in 0 .. LongSpace - 1 => v.number % PortSpace # 0
    BY Zenon DEF KeepsRemotePort
  <2> HIDE DEF b, addresses, ports
  <2>6. /\ Same(b, c) /\ c.remote_port = b.remote_port
        /\ b.remote_address # NoText => c.remote_address # NoText
    BY <2>3, <2>4, AddressOverride DEF Same
  <2> HIDE DEF c
  <2>7. /\ Same(c, q) /\ q.remote_address = c.remote_address
        /\ KeepsRemotePort(env) /\ c.remote_port # 0 => q.remote_port # 0
    BY <2>1, <2>5, <2>6, PortOverrides DEF Same
  <2>8. Same(p, q) BY <2>2, <2>3, <2>6, <2>7, Zenon DEF Same
  <2> QED BY <1>3, <2>2, <2>3, <2>6, <2>7, <2>8, Zenon DEF HasRemote
<1> QED BY <1>1, <1>2, <1>3, Zenon DEF Modes

-----------------------------------------------------------------------------
(* The invariant of the start *)

\* The path that the line which decides names; without one, that of .env.
LogSays(p) ==
  /\ \A i \in DOMAIN profile_read :
       DecidesLogPath(i) => p.log_path = profile_read[i].value.text
  /\ (\A i \in DOMAIN profile_read : ~DecidesLogPath(i)) =>
       p.log_path = LogPathOf(g_settings, p.mode)

LogBelongs(p) ==
  LET override == LogPathOverride(p.mode, environment)
  IN  IF override # {} THEN \E v \in override : p.log_path = v.text ELSE LogSays(p)

ProfileInv ==
  /\ profile_read \in Seq(ProfileLines)
  /\ environment \in Environments
  /\ ParserOK(parser)
  /\ phase \in {"start", "env", "args"} => profile_read = << >>
  /\ phase = "profile" =>
       /\ parser.section = "runtime" <=> InRuntime(Len(profile_read) + 1)
       /\ LogSays(parser.profile)
  /\ phase = "overrides" =>
       \A p \in profile : ProfileOK(p) /\ HasDefault(p) /\ HasRemote(p) /\ LogSays(p)
  /\ phase \in {"logger", "running"} =>
       \A p \in profile : /\ HasDefault(p) /\ LogBelongs(p)
                          /\ KeepsRemotePort(environment) => HasRemote(p)

LEMMA LogSaysKept ==
  ASSUME UNCHANGED << profile_read, g_settings >>
  PROVE  /\ \A p : LogSays(p)' <=> LogSays(p)
         /\ InRuntime(Len(profile_read) + 1)' <=> InRuntime(Len(profile_read) + 1)
<1>1. \A i : OpensSection(i)' <=> OpensSection(i) BY Zenon DEF OpensSection
<1>2. \A i : InRuntime(i)' <=> InRuntime(i) BY <1>1, Zenon DEF InRuntime
<1>3. \A i : /\ NamesLogPath(i)' <=> NamesLogPath(i)
             /\ SetsMode(i)' <=> SetsMode(i)
  BY <1>2, Zenon DEF NamesLogPath, SetsMode
<1>4. \A i : DecidesLogPath(i)' <=> DecidesLogPath(i) BY <1>3, Zenon DEF DecidesLogPath
<1>5. \A p : LogSays(p)' <=> LogSays(p) BY <1>4, Zenon DEF LogSays
<1>6. InRuntime(Len(profile_read) + 1)' <=> InRuntime(Len(profile_read) + 1)
  BY <1>1, Zenon DEF InRuntime
<1> QED BY <1>5, <1>6, Zenon

\* What the lines of the profile say when another one is read.
LEMMA AnotherLine ==
  ASSUME profile_read \in Seq(ProfileLines), NEW line \in ProfileLines,
         profile_read' = Append(profile_read, line), NEW n, n = Len(profile_read) + 1
  PROVE  /\ DOMAIN profile_read' = DOMAIN profile_read \union {n}
         /\ \A i \in DOMAIN profile_read :
              /\ i < n /\ profile_read'[i] = profile_read[i]
              /\ NamesLogPath(i)' <=> NamesLogPath(i)
              /\ SetsMode(i)' <=> SetsMode(i)
         /\ profile_read'[n] = line
         /\ NamesLogPath(n)' <=> /\ line.indent = 2 /\ InRuntime(n)
                                 /\ KeyOf(line) = "log_path"
         /\ SetsMode(n)' <=> IsMode(line)
         /\ InRuntime(n + 1)' <=> IF IsSection(line) THEN KeyOf(line) = "runtime"
                                  ELSE InRuntime(n)
<1>1. /\ n \in Nat /\ DOMAIN profile_read = 1 .. n - 1 /\ DOMAIN profile_read' = 1 .. n
      /\ profile_read'[n] = line
      /\ \A i \in 1 .. n - 1 : profile_read'[i] = profile_read[i]
  OBVIOUS
<1>2. \A i \in 1 .. n - 1 : /\ OpensSection(i)' <=> OpensSection(i)
                            /\ SetsMode(i)' <=> SetsMode(i)
  BY <1>1, Zenon DEF OpensSection, SetsMode
<1>3. (OpensSection(n)' <=> IsSection(line)) /\ (SetsMode(n)' <=> IsMode(line))
  BY <1>1, Zenon DEF OpensSection, SetsMode, IsSection, IsMode
<1>4. ASSUME NEW i \in 1 .. n PROVE InRuntime(i)' <=> InRuntime(i)
  <2>1. \A j : j \in DOMAIN profile_read' /\ j < i <=> j \in DOMAIN profile_read /\ j < i
    BY <1>1, <1>4
  <2>2. \A j \in DOMAIN profile_read : profile_read'[j] = profile_read[j]
    BY <1>1, Zenon
  <2>3. \A j \in DOMAIN profile_read : OpensSection(j)' <=> OpensSection(j)
    BY <1>1, <1>2, Zenon
  <2> QED BY <2>1, <2>2, <2>3, Zenon DEF InRuntime
<1>5. /\ \A i \in 1 .. n - 1 : i \in 1 .. n
      /\ n \in 1 .. n
  BY <1>1
<1>6. \A i \in 1 .. n - 1 : NamesLogPath(i)' <=> NamesLogPath(i)
  BY <1>1, <1>4, <1>5, Zenon DEF NamesLogPath
<1>7. NamesLogPath(n)' <=> /\ line.indent = 2 /\ InRuntime(n)
                           /\ KeyOf(line) = "log_path"
  BY <1>1, <1>4, <1>5, Zenon DEF NamesLogPath
<1>8. InRuntime(n + 1)' <=> IF IsSection(line) THEN KeyOf(line) = "runtime"
                            ELSE InRuntime(n)
  <2>1. \A j \in 1 .. n : j < n + 1 /\ (j # n => j \in 1 .. n - 1) BY <1>1
  <2>2. CASE IsSection(line)
    <3>1. OpensSection(n)' /\ \A j \in 1 .. n : j # n => j < n
      BY <1>1, <1>3, <2>2
    <3>2. ASSUME InRuntime(n + 1)' PROVE KeyOf(line) = "runtime"
      <4>1. PICK j \in 1 .. n :
              /\ KeyOf(profile_read'[j]) = "runtime"
              /\ \A k \in 1 .. n : j < k /\ k < n + 1 => ~OpensSection(k)'
        BY <1>1, <3>2, Zenon DEF InRuntime
      <4>2. j = n BY <1>5, <2>1, <3>1, <4>1, Zenon
      <4> QED BY <1>1, <4>1, <4>2, Zenon
    <3>3. ASSUME KeyOf(line) = "runtime" PROVE InRuntime(n + 1)'
      <4>1. \A k \in 1 .. n : ~(n < k) BY <1>1
      <4> QED BY <1>1, <1>5, <2>1, <3>1, <3>3, <4>1, Zenon DEF InRuntime
    <3> QED BY <2>2, <3>2, <3>3, Zenon
  <2>3. CASE ~IsSection(line)
    <3>1. ~OpensSection(n)' BY <1>3, <2>3, Zenon
    <3>2. \A j \in 1 .. n - 1 : j < n /\ j \in 1 .. n BY <1>1
    <3>3. ASSUME InRuntime(n + 1)' PROVE InRuntime(n)
      <4>1. PICK j \in 1 .. n :
              /\ OpensSection(j)' /\ KeyOf(profile_read'[j]) = "runtime"
              /\ \A k \in 1 .. n : j < k /\ k < n + 1 => ~OpensSection(k)'
        BY <1>1, <3>3, Zenon DEF InRuntime
      <4>2. j \in 1 .. n - 1 BY <2>1, <3>1, <4>1, Zenon
      <4> QED BY <1>1, <1>2, <2>1, <3>2, <4>1, <4>2, Zenon DEF InRuntime
    <3>4. ASSUME InRuntime(n) PROVE InRuntime(n + 1)'
      <4>1. PICK j \in 1 .. n - 1 :
              /\ OpensSection(j) /\ KeyOf(profile_read[j]) = "runtime"
              /\ \A k \in 1 .. n - 1 : j < k /\ k < n => ~OpensSection(k)
        BY <1>1, <3>4, Zenon DEF InRuntime
      <4>2. \A k \in 1 .. n : j < k => ~OpensSection(k)'
        BY <1>2, <2>1, <3>1, <3>2, <4>1, Zenon
      <4> QED BY <1>1, <1>2, <2>1, <3>2, <4>1, <4>2, Zenon DEF InRuntime
    <3> QED BY <2>3, <3>3, <3>4, Zenon
  <2> QED BY <2>2, <2>3, Zenon
<1>9. DOMAIN profile_read' = DOMAIN profile_read \union {n} BY <1>1
<1>10. \A i \in DOMAIN profile_read : i < n BY <1>1
<1> QED BY <1>1, <1>2, <1>3, <1>6, <1>7, <1>8, <1>9, <1>10, Zenon

LEMMA ReadProfileLineOK ==
  ASSUME ProfileInv, NEW line \in ProfileLines, ReadProfileLine(line)
  PROVE  ProfileInv'
<1>0. PICK n \in Nat : n = Len(profile_read) + 1 BY DEF ProfileInv
<1>1. /\ phase = "profile" /\ profile_read \in Seq(ProfileLines)
      /\ environment \in Environments /\ ParserOK(parser) /\ LogSays(parser.profile)
      /\ parser.section = "runtime" <=> InRuntime(n)
  BY <1>0, Zenon DEF ProfileInv, ReadProfileLine
<1>2. /\ profile_read' = Append(profile_read, line)
      /\ g_settings' = g_settings /\ environment' = environment
  BY Zenon DEF ReadProfileLine
<1>3. profile_read' \in Seq(ProfileLines) /\ Len(profile_read)' + 1 = n + 1
  BY <1>0, <1>1, <1>2
<1>4. CASE phase' = "failed" /\ parser' = parser
  BY <1>1, <1>2, <1>3, <1>4, Zenon DEF ProfileInv
<1>5. CASE phase' = "profile" /\ parser' \in apply_profile_line(parser, line, g_settings)
  <2>1. /\ ParserOK(parser')
        /\ parser'.section = IF IsSection(line) THEN KeyOf(line) ELSE parser.section
        /\ LogSource(parser.profile, parser'.profile, line, parser.section, g_settings)
    BY <1>1, <1>5, ProfileLineOK, Zenon
  <2>2. /\ DOMAIN profile_read' = DOMAIN profile_read \union {n}
        /\ \A i \in DOMAIN profile_read :
             /\ i < n /\ profile_read'[i] = profile_read[i]
             /\ NamesLogPath(i)' <=> NamesLogPath(i)
             /\ SetsMode(i)' <=> SetsMode(i)
        /\ profile_read'[n] = line
        /\ NamesLogPath(n)' <=> IsLogPath(line, parser.section)
        /\ SetsMode(n)' <=> IsMode(line)
        /\ InRuntime(n + 1)' <=> parser'.section = "runtime"
    <3>1. /\ NamesLogPath(n)' <=> /\ line.indent = 2 /\ InRuntime(n)
                                  /\ KeyOf(line) = "log_path"
          /\ InRuntime(n + 1)' <=> IF IsSection(line) THEN KeyOf(line) = "runtime"
                                   ELSE InRuntime(n)
      BY <1>0, <1>1, <1>2, AnotherLine, Zenon
    <3>2. InRuntime(n + 1)' <=> parser'.section = "runtime"
      BY <1>1, <2>1, <3>1, Zenon
    <3>3. NamesLogPath(n)' <=> IsLogPath(line, parser.section)
      BY <1>1, <3>1, Zenon DEF IsLogPath
    <3> QED BY <1>0, <1>1, <1>2, <3>2, <3>3, AnotherLine, Zenon
  <2>3. \A i \in DOMAIN profile_read' : ~(i > n) BY <1>0, <1>1, <2>2
  <2>4. \A i \in DOMAIN profile_read : n > i BY <1>0, <1>1
  <2>5. ASSUME IsLogPath(line, parser.section)
        PROVE  LogSays(parser.profile)'
    <3>1. ~IsMode(line) BY <2>5 DEF IsLogPath, IsMode
    <3>2. DecidesLogPath(n)' BY <2>2, <2>3, <2>5, Zenon DEF DecidesLogPath
    <3>3. \A i \in DOMAIN profile_read : ~DecidesLogPath(i)'
      BY <2>2, <2>4, <2>5, Zenon DEF DecidesLogPath
    <3>4. parser'.profile.log_path = line.value.text BY <2>1, <2>5, Zenon DEF LogSource
    <3> QED BY <2>2, <3>2, <3>3, <3>4, Zenon DEF LogSays
  <2>6. ASSUME IsMode(line)
        PROVE  LogSays(parser.profile)'
    <3>1. ~IsLogPath(line, parser.section) BY <2>6 DEF IsLogPath, IsMode
    <3>2. \A i \in DOMAIN profile_read' : ~DecidesLogPath(i)'
      BY <2>2, <2>4, <2>6, <3>1, Zenon DEF DecidesLogPath
    <3>3. parser'.profile.log_path = LogPathOf(g_settings, parser'.profile.mode)
      BY <2>1, <2>6, Zenon DEF LogSource
    <3> QED BY <1>2, <3>2, <3>3, Zenon DEF LogSays
  <2>7. ASSUME ~IsLogPath(line, parser.section) /\ ~IsMode(line)
        PROVE  LogSays(parser.profile)'
    <3>1. ~DecidesLogPath(n)' BY <2>2, <2>7, Zenon DEF DecidesLogPath
    <3>2. \A i \in DOMAIN profile_read : DecidesLogPath(i)' <=> DecidesLogPath(i)
      BY <2>2, <2>7, Zenon DEF DecidesLogPath
    <3>3. /\ parser'.profile.mode = parser.profile.mode
          /\ parser'.profile.log_path = parser.profile.log_path
      BY <2>1, <2>7, Zenon DEF LogSource
    <3> QED BY <1>1, <1>2, <2>2, <3>1, <3>2, <3>3, Zenon DEF LogSays
  <2>8. LogSays(parser.profile)' BY <2>5, <2>6, <2>7, Zenon
  <2> QED BY <1>1, <1>2, <1>3, <1>5, <2>1, <2>2, <2>8, Zenon DEF ProfileInv
<1> QED BY <1>4, <1>5, Zenon DEF ReadProfileLine

LEMMA EndOfProfileOK == ASSUME ProfileInv, EndOfProfile PROVE ProfileInv'
<1> DEFINE p == parser.profile
           d == WithDefaultChannel(p)
<1>1. /\ phase = "profile" /\ profile_read \in Seq(ProfileLines)
      /\ environment \in Environments /\ ParserOK(parser) /\ LogSays(p)
  BY Zenon DEF ProfileInv, EndOfProfile
<1>2. /\ phase' \in {"failed", "overrides"} /\ profile' = Validated(d)
      /\ UNCHANGED << profile_read, environment, parser, g_settings >>
  BY Zenon DEF EndOfProfile
<1>3. ProfileOK(d) /\ HasDefault(d) /\ d.mode = p.mode /\ d.log_path = p.log_path
  BY <1>1, DefaultChannelOK, Zenon DEF ParserOK
<1> HIDE DEF d
<1>4. ASSUME NEW q \in Validated(d)
      PROVE  ProfileOK(q) /\ HasDefault(q) /\ HasRemote(q) /\ LogSays(q)
  <2>1. /\ ProfileOK(q) /\ HasRemote(q) /\ q.mode = d.mode
        /\ q.log_path = d.log_path /\ q.channels = d.channels
    BY <1>3, ValidatedOK, Zenon
  <2> QED BY <1>1, <1>3, <2>1, Zenon DEF HasDefault, LogSays
<1>5. \A q \in profile' : ProfileOK(q) /\ HasDefault(q) /\ HasRemote(q) /\ LogSays(q)'
  BY <1>2, <1>4, LogSaysKept, Zenon
<1> QED BY <1>1, <1>2, <1>5, Zenon DEF ProfileInv

LEMMA ApplyOverridesOK == ASSUME ProfileInv, ApplyOverrides PROVE ProfileInv'
<1>1. /\ phase = "overrides" /\ profile_read \in Seq(ProfileLines)
      /\ environment \in Environments /\ ParserOK(parser)
      /\ \A p \in profile : ProfileOK(p) /\ HasDefault(p) /\ HasRemote(p) /\ LogSays(p)
  BY Zenon DEF ProfileInv, ApplyOverrides
<1>2. /\ phase' = "logger"
      /\ UNCHANGED << profile_read, environment, parser, g_settings >>
  BY Zenon DEF ApplyOverrides
<1>3. ASSUME NEW q \in profile'
      PROVE  /\ HasDefault(q) /\ LogBelongs(q)
             /\ KeepsRemotePort(environment) => HasRemote(q)
  <2>1. PICK p \in profile :
          q = apply_log_path_override(apply_connection_overrides(p, environment), environment)
    BY <1>3, Zenon DEF ApplyOverrides
  <2> DEFINE c == apply_connection_overrides(p, environment)
             override == LogPathOverride(c.mode, environment)
  <2>2. /\ Same(p, c)
        /\ HasRemote(p) /\ KeepsRemotePort(environment) => HasRemote(c)
    BY <1>1, ConnectionOverrides, Zenon
  <2>3. q = apply_string_override(c, "log_path", override)
    BY <2>1, Zenon DEF apply_log_path_override
  <2> HIDE DEF c, override
  <2>4. \/ override = {} /\ q = c
        \/ \E v \in override : q = [c EXCEPT !["log_path"] = v.text]
    BY <2>3, StringOverride
  <2>5. CASE override = {} /\ q = c
    <3>1. LogSays(c) BY <1>1, <2>2, Zenon DEF LogSays, Same
    <3> QED BY <1>1, <2>2, <2>5, <3>1, Zenon DEF Same, HasDefault, LogBelongs, override
  <2>6. ASSUME NEW v \in override, q = [c EXCEPT !["log_path"] = v.text]
        PROVE  /\ HasDefault(q) /\ LogBelongs(q)
               /\ KeepsRemotePort(environment) => HasRemote(q)
    <3>1. /\ q.channels = c.channels /\ q.mode = c.mode /\ q.log_path = v.text
          /\ q.remote_address = c.remote_address /\ q.remote_port = c.remote_port
      BY <2>2, <2>6, Zenon DEF Same, ProfileFields
    <3>2. LogBelongs(q) BY <2>6, <3>1, Zenon DEF LogBelongs, override
    <3>3. HasDefault(q) BY <1>1, <2>2, <3>1, Zenon DEF HasDefault, Same
    <3> QED BY <1>1, <2>2, <3>1, <3>2, <3>3, Zenon DEF HasRemote
  <2> QED BY <2>4, <2>5, <2>6, Zenon
<1>4. \A q \in profile' : LogBelongs(q)'
  BY <1>2, <1>3, LogSaysKept, Zenon DEF LogBelongs
<1> QED BY <1>1, <1>2, <1>3, <1>4, Zenon DEF ProfileInv

LEMMA ProfileStep == ASSUME ProfileInv, [Next]_vars PROVE ProfileInv'
<1>1. CASE OpenEnvFile \/ NoEnvFile \/ EndOfEnvFile \/ BadEnvFile \/ NoProfile
  BY <1>1, Zenon DEF OpenEnvFile, NoEnvFile, EndOfEnvFile, BadEnvFile, NoProfile, Fail, ProfileInv
<1>2. ASSUME NEW line \in EnvLines, ReadEnvLine(line) PROVE ProfileInv'
  BY <1>2, Zenon DEF ReadEnvLine, ProfileInv
<1>3. CASE OpenProfile
  <2>1. /\ parser' = NewParser(g_settings) /\ phase' = "profile"
        /\ UNCHANGED << g_settings, profile_read, environment >>
    BY <1>3, Zenon DEF OpenProfile
  <2>2. profile_read = << >> /\ profile_read' = << >>
    BY <1>3, <2>1, Zenon DEF ProfileInv, OpenProfile
  <2>3. DOMAIN profile_read' = {} BY <2>2
  <2>4. ParserOK(parser') /\ LogSays(parser.profile)'
    BY <2>1, <2>3, NewParserOK, Zenon DEF LogSays
  <2>5. parser'.section # "runtime" BY <2>1, Zenon DEF NewParser, NoText
  <2>6. ~InRuntime(Len(profile_read) + 1)' BY <2>3, Zenon DEF InRuntime
  <2> QED BY <2>1, <2>2, <2>4, <2>5, <2>6, Zenon DEF ProfileInv
<1>4. ASSUME NEW line \in ProfileLines, ReadProfileLine(line) PROVE ProfileInv'
  BY <1>4, ReadProfileLineOK, Zenon
<1>5. CASE EndOfProfile BY <1>5, EndOfProfileOK, Zenon
<1>6. CASE ApplyOverrides BY <1>6, ApplyOverridesOK, Zenon
<1>7. CASE make_runtime_logger
  <2>1. /\ phase = "logger" /\ phase' \in {"running", "terminated"}
        /\ UNCHANGED << parser, profile, profile_read, environment, g_settings >>
    BY <1>7, Zenon DEF make_runtime_logger
  <2>2. \A p : LogBelongs(p)' <=> LogBelongs(p)
    BY <2>1, LogSaysKept, Zenon DEF LogBelongs
  <2> QED BY <2>1, <2>2, Zenon DEF ProfileInv
<1>8. CASE UNCHANGED vars
  <2>1. UNCHANGED << phase, parser, profile, profile_read, environment, g_settings >>
    BY <1>8, Zenon DEF vars
  <2>2. /\ \A p : LogSays(p)' <=> LogSays(p)
        /\ InRuntime(Len(profile_read) + 1)' <=> InRuntime(Len(profile_read) + 1)
    BY <2>1, LogSaysKept
  <2>3. \A p : LogBelongs(p)' <=> LogBelongs(p) BY <2>1, <2>2, Zenon DEF LogBelongs
  <2> QED BY <2>1, <2>2, <2>3, Zenon DEF ProfileInv
<1> QED BY <1>1, <1>2, <1>3, <1>4, <1>5, <1>6, <1>7, <1>8, Zenon DEF Next, Done

LEMMA ProfileAlways == Spec => []ProfileInv
<1>1. Init => ProfileInv
  <2> SUFFICES ASSUME Init PROVE ProfileInv BY Zenon
  <2>1. << >> \in Seq(ProfileLines) OBVIOUS
  <2>2. ParserOK(parser) BY NewParserOK, Zenon DEF Init
  <2> QED BY <2>1, <2>2, Zenon DEF Init, ProfileInv
<1> QED BY <1>1, ProfileStep, PTL DEF Spec

\* A program that runs has a default channel, whatever its profile says.
THEOREM AlwaysDefaultChannel == Spec => []DefaultChannelExists
<1>1. ProfileInv => DefaultChannelExists
  BY Zenon DEF ProfileInv, DefaultChannelExists, Running, HasDefault
<1> QED BY <1>1, ProfileAlways, PTL

\* A client that runs has a remote address and a remote port, for every width
\* of a port, if no override of the port loses all its bits to the cast.
THEOREM AlwaysRemote ==
  ASSUME \A env \in Environments : KeepsRemotePort(env)
  PROVE  Spec => []ClientHasRemote
<1>1. ProfileInv => ClientHasRemote
  BY Zenon DEF ProfileInv, ClientHasRemote, Running, HasRemote
<1> QED BY <1>1, ProfileAlways, PTL

\* The log of a program that runs goes where the environment says, else where
\* the last line of the profile that decides says, else where .env says for
\* the mode of the program.
THEOREM LogPathOfMode == Spec => []LogPathBelongsToMode
<1>1. ProfileInv => LogPathBelongsToMode
  <2> SUFFICES ASSUME ProfileInv, Running, NEW p \in profile
               PROVE  LET override == LogPathOverride(p.mode, environment)
                      IN  IF override # {} THEN p.log_path \in {v.text : v \in override}
                          ELSE LogSays(p)
    BY Zenon DEF LogPathBelongsToMode, LogSays
  <2>1. LogBelongs(p) BY Zenon DEF ProfileInv, Running
  <2> QED BY <2>1, Zenon DEF LogBelongs
<1> QED BY <1>1, ProfileAlways, PTL
=============================================================================
