------------------------------- MODULE Config -------------------------------
(***************************************************************************)
(* src/Config.cpp: the settings of the .env file and the runtime profile   *)
(* of a YAML file, both read line by line.  A parser's result is a set:    *)
(* the value it returns, or {} when the code returns false.                *)
(***************************************************************************)
EXTENDS Integers, Sequences

CONSTANTS
  PortSpace,  \* 2^16: the numbers of a uint16_t
  WordSpace,  \* 2^32: the numbers of a uint32_t
  LongSpace   \* 2^64: the numbers of a uint64_t, of size_t and of stoull

ASSUME SpacesNest == /\ PortSpace \in Nat \ {0, 1}
                     /\ WordSpace \in Nat /\ PortSpace < WordSpace
                     /\ LongSpace \in Nat /\ WordSpace < LongSpace

NotANumber == -1
NoText == ""   \* an empty std::string

Modes == {"Server", "Client"}

(* What the code can find in the text of a value: the text without its      *)
(* quotes, the number stoull reads (NotANumber where it throws), and what   *)
(* parseBool makes of it ({} where it fails).                               *)
IsValue(v) == /\ v.text \in STRING
              /\ v.number \in Nat \union {NotANumber}
              /\ v.boolean \in {{}, {TRUE}, {FALSE}}

PortKeys == {"server_port", "client_server_port"}
WordKeys == {"max_retransmit_count", "fast_retx_evidence_threshold",
             "server_loop_sleep_us", "client_select_timeout_us",
             "client_poll_budget"}
LongKeys == {"initial_rto_ms", "max_rto_ms", "handshake_linger_ms",
             "keepalive_idle_ms", "idle_timeout_ms", "reliable_ack_delay_ms",
             "socket_buffer_size"}
FlagKeys == {"enable_activity_ack_only"}
TextKeys == {"server_bind_address", "client_server_address",
             "client_bind_address", "server_log_path", "client_log_path"}

\* stoull rejects what does not fit 64 bits; the cast then keeps the low bits.
assign_integer(target, field, space, value) ==
  IF value.number \in 0 .. LongSpace - 1
  THEN {[target EXCEPT ![field] = value.number % space]}
  ELSE {}

\* A key the code does not know is accepted and ignored.
apply_kv(settings, key, value) ==
  CASE key \in PortKeys -> assign_integer(settings, key, PortSpace, value)
    [] key \in WordKeys -> assign_integer(settings, key, WordSpace, value)
    [] key \in LongKeys -> assign_integer(settings, key, LongSpace, value)
    [] key \in FlagKeys -> {[settings EXCEPT ![key] = b] : b \in value.boolean}
    [] key \in TextKeys -> {[settings EXCEPT ![key] = value.text]}
    [] OTHER            -> {settings}

LogPathOf(settings, mode) ==
  IF mode = "Client" THEN settings["client_log_path"]
                     ELSE settings["server_log_path"]

default_runtime_profile(settings) ==
  [mode               |-> "Server",
   bind_address       |-> settings["server_bind_address"],
   bind_port          |-> settings["server_port"],
   remote_address     |-> settings["client_server_address"],
   remote_port        |-> settings["client_server_port"],
   log_path           |-> LogPathOf(settings, "Server"),
   socket_buffer_size |-> settings["socket_buffer_size"],
   loop_sleep_us      |-> settings["server_loop_sleep_us"],
   select_timeout_us  |-> settings["client_select_timeout_us"],
   poll_budget        |-> settings["client_poll_budget"],
   channels           |-> << >>]

parse_runtime_mode(text) ==
  CASE text = "server" -> {"Server"}
    [] text = "client" -> {"Client"}
    [] OTHER           -> {}

parse_channel_type(text) ==
  CASE text = "reliable_ordered"   -> {"ReliableOrdered"}
    [] text = "reliable_unordered" -> {"ReliableUnordered"}
    [] text = "unreliable"         -> {"Unreliable"}
    [] text = "monotonic_state"    -> {"MonotonicState"}
    [] OTHER                       -> {}

\* Mutant: a mode line leaves the log path of the default mode.
apply_root_field_mode_only(profile, key, value, settings) ==
  IF key = "mode"
  THEN {[profile EXCEPT !.mode = mode] : mode \in parse_runtime_mode(value.text)}
  ELSE {profile}

\* apply_profile_field with an empty scope: a mode also sets the log path.
apply_root_field(profile, key, value, settings) ==
  IF key = "mode"
  THEN {[profile EXCEPT !.mode = mode, !.log_path = LogPathOf(settings, mode)] :
          mode \in parse_runtime_mode(value.text)}
  ELSE {profile}

apply_profile_field(profile, scope, key, value) ==
  CASE scope = "runtime" /\ key = "log_path"
         -> {[profile EXCEPT !.log_path = value.text]}
    [] scope = "runtime" /\ key = "socket_buffer_size"
         -> assign_integer(profile, key, LongSpace, value)
    [] scope = "runtime" /\ key \in {"loop_sleep_us", "select_timeout_us",
                                     "poll_budget"}
         -> assign_integer(profile, key, WordSpace, value)
    [] scope = "connection" /\ key \in {"bind_address", "remote_address"}
         -> {[profile EXCEPT ![key] = value.text]}
    [] scope = "connection" /\ key \in {"bind_port", "remote_port"}
         -> assign_integer(profile, key, PortSpace, value)
    [] OTHER -> {profile}

NewChannel == [id |-> 0, name |-> NoText, type |-> "Unreliable", is_default |-> FALSE]

apply_channel_field(channel, key, value) ==
  CASE key = "id"      -> assign_integer(channel, key, WordSpace, value)
    [] key = "name"    -> {[channel EXCEPT !.name = value.text]}
    [] key = "type"    -> {[channel EXCEPT !.type = t] :
                             t \in parse_channel_type(value.text)}
    [] key = "default" -> {[channel EXCEPT !.is_default = b] : b \in value.boolean}
    [] OTHER           -> {channel}

(* A line of the profile that is neither blank nor a comment: its           *)
(* indentation, whether it starts with "- ", and its shape: "section" ends  *)
(* with the colon, "field" has a value after it, "bare" has no colon.  Only *)
(* the list of channels strips the dash; elsewhere it stays in the key,     *)
(* which is then a key the code does not know.                              *)
KeyOf(line) == IF line.item THEN "- " ELSE line.key

NewParser(settings) == [profile    |-> default_runtime_profile(settings),
                        section    |-> NoText,
                        in_channel |-> FALSE]

WithProfile(parser, profiles) == {[parser EXCEPT !.profile = p] : p \in profiles}

\* current_channel always points at the last channel of the vector.
WithLastChannel(parser, channels, key, value) ==
  LET last == Len(channels)
  IN  {[parser EXCEPT !.profile.channels = [channels EXCEPT ![last] = c],
                      !.in_channel = TRUE] :
         c \in apply_channel_field(channels[last], key, value)}

RootLine(parser, line, settings) ==
  LET outside == [parser EXCEPT !.in_channel = FALSE]
  IN  CASE line.shape = "section" -> {[outside EXCEPT !.section = KeyOf(line)]}
        [] line.shape = "field"   ->
             WithProfile(outside, apply_root_field(parser.profile, KeyOf(line),
                                                   line.value, settings))
        [] line.shape = "bare"    -> {}

ChannelLine(parser, line) ==
  LET channels == parser.profile.channels
  IN  CASE line.shape = "bare"           -> {}
        [] line.indent = 2 /\ line.item  ->
             WithLastChannel(parser, Append(channels, NewChannel), line.key, line.value)
        [] line.indent = 4 /\ parser.in_channel ->
             WithLastChannel(parser, channels, KeyOf(line), line.value)
        [] OTHER -> {}

\* One turn of the loop of apply_profile_yaml.
apply_profile_line(parser, line, settings) ==
  CASE line.indent = 0             -> RootLine(parser, line, settings)
    [] line.indent # 0 /\ parser.section = "channels" -> ChannelLine(parser, line)
    [] line.indent = 2 /\ parser.section \in {"runtime", "connection"}
                       /\ line.shape # "bare" ->
         WithProfile(parser, apply_profile_field(parser.profile, parser.section,
                                                 KeyOf(line), line.value))
    [] OTHER -> {}

\* Mutant: only a profile without any channel gets a default one.
WithDefaultChannel_if_empty(profile) ==
  IF profile.channels = << >>
  THEN [profile EXCEPT !.channels =
          << [id |-> 1, name |-> "default", type |-> "Unreliable",
              is_default |-> TRUE] >>]
  ELSE profile

WithDefaultChannel(profile) ==
  LET none_default == \A i \in DOMAIN profile.channels :
                        ~ profile.channels[i].is_default
  IN  CASE profile.channels = << >> ->
             [profile EXCEPT !.channels =
                << [id |-> 1, name |-> "default", type |-> "Unreliable",
                    is_default |-> TRUE] >>]
        [] profile.channels # << >> /\ none_default ->
             [profile EXCEPT !.channels[1].is_default = TRUE]
        [] OTHER -> profile

\* Mutant: the port of a client profile is not looked at.
Validated_address_only(profile) ==
  CASE profile.mode = "Server" ->
         {[profile EXCEPT !.remote_address = NoText, !.remote_port = 0]}
    [] profile.mode = "Client" /\ profile.remote_address # NoText -> {profile}
    [] OTHER -> {}

Validated(profile) ==
  CASE profile.mode = "Server" ->
         {[profile EXCEPT !.remote_address = NoText, !.remote_port = 0]}
    [] profile.mode = "Client" /\ profile.remote_address # NoText
                               /\ profile.remote_port # 0 -> {profile}
    [] OTHER -> {}
=============================================================================
