----------------------------- MODULE MC_Startup -----------------------------
(* Instances of Startup: ports are 0 .. 3, so 4 and 5 are narrowed.          *)
EXTENDS Startup, TLC

Text(t) == [text |-> t, number |-> NotANumber, boolean |-> {}]
Number(n) == [text |-> "digits", number |-> n, boolean |-> {}]
Flag(b) == [text |-> "flag", number |-> NotANumber, boolean |-> {b}]
Empty == Text("")

MCDefaults ==
  [key \in PortKeys \union WordKeys \union LongKeys |-> 1]
    @@ [key \in FlagKeys |-> FALSE] @@ [key \in TextKeys |-> key]

EnvLine(key, value) == [key |-> key, value |-> value]
MCEnvLines ==
  {EnvLine("client_server_port", Number(4)), EnvLine("client_server_port", Text("x")),
   EnvLine("client_log_path", Text("client")), EnvLine("initial_rto_ms", Number(5)),
   EnvLine("enable_activity_ack_only", Flag(TRUE)), EnvLine("unknown", Empty)}

Line(indent, item, shape, key, value) ==
  [indent |-> indent, item |-> item, shape |-> shape, key |-> key, value |-> value]
Section(name) == Line(0, FALSE, "section", name, Empty)
Field(key, value) == Line(2, FALSE, "field", key, value)
MCProfileLines ==
  {Section("runtime"), Section("connection"), Section("channels"),
   Line(0, FALSE, "field", "mode", Text("client")),
   Line(0, FALSE, "field", "mode", Text("server")),
   Line(0, FALSE, "bare", "", Empty),
   Field("log_path", Text("named")), Field("log_path", Text("renamed")),
   Field("remote_port", Number(4)), Field("remote_port", Number(5)), Field("remote_address", Empty),
   Line(2, TRUE, "field", "id", Number(2)),
   Line(4, FALSE, "field", "default", Flag(TRUE)),
   Line(4, FALSE, "field", "type", Text("none"))}

NoOverride == [name \in Overridable |-> {}]
PortOverride(n) == [NoOverride EXCEPT !["RUDP_RUNTIME_CLIENT_REMOTE_PORT"] = {Number(n)}]
SoundOverrides ==
  {NoOverride, PortOverride(5),
   [NoOverride EXCEPT !["RUDP_RUNTIME_CLIENT_LOG_PATH"] = {Text("override")},
                      !["RUDP_RUNTIME_CLIENT_REMOTE_PORT"] = {Text("x")}]}
NarrowedOverrides == {PortOverride(4)}

ASSUME SoundOverridesKeepPort == \A env \in SoundOverrides : KeepsRemotePort(env)
=============================================================================
