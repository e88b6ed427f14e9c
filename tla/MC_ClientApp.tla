---------------------------- MODULE MC_ClientApp ----------------------------
(* Small instances of ClientApp for TLC. *)
EXTENDS ClientApp

Cmd(k) == [kind |-> k]
Spawn(threads, count) == [kind |-> "spawn", thread_count |-> threads, message_count |-> count]

MCCommands == {Cmd("/quit"), Cmd("/stop-load"), Cmd("send"), Cmd("query"), Spawn(1, 2), Spawn(1, 0)}
MCBootstrap == <<Spawn(1, 0), Cmd("/stop-load")>>
MCSignalCommands == {Cmd("/stop-load")}
MCSignalBootstrap == <<Spawn(2, 0)>>
=============================================================================
