----------------------- MODULE ConnectionStateMachine -----------------------
(***************************************************************************)
(* The pure connection-lifecycle rules of src/ConnectionStateMachine.cpp.  *)
(***************************************************************************)
EXTENDS Protocol

SessionRole == {"Client", "Server"}
ConnectionState == {"Closed", "HandshakeSent", "HandshakeReceived",
                    "Established", "Closing", "Reset"}
ControlKind == {"None", "Syn", "SynAck", "Ack", "Fin", "Rst", "Ping", "Pong",
                "Invalid"}

\* ACK goes alone or with SYN; every other flag goes alone.
classify_control_kind(flags) ==
  IF flags = {} THEN "None"
  ELSE IF flags = {"Syn", "Ack"} THEN "SynAck"
  ELSE IF \E f \in Flag : flags = {f} THEN CHOOSE f \in Flag : flags = {f}
  ELSE "Invalid"

\* A ConnectionDecision. next_state "Keep" is std::nullopt; emit is the event
\* of the decision ("None" if none), "Error" exactly for an invalid decision.
Decision(next_state, schedule, emit) ==
  [next_state |-> next_state, schedule |-> schedule, emit |-> emit]

decide_connection_transition(role, current_state, kind) ==
  IF kind = "Invalid" THEN Decision("Keep", "None", "Error")
  ELSE IF kind = "Rst" THEN Decision("Reset", "None", "ConnectionReset")
  ELSE IF kind = "Fin" THEN Decision("Closing", "AckOnly", "ConnectionClosed")
  ELSE IF kind = "Syn" /\ role = "Server" /\ current_state = "Closed"
    THEN Decision("HandshakeReceived", "SynAck", "None")
  ELSE IF kind = "Syn" /\ current_state = "Established"
    THEN Decision("Keep", "None", "Error")
  ELSE IF kind = "SynAck" /\ role = "Client" /\ current_state = "HandshakeSent"
    THEN Decision("Established", "FinalAck", "Connected")
  ELSE IF kind = "Ack" /\ role = "Server" /\ current_state = "HandshakeReceived"
    THEN Decision("Established", "None", "Connected")
  ELSE Decision("Keep", "None", "None")
=============================================================================
