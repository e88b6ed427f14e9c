--------------------------- MODULE ReliableChannel ---------------------------
(***************************************************************************)
(* What RUDP promises for one direction of a connection and the channel    *)
(* type ReliableUnordered (docs/Protocol.md, Sections 6.1 and 8.1): what   *)
(* the sender hands over reaches the receiver once, in any order, unless   *)
(* the sender's connection fails.                                          *)
(***************************************************************************)
EXTENDS Naturals, SequencesExt

CONSTANT Script   \* the payloads the sender hands over, all different

VARIABLES
  accepted,    \* how many of them it has handed over
  delivered,   \* what the receiving application was given, in order
  broken       \* the sender's connection has failed

vars == <<accepted, delivered, broken>>

Init == accepted = 0 /\ delivered = << >> /\ broken = FALSE

Accept ==
  /\ ~broken /\ accepted < Len(Script)
  /\ accepted' = accepted + 1
  /\ UNCHANGED <<delivered, broken>>

Outstanding == {Script[i] : i \in 1 .. accepted} \ Range(delivered)

\* Some of what is outstanding; what is under way may still arrive after the
\* sender's connection has failed.
Deliver(payloads) ==
  /\ \E order \in SetToSeqs(payloads) : delivered' = delivered \o order
  /\ UNCHANGED <<accepted, broken>>

Break ==
  /\ ~broken
  /\ broken' = TRUE
  /\ UNCHANGED <<accepted, delivered>>

Next ==
  \/ Accept
  \/ \E payloads \in (SUBSET Outstanding) \ {{}} : Deliver(payloads)
  \/ Break

\* The receiver is given what is outstanding, as long as the connection lasts.
Progress == ~broken /\ \E p \in Outstanding : Deliver({p})

FairSpec == Init /\ [][Next]_vars /\ WF_vars(Progress)
==============================================================================
