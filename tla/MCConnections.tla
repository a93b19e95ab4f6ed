--------------------------- MODULE MCConnections ---------------------------
(* Small instances of Connections.                                         *)
EXTENDS Connections, TLC

CONSTANTS h, m, d1

MCOwner == h :> d1 @@ m :> d1
MCAnswers == h :> {"updated"} @@ m :> {"updated", "unreachable", "malformed"}
MCProtocol == h :> "http" @@ m :> "modbus"
=============================================================================
