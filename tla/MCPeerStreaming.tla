-------------------------- MODULE MCPeerStreaming ---------------------------
(***************************************************************************)
(* Instances of PeerStreaming for TLC.                                      *)
(***************************************************************************)
EXTENDS PeerStreaming

CONSTANTS jacket, f, m

\* In a jacket; the same without; another body in a jacket.
MCLook == {[gender |-> f, item |-> jacket], [gender |-> f, item |-> Bare],
           [gender |-> m, item |-> jacket]}
OneLook == {[gender |-> f, item |-> jacket]}
TwoLooks == OneLook \cup {[gender |-> f, item |-> Bare]}
=============================================================================
