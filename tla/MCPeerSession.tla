---------------------------- MODULE MCPeerSession ----------------------------
(* Instances of PeerSession for TLC. *)
EXTENDS PeerSession

MCPeerOf == [e \in {A, B} |-> IF e = A THEN B ELSE A]

MCEnds == {A, B}

EqualLimits == {<<0, 0>>, <<2, 2>>}

=============================================================================
