---------------------------- MODULE MCForkServer ----------------------------
(* Instances of ForkServer for TLC. *)
EXTENDS ForkServer

AllHandshakes == {h \in HandshakeType : ~DeniesAlone(h)}
CmplogHandshakes == {h \in HandshakeType : DeniesAlone(h) /\ h.support}
=============================================================================
