---------------------------- MODULE MCTcpSocket ----------------------------
(* Instances of TcpSocket for TLC.                                         *)
EXTENDS TcpSocket

CONSTANTS l1, c1, a1

OneListener == {l1}
OneConnecter == {c1}
OneAccepter == {a1}

\* Either a connecter, or a listener and what it accepts.
OneOfEach == {{c1}, {l1}}
JustConnecter == {{c1}}

AnyRoom == {0, 2}
SomeRoom == {1}
=============================================================================
