---------------------------- MODULE MCTcpSocket ----------------------------
(* Instances of TcpSocket for TLC.                                         *)
EXTENDS TcpSocket, TLC

CONSTANTS m1, m2, m3, m4

\* With HeadSize 1 and BaseSize 3: while one of m1, m2 and m3 is being sent the
\* other two are more than a fresh buffer holds, so that reserve has to grow it;
\* m4 is over MaxBody.
MCMsgs == {m1, m2, m3, m4}
MCSize == m1 :> 1 @@ m2 :> 2 @@ m3 :> 1 @@ m4 :> 4
=============================================================================
