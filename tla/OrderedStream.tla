--------------------------- MODULE OrderedStream ---------------------------
(***************************************************************************)
(* What the sending half of boost_network's TcpSocket promises to the      *)
(* logic above it, with no buffers, no strand and no asynchronous           *)
(* operations: bytes leave in the order write() accepted them, none twice  *)
(* and none skipped, and a close the logic asked for finishes only when    *)
(* everything accepted has left.                                           *)
(***************************************************************************)
EXTENDS Naturals, Sequences

CONSTANT Chunk      \* the unit of data whose order is observed

VARIABLES accepted, \* everything write() has put into a send buffer
          wire,     \* what the kernel has taken
          status    \* "open", "finished" by close(), "broken" by an error

vars == <<accepted, wire, status>>

TypeOK ==
    /\ accepted \in Seq(Chunk)
    /\ wire \in Seq(Chunk)
    /\ status \in {"open", "finished", "broken"}

Init ==
    /\ accepted = <<>>
    /\ wire = <<>>
    /\ status = "open"

\* A broken stream may still accept data (the logic has not heard of the
\* error yet); a finished one never does.
Accept ==
    /\ status # "finished"
    /\ Len(accepted') > Len(accepted)
    /\ SubSeq(accepted', 1, Len(accepted)) = accepted
    /\ UNCHANGED <<wire, status>>

Transmit ==
    /\ status = "open"
    /\ \E n \in Len(wire) + 1 .. Len(accepted) : wire' = SubSeq(accepted, 1, n)
    /\ UNCHANGED <<accepted, status>>

Finish ==
    /\ status = "open"
    /\ wire = accepted
    /\ status' = "finished"
    /\ UNCHANGED <<accepted, wire>>

Break ==
    /\ status = "open"
    /\ status' = "broken"
    /\ UNCHANGED <<accepted, wire>>

Next == Accept \/ Transmit \/ Finish \/ Break

Spec == Init /\ [][Next]_vars
=============================================================================
