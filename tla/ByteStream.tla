----------------------------- MODULE ByteStream -----------------------------
(***************************************************************************)
(* What one direction of a TCP connection promises the applications at its *)
(* two ends (inc/lwip/lwip/tcp.h, the recv callback): the bytes come out   *)
(* in the order they went in, once each, and the end of the stream is      *)
(* reported only when every byte has been delivered.  Byte i of the stream *)
(* is the number i.  The receiving end may give up at any time.            *)
(***************************************************************************)
EXTENDS Naturals, Sequences

VARIABLES written,     \* number of bytes written so far
          recvd,       \* bytes delivered to the receiving application
          status       \* of the receiving end

vars == <<written, recvd, status>>

Init == written = 0 /\ recvd = <<>> /\ status = "idle"

Write == written' > written /\ UNCHANGED <<recvd, status>>

Extends(s) ==
    /\ Len(s) <= written
    /\ Len(recvd) <= Len(s)
    /\ \A i \in 1..Len(s) : s[i] = i

Deliver ==
    /\ status \in {"idle", "connecting", "open"}
    /\ Extends(recvd')
    /\ status' = "open"
    /\ UNCHANGED written

Connect ==
    /\ status \in {"idle", "connecting"}
    /\ status' \in {"connecting", "open"}
    /\ UNCHANGED <<written, recvd>>

\* the last bytes may come with the end of the stream
Eof ==
    /\ status \in {"idle", "connecting", "open"}
    /\ Extends(recvd')
    /\ Len(recvd') = written
    /\ status' = "eof"
    /\ UNCHANGED written

GiveUp == status' \in {"closed", "dead"} /\ UNCHANGED <<written, recvd>>

Next == Connect \/ Write \/ Deliver \/ Eof \/ GiveUp

Spec == Init /\ [][Next]_vars
=============================================================================
