---------------------------- MODULE MCConnection ----------------------------
(* A small instance of Connection for TLC. *)
EXTENDS Connection

Ending == Over \/ reader.op = "end"
AllMade == Unread = {} /\ calls = MaxCalls

(* Bounds: what surrounds the connection ends it once, by the end of the input
   or by a failure of the process, and leaves then a message unread or a call
   not made; the rest of the end is the connection's own doing. *)
EndsOnce ==
    /\ EndOfInput \/ End("process") => ~Ending /\ ~AllMade
    /\ msg' # msg \/ calls' # calls => ~(AllMade' /\ Ending)
=============================================================================
