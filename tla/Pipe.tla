-------------------------------- MODULE Pipe --------------------------------
(***************************************************************************)
(* One direction of a connection through a tunnel, as its two ends see it: *)
(* chunks 1, 2, 3, ... arrive once and in their order, and the end of the  *)
(* stream arrives after the last of them, unless the connection broke.     *)
(***************************************************************************)
EXTENDS Naturals, Sequences

VARIABLES
    sent,       \* how many chunks the writer sent
    ended,      \* whether it ended the stream
    got,        \* the chunks the reader got
    over,       \* what ended the stream for the reader: "eof", "error", or "no"
    broken      \* whether something between them broke

vars == <<sent, ended, got, over, broken>>

Init == sent = 0 /\ ~ended /\ got = <<>> /\ over = "no" /\ ~broken

Send ==
    /\ ~ended
    /\ sent' = sent + 1
    /\ UNCHANGED <<ended, got, over, broken>>

Finish ==
    /\ ended' = TRUE
    /\ UNCHANGED <<sent, got, over, broken>>

Deliver ==
    /\ over = "no" /\ Len(got) < sent
    /\ got' = Append(got, Len(got) + 1)
    /\ UNCHANGED <<sent, ended, over, broken>>

EndOfFile ==
    /\ over = "no"
    /\ broken \/ (ended /\ Len(got) = sent)
    /\ over' = "eof"
    /\ UNCHANGED <<sent, ended, got, broken>>

\* A part of the way breaks, perhaps because an end leaves; it is not mended.
Break ==
    /\ broken' = TRUE
    /\ ended' \in {ended, TRUE}
    /\ over' \in {over, IF over = "no" THEN "error" ELSE over}
    /\ UNCHANGED <<sent, got>>

Next == Send \/ Finish \/ Deliver \/ EndOfFile \/ Break

Spec == Init /\ [][Next]_vars
=============================================================================
