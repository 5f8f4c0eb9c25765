--------------------------- MODULE OrderedStream ---------------------------
(***************************************************************************)
(* What a run of the chunk pipeline promises its caller: the sink receives *)
(* the expected pieces one at a time and in order, and Ok is reported only *)
(* when the sink has received all of them and has been finalised.  An      *)
(* error may be reported at any time before that; until the process exits  *)
(* the sink may still receive further pieces, but never the verdict Ok.    *)
(***************************************************************************)
EXTENDS Naturals, Sequences

VARIABLES stream,        \* the pieces the sink has to receive, in order; fixed
          out,           \* the pieces received
          sealed,        \* the sink was finalised (checksums, hard links, ...)
          verdict        \* "none", "ok" or "err"

vars == <<stream, out, sealed, verdict>>

Init == out = <<>> /\ sealed = FALSE /\ verdict = "none"

Emit == /\ verdict # "ok" /\ ~sealed /\ Len(out) < Len(stream)
        /\ out' = Append(out, stream[Len(out) + 1])
        /\ UNCHANGED <<stream, sealed, verdict>>

\* The sink cannot tell a complete stream from one cut short by a failure
\* upstream, so it may be finalised on a prefix; the verdict is what counts.
Seal == /\ verdict # "ok" /\ ~sealed
        /\ sealed' = TRUE
        /\ UNCHANGED <<stream, out, verdict>>

Succeed == /\ verdict = "none" /\ sealed /\ out = stream
           /\ verdict' = "ok"
           /\ UNCHANGED <<stream, out, sealed>>

Fail == /\ verdict = "none"
        /\ verdict' = "err"
        /\ UNCHANGED <<stream, out, sealed>>

Next == Emit \/ Seal \/ Succeed \/ Fail

Spec == Init /\ [][Next]_vars
=============================================================================
