--------------------------- MODULE ChunkedRewrite ---------------------------
(***************************************************************************)
(* What the materialising half of align::rewrite promises its caller, with *)
(* no threads, channels or buffers: every output chunk is hashed at most   *)
(* once, a chunk reaches the file only after it was hashed and with the    *)
(* bytes that were hashed, a chunk that failed is never repaired, and the  *)
(* verdict is Ok exactly when everything was hashed and written.           *)
(***************************************************************************)
CONSTANTS
    Chunk,      \* the indexes of the output chunks
    Materialised  \* those that have bytes before new_end

VARIABLES
    hashed,     \* chunks whose digest was computed
    written,    \* chunks whose bytes are in the output file
    failed,     \* a read or a write failed
    verdict     \* "running", then "ok" or "err", which is final

absVars == <<hashed, written, failed, verdict>>

AbsInit ==
    /\ hashed = {}
    /\ written = {}
    /\ failed = FALSE
    /\ verdict = "running"

AbsHash(k) ==
    /\ verdict = "running"
    /\ k \notin hashed
    /\ hashed' = hashed \cup {k}
    /\ UNCHANGED <<written, failed, verdict>>

AbsWrite(k) ==
    /\ verdict = "running"
    /\ k \in (hashed \cap Materialised) \ written
    /\ written' = written \cup {k}
    /\ UNCHANGED <<hashed, failed, verdict>>

AbsFail ==
    /\ verdict = "running"
    /\ failed' = TRUE
    /\ UNCHANGED <<hashed, written, verdict>>

AbsFinish ==
    /\ verdict = "running"
    /\ verdict' = IF failed THEN "err" ELSE "ok"
    /\ verdict' = "ok" => hashed = Chunk /\ written = Materialised
    /\ UNCHANGED <<hashed, written, failed>>

AbsNext ==
    \/ \E k \in Chunk : AbsHash(k) \/ AbsWrite(k)
    \/ AbsFail
    \/ AbsFinish

AbsSpec == AbsInit /\ [][AbsNext]_absVars
=============================================================================
