----------------------------- MODULE FileCursor -----------------------------
(***************************************************************************)
(* What a readable, seekable file promises its reader (the contract of the *)
(* IOHandler interface that libupnp's virtual-file callbacks rely on): a   *)
(* cursor over len bytes; a read of n bytes returns the next              *)
(* min(n, bytes left) bytes and moves the cursor by that count; a seek     *)
(* moves the cursor to a position in 0..len computed from the start, the   *)
(* cursor or the end, and fails without moving it otherwise.               *)
(***************************************************************************)
EXTENDS Integers

CONSTANTS
    Requests,   \* read sizes a reader may ask for
    Offsets,    \* seek offsets a reader may pass
    Whences     \* the whence values a reader may pass

SEEK_SET == "SEEK_SET"
SEEK_CUR == "SEEK_CUR"
SEEK_END == "SEEK_END"

\* Values of result other than a byte count: no call yet or a seek, and a
\* call that failed.
NoResult == -2
Thrown == -1

VARIABLES
    len,      \* length of the file, fixed when it is created
    cur,      \* cursor position
    opened,   \* has the file been opened
    result    \* outcome of the last call: NoResult, Thrown or a byte count

cursorVars == <<len, cur, opened, result>>

\* Where a seek would land, or -1 for an unknown whence.
SeekTarget(off, wh) ==
    CASE wh = SEEK_SET -> off
      [] wh = SEEK_CUR -> cur + off
      [] wh = SEEK_END -> len + off
      [] OTHER         -> -1

CursorInit ==
    /\ len \in Nat
    /\ cur = 0
    /\ opened = FALSE
    /\ result = NoResult

Open ==
    /\ cur' = 0
    /\ opened' = TRUE
    /\ result' = NoResult
    /\ UNCHANGED len

Read(n) ==
    LET k == IF n < len - cur THEN n ELSE len - cur
    IN /\ opened
       /\ cur' = cur + k
       /\ result' = k
       /\ UNCHANGED <<len, opened>>

Seek(off, wh) ==
    /\ opened
    /\ IF SeekTarget(off, wh) \in 0..len
          THEN /\ cur' = SeekTarget(off, wh)
               /\ result' = NoResult
          ELSE /\ result' = Thrown
               /\ UNCHANGED cur
    /\ UNCHANGED <<len, opened>>

CursorNext ==
    \/ Open
    \/ \E n \in Requests : Read(n)
    \/ \E off \in Offsets, wh \in Whences : Seek(off, wh)

CursorSpec == CursorInit /\ [][CursorNext]_cursorVars

=============================================================================
