---------------------------- MODULE MemIOHandler ----------------------------
(***************************************************************************)
(* MemIOHandler (src/src/mem_io_handler.cc): an in-memory file served to   *)
(* libupnp through the IOHandler interface.  The bytes themselves are      *)
(* abstracted away: a read is described by the number of bytes it returns  *)
(* and where the cursor ends, which is all the reader can tell apart.      *)
(* size_t arithmetic is kept modulo 2^WIDTH, so the signed/unsigned        *)
(* comparisons of seek behave as the build makes them behave.             *)
(***************************************************************************)
EXTENDS Integers

CONSTANTS
    Lengths,        \* buffer lengths a handler may be created with
    Requests,       \* read sizes libupnp may ask for
    Offsets,        \* seek offsets libupnp may pass (off_t, signed)
    Whences,        \* whence values, including an unrecognised one
    WIDTH,          \* bits of size_t
    SeekAfterRead   \* does the reader seek after it has started reading

SEEK_SET == "SEEK_SET"
SEEK_CUR == "SEEK_CUR"
SEEK_END == "SEEK_END"
NoResult == -2
Thrown == -1

VARIABLES
    length,   \* MemIOHandler::length
    pos,      \* MemIOHandler::pos
    atEOF,    \* MemIOHandler::atEOF
    opened,   \* open() has been called
    result,   \* outcome of the last call: NoResult, Thrown (an exception) or read's return value
    hasRead   \* the reader has read since the last open (used only by the reader's protocol)

vars == <<length, pos, atEOF, opened, result, hasRead>>

\* Conversion of a signed value to size_t.
ToSizeT(x) == x % (2 ^ WIDTH)

\* Both constructors: copy the buffer, pos = 0; atEOF is not initialised,
\* so it holds whatever the allocation left there.
Init ==
    /\ length \in Lengths
    /\ pos = 0
    /\ atEOF \in BOOLEAN
    /\ opened = FALSE
    /\ result = NoResult
    /\ hasRead = FALSE

open ==
    /\ pos' = 0
    /\ atEOF' = FALSE
    /\ opened' = TRUE
    /\ result' = NoResult
    /\ hasRead' = FALSE
    /\ UNCHANGED length

\* size_t rest = this->length - pos; the count read returns for a request of n.
Rest == ToSizeT(length - pos)

ReadCountUncapped(n) == n

ReadCount(n) == IF n > Rest THEN Rest ELSE n

\* read's end-of-file test on the new position: pos >= this->length.
AtEnd(p) == p >= length

read(n) ==
    /\ opened
    /\ hasRead' = TRUE
    /\ IF atEOF
          THEN /\ result' = 0
               /\ UNCHANGED <<pos, atEOF>>
          ELSE /\ pos' = pos + ReadCount(n)
               /\ result' = ReadCount(n)
               /\ atEOF' = AtEnd(pos')
    /\ UNCHANGED <<length, opened>>

\* Where seek puts pos, or Thrown where it throws.  The comparisons of a
\* long with the size_t length convert the long to size_t, so a negative
\* sum is caught by "> length" and the "< 0" test never decides.
SeekTo(off, wh) ==
    LET from == IF wh = SEEK_CUR /\ ~atEOF THEN pos ELSE length
        t    == from + off
    IN CASE wh = SEEK_SET ->
              IF off < 0 \/ off > length THEN Thrown ELSE off
         [] wh \in {SEEK_CUR, SEEK_END} ->
              IF ToSizeT(t) > length \/ t < 0 THEN Thrown ELSE t
         [] OTHER -> Thrown

\* seek never touches atEOF.
seek(off, wh) ==
    /\ opened
    /\ SeekAfterRead \/ ~hasRead
    /\ IF SeekTo(off, wh) = Thrown
          THEN /\ result' = Thrown
               /\ UNCHANGED pos
          ELSE /\ pos' = SeekTo(off, wh)
               /\ result' = NoResult
    /\ UNCHANGED <<length, atEOF, opened, hasRead>>

Next ==
    \/ open
    \/ \E n \in Requests : read(n)
    \/ \E off \in Offsets, wh \in Whences : seek(off, wh)

Spec == Init /\ [][Next]_vars

-----------------------------------------------------------------------------
\* Every variable holds a value of its type; pos stays inside the buffer.
TypeOK ==
    /\ length \in Lengths
    /\ pos \in 0..length
    /\ atEOF \in BOOLEAN
    /\ opened \in BOOLEAN
    /\ result \in {NoResult, Thrown} \cup 0..length
    /\ hasRead \in BOOLEAN

\* MemIOHandler implements the file-cursor contract: with pos as the cursor,
\* every open, read and seek of the handler is a step the contract allows,
\* so each read returns exactly the bytes left before the cursor (up to the
\* request) and each seek lands where its whence and offset say.
Cursor == INSTANCE FileCursor WITH len <- length, cur <- pos

ImplementsFileCursor == Cursor!CursorSpec

=============================================================================
