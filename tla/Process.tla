------------------------------- MODULE Process -------------------------------
(***************************************************************************)
(* The process helpers of src/src/process.cc.                              *)
(*                                                                         *)
(* run_simple_process writes its input to a temporary file, touches an     *)
(* output file, runs the command through system() and reads the output     *)
(* back; every system call on the way may fail.  Contents are abstracted   *)
(* to lengths.  write()'s ssize_t result is compared with                *)
(* input.length(), whose type (zmm::String) is not in the repository.      *)
(*                                                                         *)
(* kill_proc escalates SIGTERM, SIGINT, SIGKILL at a child process that    *)
(* may exit at any moment; is_alive calls waitpid(WNOHANG), which reaps a  *)
(* child that has exited.                                                  *)
(***************************************************************************)
EXTENDS Integers, Sequences

CONSTANTS
    InputLengths,   \* lengths of the input string
    SIGTERM, SIGINT, SIGKILL

\* The signals kill_proc sends, in order.
Esc == <<SIGTERM, SIGINT, SIGKILL>>

VARIABLES
    rpc,          \* where run_simple_process is
    files,        \* temporary files that exist
    inputLen,     \* input.length()
    rresult,      \* "none", "returned" or "thrown"
    child,        \* "running", "zombie" (exited, not reaped) or "reaped"
    kpc,          \* where kill_proc is
    k,            \* the is_alive check kill_proc is at (1..4)
    sent,         \* signals kill_proc has sent
    badKill,      \* history: a signal went to a pid already reaped
    kresult       \* "none", "true" or "false"

runVars == <<rpc, files, inputLen, rresult>>
killVars == <<child, kpc, k, sent, badKill, kresult>>
vars == <<runVars, killVars>>

\* Outcomes of "ret < input.length()".  For ret >= 0 every type of the
\* length gives the same answer; for ret = -1 a signed length makes the
\* test true, a size_t one converts -1 to SIZE_MAX and makes it false.
ShortWrite(ret) == IF ret < 0 THEN BOOLEAN ELSE {ret < inputLen}

-----------------------------------------------------------------------------
(* run_simple_process *)

RunInit ==
    /\ rpc = "openIn"
    /\ files = {}
    /\ inputLen \in InputLengths
    /\ rresult = "none"

Throw ==
    /\ rpc' = "end"
    /\ rresult' = "thrown"

\* open(input_file, O_RDWR | O_CREAT): creates the file or fails (-1).
OpenInput ==
    /\ rpc = "openIn"
    /\ \/ /\ files' = files \cup {"in"}
          /\ rpc' = "write"
          /\ UNCHANGED rresult
       \/ /\ Throw
          /\ UNCHANGED files
    /\ UNCHANGED inputLen

\* write() returns -1 or writes up to the whole input; close(); then the
\* check "ret < input.length()".
WriteInput ==
    /\ rpc = "write"
    /\ \E ret \in {-1} \cup 0..inputLen :
          /\ \E short \in ShortWrite(ret) :
             IF short
                THEN Throw
                ELSE /\ rpc' = "openOut"
                     /\ UNCHANGED rresult
    /\ UNCHANGED <<files, inputLen>>

\* open(output_file, O_RDWR | O_CREAT) and close().
OpenOutput ==
    /\ rpc = "openOut"
    /\ \/ /\ files' = files \cup {"out"}
          /\ rpc' = "system"
          /\ UNCHANGED rresult
       \/ /\ Throw
          /\ UNCHANGED files
    /\ UNCHANGED inputLen

\* system(command): -1 throws; any exit status of the command goes on.
RunCommand ==
    /\ rpc = "system"
    /\ \/ /\ rpc' = "fopen"
          /\ UNCHANGED rresult
       \/ Throw
    /\ UNCHANGED <<files, inputLen>>

\* fopen(output_file) fails and throws, or the output is read to the end,
\* fclose, both files are unlinked and the output returned.
ReadOutput ==
    /\ rpc = "fopen"
    /\ \/ /\ Throw
          /\ UNCHANGED files
       \/ /\ files' = {}
          /\ rpc' = "end"
          /\ rresult' = "returned"
    /\ UNCHANGED inputLen

RunStep == OpenInput \/ WriteInput \/ OpenOutput \/ RunCommand \/ ReadOutput

-----------------------------------------------------------------------------
(* kill_proc and is_alive *)

KillInit ==
    /\ child \in {"running", "zombie"}
    /\ kpc = "check"
    /\ k = 1
    /\ sent = <<>>
    /\ badKill = FALSE
    /\ kresult = "none"

\* waitpid(pid, status, WNOHANG) == 0: the child has not changed state.
\* A child that exited is reaped by the call (it returns the pid); a child
\* already reaped makes it return -1.
StillAliveReaping == child # "reaped"

StillAlive == child = "running"

\* The checks that are followed by a signal: the first three.
EscalatesShort(i) == i < Len(Esc)

Escalates(i) == i <= Len(Esc)

IsAlive ==
    /\ kpc = "check"
    /\ child' = IF child = "zombie" THEN "reaped" ELSE child
    /\ IF StillAlive
          THEN IF Escalates(k)
                  THEN /\ kpc' = "kill"
                       /\ UNCHANGED kresult
                  ELSE /\ kpc' = "done"
                       /\ kresult' = "false"
          ELSE /\ kpc' = "done"
               /\ kresult' = "true"
    /\ UNCHANGED <<k, sent, badKill>>

Kill ==
    /\ kpc = "kill"
    /\ sent' = Append(sent, Esc[k])
    /\ badKill' = (badKill \/ child = "reaped")
    /\ kpc' = "sleep"
    /\ UNCHANGED <<child, k, kresult>>

SameCheck(i) == i

NextCheck(i) == i + 1

\* sleep(1), then the next is_alive.
Sleep ==
    /\ kpc = "sleep"
    /\ kpc' = "check"
    /\ k' = NextCheck(k)
    /\ UNCHANGED <<child, sent, badKill, kresult>>

\* The child exits at any moment: by itself or from a signal it does not
\* ignore, before or after the sleep(1) that waits for it.
ChildExit ==
    /\ child = "running"
    /\ child' = "zombie"
    /\ UNCHANGED <<kpc, k, sent, badKill, kresult>>

KillStep == IsAlive \/ Kill \/ Sleep

-----------------------------------------------------------------------------
Init == RunInit /\ KillInit

Next ==
    \/ RunStep /\ UNCHANGED killVars
    \/ (KillStep \/ ChildExit) /\ UNCHANGED runVars

Spec == Init /\ [][Next]_vars

-----------------------------------------------------------------------------
\* Every variable holds a value of its type; kill_proc sends at most the
\* three signals of its escalation.
TypeOK ==
    /\ rpc \in {"openIn", "write", "openOut", "system", "fopen", "end"}
    /\ files \subseteq {"in", "out"}
    /\ inputLen \in InputLengths
    /\ rresult \in {"none", "returned", "thrown"}
    /\ child \in {"running", "zombie", "reaped"}
    /\ kpc \in {"check", "kill", "sleep", "done"}
    /\ k \in 1..Len(Esc) + 1
    /\ sent \in Seq({SIGTERM, SIGINT, SIGKILL}) /\ Len(sent) <= Len(Esc)
    /\ badKill \in BOOLEAN
    /\ kresult \in {"none", "true", "false"}

\* kill_proc never signals a pid after is_alive has reaped it (the kernel
\* could have given the pid to another process): a child that exits
\* between is_alive and kill() is a zombie and its pid is still its own.
NoSignalToReapedPid == ~badKill

\* kill_proc's result is truthful: "true" only when the child is gone and
\* reaped, "false" only after all of SIGTERM, SIGINT and SIGKILL were sent
\* and the child still runs.
KillResultTruthful ==
    /\ kresult = "true" => child = "reaped"
    /\ kresult = "false" => sent = Esc /\ child # "reaped"

\* run_simple_process cleans up after itself: whether it returns or throws
\* it leaves no temporary file behind ("removing input and output files").
RunSimpleProcessSound == rresult # "none" => files = {}

=============================================================================
