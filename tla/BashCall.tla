------------------------------ MODULE BashCall ------------------------------
(***************************************************************************)
(* One call of the bash tool: a shell in a process group of its own, whose *)
(* output goes through a pipe of limited size to a reader task that keeps  *)
(* the last of it, and the task of the call, which waits for the shell,    *)
(* the cancellation flag and the clock at once, kills the group when the   *)
(* shell was not first, and joins the reader.  A command may leave         *)
(* processes behind; they have the pipe open unless they redirected their  *)
(* output, and may have left the group.                                    *)
(***************************************************************************)
EXTENDS Integers, Sequences, FiniteSets

CONSTANTS
  Jobs,      \* processes the command may start in the background
  PipeSize,  \* pieces of output the pipe holds
  TailSize,  \* pieces the reader keeps (DEFAULT_MAX_BYTES)
  MaxOutput  \* bound: pieces written

VARIABLES
  shell,     \* "run", "exited" (nobody has waited for it) or "reaped"
  left,      \* what the shell has still to write
  hangs,     \* the command does not end by itself
  group,     \* background processes in the shell's process group
  loose,     \* those that left it
  open,      \* those that have the pipe open
  written, pipe, tail,
  reader,    \* the task read_pipe_tail
  cancel, late,
  phase,     \* of the call: "select", "kill", "join" or "returned"
  end,       \* End: "none", "done", "cancelled" or "timeout"
  answer

bashVars == <<shell, left, hangs, group, loose, open, written, pipe, tail, reader, cancel, late,
              phase, end, answer>>
procVars == <<shell, left, hangs, group, loose, open>>
callVars == <<phase, end, answer>>

Last(s, n) == IF Len(s) <= n THEN s ELSE SubSeq(s, Len(s) - n + 1, Len(s))
Upto(n) == [i \in 1..n |-> i]

-----------------------------------------------------------------------------
(* The command *)

Put ==
  /\ Len(pipe) < PipeSize /\ written < MaxOutput
  /\ pipe' = Append(pipe, written + 1) /\ written' = written + 1
  /\ UNCHANGED <<tail, reader, cancel, late, callVars>>

ShellWrites ==
  /\ shell = "run" /\ left > 0 /\ Put /\ left' = left - 1
  /\ UNCHANGED <<shell, hangs, group, loose, open>>

JobWrites == open # {} /\ written + left < MaxOutput /\ Put /\ UNCHANGED procVars

StartJob ==
  /\ shell = "run"
  /\ \E j \in Jobs \ (group \cup loose) :
       /\ \/ group' = group \cup {j} /\ UNCHANGED loose
          \/ loose' = loose \cup {j} /\ UNCHANGED group
       /\ open' \in {open, open \cup {j}}
  /\ UNCHANGED <<shell, left, hangs, written, pipe, tail, reader, cancel, late, callVars>>

JobEnds ==
  /\ \E j \in group \cup loose :
       group' = group \ {j} /\ loose' = loose \ {j} /\ open' = open \ {j}
  /\ UNCHANGED <<shell, left, hangs, written, pipe, tail, reader, cancel, late, callVars>>

ShellExits ==
  /\ shell = "run" /\ left = 0 /\ ~hangs /\ shell' = "exited"
  /\ UNCHANGED <<left, hangs, group, loose, open, written, pipe, tail, reader, cancel, late, callVars>>

-----------------------------------------------------------------------------
(* The reader *)

Drain ==
  /\ reader = "reads" /\ pipe # <<>>
  /\ tail' = Last(Append(tail, pipe[1]), TailSize) /\ pipe' = Tail(pipe)
  /\ UNCHANGED <<procVars, written, reader, cancel, late, callVars>>

EndOfFile ==
  /\ reader = "reads" /\ pipe = <<>> /\ shell # "run" /\ open = {}
  /\ reader' = "done"
  /\ UNCHANGED <<procVars, written, pipe, tail, cancel, late, callVars>>

-----------------------------------------------------------------------------
(* The call *)

Cancel ==
  /\ phase # "returned" /\ ~cancel /\ cancel' = TRUE
  /\ UNCHANGED <<procVars, written, pipe, tail, reader, late, callVars>>

\* timeout_secs are over.
Elapse ==
  /\ phase = "select" /\ ~late /\ late' = TRUE
  /\ UNCHANGED <<procVars, written, pipe, tail, reader, cancel, callVars>>

\* select! takes any branch that is ready.
Done ==
  /\ phase = "select" /\ shell = "exited"
  /\ shell' = "reaped" /\ phase' = "join" /\ end' = "done"
  /\ UNCHANGED <<left, hangs, group, loose, open, written, pipe, tail, reader, cancel, late, answer>>

CutShort ==
  /\ phase = "select"
  /\ \/ cancel /\ end' = "cancelled"
     \/ late /\ end' = "timeout"
  /\ phase' = "kill"
  /\ UNCHANGED <<procVars, written, pipe, tail, reader, cancel, late, answer>>

KillShell == (* (a bug: the shell alone is killed) *)
  /\ phase = "kill" /\ phase' = "join"
  /\ shell' = "reaped"
  /\ UNCHANGED <<left, hangs, group, loose, open, written, pipe, tail, reader, cancel, late, end, answer>>

\* killpg, kill and wait.
KillTree ==
  /\ phase = "kill" /\ phase' = "join"
  /\ shell' = "reaped" /\ group' = {} /\ open' = open \ group
  /\ UNCHANGED <<left, hangs, loose, written, pipe, tail, reader, cancel, late, end, answer>>

\* join_pipe_readers: both readers have come to the end.
Join ==
  /\ phase = "join" /\ reader = "done"
  /\ phase' = "returned" /\ answer' = IF end = "timeout" THEN <<>> ELSE tail
  /\ UNCHANGED <<procVars, written, pipe, tail, reader, cancel, late, end>>

\* ... or 500 ms are over, for a call that was cut short; what was read is lost.
JoinGivesUp ==
  /\ phase = "join" /\ end # "done"
  /\ phase' = "returned" /\ answer' = <<>>
  /\ UNCHANGED <<procVars, written, pipe, tail, reader, cancel, late, end>>

Init ==
  /\ shell = "run" /\ left \in 0..MaxOutput /\ hangs \in BOOLEAN
  /\ group = {} /\ loose = {} /\ open = {}
  /\ written = 0 /\ pipe = <<>> /\ tail = <<>> /\ reader = "reads"
  /\ cancel = FALSE /\ late = FALSE
  /\ phase = "select" /\ end = "none" /\ answer = <<>>

ShellGoesOn == ShellWrites \/ ShellExits
Reads == Drain \/ EndOfFile
Proceeds == Done \/ CutShort \/ KillTree \/ Join \/ JoinGivesUp

Next ==
  \/ ShellGoesOn \/ JobWrites \/ StartJob \/ JobEnds
  \/ Cancel \/ Elapse \/ Reads \/ Proceeds

\* The shell goes on as long as it can write; the reader, the clock and the
\* call do what they can.  The time given is more than a command needs that
\* does not hang.  Nothing is assumed of background processes.
Fairness ==
  /\ WF_bashVars(ShellGoesOn) /\ WF_bashVars(Reads) /\ WF_bashVars(Proceeds)
  /\ WF_bashVars(hangs /\ Elapse)

Spec == Init /\ [][Next]_bashVars /\ Fairness

-----------------------------------------------------------------------------
TypeOK ==
  /\ shell \in {"run", "exited", "reaped"} /\ hangs \in BOOLEAN /\ left \in 0..MaxOutput
  /\ group \cap loose = {} /\ open \subseteq group \cup loose /\ group \cup loose \subseteq Jobs
  /\ written \in 0..MaxOutput /\ Len(pipe) <= PipeSize /\ Len(tail) <= TailSize
  /\ phase \in {"select", "kill", "join", "returned"}
  /\ end \in {"none", "done", "cancelled", "timeout"}

\* What a call leaves: one that was cut short has no process of its group
\* running, and one whose shell ended answers the last of everything that was
\* written, by the shell and by what it started, in order; and the shell never
\* stays a zombie.
CallClosed ==
  phase = "returned" =>
    /\ shell = "reaped"
    /\ end # "done" => group = {}
    /\ end = "done" => answer = Last(Upto(written), TailSize)

\* A call comes back, whatever its processes do: the clock runs as long as the
\* shell does, and a reader that is kept waiting is left alone.  Only when the
\* shell has ended by itself does the call wait for those who have the pipe.
CallReturns ==
  phase = "select" ~> phase = "returned" \/ (end = "done" /\ open # {})

\* A command that is neither cancelled nor late gets to its end, however much
\* more than a pipe holds it writes.
NeverStuck == ~hangs => <>(shell # "run" \/ cancel \/ late)
=============================================================================
