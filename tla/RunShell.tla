-------------------------------- MODULE RunShell --------------------------------
(***************************************************************************)
(* examples/runshell.lua, which runs a command with the functions of       *)
(* lsyslib.c and lfdlib.c: two pipes, fork, exec, a loop of select and     *)
(* read until one pipe has ended or the time is over, then waitpid, and    *)
(* kill for a command that still runs.  The command is any program that    *)
(* writes, closes its outputs, leaves a process behind and exits.          *)
(***************************************************************************)
EXTENDS Naturals, FiniteSets

CONSTANTS
  Timed,     \* runshell was given a timeout
  Traps,     \* the command ignores SIGTERM
  MaxWrites, \* bound: what is written to each stream
  Capacity   \* bound: what a pipe takes before a writer has to wait

RunShellAssumption == {Timed, Traps} \subseteq BOOLEAN /\ MaxWrites \in Nat /\ Capacity \in Nat \ {0}

VARIABLES
  pc,        \* where runshell is
  open,      \* the ends of the pipes that runshell has open
  writers,   \* the processes that have the write end of each pipe
  written, piped, collected, \* how much was written, is in the pipe, was read
  rfds,      \* the streams that select has reported and that are not read yet
  closed,    \* the variable of runshell
  late,      \* the time is over
  shell,     \* the process of the command, for the kernel
  left,      \* a process that the command left behind is running
  termed,    \* SIGTERM was sent
  status     \* how the process ended, as waitpid reports it

pipeVars == <<writers, written, piped>>
shellVars == <<shell, left, status>>
parentVars == <<pc, open, collected, rfds, closed, termed>>
vars == <<pipeVars, shellVars, parentVars, late>>

Streams == {"stdout", "stderr"}
Ends == Streams \X {"read", "write"}
Total(s) == piped[s] + collected[s]

TypeOK ==
  /\ pc \in {"pipes", "forked", "loop", "select", "read", "finish", "poll", "kill", "wait", "done", "raised"}
  /\ open \subseteq Ends
  /\ \A s \in Streams : writers[s] \subseteq {"shell", "left"} /\ Total(s) <= written[s]
  /\ rfds \subseteq Streams /\ {closed, late, left, termed} \subseteq BOOLEAN
  /\ shell \in {"none", "runs", "zombie", "reaped"}
  /\ status \in {"none", "exited", "term", "pipe"} /\ (shell = "reaped" => status # "none")

Init ==
  /\ pc = "pipes" /\ open = Ends /\ writers = [s \in Streams |-> {}]
  /\ written = [s \in Streams |-> 0] /\ piped = [s \in Streams |-> 0] /\ collected = [s \in Streams |-> 0]
  /\ rfds = {} /\ closed = FALSE /\ late = FALSE
  /\ shell = "none" /\ left = FALSE /\ termed = FALSE /\ status = "none"

-----------------------------------------------------------------------------
(* The command. *)

Alive(p) == IF p = "shell" THEN shell = "runs" ELSE left

Over(p, how) ==
  /\ writers' = [s \in Streams |-> writers[s] \ {p}]
  /\ IF p = "shell" THEN shell' = "zombie" /\ status' = how /\ UNCHANGED left
     ELSE left' = FALSE /\ UNCHANGED <<shell, status>>
  /\ UNCHANGED <<written, piped>>

(* A write to a pipe that nobody reads ends the process. *)
Write(p, s) ==
  /\ Alive(p) /\ p \in writers[s] /\ written[s] < MaxWrites
  /\ \/ /\ <<s, "read">> \in open /\ piped[s] < Capacity
        /\ written' = [written EXCEPT ![s] = @ + 1] /\ piped' = [piped EXCEPT ![s] = @ + 1]
        /\ UNCHANGED <<writers, shellVars>>
     \/ <<s, "read">> \notin open /\ Over(p, "pipe")
  /\ UNCHANGED <<parentVars, late>>

CloseStream(p, s) ==
  /\ Alive(p) /\ p \in writers[s]
  /\ writers' = [writers EXCEPT ![s] = @ \ {p}]
  /\ UNCHANGED <<written, piped, shellVars, parentVars, late>>

LeaveBehind ==
  /\ Alive("shell") /\ ~left
  /\ left' = TRUE /\ writers' = [s \in Streams |-> IF "shell" \in writers[s] THEN writers[s] \cup {"left"} ELSE writers[s]]
  /\ UNCHANGED <<written, piped, shell, status, parentVars, late>>

Exit(p) == Alive(p) /\ Over(p, "exited") /\ UNCHANGED <<parentVars, late>>

Terminated == Alive("shell") /\ termed /\ ~Traps /\ Over("shell", "term") /\ UNCHANGED <<parentVars, late>>

TimePasses == ~late /\ late' = TRUE /\ UNCHANGED <<pipeVars, shellVars, parentVars>>

-----------------------------------------------------------------------------
(* runshell. *)

At(here, there) == pc = here /\ pc' = there

(* sys.fork(); the child has the write ends alone, and becomes the command. *)
Fork ==
  /\ At("pipes", "forked")
  /\ shell' = "runs" /\ writers' = [s \in Streams |-> {"shell"}]
  /\ UNCHANGED <<open, written, piped, collected, rfds, closed, late, left, termed, status>>

(* fork fails: the four ends are closed and an error is raised. *)
ForkFails ==
  /\ At("pipes", "raised")
  /\ open' = {}
  /\ UNCHANGED <<pipeVars, shellVars, collected, rfds, closed, late, termed>>

Kept == Streams \X {"read"}

CloseWrites ==
  /\ At("forked", "loop")
  /\ open' = open \cap Kept
  /\ UNCHANGED <<pipeVars, shellVars, collected, rfds, closed, late, termed>>

Continues == (~Timed \/ ~late) /\ ~closed

WhileLoop ==
  /\ At("loop", IF Continues THEN "select" ELSE "finish")
  /\ UNCHANGED <<pipeVars, shellVars, open, collected, rfds, closed, late, termed>>

AtEnd(s) == piped[s] = 0 /\ writers[s] = {} /\ <<s, "write">> \notin open
Readable == {s \in Streams : piped[s] > 0 \/ AtEnd(s)}

(* fd.readable({stdout, stderr}, endtime - now). *)
Select ==
  /\ At("select", "read") /\ Readable # {}
  /\ rfds' = Readable
  /\ UNCHANGED <<pipeVars, shellVars, open, collected, closed, late, termed>>

SelectTimesOut ==
  /\ At("select", "finish") /\ Readable = {} /\ Timed /\ late
  /\ UNCHANGED <<pipeVars, shellVars, open, collected, rfds, closed, late, termed>>

(* The read gave nothing. *)
EndOf(n) == n = 0

(* fd.read(f, 4096), of stdout before stderr; it may give a part. *)
ReadStream(s, n) ==
  /\ pc = "read" /\ s \in rfds /\ (s = "stderr" => "stdout" \notin rfds)
  /\ n <= piped[s] /\ (n = 0 <=> piped[s] = 0)
  /\ piped' = [piped EXCEPT ![s] = @ - n] /\ collected' = [collected EXCEPT ![s] = @ + n]
  /\ closed' = (closed \/ EndOf(n)) /\ rfds' = rfds \ {s}
  /\ UNCHANGED <<pc, open, writers, written, shellVars, late, termed>>

AllRead ==
  /\ At("read", "loop") /\ rfds = {}
  /\ UNCHANGED <<pipeVars, shellVars, open, collected, rfds, closed, late, termed>>

Finish ==
  /\ At("finish", "poll")
  /\ open' = open \ (Streams \X {"read"})
  /\ UNCHANGED <<pipeVars, shellVars, collected, rfds, closed, late, termed>>

(* A mutant of AfterPoll: a command that runs is left alone.               *)
AfterPollLeaves == "done"

(* A mutant of AfterPoll: waitpid waits without kill.                      *)
AfterPollWaits == "wait"

(* waitpid returned 0. *)
AfterPoll == "kill"

Polled == IF shell = "zombie" THEN "reaped" ELSE shell

(* sys.waitpid(pid, sys.WNOHANG). *)
Poll ==
  /\ At("poll", IF shell = "zombie" THEN "done" ELSE AfterPoll)
  /\ shell' = Polled
  /\ UNCHANGED <<pipeVars, left, status, open, collected, rfds, closed, late, termed>>

(* sys.kill(pid), which does nothing to a process that has ended. *)
Kill ==
  /\ At("kill", "wait")
  /\ termed' = TRUE
  /\ UNCHANGED <<pipeVars, shellVars, open, collected, rfds, closed, late>>

(* sys.waitpid(pid, 0). *)
Wait ==
  /\ At("wait", "done") /\ shell = "zombie"
  /\ shell' = "reaped"
  /\ UNCHANGED <<pipeVars, left, status, open, collected, rfds, closed, late, termed>>

RunShell ==
  \/ Fork \/ CloseWrites \/ WhileLoop \/ Select \/ SelectTimesOut
  \/ \E s \in Streams, n \in 0..Capacity : ReadStream(s, n)
  \/ AllRead \/ Finish \/ Poll \/ Kill \/ Wait

Command ==
  \/ \E p \in {"shell", "left"} : Exit(p) \/ \E s \in Streams : Write(p, s) \/ CloseStream(p, s)
  \/ LeaveBehind \/ Terminated

Next == RunShell \/ ForkFails \/ Command \/ TimePasses

Spec == Init /\ [][Next]_vars

(* runshell and the kernel go on, time passes; nothing is asked of the      *)
(* command but that SIGTERM ends it.                                       *)
FairSpec == Spec /\ WF_vars(RunShell) /\ WF_vars(Terminated) /\ WF_vars(TimePasses)

-----------------------------------------------------------------------------
(* Properties. *)

(* When runshell is over it has no end of a pipe open, and has left no      *)
(* process of its own behind that nobody waits for.                        *)
NothingLeft == pc \in {"done", "raised"} => open = {} /\ shell \in {"none", "reaped"}

(* What has ended one stream is its end: everything that was written to it  *)
(* has been read.  The other stream may be cut.                            *)
EndedIsComplete ==
  closed => \E s \in Streams : writers[s] = {} /\ collected[s] = written[s]

(* The command is stopped only after the time was over or a stream had     *)
(* ended; a command that did neither ends by itself, with its own status.  *)
StoppedForAReason == (termed \/ status \in {"term", "pipe"}) => closed \/ (Timed /\ late)

(* With a timeout, runshell comes to its end, whatever the command and the  *)
(* process it leaves behind do, if SIGTERM ends the command.               *)
Returns == <>(pc \in {"done", "raised"})

(* Without a timeout, the end of one stream is enough: runshell ends when   *)
(* nobody can write to it any more.                                        *)
EndReturns == \A s \in Streams : (shell # "none" /\ writers[s] = {}) ~> pc = "done"

(* What every state of the component keeps. *)
Safety == TypeOK /\ NothingLeft /\ EndedIsComplete /\ StoppedForAReason

(* What makes it so: what was written is in the pipe or was read, the ends   *)
(* are open that runshell still uses, its process is there from fork until *)
(* waitpid has collected it, a stream that select reported can still be    *)
(* read, and the loop is left for a reason.                                *)
Counts ==
  /\ {written, piped, collected} \subseteq [Streams -> Nat]
  /\ writers \in [Streams -> SUBSET {"shell", "left"}]
  /\ \A s \in Streams : Total(s) = written[s]

EndsOpen ==
  /\ pc \in {"pipes", "forked", "loop", "select", "read", "finish"} => Streams \X {"read"} \subseteq open
  /\ pc \in {"loop", "select", "read", "finish"} => open = Streams \X {"read"}
  /\ pc \in {"poll", "kill", "wait", "done", "raised"} => open = {}

ItsProcess ==
  /\ pc \in {"pipes", "raised"} => shell = "none" /\ ~left /\ ~closed /\ rfds = {}
  /\ pc \notin {"pipes", "raised"} => shell # "none"
  /\ shell = "reaped" <=> pc = "done"
  /\ shell = "zombie" => status # "none"

ReportedIsReadable == \A s \in rfds : piped[s] > 0 \/ AtEnd(s)

LeftForAReason ==
  pc \in {"finish", "poll", "kill", "wait", "done"} => closed \/ (Timed /\ late)

IInv ==
  /\ TypeOK /\ Counts /\ EndsOpen /\ ItsProcess /\ ReportedIsReadable /\ LeftForAReason
  /\ EndedIsComplete /\ StoppedForAReason

=============================================================================
