----------------------------- MODULE ProcessParts ------------------------------
(***************************************************************************)
(* What the library and its scripts do with other processes, the kernel's  *)
(* objects and the C library, each component by itself: a behaviour is one *)
(* of the component that part names, and the others stay as they begin.    *)
(***************************************************************************)
EXTENDS Integers

CONSTANTS
  Timed, Traps, MaxWrites, Capacity,                      \* of RunShell
  Signals, Handlers, ErrorValue, MaxRefs,                 \* of SignalTable
  Processes, SemMax,                                      \* of the next three
  NSems, OpSets, SetValues, UShort, MaxSets,              \* of SvSem
  Size, Word, Lengths, MaxMade,                           \* of ShmCursor
  Descriptions, Second, Timeouts, Forks, MaxMsg,          \* of PosixIpc
  Loops, DirStreams, N, Matching, MaxMet                  \* of Listings

VARIABLES
  part,
  pc, open, writers, written, piped, collected, rfds, closed, late, shell, left, termed, status,
  registry, free, slot, disposition, signalCall, wantedHandler, disturbed,
  operands, exists, sets, semval, undo, semObject, semCall, answer, base, clamped, added, wantedValue,
  shmObject, made, named, memory, touched,
  nonblock, mqObject, queued, posixValue, clock, mqCall, asked, knows, invalid,
  loop, lists, met, dir, read, cursor, moved, again

shellVars == <<pc, open, writers, written, piped, collected, rfds, closed, late, shell, left, termed, status>>
signalVars == <<registry, free, slot, disposition, signalCall, wantedHandler, disturbed>>
semVars == <<operands, exists, sets, semval, undo, semObject, semCall, answer, base, clamped, added, wantedValue>>
shmVars == <<shmObject, made, named, memory, touched>>
posixVars == <<nonblock, mqObject, queued, posixValue, clock, mqCall, asked, knows, invalid>>
listVars == <<loop, lists, met, dir, read, cursor, moved, again>>
vars == <<part, shellVars, signalVars, semVars, shmVars, posixVars, listVars>>

Shell == INSTANCE RunShell
Signal == INSTANCE SignalTable WITH call <- signalCall, wanted <- wantedHandler

Semaphores == INSTANCE SvSem WITH value <- semval, object <- semObject, call <- semCall, wanted <- wantedValue
Memory == INSTANCE ShmCursor WITH object <- shmObject
Posix == INSTANCE PosixIpc WITH object <- mqObject, value <- posixValue, call <- mqCall
Lists == INSTANCE Listings WITH disturbed <- moved

ASSUME Assumptions ==
  /\ Shell!RunShellAssumption /\ Signal!SignalAssumption /\ Semaphores!SemAssumption
  /\ Memory!ShmAssumption /\ Posix!PosixAssumption /\ Lists!ListingsAssumption

Only(name) == part = name /\ UNCHANGED part

Init ==
  /\ part \in {"shell", "signals", "semaphores", "memory", "posix", "lists"}
  /\ Shell!Init /\ Signal!Init /\ Semaphores!Init /\ Memory!Init /\ Posix!Init /\ Lists!Init
  /\ part # "semaphores" => operands = CHOOSE set \in OpSets : TRUE
  /\ part # "posix" => posixValue = 0

Next ==
  \/ Only("shell") /\ Shell!Next /\ UNCHANGED <<signalVars, semVars, shmVars, posixVars, listVars>>
  \/ Only("signals") /\ Signal!Next /\ UNCHANGED <<shellVars, semVars, shmVars, posixVars, listVars>>
  \/ Only("semaphores") /\ Semaphores!Next /\ UNCHANGED <<shellVars, signalVars, shmVars, posixVars, listVars>>
  \/ Only("memory") /\ Memory!Next /\ UNCHANGED <<shellVars, signalVars, semVars, posixVars, listVars>>
  \/ Only("posix") /\ Posix!Next /\ UNCHANGED <<shellVars, signalVars, semVars, shmVars, listVars>>
  \/ Only("lists") /\ Lists!Next /\ UNCHANGED <<shellVars, signalVars, semVars, shmVars, posixVars>>

Spec == Init /\ [][Next]_vars

(* runshell.lua: it leaves no process and no descriptor behind, reads all  *)
(* of the stream whose end it saw, and stops a command only for a reason.  *)
ShellSafety == part = "shell" => Shell!Safety

(* lsyslib.c: a signal runs the function set for it, the system and the table*)
(* agree, and no entry of the registry is lost or given back twice.        *)
SignalSafety == part = "signals" => Signal!Safety

(* lsvipc.c: whoever exits when, a semaphore gets back what was taken; done *)
(* performs what was added since the last one, and waits unless it was told.*)
SemaphoreSafety == part = "semaphores" => Semaphores!Safety

(* lsvipc.c and lipclib.c: the cursor stays inside the attached memory.    *)
MemorySafety == part = "memory" => Memory!Safety

(* lipclib.c: a call waits as long as its timeout says, and a queue is in the*)
(* mode it was last put in.                                                *)
PosixSafety == part = "posix" => Posix!Safety

(* lfslib.c and luserlib.c: a loop meets each name or account once, and the  *)
(* streams that are open belong to loops that run or were left.            *)
ListingSafety == part = "lists" => Lists!Safety
=============================================================================
