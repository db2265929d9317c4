------------------------------- MODULE Listings -------------------------------
(***************************************************************************)
(* The iterators of lfslib.c and luserlib.c.  listdir opens a directory    *)
(* stream for its loop and closes it at the end; getpwall, getgrall and    *)
(* getspall have no state of their own and step through the one cursor     *)
(* that the C library keeps for each database of the process.  A program   *)
(* has loops inside loops and one after the other, and leaves some early.  *)
(* The directory and the databases do not change meanwhile.                *)
(***************************************************************************)
EXTENDS Naturals, Sequences, Functions

CONSTANTS
  Loops,       \* the loops of the program
  DirStreams,  \* addresses of directory streams, used again after closedir
  N,           \* entries of the directory, and of each database
  Matching,    \* those that match the pattern
  MaxMet       \* bound: the steps of one loop

ListingsAssumption == {N, MaxMet} \subseteq Nat \ {0} /\ Matching \subseteq 1..N /\ DirStreams # {}

VARIABLES
  loop,      \* each loop: none, running, over (its iterator gave nil), left
  lists,     \* what it lists: dir, or a database
  met,       \* the entries it was given
  dir,       \* the stream that its iterator holds, as a light userdata
  read,      \* how far each open stream was read
  cursor,    \* how far the C library has read each database
  disturbed, \* loops whose cursor was moved by another loop, as a history
  again      \* an iterator was called after it had given nil

vars == <<loop, lists, met, dir, read, cursor, disturbed, again>>

Databases == {"passwd", "group", "shadow"}
Closed == N + 1
OpenStreams == {s \in DirStreams : read[s] # Closed}
RunningOn(what) == {l \in Loops : loop[l] = "running" /\ lists[l] = what}

TypeOK ==
  /\ loop \in [Loops -> {"none", "running", "over", "left"}]
  /\ lists \in [Loops -> Databases \cup {"dir"}]
  /\ met \in [Loops -> Seq(1..N)] /\ \A l \in Loops : Len(met[l]) <= MaxMet
  /\ dir \in [Loops -> DirStreams] /\ read \in [DirStreams -> 0..Closed]
  /\ cursor \in [Databases -> 0..N]
  /\ disturbed \subseteq Loops /\ again \in BOOLEAN

Init ==
  /\ loop = [l \in Loops |-> "none"] /\ lists = [l \in Loops |-> "dir"] /\ met = [l \in Loops |-> <<>>]
  /\ dir = [l \in Loops |-> CHOOSE s \in DirStreams : TRUE] /\ read = [s \in DirStreams |-> Closed]
  /\ cursor = [d \in Databases |-> 0]
  /\ disturbed = {} /\ again = FALSE

Begins(l, what) ==
  /\ loop[l] = "none"
  /\ loop' = [loop EXCEPT ![l] = "running"] /\ lists' = [lists EXCEPT ![l] = what]
  /\ UNCHANGED <<met, again>>

Meets(l, entry) ==
  /\ Len(met[l]) < MaxMet
  /\ met' = [met EXCEPT ![l] = Append(@, entry)] /\ UNCHANGED loop

Ends(l) == loop' = [loop EXCEPT ![l] = "over"] /\ UNCHANGED met

(* A break; what the iterator has open stays open. *)
Leave(l) ==
  /\ loop[l] = "running"
  /\ loop' = [loop EXCEPT ![l] = "left"]
  /\ UNCHANGED <<lists, met, dir, read, cursor, disturbed, again>>

-----------------------------------------------------------------------------
(* fs.listdir(path, pattern). *)

ListDir(l) ==
  /\ Begins(l, "dir")
  /\ \E s \in DirStreams \ OpenStreams :
       dir' = [dir EXCEPT ![l] = s] /\ read' = [read EXCEPT ![s] = 0]
  /\ UNCHANGED <<cursor, disturbed>>

(* The entries that readdir and fnmatch have not come to. *)
Rest(i) == Matching \cap (i + 1)..N

(* closedir. *)
AfterLast == Closed

ReadEntry(l, s) ==
  /\ IF Rest(read[s]) # {}
     THEN LET entry == CHOOSE i \in Rest(read[s]) : \A j \in Rest(read[s]) : i <= j IN
          Meets(l, entry) /\ read' = [read EXCEPT ![s] = entry]
     ELSE Ends(l) /\ read' = [read EXCEPT ![s] = AfterLast]
  /\ UNCHANGED <<lists, dir, cursor, disturbed>>

NextName(l) ==
  /\ l \in RunningOn("dir") /\ dir[l] \in OpenStreams
  /\ ReadEntry(l, dir[l]) /\ UNCHANGED again

(* An iterator that has given nil is called by hand when another loop's     *)
(* stream has the address of its own.  (While no stream has it, a call of   *)
(* any iterator that holds it reads freed memory, and is left out.)        *)
CalledAgain(l) ==
  /\ loop[l] = "over" /\ lists[l] = "dir" /\ dir[l] \in OpenStreams
  /\ ReadEntry(l, dir[l]) /\ again' = TRUE

-----------------------------------------------------------------------------
(* user.getpwall(), getgrall() and getspall(). *)

Disturb(l, d) == disturbed' = disturbed \cup (RunningOn(d) \ {l})

(* A mutant of StartOf: the database is not rewound.                        *)
StartOfAny(d) == cursor[d]

(* setpwent. *)
StartOf(d) == 0

GetAll(l, d) ==
  /\ Begins(l, d)
  /\ cursor' = [cursor EXCEPT ![d] = StartOf(d)]
  /\ Disturb(l, d) /\ UNCHANGED <<dir, read>>

More(d) == cursor[d] < N

(* getpwent, or endpwent after the last one. *)
NextOf(l, d) ==
  /\ l \in RunningOn(d)
  /\ IF More(d) THEN Meets(l, cursor[d] + 1) /\ cursor' = [cursor EXCEPT ![d] = @ + 1]
     ELSE Ends(l) /\ cursor' = [cursor EXCEPT ![d] = 0]
  /\ Disturb(l, d) /\ UNCHANGED <<lists, dir, read, again>>

GetPwAll(l) == GetAll(l, "passwd")
GetGrAll(l) == GetAll(l, "group")
GetSpAll(l) == GetAll(l, "shadow")
NextPasswd(l) == NextOf(l, "passwd")
NextGroup(l) == NextOf(l, "group")
NextSpwd(l) == NextOf(l, "shadow")

Next ==
  \E l \in Loops :
    \/ ListDir(l) \/ NextName(l) \/ CalledAgain(l) \/ Leave(l)
    \/ GetPwAll(l) \/ GetGrAll(l) \/ GetSpAll(l)
    \/ NextPasswd(l) \/ NextGroup(l) \/ NextSpwd(l)

Spec == Init /\ [][Next]_vars

-----------------------------------------------------------------------------
(* Properties. *)

(* These names, in the order of the directory, and each of them once. *)
Listing(names, set) ==
  /\ Range(names) = set
  /\ \A i, j \in DOMAIN names : i < j => names[i] < names[j]

(* A loop over a directory is given each name that matches once, whatever   *)
(* other loops begin, end or leave meanwhile, if nobody calls an iterator   *)
(* after its nil.                                                          *)
NamesOnce ==
  \A l \in Loops :
    loop[l] = "over" /\ lists[l] = "dir" /\ ~again => Listing(met[l], Matching)

(* A loop over a database is given each account once if no other loop over  *)
(* the same one begins or goes on before it ends; a loop left early does    *)
(* the next one no harm, and loops over other databases none at all.        *)
AccountsOnce ==
  \A l \in Loops :
    loop[l] = "over" /\ lists[l] # "dir" /\ l \notin disturbed => met[l] = [i \in 1..N |-> i]

Holders == {l \in Loops : lists[l] = "dir" /\ loop[l] \in {"running", "left"}}

(* Each stream that is open belongs to one loop, which is running or was    *)
(* left early; no other keeps a descriptor.                                *)
OnlyLeftOpen ==
  ~again => /\ OpenStreams = {dir[l] : l \in Holders}
            /\ \A l1, l2 \in Holders : dir[l1] = dir[l2] => l1 = l2

(* What every state of the component keeps. *)
Safety == TypeOK /\ NamesOnce /\ AccountsOnce /\ OnlyLeftOpen

(* What makes it so: a loop that runs has met what comes before its stream   *)
(* or its cursor.                                                          *)
NamesSoFar ==
  ~again => \A l \in RunningOn("dir") : Listing(met[l], Matching \cap 1..read[dir[l]])

AccountsSoFar ==
  \A d \in Databases : \A l \in RunningOn(d) \ disturbed : met[l] = [i \in 1..cursor[d] |-> i]

NothingMet == \A l \in Loops : loop[l] = "none" => met[l] = <<>>

IInv == TypeOK /\ NamesOnce /\ AccountsOnce /\ OnlyLeftOpen /\ NamesSoFar /\ AccountsSoFar /\ NothingMet

=============================================================================
