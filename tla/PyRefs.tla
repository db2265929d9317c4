-------------------------------- MODULE PyRefs --------------------------------
(***************************************************************************)
(* lua_py.c: Python objects held from Lua.  A userdata owns one reference, *)
(* which its __gc gives back; the closure that python.iter returns owns    *)
(* one too, as a light userdata, and gives it back when the iterator is    *)
(* exhausted.  Arguments are converted to new Python objects for the time  *)
(* of a call.  Python runs inside these calls only, and its error          *)
(* indicator stays set until somebody fetches or clears it.                *)
(***************************************************************************)
EXTENDS Naturals, Sequences, SequencesExt, FiniteSetsExt

CONSTANTS
  Objects,   \* Python objects, with addresses that are used again
  Handles,   \* python.object userdata
  Loops,     \* closures made by python.iter
  NoObject,  \* in place of an object
  Plain,     \* a Lua value that is converted to a new object; an exception without arguments
  Bad,       \* a Lua value that cannot be converted
  MaxRefs,   \* bound: how many references an object has
  MaxArgs    \* bound: how many arguments a call has

PyAssumption ==
  /\ IsFiniteSet(Objects) /\ IsFiniteSet(Handles) /\ IsFiniteSet(Loops)
  /\ MaxRefs \in Nat /\ MaxArgs \in Nat /\ NoObject \notin Objects
  /\ {Plain, Bad} \cap (Objects \cup Handles \cup {NoObject}) = {} /\ Plain # Bad

VARIABLES
  refs,       \* the reference count of each object: 0 when it is freed
  inner,      \* what a bound method or an iterator refers to in its turn
  globals,    \* the objects that Python's own variables refer to
  error,      \* the error indicator: NoObject, or what the exception set refers to
  handle,     \* py_object.obj of each userdata, or NoObject when it is not there
  loop,       \* the closures: the iterator, and whether it was found exhausted
  leaks,      \* history: how references were lost
  swallowed,  \* history: an error was left in the indicator by a call that returned
  foreign,    \* history: a call reported an error that another call left
  misplaced,  \* history: tolua stored an object elsewhere than in its table
  again       \* history: a closure gave its reference back a second time

pyVars == <<refs, inner, globals, error>>
luaVars == <<handle, loop>>
historyVars == <<leaks, swallowed, foreign, misplaced, again>>
vars == <<pyVars, luaVars, historyVars>>

NoLoop == [iter |-> NoObject, done |-> FALSE]

TypeOK ==
  /\ refs \in [Objects -> 0..MaxRefs] /\ inner \in [Objects -> Objects \cup {NoObject}]
  /\ globals \subseteq Objects /\ error \in Objects \cup {NoObject, Plain}
  /\ handle \in [Handles -> Objects \cup {NoObject}]
  /\ loop \in [Loops -> [iter : Objects \cup {NoObject}, done : BOOLEAN]]
  /\ leaks \subseteq {"conversion", "exception", "operator", "iterator"}
  /\ {swallowed, foreign, misplaced, again} \subseteq BOOLEAN
  /\ \A o \in Objects : refs[o] = 0 => inner[o] = NoObject

Init ==
  /\ refs = [o \in Objects |-> 0] /\ inner = [o \in Objects |-> NoObject]
  /\ globals = {} /\ error = NoObject
  /\ handle = [h \in Handles |-> NoObject] /\ loop = [l \in Loops |-> NoLoop]
  /\ leaks = {} /\ swallowed = FALSE /\ foreign = FALSE /\ misplaced = FALSE
  /\ again = FALSE

-----------------------------------------------------------------------------
(* CPython's reference counts: a heap is the counts and the inner objects.  *)

Heap == [refs |-> refs, inner |-> inner]

Incref(p, o) == IF o \in Objects THEN [p EXCEPT !.refs[o] = @ + 1] ELSE p

(* A reference to next is given back: with its last one an object is freed, *)
(* and the reference that it had itself is the next.                       *)
GivenBack(s) ==
  LET o == s.next IN
  IF o \notin Objects THEN s
  ELSE IF s.heap.refs[o] > 1
       THEN [heap |-> [s.heap EXCEPT !.refs[o] = @ - 1], next |-> NoObject]
       ELSE [heap |-> [s.heap EXCEPT !.refs[o] = 0, !.inner[o] = NoObject], next |-> s.heap.inner[o]]

(* There are no more of them than objects. *)
Decref(p, o) ==
  LET after[n \in 0 .. Cardinality(Objects)] ==
        IF n = 0 THEN [heap |-> p, next |-> o] ELSE GivenBack(after[n - 1])
  IN after[Cardinality(Objects)].heap

(* A new reference to an object that is there, or to a new one.            *)
Made(p, o, in) ==
  IF p.refs[o] > 0 THEN Incref(p, o)
  ELSE Incref([p EXCEPT !.refs[o] = 1, !.inner[o] = in], in)

BecomesHeap(p) ==
  /\ refs' = p.refs /\ inner' = p.inner
  /\ \A o \in Objects : p.refs[o] <= MaxRefs

Alive == {o \in Objects : refs[o] > 0}

(* The new objects are interchangeable: the first one that is free stands   *)
(* for all.                                                                *)
Results(p) ==
  LET free == {o \in Objects : p.refs[o] = 0}
  IN Alive \cup (IF free = {} THEN {} ELSE {CHOOSE o \in free : TRUE})

-----------------------------------------------------------------------------
(* Lua values to Python: lua2py_any of each argument, into a list or tuple  *)
(* that takes over the reference.                                          *)

Arguments == SeqOf({h \in Handles : handle[h] # NoObject} \cup {Plain, Bad}, MaxArgs)

Good(args) == \A i \in DOMAIN args : args[i] # Bad

(* A mutant of Converted: the reference is lent and not counted.           *)
Borrowed(p, arg) == p

Converted(p, arg) == IF arg \in Handles THEN Incref(p, handle[arg]) ELSE p

(* One argument after the other. *)
Taken(args) ==
  LET after[i \in 0 .. Len(args)] == IF i = 0 THEN Heap ELSE Converted(after[i - 1], args[i])
  IN after[Len(args)]

(* Py_DECREF of the list or tuple frees it with what it refers to, the last *)
(* item first.                                                             *)
Released(p, args) ==
  LET Item(i) == IF args[i] \in Handles THEN handle[args[i]] ELSE NoObject
      after[n \in 0 .. Len(args)] ==
        IF n = 0 THEN p ELSE Decref(after[n - 1], Item(Len(args) - n + 1))
  IN after[Len(args)]

(* luaL_argcheck or luaL_checkudata jumps out of the conversion: nobody     *)
(* releases what was built so far.                                         *)
ConversionRaises(args) ==
  /\ \E n \in DOMAIN args :
       LET before == SubSeq(args, 1, n - 1)
       IN args[n] = Bad /\ Good(before) /\ BecomesHeap(Taken(before))
  /\ leaks' = leaks \cup {"conversion"}
  /\ UNCHANGED <<globals, error, luaVars, swallowed, foreign, misplaced, again>>

(* PySet_Add and PyDict_SetItem fail on an unhashable value, and nobody     *)
(* looks: the value is left out and the error stays.                       *)
Unhashable ==
  /\ error' = Plain /\ swallowed' = TRUE
  /\ BecomesHeap(Decref(Heap, error))
  /\ UNCHANGED <<globals, luaVars, leaks, foreign, misplaced, again>>

-----------------------------------------------------------------------------
(* Errors. *)

(* PyErr_Fetch clears the indicator. *)
Indicator(e) == NoObject

(* py_ReportException, of an error of this call or of one that was left    *)
(* there: it never releases what PyErr_Fetch gave it.                      *)
Report(p) ==
  /\ \/ \E e \in {Plain} \cup {o \in Objects : p.refs[o] > 0} :
          /\ BecomesHeap(Incref(Decref(p, error), e))
          /\ error' = Indicator(e)
          /\ UNCHANGED foreign
     \/ /\ error # NoObject
        /\ BecomesHeap(p)
        /\ error' = Indicator(error)
        /\ foreign' = TRUE
  /\ leaks' = leaks \cup {"exception"}
  /\ UNCHANGED <<globals, luaVars, swallowed, misplaced, again>>

-----------------------------------------------------------------------------
(* Calls. *)

(* py_newobj: a userdata takes the reference. *)
NewObj(h, o) ==
  /\ handle[h] = NoObject
  /\ handle' = [handle EXCEPT ![h] = o]

(* None, True, False and NotImplemented are given back at once. *)
Nothing(p) == BecomesHeap(p) /\ UNCHANGED handle

(* A new reference goes to Lua, and the arguments are given back. *)
Returned(p, args) ==
  \E x \in Results(p), h \in Handles :
    /\ BecomesHeap(Released(Made(p, x, NoObject), args))
    /\ NewObj(h, x)

(* What a call of Python returned goes to Lua. *)
CallResult(p, args) ==
  /\ Nothing(Released(p, args)) \/ Returned(p, args)
  /\ UNCHANGED <<globals, error, loop, swallowed, foreign, misplaced, again>>

(* A function of the module that returns an object, whatever it is. *)
Gives(args) ==
  \/ ConversionRaises(args)
  \/ Good(args) /\ Report(Released(Taken(args), args))
  \/ /\ Good(args) /\ Returned(Taken(args), args)
     /\ UNCHANGED <<globals, error, loop, historyVars>>

(* python.eval(code, globals, locals). *)
Eval(args) == Len(args) <= 2 /\ Gives(args)

(* python.import(name) and python.object(type, value). *)
Import == Gives(<<>>)
Object(args) == Len(args) = 1 /\ Gives(args)

(* python.getitem(obj, key), and obj.name, obj[n] and obj[".key"]. *)
GetItem(h, args) == handle[h] # NoObject /\ Len(args) = 1 /\ Gives(args)
Index(h) == handle[h] # NoObject /\ Gives(<<>>)

(* python.call(obj, args) and obj(args...). *)
Call(h, args) ==
  /\ handle[h] # NoObject
  /\ \/ ConversionRaises(args)
     \/ Good(args) /\ Report(Released(Taken(args), args))
     \/ Good(args) /\ CallResult(Taken(args), args) /\ UNCHANGED leaks

(* python.exec and dofile: a statement sets a variable of Python, or       *)
(* deletes one.                                                            *)
Exec(o) ==
  \/ /\ o \in Alive \ globals
     /\ globals' = globals \cup {o} /\ BecomesHeap(Incref(Heap, o))
     /\ UNCHANGED <<error, luaVars, historyVars>>
  \/ /\ o \in globals
     /\ globals' = globals \ {o} /\ BecomesHeap(Decref(Heap, o))
     /\ UNCHANGED <<error, luaVars, historyVars>>

(* pyobj_op: the method is looked up on the object and never given back.   *)
Operator(h, args) ==
  /\ handle[h] # NoObject /\ Len(args) <= 1
  /\ \/ ConversionRaises(args)
     \/ Good(args) /\ Report(Released(Taken(args), args))
     \/ \E method \in {o \in Results(Heap) : refs[o] = 0} :
          /\ Good(args)
          /\ CallResult(Made(Taken(args), method, handle[h]), args)
          /\ leaks' = leaks \cup {"operator"}

(* __len, __tostring, repr, dir and type: a temporary object.  __tostring   *)
(* prints its error and so clears the indicator.                           *)
Look(h) ==
  /\ handle[h] # NoObject
  /\ \/ Report(Heap)
     \/ /\ error # NoObject
        /\ BecomesHeap(Decref(Heap, error)) /\ error' = NoObject
        /\ UNCHANGED <<globals, luaVars, historyVars>>

(* How many values py_newobj leaves on the stack: it pushes its userdata    *)
(* again before it sets the metatable.                                     *)
PushedByNewObj == 2

(* python.tolua of a list or dict, with an item x that has no Lua           *)
(* counterpart or without one.  The table is looked for below one value.   *)
(* Errors of the iteration are cleared.                                    *)
Tolua(h, k, x) ==
  /\ handle[h] # NoObject
  /\ error' = NoObject
  /\ \/ /\ x \in Alive
        /\ BecomesHeap(Incref(Decref(Heap, error), x))
        /\ NewObj(k, x)
        /\ misplaced' = (misplaced \/ PushedByNewObj # 1)
     \/ Nothing(Decref(Heap, error)) /\ UNCHANGED misplaced
  /\ UNCHANGED <<globals, loop, leaks, swallowed, foreign, again>>

(* pyobj_gc. *)
Gc(h) ==
  /\ handle[h] # NoObject
  /\ BecomesHeap(Decref(Heap, handle[h]))
  /\ handle' = [handle EXCEPT ![h] = NoObject]
  /\ UNCHANGED <<globals, error, loop, historyVars>>

-----------------------------------------------------------------------------
(* Iterators. *)

(* python.iter(obj): of an iterator, itself; of another object a new one.  *)
Iter(l, h) ==
  /\ loop[l] = NoLoop /\ handle[h] # NoObject
  /\ \/ /\ \E it \in {o \in Results(Heap) : refs[o] = 0} \cup {handle[h]} :
             /\ BecomesHeap(Made(Heap, it, handle[h]))
             /\ loop' = [loop EXCEPT ![l].iter = it]
        /\ UNCHANGED <<globals, error, handle, historyVars>>
     \/ Report(Heap)

(* py_next without an item: the end and an error are taken alike. *)
Finished(p, it, e) == Decref(p, it)

(* The closure is called.  A for loop stops at the first call that returns  *)
(* nothing; py_next does not know that one was, and whoever calls it again   *)
(* makes it use the iterator, which may be freed, and give it back again.  *)
NextItem(l) ==
  LET it == loop[l].iter IN
  /\ it # NoObject
  /\ \/ /\ \E x \in Results(Heap), h \in Handles :
             BecomesHeap(Made(Heap, x, NoObject)) /\ NewObj(h, x)
        /\ UNCHANGED <<globals, error, loop, historyVars>>
     \/ \E e \in {NoObject, Plain} :
          /\ BecomesHeap(Finished(IF e = Plain THEN Decref(Heap, error) ELSE Heap, it, e))
          /\ error' = IF e = Plain THEN Plain ELSE error
          /\ swallowed' = (swallowed \/ e = Plain)
          /\ loop' = [loop EXCEPT ![l].done = TRUE]
          /\ again' = (again \/ loop[l].done)
          /\ UNCHANGED <<globals, handle, leaks, foreign, misplaced>>

(* The collector takes the closure; a light userdata has no finalizer.     *)
Drop(l) ==
  /\ loop[l].iter # NoObject
  /\ loop' = [loop EXCEPT ![l] = NoLoop]
  /\ leaks' = IF loop[l].done THEN leaks ELSE leaks \cup {"iterator"}
  /\ UNCHANGED <<pyVars, handle, swallowed, foreign, misplaced, again>>

Next ==
  \/ \E args \in Arguments :
       \/ Eval(args) \/ Object(args)
       \/ \E h \in Handles : GetItem(h, args) \/ Call(h, args) \/ Operator(h, args)
  \/ Import \/ Unhashable
  \/ \E o \in Objects : Exec(o)
  \/ \E h \in Handles :
       \/ Index(h) \/ Look(h) \/ Gc(h)
       \/ \E l \in Loops : Iter(l, h)
       \/ \E k \in Handles, x \in Objects : Tolua(h, k, x)
  \/ \E l \in Loops : NextItem(l) \/ Drop(l)

Spec == Init /\ [][Next]_vars

-----------------------------------------------------------------------------
(* Properties. *)

(* The references to o that somebody knows of. *)
Holders(o) ==
  Quantify(Handles, LAMBDA h : handle[h] = o)
  + Quantify(Loops, LAMBDA l : loop[l].iter = o /\ ~loop[l].done)
  + Quantify(Objects, LAMBDA p : inner[p] = o)
  + (IF o \in globals THEN 1 ELSE 0) + (IF error = o THEN 1 ELSE 0)

(* An object that a userdata or an unfinished loop of Lua refers to is      *)
(* never freed, whatever Python does with it and whatever calls it was an  *)
(* argument of; unless a closure was called after its end, which takes the *)
(* reference of somebody else (README, "Disagreements").                    *)
HeldIsAlive == again \/ \A o \in Objects : refs[o] >= Holders(o)

(* As long as no call raised an error, no operator was used, no loop was     *)
(* left early and no closure called after its end, every reference is given *)
(* back: an object lives no longer than somebody refers to it.             *)
NothingLost == leaks = {} /\ ~again => \A o \in Objects : refs[o] = Holders(o)

(* A call reports an error of its own, unless a loop over an iterator that *)
(* raised, or a conversion to a set or dict, left its error behind.        *)
OwnErrors == foreign => swallowed

(* What the header says of python.iter: it returns an iterator object,      *)
(* which like any other is there as long as Lua holds it.                  *)
(* The code does not keep it: README, "Disagreements".                      *)
IteratorAlive == \A l \in Loops : loop[l].iter # NoObject => refs[loop[l].iter] > 0

(* What the header says of tolua: it returns a Lua object, the table that  *)
(* the items are stored in.                                                *)
(* The code does not keep it: README, "Disagreements".                      *)
ToluaFillsTable == ~misplaced

(* What every state of the component keeps. *)
Safety == TypeOK /\ HeldIsAlive /\ NothingLost /\ OwnErrors

=============================================================================
