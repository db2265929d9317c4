------------------------------ MODULE BindingParts ------------------------------
(***************************************************************************)
(* The bindings that theorems are stated of, each component by itself: a   *)
(* behaviour is one of the component that part names, and the others stay  *)
(* as they begin.  MCBindings adds those that are written with recursive   *)
(* operators, or are about what functions compute.                         *)
(***************************************************************************)
EXTENDS Integers

CONSTANTS
  States, Records, Functions, Slots, MaxDepth, MaxRaises,   \* of ZlogRecords
  Channels, MaxSent,                                        \* of AmqpFrames
  Cursors, Width, BatchSizes, ReportsClosed,                \* of OtlSession
  MaxRows, MaxSessions, MaxFailures,
  Names, Texts, Attributes, Leaves, MaxNodes,               \* of XmlTree
  Objects, Handles, Loops, NoObject, Plain, Bad,            \* of PyRefs
  MaxRefs, MaxArgs

VARIABLES
  part,
  status, connected, connOk, autoCommit, session, alive, object, batch, stream, call, binds,
  pending, table, raised, failures, trouble, accepted, confirmed,
  zlogStatus, loaded, record, records, calls, readers, recordRaises, latest,
  sent, outbox, asked, frames, amqpCall, delivered, announced, dropped,
  doc, using, nodes, children, childLoop, ended, declared, source,
  refs, inner, globals, error, handle, loop, leaks, swallowed, foreign, misplaced, again

zlogVars == <<zlogStatus, loaded, record, records, calls, readers, recordRaises, latest>>
framesVars == <<sent, outbox, asked, frames, amqpCall, delivered, announced, dropped>>
otlVars == <<status, connected, connOk, autoCommit, session, alive, object, batch, stream, call, binds,
             pending, table, raised, failures, trouble, accepted, confirmed>>
xmlVars == <<doc, using, nodes, children, childLoop, ended, declared, source>>
pyVars == <<refs, inner, globals, error, handle, loop, leaks, swallowed, foreign, misplaced, again>>
partsVars == <<part, zlogVars, framesVars, otlVars, xmlVars, pyVars>>

Zlog == INSTANCE ZlogRecords WITH
  Names <- Records, status <- zlogStatus, output <- records, raised <- recordRaises
Frames == INSTANCE AmqpFrames WITH call <- amqpCall, given <- delivered
Otl == INSTANCE OtlSession
Xml == INSTANCE XmlTree WITH loop <- childLoop
Py == INSTANCE PyRefs

ASSUME PartsAssumptions ==
  /\ Zlog!ZlogAssumption /\ Frames!FramesAssumption /\ Otl!OtlAssumption /\ Xml!XmlAssumption
  /\ Py!PyAssumption

Only(name) == part = name /\ UNCHANGED part

PartsInit == Zlog!Init /\ Frames!Init /\ Otl!Init /\ Xml!Init /\ Py!Init

PartsNext ==
  \/ Only("zlog") /\ Zlog!Next /\ UNCHANGED <<framesVars, otlVars, xmlVars, pyVars>>
  \/ Only("frames") /\ Frames!Next /\ UNCHANGED <<zlogVars, otlVars, xmlVars, pyVars>>
  \/ Only("otl") /\ Otl!Next /\ UNCHANGED <<zlogVars, framesVars, xmlVars, pyVars>>
  \/ Only("xml") /\ Xml!Next /\ UNCHANGED <<zlogVars, framesVars, otlVars, pyVars>>
  \/ Only("python") /\ Py!Next /\ UNCHANGED <<zlogVars, framesVars, otlVars, xmlVars>>

PartsSpec == PartsInit /\ [][PartsNext]_partsVars

(* lzlog.c: a message goes to the function that was set last for its       *)
(* record, and zlog's lock is held just while one runs or after it raised. *)
ZlogSafety == part = "zlog" => Zlog!Safety

(* lamqplib.c: the messages of a channel come in order, none twice and none *)
(* left out, however calls on other channels came in between.              *)
FramesSafety == part = "frames" => Frames!Safety

(* lua_otl.hpp: the status tells the truth about the connection, rows are  *)
(* stored whole and once, and what a flush confirmed is in the database.   *)
OtlSafety == part = "otl" => Otl!Safety

(* rapidxml.cpp: no step leaves two roots, or a declaration that is not the  *)
(* one set last, and a loop meets each child once.                         *)
XmlSafety == [][part = "xml" => Xml!SafeStep]_partsVars

(* lua_py.c: what Lua refers to is alive, what nobody refers to is freed,  *)
(* and a call reports its own error.                                       *)
PySafety == part = "python" => Py!Safety
=============================================================================
