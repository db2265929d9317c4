------------------------------ MODULE OtlSession ------------------------------
(***************************************************************************)
(* lua_otl.hpp: a database connection and its cursors.  The rows of a      *)
(* cursor are bound value by value into a buffer of OTL's stream, which is *)
(* executed when it is full or flushed.  The session ends whenever the     *)
(* server likes; statements and commits fail; the connection is closed and *)
(* opened again under its cursors; the collector takes cursors that the    *)
(* application has dropped.  The buffer is OTL's (otl_tmpl_inout_stream), as *)
(* the calls of this file drive it.                                        *)
(***************************************************************************)
EXTENDS Integers, Sequences, SequencesExt, FiniteSets

CONSTANTS
  Cursors,        \* the cursors that are ever made
  Width,          \* how many values a row has
  BatchSizes,     \* the batch sizes in use
  ReportsClosed,  \* whether OTL_CONNECTION_CLOSED is defined (Oracle; not ODBC)
  MaxRows,        \* bound: how many rows are bound
  MaxSessions,    \* bound: how many sessions are opened
  MaxFailures     \* bound: how many commits and other requests of the connection fail

OtlAssumption ==
  /\ Width \in Nat \ {0} /\ BatchSizes \subseteq Nat \ {0} /\ BatchSizes # {}
  /\ ReportsClosed \in BOOLEAN
  /\ MaxRows \in Nat /\ MaxSessions \in Nat \ {0} /\ MaxFailures \in Nat

VARIABLES
  status,      \* luaotl_connect_t.status: 1 good, 0 closed, -1 found broken
  connected,   \* otl_connect::connected
  connOk,      \* otl_connect's return code: its last own request succeeded
  autoCommit,  \* the connection's autocommit mode
  session,     \* the session it has, or had: they are counted
  alive,       \* the server still has that session
  object,      \* each cursor: "none", "live" or "collected"
  batch,       \* luaotl_stream_t.batch_size
  stream,      \* luaotl_stream_t._stream
  call,        \* the call of bind_values or bind_names under way
  binds,       \* how many rows have been bound: a row is named by its number
  pending,     \* rows stored and not committed: how often each one
  table,       \* rows committed: how often each one
  raised,      \* history: a bind has raised an error in the middle of a row
  failures,    \* how many requests of the connection have failed
  trouble,     \* history: an error since the cursor's execute may cost rows
  accepted,    \* history: rows whose bind returned true, since the last flush
  confirmed    \* history: rows that a flush without trouble returned true for

connVars == <<status, connected, connOk, autoCommit, session, alive>>
cursorVars == <<object, batch, stream>>
dbVars == <<pending, table>>
historyVars == <<raised, failures, trouble, accepted, confirmed>>
vars == <<connVars, cursorVars, call, binds, dbVars, historyVars>>

(* The buffer holds rows, and the values of a row that is not complete.     *)
NoStream == [kind |-> "none", session |-> 0, size |-> 0, rows |-> <<>>, part |-> <<>>,
             ok |-> TRUE, flagged |-> FALSE, left |-> 0]
NoCall == [cursor |-> "none", row |-> 0, done |-> 0, check |-> FALSE]

(* Of each value of a row, only the bind that wrote it is kept. *)
AllRows == [1..Width -> 1..MaxRows]
Whole(r) == [i \in 1..Width |-> r]
NoRows == [row \in AllRows |-> 0]

Streams == [kind : {"none", "insert", "select"}, session : Nat, size : Nat, rows : Seq(AllRows),
            part : Seq(1..MaxRows), ok : BOOLEAN, flagged : BOOLEAN, left : Nat]

TypeOK ==
  /\ status \in {-1, 0, 1} /\ session \in 1..MaxSessions
  /\ {connected, connOk, autoCommit, alive, raised} \subseteq BOOLEAN
  /\ object \in [Cursors -> {"none", "live", "collected"}]
  /\ batch \in [Cursors -> BatchSizes \cup {1}]
  /\ stream \in [Cursors -> Streams]
  /\ \A c \in Cursors :
       /\ stream[c].session <= session
       /\ Len(stream[c].rows) <= stream[c].size /\ Len(stream[c].part) < Width
       /\ stream[c].kind # "none" => object[c] = "live" /\ stream[c].size > 0
  /\ call = NoCall \/ call \in [cursor : Cursors, row : 1..binds, done : 0..Width, check : BOOLEAN]
  /\ binds \in 0..MaxRows /\ failures \in 0..MaxFailures
  /\ pending \in [AllRows -> Nat] /\ table \in [AllRows -> Nat]
  /\ trouble \in [Cursors -> BOOLEAN]
  /\ accepted \in [Cursors -> SUBSET (1..binds)] /\ confirmed \subseteq 1..binds

(* otl_XXX_connect has logged on. *)
Init ==
  /\ status = 1 /\ connected = TRUE /\ connOk = TRUE /\ autoCommit \in BOOLEAN
  /\ session = 1 /\ alive = TRUE
  /\ object = [c \in Cursors |-> "none"] /\ batch = [c \in Cursors |-> 1]
  /\ stream = [c \in Cursors |-> NoStream]
  /\ call = NoCall /\ binds = 0 /\ pending = NoRows /\ table = NoRows
  /\ raised = FALSE /\ failures = 0 /\ trouble = [c \in Cursors |-> FALSE]
  /\ accepted = [c \in Cursors |-> {}] /\ confirmed = {}

Idle == call = NoCall

-----------------------------------------------------------------------------
(* What the code checks before a call. *)

CheckConnect == status > 0 /\ connected

(* otl_stream::good() knows nothing of the session. *)
GoodStream(c) == CheckConnect /\ stream[c].kind # "none"

(* The server answers a statement of this session. *)
Answers(s) == alive /\ s.session = session

-----------------------------------------------------------------------------
(* The database. *)

(* The first n rows of a buffer. *)
Copies(rows, n) == [row \in AllRows |-> Cardinality({i \in 1..n : rows[i] = row})]
And(f, g) == [row \in AllRows |-> f[row] + g[row]]

(* Rows arrive, and are committed with all that is pending, or not. *)
Store(rows, commits) ==
  /\ table' = IF commits THEN And(table, And(pending, rows)) ELSE table
  /\ pending' = IF commits THEN NoRows ELSE And(pending, rows)

(* What was pending is undone: nobody promised those rows any longer. *)
Undo ==
  /\ pending' = NoRows
  /\ confirmed' = {r \in confirmed : table[Whole(r)] > 0}
  /\ UNCHANGED table

HandleException(answered) ==
  status' = IF ReportsClosed /\ ~answered THEN -1 ELSE status

-----------------------------------------------------------------------------
(* OTL's flush of a stream: the set of its outcomes.  A stream that was    *)
(* flagged does nothing.  After a failure of the stream or of the          *)
(* connection the buffer is emptied and nobody is told.  Only whole rows   *)
(* are executed; each execution is followed by a commit, since a stream's  *)
(* auto_commit_flag is 1 unless it is told otherwise, and nobody does.     *)

Outcome(s, ok, rows, commits, throws) ==
  [stream |-> s, ok |-> ok, rows |-> rows, commits |-> commits, throws |-> throws]

IsEmpty(s) == s.rows = <<>> /\ s.part = <<>>
Emptied(s) == [s EXCEPT !.rows = <<>>, !.part = <<>>]

Executed(s) ==
  LET all == Copies(s.rows, Len(s.rows))
      Failed(k) == Outcome([s EXCEPT !.ok = FALSE], connOk, Copies(s.rows, k), autoCommit, TRUE)
  IN IF Answers(s)
     THEN {Outcome(Emptied(s), TRUE, all, TRUE, FALSE), Outcome(s, FALSE, all, autoCommit, TRUE)}
          \cup {Failed(k) : k \in 0 .. Len(s.rows) - 1}
     ELSE {Failed(0)}

Flushed(s) ==
  CASE IsEmpty(s) \/ s.flagged -> {Outcome(s, connOk, NoRows, FALSE, FALSE)}
    [] ~IsEmpty(s) /\ ~s.flagged /\ ~(s.ok /\ connOk) ->
         {Outcome(Emptied(s), connOk, NoRows, FALSE, FALSE)}
    [] ~IsEmpty(s) /\ ~s.flagged /\ s.ok /\ connOk /\ s.part # <<>> ->
         {Outcome([s EXCEPT !.flagged = TRUE], connOk, NoRows, FALSE, TRUE)}
    [] OTHER -> Executed(s)

(* An outcome reaches the database and the connection. *)
Apply(o) ==
  /\ Store(o.rows, o.commits)
  /\ connOk' = o.ok
  /\ failures' = failures + (IF connOk /\ ~o.ok THEN 1 ELSE 0)
  /\ failures' <= MaxFailures

(* Whose rows are at risk after an outcome of c's stream. *)
TroubleAfter(c, o) == [d \in Cursors |-> trouble[d] \/ ~o.ok \/ (d = c /\ o.throws)]

-----------------------------------------------------------------------------
(* The connection. *)

(* The status that close_otl_connect leaves. *)
Closed == 0

(* What is left of a session that ends: nothing that was pending. *)
EndSession == alive' = FALSE /\ Undo

(* otl_connect:close().  A logoff that fails is over as well. *)
CloseConnect ==
  /\ Idle
  /\ status' = Closed /\ connected' = FALSE
  /\ connOk' \in IF connected THEN BOOLEAN ELSE {connOk}
  /\ EndSession
  /\ UNCHANGED <<autoCommit, session, cursorVars, call, binds, raised, failures, trouble, accepted>>

(* otl_connect:connect(auto_commit): a broken one is closed first. *)
Connect(auto) ==
  /\ Idle /\ status <= 0 /\ session < MaxSessions
  /\ status' = 1 /\ connected' = TRUE /\ connOk' = TRUE /\ autoCommit' = auto
  /\ session' = session + 1 /\ alive' = TRUE
  /\ Undo
  /\ UNCHANGED <<cursorVars, call, binds, raised, failures, trouble, accepted>>

StatusAfterFailure == IF status < 0 THEN Closed ELSE status

ConnectFails ==
  /\ Idle /\ status <= 0
  /\ status' = StatusAfterFailure
  /\ connected' = FALSE /\ connOk' = FALSE
  /\ EndSession
  /\ UNCHANGED <<autoCommit, session, cursorVars, call, binds, raised, failures, trouble, accepted>>

(* otl_connect:commit(). *)
Commit ==
  /\ Idle /\ CheckConnect /\ alive
  /\ connOk' = TRUE /\ Store(NoRows, TRUE)
  /\ UNCHANGED <<status, connected, autoCommit, session, alive, cursorVars, call, binds, historyVars>>

(* commit, rollback or set_auto_commit fails: every stream of the connection *)
(* now drops its rows, until one of them succeeds.                         *)
ConnectionCallFails ==
  /\ Idle /\ CheckConnect /\ failures < MaxFailures
  /\ connOk' = FALSE /\ HandleException(alive)
  /\ failures' = failures + 1 /\ trouble' = [c \in Cursors |-> TRUE]
  /\ UNCHANGED <<connected, autoCommit, session, alive, cursorVars, call, binds, dbVars, raised, accepted, confirmed>>

Rollback ==
  /\ Idle /\ CheckConnect /\ alive
  /\ connOk' = TRUE /\ Undo
  /\ UNCHANGED <<status, connected, autoCommit, session, alive, cursorVars, call, binds, raised, failures, trouble, accepted>>

(* auto_commit_on commits what is pending. *)
SetAutoCommit(auto) ==
  /\ Idle /\ CheckConnect /\ alive
  /\ autoCommit' = auto /\ connOk' = TRUE
  /\ Store(NoRows, auto)
  /\ UNCHANGED <<status, connected, session, alive, cursorVars, call, binds, historyVars>>

(* direct_exec and syntax_check fail on a dead session, and say so.        *)
DirectExecFails ==
  /\ Idle /\ CheckConnect /\ ~alive
  /\ HandleException(FALSE)
  /\ UNCHANGED <<connected, connOk, autoCommit, session, alive, cursorVars, call, binds, dbVars, historyVars>>

-----------------------------------------------------------------------------
(* The cursors. *)

(* otl_connect:cursor(). *)
Cursor(c) ==
  /\ Idle /\ CheckConnect /\ object[c] = "none"
  /\ object' = [object EXCEPT ![c] = "live"]
  /\ UNCHANGED <<connVars, batch, stream, call, binds, dbVars, historyVars>>

SetBatchSize(c, n) ==
  /\ Idle /\ object[c] = "live"
  /\ batch' = [batch EXCEPT ![c] = n]
  /\ UNCHANGED <<connVars, object, stream, call, binds, dbVars, historyVars>>

NewStream(c, kind, n) ==
  [NoStream EXCEPT !.kind = kind, !.session = session, !.size = batch[c],
                   !.left = IF kind = "select" THEN n ELSE 0]

(* execute(sql): the old stream is closed, whatever becomes of the new one. *)
Execute(c, kind, n) ==
  /\ Idle /\ CheckConnect /\ object[c] = "live"
  /\ \E o \in Flushed(stream[c]) :
       /\ Apply(o)
       /\ \/ /\ alive
             /\ stream' = [stream EXCEPT ![c] = NewStream(c, kind, n)]
             /\ trouble' = [TroubleAfter(c, o) EXCEPT ![c] = ~o.ok]
             /\ UNCHANGED status
          \/ /\ stream' = [stream EXCEPT ![c] = NoStream]
             /\ HandleException(alive)
             /\ trouble' = TroubleAfter(c, o)
  /\ accepted' = [accepted EXCEPT ![c] = {}]
  /\ UNCHANGED <<connected, autoCommit, session, alive, object, batch, call, binds, raised, confirmed>>

(* close_otl_stream leaves no stream. *)
Deleted(s) == NoStream

(* otl_stream:close() and the collector: the rows in the buffer are flushed, *)
(* and nobody is told when that fails.                                     *)
Closes(c, after) ==
  /\ Idle /\ object[c] = "live"
  /\ \E o \in Flushed(stream[c]) : Apply(o) /\ trouble' = TroubleAfter(c, o)
  /\ stream' = [stream EXCEPT ![c] = Deleted(@)]
  /\ object' = [object EXCEPT ![c] = after]
  /\ accepted' = [accepted EXCEPT ![c] = {}]
  /\ UNCHANGED <<status, connected, autoCommit, session, alive, batch, call, binds, raised, confirmed>>

(* fetchone, and the iterator of rows().                                   *)
Fetch(c) ==
  /\ Idle /\ GoodStream(c) /\ stream[c].kind = "select" /\ stream[c].left > 0
  /\ \/ /\ Answers(stream[c])
        /\ stream' = [stream EXCEPT ![c].left = @ - 1]
        /\ UNCHANGED status
     \/ /\ ~Answers(stream[c])
        /\ HandleException(FALSE)
        /\ UNCHANGED stream
  /\ UNCHANGED <<connected, connOk, autoCommit, session, alive, object, batch, call, binds, dbVars, historyVars>>

-----------------------------------------------------------------------------
(* bind_values and bind_names: one step for each value, since each may fail *)
(* with the values before it written.                                      *)

BeginBind(c) ==
  /\ Idle /\ GoodStream(c) /\ stream[c].kind = "insert" /\ binds < MaxRows
  /\ binds' = binds + 1
  /\ call' = [cursor |-> c, row |-> binds + 1, done |-> 0, check |-> FALSE]
  /\ UNCHANGED <<connVars, cursorVars, dbVars, historyVars>>

Full(s) == Len(s.rows) = s.size

(* OTL's get_next, after the flush that a full buffer needs: what that left *)
(* is overwritten from the last row on.                                    *)
Written(s, v) ==
  LET kept == IF Full(s) THEN Front(s.rows) ELSE s.rows
      row == Append(s.part, v)
  IN IF Len(row) = Width THEN [s EXCEPT !.rows = Append(kept, row), !.part = <<>>]
     ELSE [s EXCEPT !.rows = kept, !.part = row]

(* The call is over, with nil and a message, or with an error. *)
BindStops(c, t) ==
  /\ call' = NoCall
  /\ trouble' = t

(* luaotl_write_var writes the next value. *)
WriteValue ==
  LET c == call.cursor IN
  /\ ~Idle /\ ~call.check /\ call.done < Width
  /\ \E o \in IF Full(stream[c]) THEN Flushed(stream[c])
              ELSE {Outcome(stream[c], connOk, NoRows, FALSE, FALSE)} :
       /\ Apply(o)
       /\ IF o.throws
          THEN /\ BindStops(c, TroubleAfter(c, o))
               /\ HandleException(Answers(o.stream))
               /\ stream' = [stream EXCEPT ![c] = o.stream]
          ELSE /\ LET s == Written(o.stream, call.row) IN
                    /\ stream' = [stream EXCEPT ![c] = s]
                    /\ call' = [call EXCEPT !.done = @ + 1, !.check = Full(s)]
               /\ UNCHANGED <<status, trouble>>
  /\ UNCHANGED <<connected, autoCommit, session, alive, object, batch, binds, raised, accepted, confirmed>>

(* The value filled the buffer, which is flushed at once. *)
CheckBuffer ==
  LET c == call.cursor IN
  /\ ~Idle /\ call.check
  /\ \E o \in Flushed(stream[c]) :
       /\ Apply(o)
       /\ stream' = [stream EXCEPT ![c] = o.stream]
       /\ IF o.throws
          THEN BindStops(c, TroubleAfter(c, o)) /\ HandleException(Answers(o.stream))
          ELSE call' = [call EXCEPT !.check = FALSE] /\ UNCHANGED <<status, trouble>>
  /\ UNCHANGED <<connected, autoCommit, session, alive, object, batch, binds, raised, accepted, confirmed>>

(* A value of the wrong Lua type: the values before it stay in the buffer. *)
Mismatched ==
  /\ BindStops(call.cursor, [trouble EXCEPT ![call.cursor] = TRUE])
  /\ raised' = (raised \/ call.done > 0)

BindRaises ==
  /\ ~Idle /\ ~call.check /\ call.done < Width
  /\ Mismatched
  /\ UNCHANGED <<connVars, cursorVars, binds, dbVars, failures, accepted, confirmed>>

(* A value OTL refuses, a string longer than its variable: the stream is   *)
(* flagged, with a place for the value taken.                              *)
BindRefused ==
  LET c == call.cursor IN
  /\ ~Idle /\ ~call.check /\ call.done < Width /\ ~Full(stream[c])
  /\ stream' = [stream EXCEPT ![c] = [Written(@, call.row) EXCEPT !.flagged = TRUE]]
  /\ BindStops(c, [trouble EXCEPT ![c] = TRUE])
  /\ UNCHANGED <<connVars, object, batch, binds, dbVars, raised, failures, accepted, confirmed>>

BindReturns ==
  /\ ~Idle /\ ~call.check /\ call.done = Width
  /\ call' = NoCall
  /\ accepted' = [accepted EXCEPT ![call.cursor] = @ \cup {call.row}]
  /\ UNCHANGED <<connVars, cursorVars, binds, dbVars, raised, failures, trouble, confirmed>>

(* A mutant of Succeeds: what OTL throws is swallowed. *)
SucceedsAlways(o) == TRUE

(* flush returns true unless OTL has thrown. *)
Succeeds(o) == ~o.throws

(* otl_stream:flush(). *)
Flush(c) ==
  /\ Idle /\ GoodStream(c) /\ stream[c].kind = "insert"
  /\ \E o \in Flushed(stream[c]) :
       /\ Apply(o)
       /\ stream' = [stream EXCEPT ![c] = o.stream]
       /\ trouble' = TroubleAfter(c, o)
       /\ IF o.throws THEN HandleException(Answers(o.stream)) ELSE UNCHANGED status
       /\ confirmed' = IF Succeeds(o) /\ ~trouble[c] THEN confirmed \cup accepted[c] ELSE confirmed
  /\ accepted' = [accepted EXCEPT ![c] = {}]
  /\ UNCHANGED <<connected, autoCommit, session, alive, object, batch, call, binds, raised>>

Cleaned(s, flags) ==
  IF flags THEN [Emptied(s) EXCEPT !.ok = TRUE, !.flagged = FALSE] ELSE Emptied(s)

(* otl_stream:clean(clean_up_error_flag): the rows in the buffer are given up. *)
Clean(c, flags) ==
  /\ Idle /\ GoodStream(c) /\ stream[c].kind = "insert"
  /\ stream' = [stream EXCEPT ![c] = Cleaned(@, flags)]
  /\ accepted' = [accepted EXCEPT ![c] = {}]
  /\ trouble' = [trouble EXCEPT ![c] = IF flags THEN ~connOk ELSE @]
  /\ UNCHANGED <<connVars, object, batch, call, binds, dbVars, raised, failures, confirmed>>

-----------------------------------------------------------------------------
(* The server ends the session. *)
SessionLost ==
  /\ alive
  /\ EndSession
  /\ UNCHANGED <<status, connected, connOk, autoCommit, session, cursorVars, call, binds, raised, failures, trouble, accepted>>

Next ==
  \/ CloseConnect \/ ConnectFails \/ Commit \/ ConnectionCallFails \/ Rollback \/ DirectExecFails
  \/ \E auto \in BOOLEAN : Connect(auto) \/ SetAutoCommit(auto)
  \/ \E c \in Cursors :
       \/ Cursor(c) \/ Fetch(c) \/ BeginBind(c) \/ Flush(c)
       \/ \E n \in BatchSizes : SetBatchSize(c, n)
       \/ Execute(c, "insert", 0) \/ Execute(c, "select", 1)
       \/ Closes(c, "live") \/ Closes(c, "collected")
       \/ \E flags \in BOOLEAN : Clean(c, flags)
  \/ WriteValue \/ CheckBuffer \/ BindRaises \/ BindRefused \/ BindReturns
  \/ SessionLost

Spec == Init /\ [][Next]_vars

-----------------------------------------------------------------------------
(* Properties. *)

Stored == And(table, pending)
Times(r) == Stored[Whole(r)]

(* The status tells whether the connection may be used and whether it may  *)
(* be opened again: one that is closed is logged off, and one that is good *)
(* is logged on, so that connect never meets an open session.              *)
StatusMatchesConnection ==
  /\ status = 1 => connected
  /\ status = 0 => ~connected

(* A row in the database has the values of one call of bind, unless a bind *)
(* raised an error in the middle of a row: the next row begins there.      *)
RowsAreWhole ==
  ~raised => \A row \in AllRows : Stored[row] > 0 => \E r \in 1..binds : row = Whole(r)

(* Rows that were bound, and flushed, on a cursor that has met no error    *)
(* are in the database, unless they were rolled back or their session was  *)
(* lost.                                                                   *)
FlushedIsStored == \A r \in confirmed : Times(r) >= 1

(* No row is stored twice, unless a commit failed after its rows had been  *)
(* executed: the buffer is then executed again.                            *)
StoredOnce == failures = 0 => \A r \in 1..binds : Times(r) <= 1

(* What the comments promise: without auto_commit, only commit (or turning *)
(* auto_commit on) makes rows permanent.                                   *)
(* The code does not keep it: README, "Disagreements".                      *)
CommittedByCommit ==
  [][table' # table /\ ~autoCommit => Commit \/ SetAutoCommit(TRUE)]_vars

(* What the check says: a cursor that is not closed or abnormal is one of  *)
(* the session the connection has.                                         *)
(* The code does not keep it: README, "Disagreements".                      *)
GoodCursorHasSession == \A c \in Cursors : GoodStream(c) => stream[c].session = session

(* What every state of the component keeps. *)
Safety == TypeOK /\ StatusMatchesConnection /\ RowsAreWhole /\ FlushedIsStored /\ StoredOnce
-----------------------------------------------------------------------------
(* The inductive invariant behind the safety properties. *)

(* The rows of a buffer are executed, unless an error has stopped the stream. *)
Executable(s) == s.ok /\ ~s.flagged
Keeps(s, r) == \E i \in 1..Len(s.rows) : s.rows[i] = Whole(r)

Binding(c) == ~Idle /\ call.cursor = c

(* A full buffer holds whole rows, and is checked as soon as it is full;    *)
(* what is bound goes to a buffer.                                         *)
BuffersFit ==
  /\ \A c \in Cursors : Full(stream[c]) => stream[c].part = <<>>
  /\ call.check => Full(stream[call.cursor])
  /\ ~Idle => stream[call.cursor].size > 0

(* Before an error, or on a cursor that has met none, the buffer holds the   *)
(* rows of binds that are over, and what the bind under way has written.   *)
HoldsWholeRows(c) == \A i \in 1..Len(stream[c].rows) : \E r \in 1..binds : stream[c].rows[i] = Whole(r)
HoldsItsBind(c) ==
  IF Binding(c) /\ call.done < Width
  THEN Len(stream[c].part) = call.done /\ \A i \in 1..call.done : stream[c].part[i] = call.row
  ELSE stream[c].part = <<>>

RowsAligned ==
  \A c \in Cursors : Executable(stream[c]) /\ (~raised \/ ~trouble[c]) =>
    HoldsWholeRows(c) /\ HoldsItsBind(c)

(* A bind that has not written all of its values has no row anywhere, since *)
(* a row that begins with its values has no more of them than it has written. *)
Incomplete(r) == r > binds \/ (~Idle /\ call.row = r /\ call.done < Width)
NotYetWhole ==
  /\ \A r \in 1..MaxRows : Incomplete(r) =>
       Times(r) = 0 /\ \A c \in Cursors : ~Keeps(stream[c], r)
  /\ \A c \in Cursors : \A i \in 1..Len(stream[c].part) :
       stream[c].part[i] <= binds /\ (~Idle /\ stream[c].part[i] = call.row => call.cursor = c)
  /\ \A c \in Cursors : Binding(c) =>
       ((\A i \in 1..Len(stream[c].part) : stream[c].part[i] = call.row) => Len(stream[c].part) <= call.done)

(* A row is stored once, or is at one place in one buffer. *)
KeptOnce ==
  failures = 0 => \A r \in 1..MaxRows :
    /\ Times(r) <= 1
    /\ \A c \in Cursors : Executable(stream[c]) /\ Keeps(stream[c], r) =>
         /\ Times(r) = 0
         /\ \A i, j \in 1..Len(stream[c].rows) :
              stream[c].rows[i] = Whole(r) /\ stream[c].rows[j] = Whole(r) => i = j
         /\ \A d \in Cursors : Executable(stream[d]) /\ Keeps(stream[d], r) => c = d

(* What a bind returned true for is still in the buffer, or was committed. *)
Kept(c, r) == table[Whole(r)] > 0 \/ Keeps(stream[c], r)
AcceptedIsKept ==
  /\ ~Idle => connected
  /\ \A c \in Cursors : ~trouble[c] =>
       /\ Executable(stream[c]) /\ (connected => connOk)
       /\ \A r \in accepted[c] : Kept(c, r)
       /\ Binding(c) /\ call.done = Width => Kept(c, call.row)

ConfirmedIsCommitted == \A r \in confirmed : table[Whole(r)] > 0

IInv ==
  /\ TypeOK /\ StatusMatchesConnection /\ RowsAreWhole
  /\ BuffersFit /\ RowsAligned /\ NotYetWhole /\ KeptOnce /\ AcceptedIsKept /\ ConfirmedIsCommitted

=============================================================================
