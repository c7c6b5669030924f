------------------------------ MODULE Handles -------------------------------
(***************************************************************************)
(* Environments, connections and statements as objects (driver/handles.cpp *)
(* and the constructors), the diagnostic record each of them has           *)
(* (driver/diagnostics.cpp, doWith of driver/utils.h) and their attributes *)
(* (driver/attr.cpp, driver/info.cpp).                                     *)
(*                                                                         *)
(* The driver deletes what it is told to delete and looks at nothing; a    *)
(* statement keeps a reference to its connection and a connection one to   *)
(* its environment.  The driver manager, modelled from what the driver     *)
(* expects of it, lets pass calls on handles it knows and frees in order.  *)
(* It forgets the statements of a connection that is closed; the objects   *)
(* stay behind, because SQLDisconnect of the driver does not delete them.  *)
(*                                                                         *)
(* What a call does to sessions, results and buffers is the subject of     *)
(* Connections, Statements and DataRetrieval; here it succeeds, is refused *)
(* with a bare SQL_ERROR, or ends with an exception.                       *)
(***************************************************************************)

CONSTANTS
  Envs, Conns, Stmts,   (* addresses of objects                            *)
  NoHandle,             (* none of them                                    *)
  Faults,               (* exceptions, told apart by their message         *)
  NoFault               (* no exception, and the empty record              *)

Objects == Envs \union Conns \union Stmts

(* Objects are at different addresses, and the values that stand for none  *)
(* are none of them.                                                       *)
Distinct ==
  /\ Envs \intersect Conns = {} /\ Envs \intersect Stmts = {}
  /\ Conns \intersect Stmts = {}
  /\ NoHandle \notin Objects
  /\ NoFault \notin Faults

VARIABLES
  objects,     (* the objects there are                                    *)
  of,          (* the reference of a connection or a statement             *)
  dangling,    (* objects whose reference is to something deleted          *)
  record,      (* diagnostic_record                                        *)
  metadata,    (* metadata_id is SQL_TRUE                                  *)
  undefined,   (* something deleted was used                               *)
  known,       (* handles that the driver manager lets pass                *)
  connected    (* connections it takes for connected                       *)

driver == <<objects, of, dangling, record, metadata, undefined>>
manager == <<known, connected>>
vars == <<driver, manager>>

(* Objects, references and records have their types.                       *)
TypeOK ==
  /\ objects \subseteq Objects
  /\ of \in [Conns \union Stmts -> Objects \union {NoHandle}]
  /\ dangling \subseteq Conns \union Stmts
  /\ record \in [Objects -> Faults \union {NoFault}]
  /\ metadata \in [Envs \union Stmts -> BOOLEAN]
  /\ undefined \in BOOLEAN
  /\ known \subseteq Objects
  /\ connected \subseteq Conns

Init ==
  /\ objects = {} /\ dangling = {} /\ undefined = FALSE
  /\ of = [h \in Conns \union Stmts |-> NoHandle]
  /\ record = [h \in Objects |-> NoFault]
  /\ metadata = [h \in Envs \union Stmts |-> FALSE]
  /\ known = {} /\ connected = {}

-----------------------------------------------------------------------------
ConnectionsOf(e) == {c \in Conns \intersect objects : of[c] = e}
StatementsOf(c) == {s \in Stmts \intersect objects : of[s] = c}

(* The object is there, and so is what its references lead to.             *)
Alive(h) ==
  /\ h \in objects \ dangling
  /\ h \in Stmts => of[h] \notin dangling

Use(h) == undefined' = (undefined \/ h \notin objects)
UseWithReferences(h) == undefined' = (undefined \/ ~Alive(h))

(* doWith empties the record, makes the call and fills the record from the *)
(* exception, if there is one.                                             *)
doWith(h, f) == record' = [record EXCEPT ![h] = f]

(* A call that succeeds or says no more than SQL_ERROR, one that ends with *)
(* an exception, and one that may do either.                               *)
Returns(h) == doWith(h, NoFault)
Throws(h) == \E f \in Faults : doWith(h, f)
ReturnsOrThrows(h) == Returns(h) \/ Throws(h)

-----------------------------------------------------------------------------
(* The constructors, in whatever memory is free.                           *)
Constructed(h) ==
  /\ h \in Objects \ objects
  /\ objects' = objects \union {h} /\ known' = known \union {h}
  /\ record' = [record EXCEPT ![h] = NoFault]
  /\ dangling' = dangling \ {h}

allocEnv(e) ==
  /\ Constructed(e)
  /\ metadata' = [metadata EXCEPT ![e] = FALSE]
  /\ UNCHANGED <<of, undefined, connected>>

allocConnect(e, c) ==
  /\ e \in known
  /\ Constructed(c)
  /\ of' = [of EXCEPT ![c] = e]
  /\ UNCHANGED <<metadata, undefined, connected>>

(* A statement takes metadata_id from the environment.                     *)
allocStmt(c, s) ==
  /\ c \in known \intersect connected
  /\ Constructed(s)
  /\ of' = [of EXCEPT ![s] = c]
  /\ metadata' = [metadata EXCEPT ![s] = metadata[of[c]]]
  /\ UseWithReferences(c)
  /\ UNCHANGED connected

(* delete, whatever still refers to the object.  The memory keeps what was *)
(* in it, but for the reference, which is cleared to have fewer states.    *)
freeHandle(h) ==
  /\ of' = [x \in DOMAIN of |-> IF x = h THEN NoHandle ELSE of[x]]
  /\ objects' = objects \ {h}
  /\ known' = known \ {h}
  /\ dangling' = (dangling \union {x \in objects : x \notin Envs /\ of[x] = h}) \ {h}

freeEnv(e) ==
  /\ e \in known /\ ConnectionsOf(e) \intersect known = {}
  /\ freeHandle(e) /\ Use(e)
  /\ UNCHANGED <<record, metadata, connected>>

freeConnect(c) ==
  /\ c \in known \ connected
  /\ freeHandle(c) /\ Use(c)
  /\ UNCHANGED <<record, metadata, connected>>

freeStmt(s) ==
  /\ s \in known
  /\ freeHandle(s) /\ Use(s)
  /\ UNCHANGED <<record, metadata, connected>>

(* SQLFreeStmt(SQL_DROP): the object goes while doWith still runs on it.   *)
Drop(s) ==
  /\ s \in known
  /\ Returns(s)
  /\ freeHandle(s) /\ Use(s)
  /\ UNCHANGED <<metadata, connected>>

Rest == UNCHANGED <<objects, of, dangling, metadata, known, connected>>

(* SQLFreeStmt with SQL_CLOSE, which closes the socket of the connection,  *)
(* with SQL_UNBIND, SQL_RESET_PARAMS or another option.                    *)
CloseStmt(s) == s \in known /\ Returns(s) /\ UseWithReferences(s) /\ Rest
UnbindStmt(s) == s \in known /\ Returns(s) /\ Use(s) /\ Rest

-----------------------------------------------------------------------------
(* SQLConnect, SQLDriverConnect.                                           *)
Connect(c) ==
  /\ c \in known \ connected
  /\ UseWithReferences(c)
  /\ \/ Returns(c) /\ connected' = connected \union {c}
     \/ Throws(c) /\ connected' = connected
  /\ UNCHANGED <<objects, of, dangling, metadata, known>>

(* SQLDisconnect: the driver closes the socket and keeps the statements,   *)
(* whose handles the driver manager forgets.                               *)
Disconnect(c) ==
  /\ c \in connected
  /\ Returns(c) /\ Use(c)
  /\ connected' = connected \ {c}
  /\ known' = known \ StatementsOf(c)
  /\ UNCHANGED <<objects, of, dangling, metadata>>

-----------------------------------------------------------------------------
(* SQL_ATTR_METADATA_ID of an environment or a statement.                  *)
KeepMetadata(h, b) ==
  /\ h \in known
  /\ Returns(h) /\ Use(h)
  /\ metadata' = [metadata EXCEPT ![h] = b]
  /\ UNCHANGED <<objects, of, dangling, known, connected>>

(* Attributes of an environment: metadata_id is kept, an ODBC version may  *)
(* be thrown out, the others are ignored or refused.                       *)
SetEnvAttr(e) ==
  \/ \E b \in BOOLEAN : KeepMetadata(e, b)
  \/ e \in known /\ ReturnsOrThrows(e) /\ Use(e) /\ Rest

GetEnvAttr(e) == e \in known /\ Returns(e) /\ Use(e) /\ Rest

(* Of a connection: a string may turn out not to be one, or not to be one  *)
(* in the application's encoding.                                          *)
SetConnectAttr(c) == c \in known /\ ReturnsOrThrows(c) /\ Use(c) /\ Rest
GetConnectAttr(c) == c \in known /\ ReturnsOrThrows(c) /\ Use(c) /\ Rest

(* An unknown type of information is an exception, an odd length a refusal. *)
GetInfo(c) == c \in known /\ ReturnsOrThrows(c) /\ Use(c) /\ Rest
GetFunctions(c) == c \in known /\ Returns(c) /\ Use(c) /\ Rest
NativeSql(c) == c \in known /\ ReturnsOrThrows(c) /\ Use(c) /\ Rest

(* Of a statement: nothing is thrown.                                      *)
SetStmtAttr(s) ==
  \/ \E b \in BOOLEAN : KeepMetadata(s, b)
  \/ s \in known /\ Returns(s) /\ Use(s) /\ Rest

GetStmtAttr(s) == s \in known /\ Returns(s) /\ Use(s) /\ Rest

(* SQLRowCount, SQLNumResultCols, SQLNumParams: numbers of the statement.  *)
Counts(s) == s \in known /\ Returns(s) /\ Use(s) /\ Rest

(* The calls that prepare, send, describe and fetch.  Of what they do the  *)
(* use of the connection and of the environment's types matters here.      *)
StmtCall(s) == s \in known /\ ReturnsOrThrows(s) /\ UseWithReferences(s) /\ Rest

(* Calls that bypass doWith are no actions: those that are not implemented *)
(* and only say SQL_ERROR, SQLMoreResults and SQLCancel, which do nothing, *)
(* and SQLAllocHandle for a descriptor change no object.  The record is    *)
(* then still that of an earlier call, as it is after SQLAllocHandle on    *)
(* the parent of a new object.                                             *)

-----------------------------------------------------------------------------
OnEnv(e) ==
  \/ allocEnv(e)
  \/ freeEnv(e)
  \/ SetEnvAttr(e)
  \/ GetEnvAttr(e)

OnConnection(c) ==
  \/ \E e \in Envs : allocConnect(e, c)
  \/ freeConnect(c)
  \/ Connect(c)
  \/ Disconnect(c)
  \/ SetConnectAttr(c)
  \/ GetConnectAttr(c)
  \/ GetInfo(c)
  \/ GetFunctions(c)
  \/ NativeSql(c)

OnStatement(s) ==
  \/ \E c \in Conns : allocStmt(c, s)
  \/ freeStmt(s)
  \/ Drop(s)
  \/ CloseStmt(s)
  \/ UnbindStmt(s)
  \/ SetStmtAttr(s)
  \/ GetStmtAttr(s)
  \/ Counts(s)
  \/ StmtCall(s)

Next ==
  \/ \E e \in Envs : OnEnv(e)
  \/ \E c \in Conns : OnConnection(c)
  \/ \E s \in Stmts : OnStatement(s)

Spec == Init /\ [][Next]_vars

-----------------------------------------------------------------------------
(* Properties.                                                             *)

(* No call uses an object that was deleted, itself or by a reference, in   *)
(* whatever order handles are allocated, closed and freed, although        *)
(* statements outlive their connection and doWith deletes its own object.  *)
NothingDangles == ~undefined

=============================================================================
