--------------------------- MODULE HandlesProofs ----------------------------
(***************************************************************************)
(* Proofs about Handles, for any number of environments, connections and   *)
(* statements.                                                             *)
(***************************************************************************)
EXTENDS Handles, TLAPS

(* What the driver manager lets pass is there, with all it refers to:      *)
(* connections after their environment, statements after a connection that *)
(* is still open.                                                          *)
KnownInv ==
  /\ known \subseteq objects
  /\ connected \subseteq known
  /\ \A c \in known \intersect Conns : of[c] \in known \intersect Envs /\ c \notin dangling
  /\ \A s \in known \intersect Stmts :
       of[s] \in connected /\ s \notin dangling

Inv == TypeOK /\ KnownInv /\ NothingDangles

-----------------------------------------------------------------------------
(* A handle that may be passed leads to nothing deleted.                   *)
LEMMA KnownIsAlive ==
  ASSUME Distinct, Inv, NEW h \in known
  PROVE  h \in objects /\ (h \notin Envs => Alive(h))
  BY DEF Distinct, Inv, TypeOK, KnownInv, Alive, Objects

(* Calls that leave objects and handles alone.                             *)
LEMMA CallKeepsInv ==
  ASSUME Distinct, Inv, NEW h \in known, NEW f \in Faults \union {NoFault},
         doWith(h, f), Use(h) \/ (h \notin Envs /\ UseWithReferences(h)),
         UNCHANGED <<objects, of, dangling, known, connected>>,
         metadata' \in [Envs \union Stmts -> BOOLEAN]
  PROVE  Inv'
<1>1. undefined' = FALSE
  BY KnownIsAlive DEF Inv, NothingDangles, TypeOK, Use, UseWithReferences
<1>2. TypeOK'
  BY <1>1 DEF Inv, TypeOK, doWith, KnownInv
<1>3. KnownInv'
  BY DEF Inv, KnownInv
<1> QED
  BY <1>1, <1>2, <1>3 DEF Inv, NothingDangles

(* The same for calls that do not say which exception they have, if any.   *)
LEMMA RestKeepsInv ==
  ASSUME Distinct, Inv, NEW h \in known, ReturnsOrThrows(h),
         Use(h) \/ (h \notin Envs /\ UseWithReferences(h)), Rest
  PROVE  Inv'
<1>1. PICK f \in Faults \union {NoFault} : doWith(h, f)
  BY DEF ReturnsOrThrows, Returns, Throws
<1>2. metadata' \in [Envs \union Stmts -> BOOLEAN]
  BY DEF Rest, Inv, TypeOK
<1> QED
  BY <1>1, <1>2, CallKeepsInv DEF Rest

(* Setting metadata_id.                                                    *)
LEMMA MetadataKeepsInv ==
  ASSUME Distinct, Inv, NEW h \in Envs \union Stmts, NEW b \in BOOLEAN, KeepMetadata(h, b)
  PROVE  Inv'
<1>1. metadata' \in [Envs \union Stmts -> BOOLEAN]
  BY DEF KeepMetadata, Inv, TypeOK
<1> QED
  BY <1>1, CallKeepsInv DEF KeepMetadata, Returns

(* A new object is known, and refers to what is known and open.            *)
LEMMA ConstructedKeepsInv ==
  ASSUME Distinct, Inv, NEW h \in Objects, Constructed(h), undefined' = FALSE,
         UNCHANGED connected,
         metadata' \in [Envs \union Stmts -> BOOLEAN],
         \/ h \in Envs /\ of' = of
         \/ \E e \in known \intersect Envs : h \in Conns /\ of' = [of EXCEPT ![h] = e]
         \/ \E c \in connected : h \in Stmts /\ of' = [of EXCEPT ![h] = c]
  PROVE  Inv'
<1>1. TypeOK'
  BY DEF Inv, TypeOK, Constructed, Objects
<1>2. KnownInv'
  <2>1. known' \subseteq objects' /\ connected' \subseteq known'
    BY DEF Inv, KnownInv, Constructed
  <2>2. h \notin known
    BY DEF Inv, KnownInv, Constructed
  <2>3. \A x \in known : x \in Conns \union Stmts => of'[x] = of[x]
    BY <2>2 DEF Inv, TypeOK
  <2>4. ASSUME NEW c \in known' \intersect Conns
        PROVE  of'[c] \in known' \intersect Envs /\ c \notin dangling'
    <3>1. CASE c = h
      BY <3>1 DEF Distinct, Inv, TypeOK, Constructed
    <3>2. CASE c \in known
      BY <3>2, <2>3 DEF Inv, KnownInv, Constructed
    <3> QED
      BY <3>1, <3>2 DEF Constructed
  <2>5. ASSUME NEW s \in known' \intersect Stmts
        PROVE  of'[s] \in connected' /\ s \notin dangling'
    <3>1. CASE s = h
      BY <3>1 DEF Distinct, Inv, TypeOK, Constructed
    <3>2. CASE s \in known
      BY <3>2, <2>3 DEF Inv, KnownInv, Constructed
    <3> QED
      BY <3>1, <3>2 DEF Constructed
  <2> QED
    BY <2>1, <2>4, <2>5 DEF KnownInv
<1> QED
  BY <1>1, <1>2 DEF Inv, NothingDangles

(* An object is deleted that no known object refers to.                    *)
LEMMA FreedKeepsInv ==
  ASSUME Distinct, Inv, NEW h \in known, freeHandle(h), Use(h), UNCHANGED <<metadata, connected>>,
         h \notin connected,
         \A x \in known : x \notin Envs => of[x] # h,
         record' \in [Objects -> Faults \union {NoFault}]
  PROVE  Inv'
<1>1. undefined' = FALSE
  BY KnownIsAlive DEF Inv, NothingDangles, TypeOK, Use
<1>2. TypeOK'
  BY <1>1 DEF Inv, TypeOK, freeHandle, Objects
<1>3. KnownInv'
  <2>1. known' \subseteq objects' /\ connected' \subseteq known'
    BY DEF Inv, KnownInv, freeHandle
  <2>2. \A x \in known' : x \in Conns \union Stmts => of'[x] = of[x]
    BY DEF freeHandle, Inv, TypeOK
  <2>3. \A x \in known' : x \notin Envs => (x \in dangling' <=> x \in dangling)
    BY DEF freeHandle, Inv, KnownInv
  <2>4. ASSUME NEW c \in known' \intersect Conns
        PROVE  of'[c] \in known' \intersect Envs /\ c \notin dangling'
    BY <2>2, <2>3 DEF Distinct, freeHandle, Inv, KnownInv
  <2>5. ASSUME NEW s \in known' \intersect Stmts
        PROVE  of'[s] \in connected' /\ s \notin dangling'
    BY <2>2, <2>3 DEF Distinct, freeHandle, Inv, KnownInv
  <2> QED
    BY <2>1, <2>4, <2>5 DEF KnownInv
<1> QED
  BY <1>1, <1>2, <1>3 DEF Inv, NothingDangles

(* A statement may always be deleted: only statements refer to connections *)
(* and only connections to environments.                                   *)
LEMMA NothingRefersToStatements ==
  ASSUME Distinct, Inv, NEW s \in Stmts
  PROVE  s \notin connected /\ \A x \in known : x \notin Envs => of[x] # s
  BY DEF Distinct, Inv, TypeOK, KnownInv, Objects

-----------------------------------------------------------------------------
(* Every step of the driver and the driver manager keeps the invariant.    *)
LEMMA EnvironmentSteps ==
  ASSUME Distinct, Inv, NEW e \in Envs, OnEnv(e)
  PROVE  Inv'
<1>1. CASE allocEnv(e)
  <2>1. metadata' \in [Envs \union Stmts -> BOOLEAN]
    BY <1>1 DEF allocEnv, Inv, TypeOK
  <2> QED
    BY <1>1, <2>1, ConstructedKeepsInv DEF allocEnv, Objects, Inv, TypeOK, NothingDangles
<1>2. CASE freeEnv(e)
  <2>1. e \notin connected
    BY DEF Distinct, Inv, TypeOK
  <2>2. \A x \in known : x \notin Envs => of[x] # e
    BY <1>2 DEF Distinct, freeEnv, ConnectionsOf, Inv, TypeOK, KnownInv, Objects
  <2> QED
    BY <1>2, <2>1, <2>2, FreedKeepsInv DEF freeEnv, Inv, TypeOK
<1>3. CASE SetEnvAttr(e)
  BY <1>3, MetadataKeepsInv, RestKeepsInv DEF SetEnvAttr
<1>4. CASE GetEnvAttr(e)
  BY <1>4, RestKeepsInv DEF GetEnvAttr, ReturnsOrThrows
<1> QED
  BY <1>1, <1>2, <1>3, <1>4 DEF OnEnv

LEMMA ConnectionSteps ==
  ASSUME Distinct, Inv, NEW c \in Conns, OnConnection(c)
  PROVE  Inv'
<1> USE DEF Distinct
<1>1. ASSUME NEW e \in Envs, allocConnect(e, c)
      PROVE  Inv'
  <2>1. metadata' \in [Envs \union Stmts -> BOOLEAN]
    BY <1>1 DEF allocConnect, Inv, TypeOK
  <2> QED
    BY <1>1, <2>1, ConstructedKeepsInv DEF allocConnect, Objects, Inv, TypeOK, NothingDangles
<1>2. CASE freeConnect(c)
  <2>1. \A x \in known : x \notin Envs => of[x] # c
    BY <1>2 DEF freeConnect, Inv, TypeOK, KnownInv, Objects
  <2> QED
    BY <1>2, <2>1, FreedKeepsInv DEF freeConnect, Inv, TypeOK
<1>3. CASE Connect(c)
  <2>1. c \in known /\ undefined' = FALSE
    BY <1>3, KnownIsAlive DEF Connect, UseWithReferences, Inv, NothingDangles, TypeOK
  <2>2. PICK f \in Faults \union {NoFault} : doWith(c, f)
    BY <1>3 DEF Connect, Returns, Throws
  <2>3. connected' = connected \union {c} \/ connected' = connected
    BY <1>3 DEF Connect
  <2>4. TypeOK'
    BY <1>3, <2>1, <2>2, <2>3 DEF Connect, doWith, Inv, TypeOK
  <2>5. KnownInv'
    BY <1>3, <2>1, <2>3 DEF Connect, Inv, KnownInv
  <2> QED
    BY <2>1, <2>4, <2>5 DEF Inv, NothingDangles
<1>4. CASE Disconnect(c)
  <2>1. c \in known /\ undefined' = FALSE
    BY <1>4, KnownIsAlive DEF Disconnect, Use, Inv, KnownInv, NothingDangles, TypeOK
  <2>2. TypeOK'
    BY <1>4, <2>1 DEF Disconnect, Returns, doWith, Inv, TypeOK
  <2>3. KnownInv'
    <3>1. known' \subseteq objects' /\ connected' \subseteq known'
      BY <1>4 DEF Disconnect, StatementsOf, Inv, TypeOK, KnownInv
    <3>2. \A x \in known' \intersect Conns :
            of'[x] \in known' \intersect Envs /\ x \notin dangling'
      BY <1>4 DEF Disconnect, StatementsOf, Inv, KnownInv
    <3>3. \A s \in known' \intersect Stmts : of'[s] \in connected' /\ s \notin dangling'
      BY <1>4 DEF Disconnect, StatementsOf, Inv, KnownInv
    <3> QED
      BY <3>1, <3>2, <3>3 DEF KnownInv
  <2> QED
    BY <2>1, <2>2, <2>3 DEF Inv, NothingDangles
<1>5. CASE SetConnectAttr(c) \/ GetConnectAttr(c) \/ GetInfo(c) \/ GetFunctions(c) \/ NativeSql(c)
  BY <1>5, RestKeepsInv DEF SetConnectAttr, GetConnectAttr, GetInfo, GetFunctions,
                            NativeSql, ReturnsOrThrows
<1> QED
  BY <1>1, <1>2, <1>3, <1>4, <1>5 DEF OnConnection

LEMMA StatementSteps ==
  ASSUME Distinct, Inv, NEW s \in Stmts, OnStatement(s)
  PROVE  Inv'
<1> USE DEF Distinct
<1>1. ASSUME NEW c \in Conns, allocStmt(c, s)
      PROVE  Inv'
  <2>1. c \in connected /\ undefined' = FALSE
    BY <1>1, KnownIsAlive DEF allocStmt, UseWithReferences, Inv, NothingDangles, TypeOK
  <2>2. metadata[of[c]] \in BOOLEAN
    BY <1>1 DEF allocStmt, Inv, TypeOK, KnownInv
  <2>3. metadata' \in [Envs \union Stmts -> BOOLEAN]
    BY <1>1, <2>2 DEF allocStmt, Inv, TypeOK
  <2> QED
    BY <1>1, <2>1, <2>3, ConstructedKeepsInv DEF allocStmt, Objects
<1>2. CASE freeStmt(s)
  BY <1>2, NothingRefersToStatements, FreedKeepsInv DEF freeStmt, Inv, TypeOK
<1>3. CASE Drop(s)
  <2>1. record' \in [Objects -> Faults \union {NoFault}]
    BY <1>3 DEF Drop, Returns, doWith, Inv, TypeOK
  <2> QED
    BY <1>3, <2>1, NothingRefersToStatements, FreedKeepsInv DEF Drop
<1>4. CASE SetStmtAttr(s)
  BY <1>4, MetadataKeepsInv, RestKeepsInv DEF SetStmtAttr, ReturnsOrThrows
<1>5. CASE CloseStmt(s) \/ UnbindStmt(s) \/ GetStmtAttr(s) \/ Counts(s) \/ StmtCall(s)
  BY <1>5, RestKeepsInv DEF CloseStmt, UnbindStmt, GetStmtAttr, Counts, StmtCall, ReturnsOrThrows
<1> QED
  BY <1>1, <1>2, <1>3, <1>4, <1>5 DEF OnStatement

LEMMA InitInv == Init => Inv
  BY DEF Init, Inv, TypeOK, KnownInv, NothingDangles, Objects

LEMMA StepInv == ASSUME Distinct PROVE Inv /\ [Next]_vars => Inv'
<1> SUFFICES ASSUME Inv, [Next]_vars PROVE Inv'
  OBVIOUS
<1>1. CASE UNCHANGED vars
  BY <1>1 DEF vars, driver, manager, Inv, TypeOK, KnownInv, NothingDangles
<1> QED
  BY <1>1, EnvironmentSteps, ConnectionSteps, StatementSteps DEF Next

(* Objects, references and records have their types in every reachable     *)
(* state.                                                                  *)
THEOREM HandlesTyped == ASSUME Distinct PROVE Spec => []TypeOK
<1>1. Inv => TypeOK
  BY DEF Inv
<1> QED
  BY <1>1, InitInv, StepInv, PTL DEF Spec

(* No call uses a deleted object, itself or by a reference, for any number *)
(* of handles: what may be passed is there with all that it refers to.     *)
THEOREM CallsUseWhatIsThere == ASSUME Distinct PROVE Spec => []NothingDangles
<1>1. Inv => NothingDangles
  BY DEF Inv
<1> QED
  BY <1>1, InitInv, StepInv, PTL DEF Spec

=============================================================================
