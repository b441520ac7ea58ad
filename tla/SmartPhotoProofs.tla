--------------------------- MODULE SmartPhotoProofs ---------------------------
(***************************************************************************)
(* Proofs about SmartPhoto, for every set of names, clients and threads.   *)
(***************************************************************************)
EXTENDS SmartPhoto, SequenceTheorems, TLAPS

-----------------------------------------------------------------------------
(* The database.                                                           *)

\* The tables with which a new database starts.
LEMMA EmptyTablesType == EmptyTables \in Tables
  BY DEF EmptyTables, Tables

\* Replacing one row of Photo gives tables again.
LEMMA SetPhotoType ==
  ASSUME NEW db \in Tables, NEW n \in Name, NEW v \in Tag \union {NoRow}
  PROVE  SetPhoto(db, n, v) \in Tables
  BY DEF SetPhoto, Tables

\* Every statement takes tables to tables.
LEMMA EffectType ==
  ASSUME NEW db \in Tables, NEW s \in Statement
  PROVE  Effect(s, db) \in Tables
  <1>1. CASE s \in {Begin, End}
    BY <1>1 DEF Effect, Begin, End
  <1>2. CASE s = ChangedRemoveAll
    BY <1>2 DEF Effect, ChangedRemoveAll, Tables
  <1>3. CASE s = PhotoRemoveAll
    BY <1>3, EmptyTablesType DEF Effect, PhotoRemoveAll, Tables
  <1>4. ASSUME NEW S \in SUBSET Name, s = ChangedAdd(S)
        PROVE  Effect(s, db) \in Tables
    BY <1>4 DEF Effect, ChangedAdd, db_changed_table_add, Tables
  <1>5. ASSUME NEW n \in Name, s = ChangedRemove(n)
        PROVE  Effect(s, db) \in Tables
    BY <1>5 DEF Effect, ChangedRemove, db_changed_table_remove, Tables
  <1>6. ASSUME NEW n \in Name, s = PhotoDelete(n)
        PROVE  Effect(s, db) \in Tables
    BY <1>6, SetPhotoType DEF Effect, PhotoDelete
  <1>7. ASSUME NEW n \in Name, s = PhotoInsert(n)
        PROVE  Effect(s, db) \in Tables
    BY <1>7, SetPhotoType DEF Effect, PhotoInsert, Tag
  <1>8. ASSUME NEW n \in Name, NEW v \in Tag, s = PhotoTag(n, v)
        PROVE  Effect(s, db) \in Tables
    BY <1>8, SetPhotoType DEF Effect, PhotoTag
  <1>9. ASSUME NEW n \in Name, NEW m \in Name, s = PhotoMove(n, m)
        PROVE  Effect(s, db) \in Tables
    <2>1. db.photo[n] \in Tag \union {NoRow}
      BY DEF Tables
    <2>2. SetPhoto(db, n, NoRow) \in Tables
      BY SetPhotoType
    <2>3. SetPhoto(SetPhoto(db, n, NoRow), m, db.photo[n]) \in Tables
      BY <2>1, <2>2, SetPhotoType
    <2>4. db_photo_table_move(db, n, m) \in Tables
      BY <2>3 DEF db_photo_table_move
    <2> QED
      BY <1>9, <2>4 DEF Effect, PhotoMove
  <1> QED
    BY <1>1, <1>2, <1>3, <1>4, <1>5, <1>6, <1>7, <1>8, <1>9 DEF Statement

\* Running a statement keeps the type of the connection.
LEMMA ExecType ==
  ASSUME DbTypeOK, NEW s \in Statement, sqlite3_exec(s)
  PROVE  DbTypeOK'
  BY EffectType DEF DbTypeOK, sqlite3_exec, db_transaction_begin, db_transaction_end

-----------------------------------------------------------------------------
(* The programs of the calls.                                              *)

LEMMA AddFileProgram ==
  ASSUME NEW n \in Name
  PROVE  <<ChangedAdd({n})>> \in Seq(Statement)
  <1>1. ChangedAdd({n}) \in Statement
    BY DEF Statement
  <1> QED
    BY <1>1

LEMMA AddDirProgram ==
  ASSUME NEW S \in SUBSET Name
  PROVE  <<Begin, ChangedAdd(S), End>> \in Seq(Statement)
  <1>1. {Begin, ChangedAdd(S), End} \subseteq Statement
    BY DEF Statement
  <1> QED
    BY <1>1

LEMMA IndexProgram ==
  ASSUME NEW n \in Name, NEW v \in Tag
  PROVE  IndexPhoto(n, v) \in Seq(Statement)
  <1>1. {ChangedRemove(n), PhotoDelete(n), PhotoInsert(n), PhotoTag(n, v)} \subseteq Statement
    BY DEF Statement
  <1> QED
    BY <1>1 DEF IndexPhoto

LEMMA OneStatementProgram ==
  ASSUME NEW s \in Statement
  PROVE  <<s>> \in Seq(Statement)
  OBVIOUS

LEMMA RemoveAllProgram == db_photo_table_remove_all \in Seq(Statement)
  <1>1. {ChangedRemoveAll, PhotoRemoveAll} \subseteq Statement
    BY DEF Statement
  <1> QED
    BY <1>1 DEF db_photo_table_remove_all

-----------------------------------------------------------------------------
(* Types.                                                                  *)

TypeInv == TypeOK /\ CurInv /\ MutexInv

LEMMA InitType == Init => TypeInv
  <1> SUFFICES ASSUME Init PROVE TypeInv
    OBVIOUS
  <1>0. DbTypeOK
    BY EmptyTablesType DEF Init, DbInit, DbTypeOK
  <1>1. TypeOK
    <2>1. stmts \in Seq(Statement)
      BY EmptySeq DEF Init
    <2>2. /\ tpc \in [Thread -> TPc]
          /\ todo \in [Thread -> SUBSET Name]
          /\ cur \in [Thread -> Name \union {NoName}]
          /\ img \in [Thread -> Content \union Tag]
          /\ cpc \in [Client -> CPc]
          /\ target \in [Client -> Thread \union {NoThread}]
          /\ disk \in [Name -> Content]
      BY DEF Init, TPc, CPc, Content
    <2> QED
      BY <1>0, <2>1, <2>2 DEF Init, TypeOK
  <1>2. CurInv /\ MutexInv
    BY SmartPhotoAssumption DEF Init, CurInv, MutexInv
  <1> QED
    BY <1>1, <1>2 DEF TypeInv

\* A call that takes the mutex with a nonempty program keeps the types.
LEMMA RunLockedType ==
  ASSUME TypeInv, NEW c \in Client, NEW prog \in Seq(Statement), prog # <<>>,
         cpc[c] = "idle", RunLocked(c, prog)
  PROVE  TypeInv'
  <1>1. TypeOK'
    BY DEF TypeInv, RunLocked, Lock, TypeOK, DbTypeOK, dbVars, libVars, thrVars, CPc
  <1>2. CurInv'
    BY DEF TypeInv, RunLocked, CurInv, thrVars
  <1>3. MutexInv'
    BY SmartPhotoAssumption
    DEF TypeInv, RunLocked, Lock, MutexInv, TypeOK, dbVars, libVars, thrVars
  <1> QED
    BY <1>1, <1>2, <1>3 DEF TypeInv

\* The calls that take the mutex and run statements.
LEMMA DbCallType ==
  ASSUME TypeInv, NEW c \in Client,
         \/ \E n \in Name : ccai_sp_add_file(c, n)
         \/ \E S \in SUBSET Name : ccai_sp_add_dir(c, S)
         \/ \E n \in Name : ccai_sp_remove_file(c, n)
         \/ ccai_sp_remove_all_file(c)
         \/ \E n, m \in Name : ccai_sp_move_file(c, n, m)
         \/ \E n \in Name, v \in Tag : ccai_sp_scan_file_buffer(c, n, v)
  PROVE  TypeInv'
  <1>1. ASSUME NEW n \in Name, ccai_sp_add_file(c, n) PROVE TypeInv'
    <2>1. <<ChangedAdd({realpath[n]})>> \in Seq(Statement)
      BY AddFileProgram, SmartPhotoAssumption
    <2> QED
      BY <1>1, <2>1, RunLockedType DEF ccai_sp_add_file, Calling
  <1>2. ASSUME NEW S \in SUBSET Name, ccai_sp_add_dir(c, S) PROVE TypeInv'
    <2>1. {realpath[n] : n \in S} \in SUBSET Name
      BY SmartPhotoAssumption
    <2>2. <<Begin, ChangedAdd({realpath[n] : n \in S}), End>> \in Seq(Statement)
      BY <2>1, AddDirProgram
    <2> QED
      BY <1>2, <2>2, RunLockedType DEF ccai_sp_add_dir, Calling
  <1>3. ASSUME NEW n \in Name, ccai_sp_remove_file(c, n) PROVE TypeInv'
    <2>1. <<PhotoDelete(n)>> \in Seq(Statement)
      BY OneStatementProgram DEF Statement
    <2> QED
      BY <1>3, <2>1, RunLockedType DEF ccai_sp_remove_file, Calling
  <1>4. CASE ccai_sp_remove_all_file(c)
    <2>1. db_photo_table_remove_all # <<>>
      BY DEF db_photo_table_remove_all
    <2> QED
      BY <1>4, <2>1, RemoveAllProgram, RunLockedType DEF ccai_sp_remove_all_file, Calling
  <1>5. ASSUME NEW n \in Name, NEW m \in Name, ccai_sp_move_file(c, n, m) PROVE TypeInv'
    <2>1. <<PhotoMove(n, m)>> \in Seq(Statement)
      BY OneStatementProgram DEF Statement
    <2> QED
      BY <1>5, <2>1, RunLockedType DEF ccai_sp_move_file, Calling
  <1>6. ASSUME NEW n \in Name, NEW v \in Tag, ccai_sp_scan_file_buffer(c, n, v) PROVE TypeInv'
    <2>1. IndexPhoto(n, v) # <<>>
      BY DEF IndexPhoto
    <2> QED
      BY <1>6, <2>1, IndexProgram, RunLockedType DEF ccai_sp_scan_file_buffer, Calling
  <1> QED
    BY <1>1, <1>2, <1>3, <1>4, <1>5, <1>6

\* Running the next of a nonempty program's statements leaves a program, which is
\* empty only when that was the last one.
LEMMA TailProgram ==
  ASSUME NEW prog \in Seq(Statement), prog # <<>>
  PROVE  /\ Head(prog) \in Statement
         /\ Tail(prog) \in Seq(Statement)
         /\ Len(prog) # 1 <=> Tail(prog) # <<>>
  <1>1. /\ Head(prog) \in Statement
        /\ Tail(prog) \in Seq(Statement)
        /\ Len(Tail(prog)) = Len(prog) - 1
    BY HeadTailProperties
  <1>2. Len(prog) \in Nat /\ Len(<<>>) = 0
    BY EmptySeq
  <1>3. ASSUME Tail(prog) = <<>> PROVE Len(prog) = 1
    BY SMTT(30), <1>1, <1>2, <1>3
  <1>4. ASSUME Len(prog) = 1 PROVE Tail(prog) = <<>>
    <2>1. Tail(prog) \in Seq(Statement) /\ Len(Tail(prog)) = 0
      BY <1>1, <1>4
    <2> QED
      BY <2>1, EmptySeq
  <1> QED
    BY <1>1, <1>3, <1>4

\* The other steps of a client.
LEMMA ClientType ==
  ASSUME TypeInv, NEW c \in Client,
         \/ ccai_sp_scan(c) \/ ccai_sp_stop_scan(c) \/ ccai_sp_wait_scan(c)
         \/ ccai_sp_release(c) \/ ClientStep(c)
  PROVE  TypeInv'
  <1> USE DEF TypeInv
  <1>1. CASE ccai_sp_scan(c)
    <2>1. TypeOK'
      BY <1>1 DEF ccai_sp_scan, CreateThread, CreateFails, TypeOK, DbTypeOK, dbVars, cliVars, TPc
    <2>2. CurInv' /\ MutexInv'
      BY <1>1 DEF ccai_sp_scan, CreateThread, CreateFails, TypeOK, CurInv, MutexInv, dbVars, cliVars, TPc
    <2> QED
      BY <2>1, <2>2
  <1>2. CASE ccai_sp_stop_scan(c) \/ ccai_sp_release(c)
    <2>1. TypeOK'
      BY <1>2 DEF ccai_sp_stop_scan, ccai_sp_release, StopRequest, Calling,
                  TypeOK, DbTypeOK, dbVars, thrVars, CPc
    <2>2. CurInv' /\ MutexInv'
      BY <1>2 DEF ccai_sp_stop_scan, ccai_sp_release, StopRequest, Calling,
                  TypeOK, CurInv, MutexInv, dbVars, thrVars, CPc
    <2> QED
      BY <2>1, <2>2
  <1>3. CASE ccai_sp_wait_scan(c)
    <2>1. TypeOK'
      BY <1>3 DEF ccai_sp_wait_scan, Calling, TypeOK, DbTypeOK, dbVars, libVars, thrVars, CPc
    <2>2. CurInv' /\ MutexInv'
      BY <1>3 DEF ccai_sp_wait_scan, Calling, TypeOK, CurInv, MutexInv, dbVars, libVars, thrVars, CPc
    <2> QED
      BY <2>1, <2>2
  <1>4. CASE ClientExec(c)
    <2>1. stmts # <<>> /\ cpc[c] = "exec"
      BY <1>4 DEF ClientExec, MutexInv
    <2>2. /\ Head(stmts) \in Statement
          /\ Tail(stmts) \in Seq(Statement)
          /\ Len(stmts) # 1 <=> Tail(stmts) # <<>>
      BY <2>1, TailProgram DEF TypeOK
    <2>3. DbTypeOK'
      BY <1>4, <2>2, ExecType DEF ClientExec, TypeOK
    <2>4. TypeOK'
      BY <1>4, <2>2, <2>3 DEF ClientExec, TypeOK, libVars, thrVars, CPc
    <2>5. CurInv'
      BY <1>4 DEF ClientExec, CurInv, thrVars
    <2>6. MutexInv'
      BY <1>4, <2>1, <2>2, SmartPhotoAssumption DEF ClientExec, MutexInv, TypeOK, thrVars, CPc
    <2> QED
      BY <2>4, <2>5, <2>6
  <1>5. CASE JoinBegin(c)
    <2>1. TypeOK'
      BY <1>5 DEF JoinBegin, TypeOK, DbTypeOK, dbVars, libVars, thrVars, CPc
    <2>2. CurInv' /\ MutexInv'
      BY <1>5 DEF JoinBegin, TypeOK, CurInv, MutexInv, dbVars, libVars, thrVars, CPc
    <2> QED
      BY <2>1, <2>2
  <1>6. CASE JoinEnd(c)
    <2>1. TypeOK'
      BY <1>6 DEF JoinEnd, Joining, TypeOK, DbTypeOK, dbVars, libVars, CPc, TPc
    <2>2. CurInv' /\ MutexInv'
      BY <1>6 DEF JoinEnd, Joining, Active, TypeOK, CurInv, MutexInv, dbVars, libVars, CPc
    <2> QED
      BY <2>1, <2>2
  <1>7. CASE ReleaseFinit(c)
    <2>1. TypeOK'
      BY <1>7 DEF ReleaseFinit, Rollback, TypeOK, DbTypeOK, libVars, thrVars, CPc
    <2>2. CurInv' /\ MutexInv'
      BY <1>7 DEF ReleaseFinit, TypeOK, CurInv, MutexInv, libVars, thrVars, CPc
    <2> QED
      BY <2>1, <2>2
  <1> QED
    BY <1>1, <1>2, <1>3, <1>4, <1>5, <1>6, <1>7 DEF ClientStep

\* The steps of a scan thread.
LEMMA ThreadType ==
  ASSUME TypeInv, NEW t \in Thread, ThreadStep(t)
  PROVE  TypeInv'
  <1> USE DEF TypeInv
  <1>1. CASE ScanLock(t)
    <2>1. TypeOK'
      BY <1>1 DEF ScanLock, Lock, TypeOK, DbTypeOK, dbVars, libVars, cliVars, TPc
    <2>2. CurInv' /\ MutexInv'
      BY <1>1, SmartPhotoAssumption
      DEF ScanLock, Lock, TypeOK, CurInv, MutexInv, dbVars, libVars, cliVars, TPc
    <2> QED
      BY <2>1, <2>2
  <1>2. CASE ScanCollect(t)
    <2>0. work.changed \in SUBSET Name
      BY DEF TypeOK, DbTypeOK, Tables
    <2>1. TypeOK'
      BY <1>2, <2>0 DEF ScanCollect, db_transaction_begin, TypeOK, DbTypeOK, cliVars, TPc
    <2>2. CurInv' /\ MutexInv'
      BY <1>2 DEF ScanCollect, TypeOK, CurInv, MutexInv, cliVars, TPc
    <2> QED
      BY <2>1, <2>2
  <1>3. CASE ScanExit(t)
    <2>1. TypeOK'
      BY <1>3 DEF ScanExit, TypeOK, DbTypeOK, dbVars, cliVars, TPc
    <2>2. CurInv' /\ MutexInv'
      BY <1>3, SmartPhotoAssumption DEF ScanExit, TypeOK, CurInv, MutexInv, dbVars, cliVars, TPc
    <2> QED
      BY <2>1, <2>2
  <1>4. CASE ScanNext(t)
    <2>1. TypeOK'
      BY <1>4 DEF ScanNext, TypeOK, DbTypeOK, dbVars, libVars, cliVars, TPc
    <2>2. CurInv' /\ MutexInv'
      BY <1>4, SmartPhotoAssumption
      DEF ScanNext, TypeOK, CurInv, MutexInv, dbVars, libVars, cliVars, TPc
    <2> QED
      BY <2>1, <2>2
  <1>5. CASE ScanInfer(t)
    <2>0. cur[t] \in Name /\ disk[cur[t]] \in Content
      BY <1>5 DEF ScanInfer, TypeOK, CurInv
    <2>1. TypeOK'
      BY <1>5, <2>0 DEF ScanInfer, TypeOK, DbTypeOK, dbVars, libVars, cliVars, TPc, Tag
    <2>2. CurInv' /\ MutexInv'
      BY <1>5 DEF ScanInfer, TypeOK, CurInv, MutexInv, dbVars, libVars, cliVars, TPc
    <2> QED
      BY <2>1, <2>2
  <1>6. CASE ScanRelock(t)
    <2>0. cur[t] \in Name
      BY <1>6 DEF ScanRelock, CurInv
    <2>1. ChangedRemove(cur[t]) \in Statement
      BY <2>0 DEF Statement
    <2>2. stmts' \in Seq(Statement) /\ stmts' # <<>>
      <3>1. CASE img[t] \in Tag
        <4>1. IndexPhoto(cur[t], img[t]) # <<>>
          BY DEF IndexPhoto
        <4> QED
          BY <1>6, <2>0, <3>1, <4>1, IndexProgram DEF ScanRelock
      <3>2. CASE img[t] \notin Tag
        BY <1>6, <2>1, <3>2, OneStatementProgram DEF ScanRelock
      <3> QED
        BY <3>1, <3>2
    <2>3. TypeOK'
      BY <1>6, <2>2 DEF ScanRelock, Lock, TypeOK, DbTypeOK, dbVars, libVars, cliVars, TPc
    <2>4. CurInv' /\ MutexInv'
      BY <1>6, <2>0, <2>2, SmartPhotoAssumption
      DEF ScanRelock, Lock, TypeOK, CurInv, MutexInv, dbVars, libVars, cliVars, TPc
    <2> QED
      BY <2>3, <2>4
  <1>7. CASE ScanExec(t)
    <2>1. stmts # <<>> /\ mutex = t
      BY <1>7 DEF ScanExec, MutexInv
    <2>2. /\ Head(stmts) \in Statement
          /\ Tail(stmts) \in Seq(Statement)
          /\ Len(stmts) # 1 <=> Tail(stmts) # <<>>
      BY <2>1, TailProgram DEF TypeOK
    <2>3. DbTypeOK'
      BY <1>7, <2>2, ExecType DEF ScanExec, TypeOK
    <2>4. NoFile \in Content
      BY DEF Content
    <2>5. TypeOK'
      BY <1>7, <2>2, <2>3, <2>4 DEF ScanExec, TypeOK, libVars, cliVars, TPc
    <2>6. CurInv'
      BY <1>7 DEF ScanExec, TypeOK, CurInv
    <2>7. MutexInv'
      BY <1>7, <2>1, <2>2, SmartPhotoAssumption DEF ScanExec, MutexInv, TypeOK, cliVars
    <2> QED
      BY <2>5, <2>6, <2>7
  <1>8. CASE ScanEnd(t)
    <2>1. TypeOK'
      BY <1>8 DEF ScanEnd, db_transaction_end, TypeOK, DbTypeOK, cliVars, TPc
    <2>2. CurInv' /\ MutexInv'
      BY <1>8 DEF ScanEnd, TypeOK, CurInv, MutexInv, cliVars, TPc
    <2> QED
      BY <2>1, <2>2
  <1> QED
    BY <1>1, <1>2, <1>3, <1>4, <1>5, <1>6, <1>7, <1>8 DEF ThreadStep

\* The steps of the environment.
LEMMA EnvironmentType ==
  ASSUME TypeInv, Environment
  PROVE  TypeInv'
  <1> USE DEF TypeInv
  <1>1. ASSUME NEW n \in Name, NEW content \in Content, DiskChange(n, content)
        PROVE  TypeInv'
    <2>1. TypeOK'
      BY <1>1 DEF DiskChange, TypeOK, DbTypeOK, dbVars, libVars, thrVars, cliVars
    <2>2. CurInv' /\ MutexInv'
      BY <1>1 DEF DiskChange, CurInv, MutexInv, libVars, thrVars, cliVars
    <2> QED
      BY <2>1, <2>2
  <1>2. CASE Crash
    <2>0. stmts' \in Seq(Statement)
      BY <1>2, EmptySeq DEF Crash
    <2>1. TypeOK'
      BY <1>2, <2>0 DEF Crash, Rollback, TypeOK, DbTypeOK, TPc, CPc, Content
    <2>2. CurInv' /\ MutexInv'
      BY <1>2, SmartPhotoAssumption DEF Crash, CurInv, MutexInv
    <2> QED
      BY <2>1, <2>2
  <1>3. CASE ccai_sp_init
    <2>1. TypeOK'
      BY <1>3 DEF ccai_sp_init, TypeOK, DbTypeOK, dbVars, libVars, thrVars, cliVars
    <2>2. CurInv' /\ MutexInv'
      BY <1>3 DEF ccai_sp_init, CurInv, MutexInv, libVars, thrVars, cliVars
    <2> QED
      BY <2>1, <2>2
  <1> QED
    BY <1>1, <1>2, <1>3 DEF Environment

\* No step breaks the types.
LEMMA NextType == TypeInv /\ [Next]_vars => TypeInv'
  <1> SUFFICES ASSUME TypeInv, [Next]_vars PROVE TypeInv'
    OBVIOUS
  <1>1. ASSUME NEW c \in Client, ClientCall(c) \/ ClientStep(c) PROVE TypeInv'
    BY <1>1, DbCallType, ClientType DEF ClientCall
  <1>2. ASSUME NEW t \in Thread, ThreadStep(t) PROVE TypeInv'
    BY <1>2, ThreadType
  <1>3. CASE Environment
    BY <1>3, EnvironmentType
  <1>4. CASE UNCHANGED vars
    BY <1>4 DEF TypeInv, TypeOK, DbTypeOK, CurInv, MutexInv,
                vars, dbVars, libVars, thrVars, cliVars
  <1> QED
    BY <1>1, <1>2, <1>3, <1>4 DEF Next

\* Every variable of the library keeps its type, whatever clients do, whenever the
\* process dies: in particular the holder of the mutex always has a statement to run.
THEOREM TypeCorrect == Spec => []TypeOK
  <1>1. Spec => []TypeInv
    BY InitType, NextType, PTL DEF Spec
  <1>2. TypeInv => TypeOK
    BY DEF TypeInv
  <1> QED
    BY <1>1, <1>2, PTL

-----------------------------------------------------------------------------
(* Transactions.                                                           *)

LEMMA InitTxn == Init => TxnInv
  BY EmptySeq, SmartPhotoAssumption DEF Init, DbInit, TxnInv

\* A call whose program is balanced (a BEGIN is followed by an END at its end)
\* keeps the invariant.
LEMMA RunLockedTxn ==
  ASSUME TypeInv, TxnInv, NEW c \in Client, NEW prog, RunLocked(c, prog),
         \A i \in 1..Len(prog) : prog[i].op = "BEGIN" => prog[Len(prog)].op = "END"
  PROVE  TxnInv'
  <1>1. mutex = Nobody /\ mutex' = c /\ stmts' = prog
        /\ UNCHANGED <<work, durable, inTxn, tpc>>
    BY DEF RunLocked, Lock, dbVars, thrVars
  <1>2. mutex \notin Client /\ mutex' \notin Thread
    BY <1>1, SmartPhotoAssumption
  <1> QED
    BY <1>1, <1>2 DEF TxnInv, InBatch

\* A program without BEGIN is balanced.
LEMMA PlainTxn ==
  ASSUME TypeInv, TxnInv, NEW c \in Client, NEW prog, RunLocked(c, prog),
         \A i \in 1..Len(prog) : prog[i].op # "BEGIN"
  PROVE  TxnInv'
  BY RunLockedTxn

\* Indexing a photo neither begins nor ends a transaction.
LEMMA IndexPlain ==
  ASSUME NEW n, NEW v
  PROVE  \A i \in 1..Len(IndexPhoto(n, v)) : IndexPhoto(n, v)[i].op \notin {"BEGIN", "END"}
  <1>1. \A i \in 1..4 : IndexPhoto(n, v)[i].op \notin {"BEGIN", "END"}
    BY DEF IndexPhoto, ChangedRemove, PhotoDelete, PhotoInsert, PhotoTag
  <1>2. Len(IndexPhoto(n, v)) = 4
    BY DEF IndexPhoto
  <1> QED
    BY <1>1, <1>2

\* The calls that take the mutex and run statements.
LEMMA DbCallTxn ==
  ASSUME TypeInv, TxnInv, NEW c \in Client,
         \/ \E n \in Name : ccai_sp_add_file(c, n)
         \/ \E S \in SUBSET Name : ccai_sp_add_dir(c, S)
         \/ \E n \in Name : ccai_sp_remove_file(c, n)
         \/ ccai_sp_remove_all_file(c)
         \/ \E n, m \in Name : ccai_sp_move_file(c, n, m)
         \/ \E n \in Name, v \in Tag : ccai_sp_scan_file_buffer(c, n, v)
  PROVE  TxnInv'
  <1>1. ASSUME NEW n \in Name, ccai_sp_add_file(c, n) PROVE TxnInv'
    <2>1. \A i \in 1..1 : <<ChangedAdd({realpath[n]})>>[i].op # "BEGIN"
      BY DEF ChangedAdd
    <2> QED
      BY <1>1, <2>1, PlainTxn DEF ccai_sp_add_file
  <1>2. ASSUME NEW S \in SUBSET Name, ccai_sp_add_dir(c, S) PROVE TxnInv'
    <2>1. End.op = "END"
      BY DEF End
    <2> QED
      BY <1>2, <2>1, RunLockedTxn DEF ccai_sp_add_dir
  <1>3. ASSUME NEW n \in Name, ccai_sp_remove_file(c, n) PROVE TxnInv'
    <2>1. \A i \in 1..1 : <<PhotoDelete(n)>>[i].op # "BEGIN"
      BY DEF PhotoDelete
    <2> QED
      BY <1>3, <2>1, PlainTxn DEF ccai_sp_remove_file
  <1>4. CASE ccai_sp_remove_all_file(c)
    <2>1. \A i \in 1..2 : <<ChangedRemoveAll, PhotoRemoveAll>>[i].op # "BEGIN"
      BY DEF ChangedRemoveAll, PhotoRemoveAll
    <2> QED
      BY <1>4, <2>1, PlainTxn DEF ccai_sp_remove_all_file, db_photo_table_remove_all
  <1>5. ASSUME NEW n \in Name, NEW m \in Name, ccai_sp_move_file(c, n, m) PROVE TxnInv'
    <2>1. \A i \in 1..1 : <<PhotoMove(n, m)>>[i].op # "BEGIN"
      BY DEF PhotoMove
    <2> QED
      BY <1>5, <2>1, PlainTxn DEF ccai_sp_move_file
  <1>6. ASSUME NEW n \in Name, NEW v \in Tag, ccai_sp_scan_file_buffer(c, n, v) PROVE TxnInv'
    BY <1>6, IndexPlain, PlainTxn DEF ccai_sp_scan_file_buffer
  <1> QED
    BY <1>1, <1>2, <1>3, <1>4, <1>5, <1>6

\* What running a statement does to the transaction.
LEMMA ExecTxn ==
  ASSUME NEW s, sqlite3_exec(s), ~inTxn => work = durable
  PROVE  /\ ~inTxn' => work' = durable'
         /\ s.op = "END" => ~inTxn'
         /\ s.op \notin {"BEGIN", "END"} => inTxn' = inTxn
  BY DEF sqlite3_exec, db_transaction_begin, db_transaction_end

\* The tail of a balanced program is balanced.
LEMMA TailBalanced ==
  ASSUME NEW prog \in Seq(Statement), prog # <<>>
  PROVE  /\ Len(prog) \in Nat \ {0}
         /\ Len(Tail(prog)) = Len(prog) - 1
         /\ \A i \in 1..Len(Tail(prog)) : Tail(prog)[i] = prog[i + 1]
         /\ Head(prog) = prog[1]
         /\ Len(prog) # 1 => Tail(prog)[Len(Tail(prog))] = prog[Len(prog)]
  <1>1. /\ Len(prog) \in Nat \ {0}
        /\ Len(Tail(prog)) = Len(prog) - 1
        /\ \A i \in 1..Len(Tail(prog)) : Tail(prog)[i] = prog[i + 1]
    BY HeadTailProperties, EmptySeq
  <1>2. Head(prog) = prog[1]
    OBVIOUS
  <1> QED
    BY <1>1, <1>2

\* The other steps of a client.
LEMMA ClientTxn ==
  ASSUME TypeInv, TxnInv, NEW c \in Client,
         \/ ccai_sp_scan(c) \/ ccai_sp_stop_scan(c) \/ ccai_sp_wait_scan(c)
         \/ ccai_sp_release(c) \/ ClientStep(c)
  PROVE  TxnInv'
  <1>1. CASE ccai_sp_scan(c)
    BY <1>1 DEF ccai_sp_scan, CreateThread, CreateFails, TxnInv, InBatch, TypeInv, TypeOK, TPc, dbVars
  <1>2. CASE ccai_sp_stop_scan(c) \/ ccai_sp_release(c) \/ ccai_sp_wait_scan(c) \/ JoinBegin(c)
    BY <1>2 DEF ccai_sp_stop_scan, ccai_sp_release, StopRequest, ccai_sp_wait_scan, JoinBegin,
                TxnInv, InBatch, dbVars, thrVars, libVars
  <1>3. CASE ClientExec(c)
    <2>1. mutex = c /\ stmts \in Seq(Statement) /\ stmts # <<>>
      BY <1>3 DEF ClientExec, TypeInv, TypeOK, MutexInv
    <2>2. /\ Len(stmts) \in Nat \ {0}
          /\ Len(stmts') = Len(stmts) - 1
          /\ \A i \in 1..Len(stmts') : stmts'[i] = stmts[i + 1]
          /\ Head(stmts) = stmts[1]
          /\ Len(stmts) # 1 => stmts'[Len(stmts')] = stmts[Len(stmts)]
      BY <1>3, <2>1, TailBalanced DEF ClientExec
    <2>3. /\ ~inTxn' => work' = durable'
          /\ stmts[1].op = "END" => ~inTxn'
          /\ stmts[1].op \notin {"BEGIN", "END"} => inTxn' = inTxn
      BY <1>3, <2>2, ExecTxn DEF ClientExec, TxnInv
    <2>4. \A i \in 1..Len(stmts') : stmts'[i].op = "BEGIN" => stmts'[Len(stmts')].op = "END"
      BY SMTT(30), <2>2 DEF TxnInv
    <2>5. UNCHANGED tpc
      BY <1>3 DEF ClientExec, thrVars
    <2>6. mutex' \notin Thread
      BY <1>3, <2>1, SmartPhotoAssumption DEF ClientExec
    <2>7. ASSUME inTxn', \A t \in Thread : ~InBatch(t)
          PROVE  mutex' \in Client /\ stmts'[Len(stmts')].op = "END"
      <3>1. stmts[Len(stmts)].op = "END"
        <4>1. CASE inTxn
          BY <2>7, <4>1 DEF TxnInv
        <4>2. CASE ~inTxn
          <5>1. stmts[1].op = "BEGIN"
            BY <2>3, <2>7, <4>2
          <5>2. 1 \in 1..Len(stmts)
            BY <2>2
          <5> QED
            BY <5>1, <5>2 DEF TxnInv
        <4> QED
          BY <4>1, <4>2
      <3>2. Len(stmts) # 1
        BY <2>2, <2>3, <2>7, <3>1
      <3> QED
        BY <1>3, <2>1, <2>2, <3>1, <3>2 DEF ClientExec
    <2>8. inTxn' => \/ \E t \in Thread : InBatch(t)'
                    \/ mutex' \in Client /\ stmts'[Len(stmts')].op = "END"
      BY <2>5, <2>7 DEF InBatch
    <2> QED
      BY <2>3, <2>4, <2>6, <2>8 DEF TxnInv
  <1>4. CASE JoinEnd(c)
    <2>1. \A t \in Thread : InBatch(t) => InBatch(t)'
      BY <1>4 DEF JoinEnd, InBatch, Active, TypeInv, TypeOK
    <2> QED
      BY <1>4, <2>1 DEF JoinEnd, TxnInv, dbVars
  <1>5. CASE ReleaseFinit(c)
    BY <1>5 DEF ReleaseFinit, Rollback, TxnInv, thrVars
  <1> QED
    BY <1>1, <1>2, <1>3, <1>4, <1>5 DEF ClientStep

\* The steps of a scan thread.
LEMMA ThreadTxn ==
  ASSUME TypeInv, TxnInv, NEW t \in Thread, ThreadStep(t)
  PROVE  TxnInv'
  <1>0. /\ t \notin Client /\ Nobody \notin Client
        /\ tpc \in [Thread -> TPc]
    BY SmartPhotoAssumption DEF TypeInv, TypeOK
  <1>1. CASE ScanLock(t)
    <2>1. mutex = Nobody /\ mutex' = t /\ UNCHANGED <<work, durable, inTxn, stmts>>
      BY <1>1 DEF ScanLock, Lock, dbVars
    <2>2. \A s \in Thread : InBatch(s) => InBatch(s)'
      BY <1>0, <1>1 DEF ScanLock, InBatch
    <2>3. stmts = <<>>
      BY <1>0, <2>1 DEF TypeInv, MutexInv
    <2> QED
      BY <1>0, <2>1, <2>2, <2>3, EmptySeq DEF TxnInv
  <1>2. CASE ScanCollect(t)
    <2>1. InBatch(t)'
      BY <1>0, <1>2 DEF ScanCollect, InBatch
    <2> QED
      BY <1>2, <2>1 DEF ScanCollect, db_transaction_begin, TxnInv
  <1>3. CASE ScanExit(t)
    <2>1. mutex = t /\ mutex' = Nobody /\ UNCHANGED <<work, durable, inTxn, stmts>>
      BY <1>3 DEF ScanExit, dbVars, TypeInv, MutexInv
    <2>2. \A s \in Thread : InBatch(s) => InBatch(s)'
      BY <1>0, <1>3 DEF ScanExit, InBatch
    <2> QED
      BY <1>0, <2>1, <2>2, SmartPhotoAssumption DEF TxnInv
  <1>4. CASE ScanNext(t)
    <2>1. mutex = t /\ mutex' = Nobody /\ UNCHANGED <<work, durable, inTxn, stmts>>
      BY <1>4 DEF ScanNext, dbVars, TypeInv, MutexInv
    <2>2. \A s \in Thread : InBatch(s) => InBatch(s)'
      BY <1>0, <1>4 DEF ScanNext, InBatch
    <2> QED
      BY <1>0, <2>1, <2>2, SmartPhotoAssumption DEF TxnInv
  <1>5. CASE ScanInfer(t)
    <2>1. \A s \in Thread : InBatch(s) => InBatch(s)'
      BY <1>0, <1>5 DEF ScanInfer, InBatch
    <2> QED
      BY <1>5, <2>1 DEF ScanInfer, TxnInv, dbVars
  <1>6. CASE ScanRelock(t)
    <2>1. mutex = Nobody /\ mutex' = t /\ UNCHANGED <<work, durable, inTxn>>
      BY <1>6 DEF ScanRelock, Lock, dbVars
    <2>2. \A s \in Thread : InBatch(s) => InBatch(s)'
      BY <1>0, <1>6 DEF ScanRelock, InBatch
    <2>3. \A i \in 1..Len(stmts') : stmts'[i].op \notin {"BEGIN", "END"}
      <3>1. \A i \in 1..1 : <<ChangedRemove(cur[t])>>[i].op \notin {"BEGIN", "END"}
        BY DEF ChangedRemove
      <3> QED
        BY <1>6, <3>1, IndexPlain DEF ScanRelock
    <2> QED
      BY <1>0, <2>1, <2>2, <2>3 DEF TxnInv
  <1>7. CASE ScanExec(t)
    <2>1. mutex = t /\ UNCHANGED mutex /\ stmts \in Seq(Statement) /\ stmts # <<>>
      BY <1>7 DEF ScanExec, TypeInv, TypeOK, MutexInv
    <2>2. /\ Len(stmts) \in Nat \ {0}
          /\ Len(stmts') = Len(stmts) - 1
          /\ \A i \in 1..Len(stmts') : stmts'[i] = stmts[i + 1]
          /\ Head(stmts) = stmts[1]
      BY <1>7, <2>1, TailBalanced DEF ScanExec
    <2>3. \A i \in 1..Len(stmts) : stmts[i].op \notin {"BEGIN", "END"}
      BY <2>1 DEF TxnInv
    <2>4. stmts[1].op \notin {"BEGIN", "END"}
      BY <2>2, <2>3
    <2>5. inTxn' = inTxn /\ (~inTxn' => work' = durable')
      BY <1>7, <2>2, <2>4, ExecTxn DEF ScanExec, TxnInv
    <2>6. \A i \in 1..Len(stmts') : stmts'[i].op \notin {"BEGIN", "END"}
      BY <2>2, <2>3
    <2>7. \A s \in Thread : InBatch(s) => InBatch(s)'
      BY <1>0, <1>7 DEF ScanExec, InBatch
    <2> QED
      BY <1>0, <2>1, <2>5, <2>6, <2>7 DEF TxnInv
  <1>8. CASE ScanEnd(t)
    BY <1>8 DEF ScanEnd, db_transaction_end, TxnInv
  <1> QED
    BY <1>1, <1>2, <1>3, <1>4, <1>5, <1>6, <1>7, <1>8 DEF ThreadStep

\* The steps of the environment.
LEMMA EnvironmentTxn ==
  ASSUME TxnInv, Environment
  PROVE  TxnInv'
  <1>1. ASSUME NEW n \in Name, NEW content \in Content, DiskChange(n, content)
        PROVE  TxnInv'
    BY <1>1 DEF DiskChange, TxnInv, InBatch, dbVars, thrVars
  <1>2. CASE Crash
    BY <1>2, EmptySeq, SmartPhotoAssumption DEF Crash, Rollback, TxnInv
  <1>3. CASE ccai_sp_init
    BY <1>3 DEF ccai_sp_init, TxnInv, InBatch, dbVars, thrVars
  <1> QED
    BY <1>1, <1>2, <1>3 DEF Environment

LEMMA NextTxn == TypeInv /\ TxnInv /\ [Next]_vars => TxnInv'
  <1> SUFFICES ASSUME TypeInv, TxnInv, [Next]_vars PROVE TxnInv'
    OBVIOUS
  <1>1. ASSUME NEW c \in Client, ClientCall(c) \/ ClientStep(c) PROVE TxnInv'
    BY <1>1, DbCallTxn, ClientTxn DEF ClientCall
  <1>2. ASSUME NEW t \in Thread, ThreadStep(t) PROVE TxnInv'
    BY <1>2, ThreadTxn
  <1>3. CASE Environment
    BY <1>3, EnvironmentTxn
  <1>4. CASE UNCHANGED vars
    BY <1>4 DEF TxnInv, InBatch, vars, dbVars, thrVars
  <1> QED
    BY <1>1, <1>2, <1>3, <1>4 DEF Next

\* Whatever the number of clients and threads: when the mutex is free and no scan
\* thread is left, no transaction is open and all writes are in the file.
THEOREM AllCommitted == Spec => []QuiescentDurable
  <1>1. Spec => [](TypeInv /\ TxnInv)
    BY InitType, NextType, InitTxn, NextTxn, PTL DEF Spec
  <1>2. TypeInv /\ TxnInv => QuiescentDurable
    BY SmartPhotoAssumption DEF TxnInv, InBatch, Active, QuiescentDurable
  <1> QED
    BY <1>1, <1>2, PTL

-----------------------------------------------------------------------------
(* One client.                                                             *)

\* With one client, whoever stops the scan is the client that would start one.
OnlyClient == \A c, d \in Client : c = d

LEMMA InitScan == Init => ScanInv
  BY DEF Init, ScanInv, OneScanner, Active, Stopping

\* The calls that run statements leave the scan alone.
LEMMA DbCallScan ==
  ASSUME TypeInv, ScanInv, NEW c \in Client, NEW prog, cpc[c] = "idle", RunLocked(c, prog)
  PROVE  ScanInv'
  BY DEF TypeInv, TypeOK, ScanInv, OneScanner, Active, Stopping, RunLocked, Lock,
         libVars, thrVars

LEMMA ClientScan ==
  ASSUME TypeInv, ScanInv, OnlyClient, NEW c \in Client,
         \/ ccai_sp_scan(c) \/ ccai_sp_stop_scan(c) \/ ccai_sp_wait_scan(c)
         \/ ccai_sp_release(c) \/ ClientStep(c)
  PROVE  ScanInv'
  <1>0. /\ \A d \in Client : d = c
        /\ tpc \in [Thread -> TPc] /\ cpc \in [Client -> CPc]
        /\ target \in [Client -> Thread \union {NoThread}]
        /\ scan_runing \in BOOLEAN
    BY DEF OnlyClient, TypeInv, TypeOK
  <1>1. CASE ccai_sp_scan(c)
    <2>1. cpc[c] = "idle" /\ UNCHANGED <<cpc, target, up>> /\ up = "up" /\ scan_runing'
      BY <1>1 DEF ccai_sp_scan, Calling, cliVars
    <2>2. CASE scan_runing
      BY <1>0, <1>1, <2>1, <2>2 DEF ccai_sp_scan, ScanInv, OneScanner, Active, Stopping
    <2>3. CASE ~scan_runing
      <3>1. \A t \in Thread : ~Active(t)
        BY <1>0, <2>1, <2>3 DEF ScanInv, Stopping
      <3> QED
        BY <1>0, <1>1, <2>1, <2>3, <3>1 DEF ccai_sp_scan, CreateThread, CreateFails, ScanInv, OneScanner, Active, Stopping, TPc
    <2> QED
      BY <2>2, <2>3
  <1>2. CASE ccai_sp_stop_scan(c) \/ ccai_sp_release(c)
    <2>1. /\ cpc[c] = "idle" /\ ~scan_runing' /\ UNCHANGED <<scan_thread, tpc, target, up>>
          /\ scan_runing => cpc'[c] \in {"stopped", "relStopped"}
          /\ ~scan_runing => cpc'[c] \in {"idle", "finit"}
      BY <1>0, <1>2 DEF ccai_sp_stop_scan, ccai_sp_release, StopRequest, Calling, thrVars
    <2> QED
      BY <1>0, <2>1 DEF ScanInv, OneScanner, Active, Stopping
  <1>3. CASE ccai_sp_wait_scan(c)
    BY <1>0, <1>3 DEF ccai_sp_wait_scan, Calling, ScanInv, OneScanner, Active, Stopping,
                      libVars, thrVars
  <1>4. CASE ClientExec(c)
    BY <1>0, <1>4 DEF ClientExec, TypeInv, MutexInv, ScanInv, OneScanner, Active, Stopping,
                      libVars, thrVars
  <1>5. CASE JoinBegin(c)
    <2>1. /\ cpc[c] \in {"stopped", "waiting", "relStopped"}
          /\ cpc'[c] = CASE cpc[c] = "stopped" -> "stopJoin"
                         [] cpc[c] = "waiting" -> "waitJoin"
                         [] OTHER -> "relJoin"
          /\ target'[c] = scan_thread
          /\ UNCHANGED <<scan_runing, scan_thread, tpc, up>>
      BY <1>0, <1>5 DEF JoinBegin, libVars, thrVars
    <2> QED
      BY <1>0, <2>1 DEF ScanInv, OneScanner, Active, Stopping
  <1>6. CASE JoinEnd(c)
    <2>1. \A t \in Thread : Active(t)' <=> Active(t) /\ t # target[c]
      BY <1>0, <1>6 DEF JoinEnd, Active
    <2>2. \A t \in Thread : Active(t)' => Active(t) /\ cpc[c] = "waitJoin"
      BY <1>0, <1>6, <2>1 DEF JoinEnd, Joining, ScanInv
    <2>3. /\ cpc'[c] \in {"idle", "finit"}
          /\ cpc'[c] = "finit" => cpc[c] = "relJoin"
          /\ UNCHANGED <<scan_runing, scan_thread, up>>
      BY <1>0, <1>6 DEF JoinEnd, Joining, libVars
    <2> QED
      BY <1>0, <2>2, <2>3 DEF ScanInv, OneScanner, Stopping
  <1>7. CASE ReleaseFinit(c)
    <2>1. \A t \in Thread : ~Active(t)
      BY <1>7 DEF ReleaseFinit, ScanInv
    <2>2. cpc'[c] = "idle" /\ UNCHANGED <<scan_runing, scan_thread, tpc>>
      BY <1>0, <1>7 DEF ReleaseFinit, libVars, thrVars
    <2> QED
      BY <1>0, <2>1, <2>2 DEF ScanInv, OneScanner, Active, Stopping
  <1> QED
    BY <1>1, <1>2, <1>3, <1>4, <1>5, <1>6, <1>7 DEF ClientStep

LEMMA ThreadScan ==
  ASSUME TypeInv, ScanInv, NEW t \in Thread, ThreadStep(t)
  PROVE  ScanInv'
  <1>0. tpc \in [Thread -> TPc]
    BY DEF TypeInv, TypeOK
  <1>1. CASE ScanExit(t)
    <2>1. Active(t) /\ ~Active(t)' /\ \A s \in Thread : s # t => (Active(s)' <=> Active(s))
      BY <1>0, <1>1 DEF ScanExit, Active
    <2>2. ~scan_runing' /\ UNCHANGED <<scan_thread, cpc, target, up>>
      BY <1>1 DEF ScanExit, cliVars
    <2>3. \A s \in Thread : ~Active(s)'
      BY <2>1 DEF ScanInv, OneScanner
    <2> QED
      BY <2>2, <2>3 DEF ScanInv, OneScanner, Stopping
  <1>2. CASE ~ScanExit(t)
    <2>1. \A s \in Thread : Active(s)' <=> Active(s)
      BY <1>0, <1>2 DEF ThreadStep, ScanLock, ScanCollect, ScanNext, ScanInfer, ScanRelock,
                        ScanExec, ScanEnd, Active
    <2>2. UNCHANGED <<scan_runing, scan_thread, cpc, target, up>>
      BY <1>2 DEF ThreadStep, ScanLock, ScanCollect, ScanNext, ScanInfer, ScanRelock,
                  ScanExec, ScanEnd, libVars, cliVars
    <2> QED
      BY <2>1, <2>2 DEF ScanInv, OneScanner, Stopping
  <1> QED
    BY <1>1, <1>2

LEMMA EnvironmentScan ==
  ASSUME ScanInv, Environment
  PROVE  ScanInv'
  <1>1. ASSUME NEW n \in Name, NEW content \in Content, DiskChange(n, content)
        PROVE  ScanInv'
    BY <1>1 DEF DiskChange, ScanInv, OneScanner, Active, Stopping, libVars, thrVars, cliVars
  <1>2. CASE Crash
    BY <1>2 DEF Crash, ScanInv, OneScanner, Active, Stopping
  <1>3. CASE ccai_sp_init
    BY <1>3 DEF ccai_sp_init, ScanInv, OneScanner, Active, Stopping, libVars, thrVars, cliVars
  <1> QED
    BY <1>1, <1>2, <1>3 DEF Environment

LEMMA NextScan == OnlyClient /\ TypeInv /\ ScanInv /\ [Next]_vars => ScanInv'
  <1> SUFFICES ASSUME OnlyClient, TypeInv, ScanInv, [Next]_vars PROVE ScanInv'
    OBVIOUS
  <1>1. ASSUME NEW c \in Client, ClientCall(c) \/ ClientStep(c) PROVE ScanInv'
    BY <1>1, DbCallScan, ClientScan
    DEF ClientCall, ccai_sp_add_file, ccai_sp_add_dir, ccai_sp_remove_file,
        ccai_sp_remove_all_file, ccai_sp_move_file, ccai_sp_scan_file_buffer, Calling
  <1>2. ASSUME NEW t \in Thread, ThreadStep(t) PROVE ScanInv'
    BY <1>2, ThreadScan
  <1>3. CASE Environment
    BY <1>3, EnvironmentScan
  <1>4. CASE UNCHANGED vars
    BY <1>4 DEF ScanInv, OneScanner, Active, Stopping, vars, libVars, thrVars, cliVars
  <1> QED
    BY <1>1, <1>2, <1>3, <1>4 DEF Next

LEMMA ScanInvariant == ASSUME OnlyClient PROVE Spec => [](TypeInv /\ ScanInv)
  <1> DEFINE IInv == TypeInv /\ ScanInv
  <1>1. Init => IInv
    BY InitType, InitScan
  <1>2. IInv /\ [Next]_vars => IInv'
    BY NextType, NextScan
  <1> QED
    BY <1>1, <1>2, PTL DEF Spec

\* With a single client, as in the FastCGI service, the flag scan_runing and the join
\* of ccai_sp_stop_scan never let a second scan thread start beside one that has yet
\* to end.
THEOREM SingleScanner == ASSUME OnlyClient PROVE Spec => []OneScanner
  <1>1. ScanInv => OneScanner
    BY DEF ScanInv
  <1> QED
    BY <1>1, ScanInvariant, PTL

\* With a single client, ccai_sp_release frees the handle only when no scan thread can
\* use it any more.
THEOREM SafeRelease == ASSUME OnlyClient PROVE Spec => []NoUseAfterFree
  <1>1. ScanInv => NoUseAfterFree
    BY DEF ScanInv, NoUseAfterFree
  <1> QED
    BY <1>1, ScanInvariant, PTL
-----------------------------------------------------------------------------
(* What is joined.                                                         *)

\* scan_thread holds a thread that was created and that nobody has joined yet.
Joinable == scan_thread \in Thread /\ tpc[scan_thread] # "none"

\* Unless pthread_create failed last: a flag that is set has its thread at work, and a
\* client on its way to the join, or in it, has a thread to join.
JoinInv ==
    ~failed =>
      /\ scan_runing => scan_thread \in Thread /\ Active(scan_thread)
      /\ \A c \in Client : cpc[c] \in {"stopped", "waiting", "relStopped"} => Joinable
      /\ \A c \in Client : Joining(c) => Joinable /\ target[c] = scan_thread

LEMMA InitJoin == Init => JoinInv
  BY DEF Init, JoinInv, Joinable, Joining

\* The calls that run statements leave the join alone.
LEMMA DbCallJoin ==
  ASSUME TypeInv, JoinInv, NEW c \in Client, NEW prog, cpc[c] = "idle", RunLocked(c, prog)
  PROVE  JoinInv'
  BY DEF TypeInv, TypeOK, JoinInv, Joinable, Joining, Active, RunLocked, Lock, libVars, thrVars

LEMMA ClientJoin ==
  ASSUME TypeInv, JoinInv, OnlyClient, NEW c \in Client,
         \/ ccai_sp_scan(c) \/ ccai_sp_stop_scan(c) \/ ccai_sp_wait_scan(c)
         \/ ccai_sp_release(c) \/ ClientStep(c)
  PROVE  JoinInv'
  <1>0. /\ \A d \in Client : d = c
        /\ tpc \in [Thread -> TPc] /\ cpc \in [Client -> CPc]
        /\ target \in [Client -> Thread \union {NoThread}]
        /\ scan_runing \in BOOLEAN
    BY DEF OnlyClient, TypeInv, TypeOK
  <1>1. CASE ccai_sp_scan(c)
    <2>1. cpc[c] = "idle" /\ UNCHANGED <<cpc, target>>
      BY <1>1 DEF ccai_sp_scan, Calling, cliVars
    <2>2. CASE scan_runing
      BY <1>0, <1>1, <2>1, <2>2 DEF ccai_sp_scan, JoinInv, Joinable, Joining, Active
    <2>3. CASE CreateThread
      BY <1>0, <2>1, <2>3 DEF CreateThread, JoinInv, Joinable, Joining, Active
    <2>4. CASE CreateFails
      BY <2>4 DEF CreateFails, JoinInv
    <2> QED
      BY <1>1, <2>2, <2>3, <2>4 DEF ccai_sp_scan
  <1>2. CASE ccai_sp_stop_scan(c) \/ ccai_sp_release(c)
    <2>1. /\ ~scan_runing' /\ UNCHANGED <<scan_thread, tpc, target, failed>>
          /\ scan_runing => cpc'[c] \in {"stopped", "relStopped"}
          /\ ~scan_runing => cpc'[c] \in {"idle", "finit"}
      BY <1>0, <1>2 DEF ccai_sp_stop_scan, ccai_sp_release, StopRequest, Calling, thrVars
    <2> QED
      BY <1>0, <2>1 DEF JoinInv, Joinable, Joining, Active
  <1>3. CASE ccai_sp_wait_scan(c)
    <2>1. /\ cpc'[c] = IF scan_runing THEN "waiting" ELSE "idle"
          /\ UNCHANGED <<scan_runing, scan_thread, tpc, target, failed>>
      BY <1>0, <1>3 DEF ccai_sp_wait_scan, libVars, thrVars
    <2> QED
      BY <1>0, <2>1 DEF JoinInv, Joinable, Joining, Active
  <1>4. CASE ClientExec(c)
    BY <1>0, <1>4 DEF ClientExec, JoinInv, Joinable, Joining, Active, libVars, thrVars
  <1>5. CASE JoinBegin(c)
    <2>1. /\ cpc[c] \in {"stopped", "waiting", "relStopped"}
          /\ cpc'[c] \in {"stopJoin", "waitJoin", "relJoin"}
          /\ target'[c] = scan_thread
          /\ UNCHANGED <<scan_runing, scan_thread, tpc, failed>>
      BY <1>0, <1>5 DEF JoinBegin, libVars, thrVars
    <2> QED
      BY <1>0, <2>1 DEF JoinInv, Joinable, Joining, Active
  <1>6. CASE JoinEnd(c)
    <2>1. Joining(c) /\ (target[c] \in Thread => ~Active(target[c]))
      BY <1>6 DEF JoinEnd
    <2>2. ~failed => ~scan_runing
      BY <2>1 DEF JoinInv
    <2>3. /\ cpc'[c] \in {"idle", "finit"}
          /\ UNCHANGED <<scan_runing, scan_thread, failed>>
      BY <1>0, <1>6 DEF JoinEnd, Joining, libVars
    <2> QED
      BY <1>0, <2>2, <2>3 DEF JoinInv, Joining
  <1>7. CASE ReleaseFinit(c)
    <2>1. cpc'[c] = "idle" /\ UNCHANGED <<scan_runing, scan_thread, tpc, failed>>
      BY <1>0, <1>7 DEF ReleaseFinit, libVars, thrVars
    <2> QED
      BY <1>0, <2>1 DEF JoinInv, Joinable, Joining, Active
  <1> QED
    BY <1>1, <1>2, <1>3, <1>4, <1>5, <1>6, <1>7 DEF ClientStep

\* A scan thread's step ends at most itself, having cleared the flag, and an ended thread
\* can still be joined.
LEMMA ThreadJoin ==
  ASSUME TypeInv, JoinInv, NEW t \in Thread, ThreadStep(t)
  PROVE  JoinInv'
  <1>1. \A s \in Thread : tpc'[s] # "none" <=> tpc[s] # "none"
    BY DEF TypeInv, TypeOK, ThreadStep, ScanLock, ScanCollect, ScanExit, ScanNext, ScanInfer,
           ScanRelock, ScanExec, ScanEnd
  <1>2. /\ UNCHANGED <<scan_thread, cpc, target, failed>>
        /\ scan_runing' => scan_runing
    BY DEF ThreadStep, ScanLock, ScanCollect, ScanExit, ScanNext, ScanInfer, ScanRelock,
           ScanExec, ScanEnd, libVars, cliVars
  <1>3. scan_runing' => \A s \in Thread : Active(s) => Active(s)'
    BY DEF TypeInv, TypeOK, ThreadStep, ScanLock, ScanCollect, ScanExit, ScanNext, ScanInfer,
           ScanRelock, ScanExec, ScanEnd, Active
  <1> QED
    BY <1>1, <1>2, <1>3 DEF JoinInv, Joinable, Joining

LEMMA EnvironmentJoin ==
  ASSUME JoinInv, Environment
  PROVE  JoinInv'
  <1>1. ASSUME NEW n \in Name, NEW content \in Content, DiskChange(n, content)
        PROVE  JoinInv'
    BY <1>1 DEF DiskChange, JoinInv, Joinable, Joining, Active, libVars, thrVars, cliVars
  <1>2. CASE Crash
    BY <1>2 DEF Crash, JoinInv, Joinable, Joining
  <1>3. CASE ccai_sp_init
    BY <1>3 DEF ccai_sp_init, JoinInv, Joinable, Joining, Active, libVars, thrVars, cliVars
  <1> QED
    BY <1>1, <1>2, <1>3 DEF Environment

LEMMA NextJoin ==
  ASSUME OnlyClient, TypeInv, JoinInv, [Next]_vars
  PROVE  JoinInv'
  <1>1. ASSUME NEW c \in Client, ClientCall(c) \/ ClientStep(c) PROVE JoinInv'
    BY <1>1, DbCallJoin, ClientJoin
    DEF ClientCall, ccai_sp_add_file, ccai_sp_add_dir, ccai_sp_remove_file,
        ccai_sp_remove_all_file, ccai_sp_move_file, ccai_sp_scan_file_buffer, Calling
  <1>2. ASSUME NEW t \in Thread, ThreadStep(t) PROVE JoinInv'
    BY <1>2, ThreadJoin
  <1>3. CASE Environment
    BY <1>3, EnvironmentJoin
  <1>4. CASE UNCHANGED vars
    BY <1>4 DEF JoinInv, Joinable, Joining, Active, vars, libVars, thrVars, cliVars
  <1> QED
    BY <1>1, <1>2, <1>3, <1>4 DEF Next

\* With a single client, whatever it calls in whatever order, ccai_sp_wait_scan included,
\* pthread_join is given a thread that was created and that nobody has joined, unless the
\* last pthread_create failed: a flag that is set has a thread behind it, which clears
\* the flag before it ends, so no flag outlives the thread that is joined.
THEOREM JoinsOnce ==
  ASSUME OnlyClient
  PROVE  Spec => []JoinFindsThread
  <1> DEFINE IInv == TypeInv /\ JoinInv
  <1>1. Init => IInv
    BY InitType, InitJoin
  <1>2. IInv /\ [Next]_vars => IInv'
    BY NextType, NextJoin
  <1>3. IInv => JoinFindsThread
    BY DEF JoinInv, Joinable, JoinFindsThread
  <1> QED
    BY <1>1, <1>2, <1>3, PTL DEF Spec

-----------------------------------------------------------------------------
(* What a kill in the middle of a batch leaves.                            *)

\* Without ccai_sp_add_dir no call ends a transaction, so the batch of the scan thread
\* is inside its own from ScanCollect to ScanEnd.
BatchInv ==
    /\ \A t \in Thread : InBatch(t) => inTxn
    /\ \A i \in 1..Len(stmts) : stmts[i].op # "END"

LEMMA InitBatch == Init => BatchInv
  BY DEF Init, BatchInv, InBatch

\* No call but ccai_sp_add_dir has an END among its statements.
LEMMA DbCallBatch ==
  ASSUME TypeInv, BatchInv, "add_dir" \notin Calls, NEW c \in Client,
         \/ \E n \in Name : ccai_sp_add_file(c, n)
         \/ \E S \in SUBSET Name : ccai_sp_add_dir(c, S)
         \/ \E n \in Name : ccai_sp_remove_file(c, n)
         \/ ccai_sp_remove_all_file(c)
         \/ \E n, m \in Name : ccai_sp_move_file(c, n, m)
         \/ \E n \in Name, v \in Tag : ccai_sp_scan_file_buffer(c, n, v)
  PROVE  BatchInv'
  <1>1. \A t \in Thread : InBatch(t)' <=> InBatch(t)
    BY DEF ccai_sp_add_file, ccai_sp_add_dir, ccai_sp_remove_file, ccai_sp_remove_all_file,
           ccai_sp_move_file, ccai_sp_scan_file_buffer, RunLocked, thrVars, InBatch
  <1>2. UNCHANGED inTxn
    BY DEF ccai_sp_add_file, ccai_sp_add_dir, ccai_sp_remove_file, ccai_sp_remove_all_file,
           ccai_sp_move_file, ccai_sp_scan_file_buffer, RunLocked, dbVars
  <1>3. \A i \in 1..Len(stmts') : stmts'[i].op # "END"
    <2>1. ASSUME NEW n \in Name, ccai_sp_add_file(c, n)
          PROVE  \A i \in 1..Len(stmts') : stmts'[i].op # "END"
      BY <2>1 DEF ccai_sp_add_file, RunLocked, ChangedAdd
    <2>2. ASSUME NEW n \in Name, ccai_sp_remove_file(c, n)
          PROVE  \A i \in 1..Len(stmts') : stmts'[i].op # "END"
      BY <2>2 DEF ccai_sp_remove_file, RunLocked, PhotoDelete
    <2>3. ASSUME ccai_sp_remove_all_file(c)
          PROVE  \A i \in 1..Len(stmts') : stmts'[i].op # "END"
      BY <2>3 DEF ccai_sp_remove_all_file, RunLocked, db_photo_table_remove_all,
                  ChangedRemoveAll, PhotoRemoveAll
    <2>4. ASSUME NEW n \in Name, NEW m \in Name, ccai_sp_move_file(c, n, m)
          PROVE  \A i \in 1..Len(stmts') : stmts'[i].op # "END"
      BY <2>4 DEF ccai_sp_move_file, RunLocked, PhotoMove
    <2>5. ASSUME NEW n \in Name, NEW v \in Tag, ccai_sp_scan_file_buffer(c, n, v)
          PROVE  \A i \in 1..Len(stmts') : stmts'[i].op # "END"
      BY <2>5, IndexPlain DEF ccai_sp_scan_file_buffer, RunLocked
    <2> QED
      BY <2>1, <2>2, <2>3, <2>4, <2>5 DEF ccai_sp_add_dir, Calling
  <1> QED
    BY <1>1, <1>2, <1>3 DEF BatchInv

LEMMA ClientBatch ==
  ASSUME TypeInv, TxnInv, ScanInv, BatchInv, NEW c \in Client,
         \/ ccai_sp_scan(c) \/ ccai_sp_stop_scan(c) \/ ccai_sp_wait_scan(c)
         \/ ccai_sp_release(c) \/ ClientStep(c)
  PROVE  BatchInv'
  <1>0. tpc \in [Thread -> TPc]
    BY DEF TypeInv, TypeOK
  <1>1. CASE \/ ccai_sp_scan(c) \/ ccai_sp_stop_scan(c) \/ ccai_sp_wait_scan(c)
             \/ ccai_sp_release(c) \/ JoinBegin(c)
    <2>1. UNCHANGED <<inTxn, stmts>>
      BY <1>1 DEF ccai_sp_scan, ccai_sp_stop_scan, ccai_sp_wait_scan, ccai_sp_release,
                  StopRequest, JoinBegin, dbVars
    <2>2. \A t \in Thread : InBatch(t)' => InBatch(t)
      BY <1>0, <1>1 DEF ccai_sp_scan, CreateThread, CreateFails, ccai_sp_stop_scan, ccai_sp_wait_scan,
                        ccai_sp_release, StopRequest, JoinBegin, thrVars, InBatch
    <2> QED
      BY <2>1, <2>2 DEF BatchInv
  <1>2. CASE ClientExec(c)
    <2>1. /\ stmts \in Seq(Statement) /\ stmts # <<>> /\ stmts' = Tail(stmts)
          /\ UNCHANGED tpc /\ sqlite3_exec(Head(stmts))
      BY <1>2 DEF ClientExec, TypeInv, TypeOK, MutexInv, thrVars
    <2>2. Head(stmts).op # "END" /\ \A i \in 1..Len(stmts') : stmts'[i].op # "END"
      BY <2>1, TailBalanced DEF BatchInv
    <2>3. inTxn => inTxn'
      BY <2>1, <2>2 DEF sqlite3_exec, db_transaction_begin
    <2> QED
      BY <2>1, <2>2, <2>3 DEF BatchInv, InBatch
  <1>3. CASE JoinEnd(c)
    BY <1>0, <1>3 DEF JoinEnd, BatchInv, InBatch, dbVars
  <1>4. CASE ReleaseFinit(c)
    <2>1. \A t \in Thread : ~InBatch(t)
      BY <1>4 DEF ReleaseFinit, ScanInv, Active, InBatch
    <2> QED
      BY <1>4, <2>1 DEF ReleaseFinit, BatchInv, InBatch, thrVars
  <1> QED
    BY <1>1, <1>2, <1>3, <1>4 DEF ClientStep

LEMMA ThreadBatch ==
  ASSUME TypeInv, TxnInv, ScanInv, BatchInv, NEW t \in Thread, ThreadStep(t)
  PROVE  BatchInv'
  <1>0. tpc \in [Thread -> TPc] /\ stmts \in Seq(Statement)
    BY DEF TypeInv, TypeOK
  <1>1. CASE ScanLock(t) \/ ScanExit(t) \/ ScanNext(t) \/ ScanInfer(t)
    <2>1. UNCHANGED <<inTxn, stmts>>
      BY <1>1 DEF ScanLock, ScanExit, ScanNext, ScanInfer, dbVars
    <2>2. \A s \in Thread : InBatch(s)' => InBatch(s)
      BY <1>0, <1>1 DEF ScanLock, ScanExit, ScanNext, ScanInfer, InBatch
    <2> QED
      BY <2>1, <2>2 DEF BatchInv
  <1>2. CASE ScanCollect(t)
    BY <1>2 DEF ScanCollect, db_transaction_begin, BatchInv
  <1>3. CASE ScanRelock(t)
    <2>1. /\ UNCHANGED inTxn
          /\ \A s \in Thread : InBatch(s)' => InBatch(s)
      BY <1>0, <1>3 DEF ScanRelock, dbVars, InBatch
    <2>2. \A i \in 1..Len(stmts') : stmts'[i].op # "END"
      <3>1. CASE img[t] \in Tag
        BY <1>3, <3>1, IndexPlain DEF ScanRelock
      <3>2. CASE img[t] \notin Tag
        BY <1>3, <3>2 DEF ScanRelock, ChangedRemove
      <3> QED
        BY <3>1, <3>2
    <2> QED
      BY <2>1, <2>2 DEF BatchInv
  <1>4. CASE ScanExec(t)
    <2>1. stmts # <<>> /\ stmts' = Tail(stmts) /\ sqlite3_exec(Head(stmts))
      BY <1>4 DEF ScanExec, TypeInv, MutexInv
    <2>2. Head(stmts).op # "END" /\ \A i \in 1..Len(stmts') : stmts'[i].op # "END"
      BY <1>0, <2>1, TailBalanced DEF BatchInv
    <2>3. inTxn => inTxn'
      BY <2>1, <2>2 DEF sqlite3_exec, db_transaction_begin
    <2>4. \A s \in Thread : InBatch(s)' => InBatch(s)
      BY <1>0, <1>4 DEF ScanExec, InBatch
    <2> QED
      BY <2>2, <2>3, <2>4 DEF BatchInv
  <1>5. CASE ScanEnd(t)
    <2>1. \A s \in Thread : InBatch(s) => s = t
      BY <1>5 DEF ScanEnd, ScanInv, OneScanner, Active, InBatch
    <2>2. \A s \in Thread : ~InBatch(s)'
      BY <1>0, <1>5, <2>1 DEF ScanEnd, InBatch
    <2> QED
      BY <1>5, <2>2 DEF ScanEnd, BatchInv
  <1> QED
    BY <1>1, <1>2, <1>3, <1>4, <1>5 DEF ThreadStep

LEMMA NextBatch ==
  ASSUME "add_dir" \notin Calls
  PROVE  TypeInv /\ TxnInv /\ ScanInv /\ BatchInv /\ [Next]_vars => BatchInv'
  <1> SUFFICES ASSUME TypeInv, TxnInv, ScanInv, BatchInv, [Next]_vars PROVE BatchInv'
    OBVIOUS
  <1>1. ASSUME NEW c \in Client, ClientCall(c) \/ ClientStep(c) PROVE BatchInv'
    BY <1>1, DbCallBatch, ClientBatch DEF ClientCall
  <1>2. ASSUME NEW t \in Thread, ThreadStep(t) PROVE BatchInv'
    BY <1>2, ThreadBatch
  <1>3. CASE Environment
    BY <1>3 DEF Environment, DiskChange, Crash, ccai_sp_init, BatchInv, InBatch, dbVars, thrVars
  <1>4. CASE UNCHANGED vars
    BY <1>4 DEF BatchInv, InBatch, vars, dbVars, thrVars
  <1> QED
    BY <1>1, <1>2, <1>3, <1>4 DEF Next

\* While a scan thread writes a photo it holds the mutex and its transaction is open, so
\* no step of anybody changes the file.
LEMMA FileKept ==
  ASSUME TypeInv, TxnInv, BatchInv, [Next]_vars, NEW t \in Thread, tpc[t] = "exec"
  PROVE  durable' = durable
  <1>0. mutex = t /\ inTxn /\ stmts # <<>> /\ stmts \in Seq(Statement)
    BY DEF TypeInv, TypeOK, MutexInv, BatchInv, InBatch
  <1>1. ASSUME NEW c \in Client, ClientCall(c) \/ ClientStep(c) PROVE durable' = durable
    <2>1. mutex # Nobody /\ mutex # c
      BY <1>0, SmartPhotoAssumption
    <2> QED
      BY <1>1, <2>1
      DEF ClientCall, ccai_sp_add_file, ccai_sp_add_dir, ccai_sp_remove_file,
          ccai_sp_remove_all_file, ccai_sp_move_file, ccai_sp_scan_file_buffer, RunLocked, Lock,
          ccai_sp_scan, ccai_sp_stop_scan, ccai_sp_wait_scan, ccai_sp_release, StopRequest,
          ClientStep, ClientExec, JoinBegin, JoinEnd, ReleaseFinit, dbVars
  <1>2. ASSUME NEW s \in Thread, ThreadStep(s) PROVE durable' = durable
    <2>1. CASE ScanExec(s)
      <3>1. s = t
        BY <1>0, <2>1 DEF ScanExec, TypeInv, MutexInv
      <3>2. Head(stmts).op \notin {"BEGIN", "END"}
        BY <1>0, TailBalanced DEF TxnInv
      <3> QED
        BY <1>0, <2>1, <3>2 DEF ScanExec, sqlite3_exec
    <2>2. CASE ScanEnd(s)
      BY <1>0, <2>2 DEF ScanEnd, TypeInv, MutexInv
    <2> QED
      BY <1>2, <2>1, <2>2
      DEF ThreadStep, ScanLock, ScanCollect, ScanExit, ScanNext, ScanInfer, ScanRelock,
          db_transaction_begin, dbVars
  <1>3. CASE Environment
    BY <1>3 DEF Environment, DiskChange, Crash, ccai_sp_init, Rollback, dbVars
  <1>4. CASE UNCHANGED vars
    BY <1>4 DEF vars, dbVars
  <1> QED
    BY <1>1, <1>2, <1>3, <1>4 DEF Next

\* With a single client that does not use ccai_sp_add_dir, and for any number of photos
\* and threads: whenever the process dies while a scan thread takes a photo off the
\* waiting list and replaces its row, the file has the photo waiting or indexed.
THEOREM ScanKeeps ==
  ASSUME OnlyClient, "add_dir" \notin Calls
  PROVE  Spec => ScanKeepsPhoto
  <1> DEFINE IInv == TypeInv /\ TxnInv /\ ScanInv /\ BatchInv
  <1>1. Init => IInv
    BY InitType, InitTxn, InitScan, InitBatch
  <1>2. IInv /\ [Next]_vars => IInv'
    BY NextType, NextTxn, NextScan, NextBatch
  <1>3. ASSUME IInv, [Next]_vars
        PROVE  [\A t \in Thread, n \in Name :
                  /\ tpc[t] = "exec"
                  /\ img[t] \in Tag
                  /\ n \in durable.changed \union Indexed(durable)
                  => n \in durable'.changed \union Indexed(durable')]_vars
    BY <1>3, FileKept
  <1> QED
    BY <1>1, <1>2, <1>3, PTL DEF Spec, ScanKeepsPhoto

-----------------------------------------------------------------------------
(* The index that the library implements.                                  *)

\* What the statements ahead come to, by their number.
LEMMA AfterNone == \A db : After(<<>>, db) = db
  BY DEF After, Ran

LEMMA AfterOne == \A db, p : After(<<p>>, db) = Effect(p, db)
  BY DEF After, Ran

LEMMA AfterTwo == \A db, p, q : After(<<p, q>>, db) = Effect(q, Effect(p, db))
  BY DEF After, Ran

LEMMA AfterThree ==
  \A db, p, q, r : After(<<p, q, r>>, db) = Effect(r, Effect(q, Effect(p, db)))
  BY DEF After, Ran

LEMMA AfterFour ==
  \A db, p, q, r, s :
     After(<<p, q, r, s>>, db) = Effect(s, Effect(r, Effect(q, Effect(p, db))))
  BY DEF After, Ran

\* The statements, one by one.
LEMMA EffectOf ==
  ASSUME NEW db
  PROVE  /\ Effect(Begin, db) = db
         /\ Effect(End, db) = db
         /\ \A S : Effect(ChangedAdd(S), db) = [db EXCEPT !.changed = @ \union S]
         /\ \A n : Effect(ChangedRemove(n), db) = [db EXCEPT !.changed = @ \ {n}]
         /\ Effect(ChangedRemoveAll, db) = [db EXCEPT !.changed = {}]
  <1>1. Effect(Begin, db) = db /\ Effect(End, db) = db
    BY DEF Effect, Begin, End
  <1>2. \A S : Effect(ChangedAdd(S), db) = [db EXCEPT !.changed = @ \union S]
    BY DEF Effect, ChangedAdd, db_changed_table_add
  <1>3. \A n : Effect(ChangedRemove(n), db) = [db EXCEPT !.changed = @ \ {n}]
    BY DEF Effect, ChangedRemove, db_changed_table_remove
  <1>4. Effect(ChangedRemoveAll, db) = [db EXCEPT !.changed = {}]
    BY DEF Effect, ChangedRemoveAll
  <1> QED
    BY <1>1, <1>2, <1>3, <1>4

\* What is left of the storing of a photo.
LEMMA IndexTails ==
  ASSUME NEW n \in Name, NEW v \in Tag
  PROVE  /\ Tail(IndexPhoto(n, v)) = <<PhotoDelete(n), PhotoInsert(n), PhotoTag(n, v)>>
         /\ Tail(Tail(IndexPhoto(n, v))) = <<PhotoInsert(n), PhotoTag(n, v)>>
  BY DEF IndexPhoto

\* Two tables with the same waiting names and the same rows are the same.
LEMMA SameTables ==
  ASSUME NEW d \in Tables, NEW e \in Tables, d.changed = e.changed,
         \A n \in Name : d.photo[n] = e.photo[n]
  PROVE  d = e
  <1>1. d.photo = e.photo
    BY DEF Tables
  <1> QED
    BY <1>1 DEF Tables

\* The statements that set one row.
LEMMA RowEffect ==
  ASSUME NEW db, NEW n, NEW v
  PROVE  /\ Effect(PhotoDelete(n), db) = SetPhoto(db, n, NoRow)
         /\ Effect(PhotoInsert(n), db) = SetPhoto(db, n, Untagged)
         /\ Effect(PhotoTag(n, v), db) = SetPhoto(db, n, v)
  BY DEF Effect, PhotoDelete, PhotoInsert, PhotoTag

\* The last row set for a photo is the one that counts.
LEMMA SetTwice ==
  ASSUME NEW db \in Tables, NEW n \in Name, NEW u \in Tag \union {NoRow}, NEW v \in Tag
  PROVE  SetPhoto(SetPhoto(db, n, u), n, v) = SetPhoto(db, n, v)
  BY DEF SetPhoto, Tables

\* A photo is stored by taking it off the waiting list and setting its row.
LEMMA StoreEffect ==
  ASSUME NEW db \in Tables, NEW n \in Name, NEW v \in Tag
  PROVE  /\ After(IndexPhoto(n, v), db) = SetPhoto([db EXCEPT !.changed = @ \ {n}], n, v)
         /\ After(Tail(IndexPhoto(n, v)), db) = SetPhoto(db, n, v)
         /\ After(Tail(Tail(IndexPhoto(n, v))), db) = SetPhoto(db, n, v)
  <1> DEFINE d == [db EXCEPT !.changed = @ \ {n}]
  <1>1. d \in Tables
    BY DEF Tables
  <1>2. Effect(ChangedRemove(n), db) = d
    BY Zenon, EffectOf
  <1> HIDE DEF d
  <1>3. ASSUME NEW e \in Tables
        PROVE  Effect(PhotoTag(n, v), Effect(PhotoInsert(n), e)) = SetPhoto(e, n, v)
    <2>1. Untagged \in Tag \union {NoRow}
      BY DEF Tag
    <2>2. Effect(PhotoTag(n, v), Effect(PhotoInsert(n), e)) = SetPhoto(SetPhoto(e, n, Untagged), n, v)
      BY Zenon, RowEffect
    <2> QED
      BY <2>1, <2>2, SetTwice
  <1>4. ASSUME NEW e \in Tables
        PROVE  Effect(PhotoTag(n, v), Effect(PhotoInsert(n), Effect(PhotoDelete(n), e))) = SetPhoto(e, n, v)
    <2>1. Effect(PhotoDelete(n), e) = SetPhoto(e, n, NoRow) /\ NoRow \in Tag \union {NoRow}
      BY Zenon, RowEffect
    <2>2. SetPhoto(e, n, NoRow) \in Tables
      BY <2>1, SetPhotoType
    <2>3. Effect(PhotoTag(n, v), Effect(PhotoInsert(n), SetPhoto(e, n, NoRow)))
             = SetPhoto(SetPhoto(e, n, NoRow), n, v)
      BY <2>2, <1>3
    <2> QED
      BY <2>1, <2>3, SetTwice
  <1>5. After(IndexPhoto(n, v), db) = SetPhoto(d, n, v)
    <2>1. After(IndexPhoto(n, v), db)
             = Effect(PhotoTag(n, v), Effect(PhotoInsert(n), Effect(PhotoDelete(n), Effect(ChangedRemove(n), db))))
      BY AfterFour DEF IndexPhoto
    <2> QED
      BY Zenon, <1>1, <1>2, <1>4, <2>1
  <1>6. After(Tail(IndexPhoto(n, v)), db) = SetPhoto(db, n, v)
    <2>1. After(Tail(IndexPhoto(n, v)), db)
             = Effect(PhotoTag(n, v), Effect(PhotoInsert(n), Effect(PhotoDelete(n), db)))
      BY Zenon, AfterThree, IndexTails
    <2> QED
      BY <1>4, <2>1
  <1>7. After(Tail(Tail(IndexPhoto(n, v))), db) = SetPhoto(db, n, v)
    <2>1. After(Tail(Tail(IndexPhoto(n, v))), db) = Effect(PhotoTag(n, v), Effect(PhotoInsert(n), db))
      BY Zenon, AfterTwo, IndexTails
    <2> QED
      BY <1>3, <2>1
  <1> QED
    BY <1>5, <1>6, <1>7 DEF d

-----------------------------------------------------------------------------
(* The file against the index.                                             *)

\* Save of PhotoIndex, of the file and the index as values.
Saves(old, now, new) ==
    /\ old.changed \intersect now.changed \subseteq new.changed
    /\ new.changed \subseteq old.changed \union now.changed
    /\ \A n \in Name :
          \/ new.photo[n] \in {old.photo[n], now.photo[n]}
          \/ /\ now.photo[n] # NoRow
             /\ new.photo[n] \in {NoRow, Untagged}
             /\ \A m \in Name \ {n} : new.photo[m] \in {old.photo[m], now.photo[m]}

\* The whole index reaches the file.
LEMMA SavesAll ==
  ASSUME NEW old, NEW now
  PROVE  Saves(old, now, now)
  BY DEF Saves

\* Nothing does.
LEMMA SavesNothing ==
  ASSUME NEW old, NEW now
  PROVE  Saves(old, now, old)
  BY DEF Saves

\* The storing of a photo outside of a transaction, statement by statement.
LEMMA SavesStoring ==
  ASSUME NEW db \in Tables, NEW n \in Name, NEW v \in Tag
  PROVE  /\ Saves(db, SetPhoto([db EXCEPT !.changed = @ \ {n}], n, v), [db EXCEPT !.changed = @ \ {n}])
         /\ Saves(db, SetPhoto(db, n, v), SetPhoto(db, n, NoRow))
         /\ Saves(db, SetPhoto(db, n, v), SetPhoto(db, n, Untagged))
  <1>0. v # NoRow
    BY PhotoDbAssumption DEF Tag
  <1>1. Saves(db, SetPhoto([db EXCEPT !.changed = @ \ {n}], n, v), [db EXCEPT !.changed = @ \ {n}])
    BY DEF Saves, SetPhoto, Tables
  <1>2. Saves(db, SetPhoto(db, n, v), SetPhoto(db, n, NoRow))
    BY <1>0 DEF Saves, SetPhoto, Tables
  <1>3. Saves(db, SetPhoto(db, n, v), SetPhoto(db, n, Untagged))
    BY <1>0 DEF Saves, SetPhoto, Tables
  <1> QED
    BY <1>1, <1>2, <1>3

\* Emptying both tables, of which the first is done.
LEMMA SavesRemoving ==
  ASSUME NEW db \in Tables
  PROVE  /\ After(db_photo_table_remove_all, db) = EmptyTables
         /\ Saves(db, EmptyTables, [db EXCEPT !.changed = {}])
  <1> DEFINE d == [db EXCEPT !.changed = {}]
  <1>1. Effect(ChangedRemoveAll, db) = d
    BY Zenon, EffectOf
  <1>2. Effect(PhotoRemoveAll, d) = [d EXCEPT !.photo = EmptyTables.photo]
    BY DEF Effect, PhotoRemoveAll
  <1>3. [d EXCEPT !.photo = EmptyTables.photo] = EmptyTables
    <2>1. d \in Tables /\ d.changed = {}
      BY DEF Tables
    <2> HIDE DEF d
    <2> DEFINE e == [d EXCEPT !.photo = EmptyTables.photo]
    <2>2. e \in Tables /\ e.changed = {} /\ e.photo = EmptyTables.photo
      BY <2>1, EmptyTablesType DEF Tables
    <2>3. EmptyTables.changed = {}
      BY DEF EmptyTables
    <2> HIDE DEF e
    <2>4. e = EmptyTables
      BY <2>2, <2>3, EmptyTablesType, SameTables
    <2> QED
      BY <2>4 DEF e
  <1>4. After(db_photo_table_remove_all, db) = Effect(PhotoRemoveAll, Effect(ChangedRemoveAll, db))
    BY AfterTwo DEF db_photo_table_remove_all
  <1>5. Saves(db, EmptyTables, d)
    BY DEF Saves, EmptyTables, Tables
  <1> QED
    BY Zenon, <1>1, <1>2, <1>3, <1>4, <1>5

-----------------------------------------------------------------------------
(* What is ahead of the holder of the mutex.                               *)

\* A statement that is neither BEGIN nor END.
LEMMA PlainExec ==
  ASSUME NEW s, s.op \notin {"BEGIN", "END"}, sqlite3_exec(s), ~inTxn => work = durable
  PROVE  /\ work' = Effect(s, work)
         /\ durable' = durable \/ (work = durable /\ durable' = work')
  BY DEF sqlite3_exec

\* Running the next statement of a program leaves one, whose effect is the same; and what
\* it writes to the file PhotoIndex allows.
LEMMA ExecSaves ==
  ASSUME TypeInv, TxnInv, AheadInv, stmts # <<>>, sqlite3_exec(Head(stmts)), stmts' = Tail(stmts)
  PROVE  /\ AheadInv'
         /\ After(stmts', work') = After(stmts, work)
         /\ Saves(durable, After(stmts, work), durable')
  <1> DEFINE Kept  == After(stmts', work') = After(stmts, work)
             Saved == Saves(durable, After(stmts, work), durable')
  <1>0. work \in Tables /\ durable \in Tables /\ (~inTxn => work = durable)
    BY DEF TypeInv, TypeOK, DbTypeOK, TxnInv
  <1>1. ASSUME NEW s \in Statement, stmts = <<s>> PROVE AheadInv' /\ Kept /\ Saved
    <2>1. stmts' = <<>> /\ Head(stmts) = s
      BY <1>1
    <2>2. After(stmts', work') = work' /\ After(stmts, work) = Effect(s, work)
      BY Zenon, <1>1, <2>1, AfterNone, AfterOne
    <2>3. work' = Effect(s, work) /\ durable' \in {durable, work'}
      <3>1. CASE s.op \in {"BEGIN", "END"}
        <4>1. Effect(s, work) = work
          BY <3>1 DEF Effect
        <4> QED
          BY <2>1, <3>1, <4>1 DEF sqlite3_exec, db_transaction_begin, db_transaction_end
      <3>2. CASE s.op \notin {"BEGIN", "END"}
        BY <2>1, <3>2, <1>0, PlainExec
      <3> QED
        BY <3>1, <3>2
    <2> QED
      BY <2>1, <2>2, <2>3, SavesAll, SavesNothing DEF AheadInv
  <1>2. CASE stmts = db_photo_table_remove_all
    <2>1. stmts' = <<PhotoRemoveAll>> /\ Head(stmts) = ChangedRemoveAll
      BY <1>2 DEF db_photo_table_remove_all
    <2>2. ChangedRemoveAll.op \notin {"BEGIN", "END"} /\ PhotoRemoveAll \in Statement
      BY DEF ChangedRemoveAll, Statement
    <2>3. /\ work' = Effect(ChangedRemoveAll, work)
          /\ durable' = durable \/ (work = durable /\ durable' = work')
      BY <2>1, <2>2, <1>0, PlainExec
    <2>4. Effect(ChangedRemoveAll, work) = [work EXCEPT !.changed = {}]
      BY Zenon, EffectOf
    <2>5. Kept
      <3>1. After(stmts', work') = Effect(PhotoRemoveAll, work')
        BY Zenon, <2>1, AfterOne
      <3>2. After(stmts, work) = Effect(PhotoRemoveAll, Effect(ChangedRemoveAll, work))
        BY <1>2, AfterTwo DEF db_photo_table_remove_all
      <3> QED
        BY Zenon, <3>1, <3>2, <2>3
    <2>6. Saved
      BY Zenon, <1>0, <1>2, <2>3, <2>4, SavesRemoving, SavesNothing
    <2> QED
      BY <2>1, <2>2, <2>5, <2>6 DEF AheadInv
  <1>3. ASSUME NEW S \in SUBSET Name, stmts = <<Begin, ChangedAdd(S), End>>
        PROVE  AheadInv' /\ Kept /\ Saved
    <2>1. stmts' = <<ChangedAdd(S), End>> /\ Head(stmts) = Begin
      BY <1>3
    <2>2. work' = work /\ durable' = durable
      BY <2>1 DEF sqlite3_exec, db_transaction_begin, Begin
    <2>3. Effect(Begin, work) = work
      BY Zenon, EffectOf
    <2>4. Kept
      <3>1. After(stmts', work') = Effect(End, Effect(ChangedAdd(S), work))
        BY Zenon, <2>1, <2>2, AfterTwo
      <3>2. After(stmts, work) = Effect(End, Effect(ChangedAdd(S), Effect(Begin, work)))
        BY Zenon, <1>3, AfterThree
      <3> QED
        BY Zenon, <3>1, <3>2, <2>3
    <2> QED
      BY <2>1, <2>2, <2>4, SavesNothing DEF AheadInv
  <1>4. ASSUME NEW S \in SUBSET Name, stmts = <<ChangedAdd(S), End>>
        PROVE  AheadInv' /\ Kept /\ Saved
    <2>1. stmts' = <<End>> /\ Head(stmts) = ChangedAdd(S)
      BY <1>4
    <2>2. ChangedAdd(S).op \notin {"BEGIN", "END"} /\ End \in Statement
      BY DEF ChangedAdd, Statement
    <2>3. /\ work' = Effect(ChangedAdd(S), work)
          /\ durable' = durable \/ (work = durable /\ durable' = work')
      BY <2>1, <2>2, <1>0, PlainExec
    <2>4. After(stmts', work') = work' /\ After(stmts, work) = work'
      <3>1. After(stmts', work') = Effect(End, work')
        BY Zenon, <2>1, AfterOne
      <3>2. After(stmts, work) = Effect(End, Effect(ChangedAdd(S), work))
        BY Zenon, <1>4, AfterTwo
      <3>3. \A db : Effect(End, db) = db
        BY Zenon, EffectOf
      <3> QED
        BY Zenon, <3>1, <3>2, <3>3, <2>3
    <2> QED
      BY <2>1, <2>2, <2>3, <2>4, SavesAll, SavesNothing DEF AheadInv
  <1>5. ASSUME NEW n \in Name, NEW v \in Tag,
               stmts \in {IndexPhoto(n, v), Tail(IndexPhoto(n, v)), Tail(Tail(IndexPhoto(n, v)))}
        PROVE  AheadInv' /\ Kept /\ Saved
    <2>0. /\ {ChangedRemove(n), PhotoDelete(n), PhotoInsert(n), PhotoTag(n, v)} \subseteq Statement
          /\ ChangedRemove(n).op \notin {"BEGIN", "END"}
          /\ PhotoDelete(n).op \notin {"BEGIN", "END"}
          /\ PhotoInsert(n).op \notin {"BEGIN", "END"}
      BY DEF ChangedRemove, PhotoDelete, PhotoInsert, Statement
    <2>1. CASE stmts = IndexPhoto(n, v)
      <3> DEFINE d == [work EXCEPT !.changed = @ \ {n}]
      <3>1. stmts' = Tail(IndexPhoto(n, v)) /\ Head(stmts) = ChangedRemove(n)
        BY <2>1 DEF IndexPhoto
      <3>2. /\ work' = Effect(ChangedRemove(n), work)
            /\ durable' = durable \/ (work = durable /\ durable' = work')
        BY <3>1, <2>0, <1>0, PlainExec
      <3>3. work' = d
        BY Zenon, <3>2, EffectOf
      <3>4. d \in Tables
        BY <1>0 DEF Tables
      <3> HIDE DEF d
      <3>5. After(stmts', work') = SetPhoto(d, n, v)
        BY <3>1, <3>3, <3>4, StoreEffect
      <3>6. After(stmts, work) = SetPhoto(d, n, v)
        BY <2>1, <1>0, StoreEffect DEF d
      <3>7. work = durable => Saves(durable, SetPhoto(d, n, v), d)
        BY <1>0, SavesStoring DEF d
      <3>8. Saved
        BY <3>2, <3>3, <3>6, <3>7, SavesNothing
      <3>9. AheadInv'
        BY <3>1 DEF AheadInv
      <3> QED
        BY <3>5, <3>6, <3>8, <3>9
    <2>2. CASE stmts = Tail(IndexPhoto(n, v))
      <3>1. stmts' = Tail(Tail(IndexPhoto(n, v))) /\ Head(stmts) = PhotoDelete(n)
        BY <2>2 DEF IndexPhoto
      <3>2. /\ work' = Effect(PhotoDelete(n), work)
            /\ durable' = durable \/ (work = durable /\ durable' = work')
        BY <3>1, <2>0, <1>0, PlainExec
      <3>3. work' = SetPhoto(work, n, NoRow)
        BY <3>2, RowEffect
      <3>4. SetPhoto(work, n, NoRow) \in Tables
        BY <1>0, SetPhotoType
      <3>5. After(stmts', work') = SetPhoto(SetPhoto(work, n, NoRow), n, v)
        BY <3>1, <3>3, <3>4, StoreEffect
      <3>6. After(stmts, work) = SetPhoto(work, n, v)
        BY <2>2, <1>0, StoreEffect
      <3>7. SetPhoto(SetPhoto(work, n, NoRow), n, v) = SetPhoto(work, n, v)
        BY <1>0, SetTwice
      <3>8. Saved
        BY <1>0, <3>2, <3>3, <3>6, SavesStoring, SavesNothing
      <3>9. AheadInv'
        BY <3>1 DEF AheadInv
      <3> QED
        BY <3>5, <3>6, <3>7, <3>8, <3>9
    <2>3. CASE stmts = Tail(Tail(IndexPhoto(n, v)))
      <3>1. stmts' = <<PhotoTag(n, v)>> /\ Head(stmts) = PhotoInsert(n)
        BY <2>3 DEF IndexPhoto
      <3>2. /\ work' = Effect(PhotoInsert(n), work)
            /\ durable' = durable \/ (work = durable /\ durable' = work')
        BY <3>1, <2>0, <1>0, PlainExec
      <3>3. work' = SetPhoto(work, n, Untagged)
        BY <3>2, RowEffect
      <3>4. After(stmts', work') = Effect(PhotoTag(n, v), work')
        BY Zenon, <3>1, AfterOne
      <3>5. After(stmts', work') = SetPhoto(SetPhoto(work, n, Untagged), n, v)
        BY <3>3, <3>4, RowEffect
      <3>6. After(stmts, work) = SetPhoto(work, n, v)
        BY <2>3, <1>0, StoreEffect
      <3>7. SetPhoto(SetPhoto(work, n, Untagged), n, v) = SetPhoto(work, n, v)
        BY <1>0, SetTwice DEF Tag
      <3>8. Saved
        BY <1>0, <3>2, <3>3, <3>6, SavesStoring, SavesNothing
      <3>9. AheadInv'
        BY <3>1, <2>0 DEF AheadInv
      <3> QED
        BY <3>5, <3>6, <3>7, <3>8, <3>9
    <2> QED
      BY <1>5, <2>1, <2>2, <2>3
  <1> QED
    BY <1>1, <1>2, <1>3, <1>4, <1>5 DEF AheadInv

-----------------------------------------------------------------------------
(* Steps of the library as steps of PhotoIndex.                            *)

IndexNext == [Index!Next]_<<After(stmts, work), durable>>

\* Save, in terms of the file and the index.
LEMMA SaveMaps ==
  ASSUME After(stmts', work') = After(stmts, work), Saves(durable, After(stmts, work), durable')
  PROVE  IndexNext
  <1>1. Index!Save
    BY DEF Index!Save, Index!Whole, Index!HalfStored, Saves
  <1> QED
    BY <1>1 DEF IndexNext, Index!Next

\* A step that leaves the tables and the statements alone.
LEMMA QuietMaps ==
  ASSUME UNCHANGED <<stmts, work, durable>>
  PROVE  IndexNext /\ (AheadInv => AheadInv')
  BY DEF IndexNext, AheadInv

\* The holder of the mutex gets the program prog, whose effect on the tables is a call.
LEMMA CallMaps ==
  ASSUME TypeInv, NEW prog, stmts = <<>>, stmts' = prog, UNCHANGED <<work, durable>>,
         LET now == After(prog, work)
         IN  \/ now = work
             \/ \E S \in SUBSET Name : now = [work EXCEPT !.changed = @ \union S]
             \/ now = EmptyTables
             \/ \E n \in Name : now = SetPhoto(work, n, NoRow)
             \/ \E n \in Name : now = [work EXCEPT !.changed = @ \ {n}]
             \/ \E n, m \in Name : now = db_photo_table_move(work, n, m)
             \/ \E n \in Name, v \in Tag : now = SetPhoto([work EXCEPT !.changed = @ \ {n}], n, v)
  PROVE  IndexNext
  <1> DEFINE now == After(prog, work)
  <1>0. work \in Tables
    BY DEF TypeInv, TypeOK, DbTypeOK
  <1>1. After(stmts, work) = work /\ After(stmts', work') = now
    BY Zenon, AfterNone
  <1> HIDE DEF now
  <1>2. CASE now = work
    BY <1>1, <1>2 DEF IndexNext
  <1>3. ASSUME NEW S \in SUBSET Name, now = [work EXCEPT !.changed = @ \union S] PROVE IndexNext
    <2>1. Index!Wait(S)
      BY <1>1, <1>3 DEF Index!Wait
    <2> QED
      BY <2>1 DEF IndexNext, Index!Next, Index!Call
  <1>4. CASE now = EmptyTables
    <2>1. Index!ForgetAll
      BY <1>1, <1>4 DEF Index!ForgetAll, Index!Nothing, EmptyTables
    <2> QED
      BY <2>1 DEF IndexNext, Index!Next, Index!Call
  <1>5. ASSUME NEW n \in Name, now = SetPhoto(work, n, NoRow) PROVE IndexNext
    <2>1. Index!Forget(n)
      BY <1>1, <1>5 DEF Index!Forget, SetPhoto
    <2> QED
      BY <2>1 DEF IndexNext, Index!Next, Index!Call
  <1>6. ASSUME NEW n \in Name, now = [work EXCEPT !.changed = @ \ {n}] PROVE IndexNext
    <2>1. Index!Skip(n)
      BY <1>1, <1>6 DEF Index!Skip
    <2> QED
      BY <2>1 DEF IndexNext, Index!Next, Index!Call
  <1>7. ASSUME NEW n \in Name, NEW m \in Name, now = db_photo_table_move(work, n, m) PROVE IndexNext
    <2>1. CASE work.photo[n] = NoRow \/ (m # n /\ work.photo[m] # NoRow)
      BY <1>7, <1>2, <2>1 DEF db_photo_table_move
    <2>2. CASE ~(work.photo[n] = NoRow \/ (m # n /\ work.photo[m] # NoRow))
      <3>1. now = SetPhoto(SetPhoto(work, n, NoRow), m, work.photo[n])
        BY <1>7, <2>2 DEF db_photo_table_move
      <3>2. Index!Rename(n, m)
        BY <1>0, <1>1, <2>2, <3>1 DEF Index!Rename, SetPhoto, Tables
      <3> QED
        BY <3>2 DEF IndexNext, Index!Next, Index!Call
    <2> QED
      BY <2>1, <2>2
  <1>8. ASSUME NEW n \in Name, NEW v \in Tag, now = SetPhoto([work EXCEPT !.changed = @ \ {n}], n, v)
        PROVE  IndexNext
    <2>1. Index!Store(n, v)
      BY <1>0, <1>1, <1>8 DEF Index!Store, SetPhoto, Tables
    <2> QED
      BY <2>1 DEF IndexNext, Index!Next, Index!Call, Tag
  <1> QED
    BY <1>2, <1>3, <1>4, <1>5, <1>6, <1>7, <1>8 DEF now

\* The calls that take the mutex and run statements.
LEMMA DbCallIndex ==
  ASSUME TypeInv, NEW c \in Client,
         \/ \E n \in Name : ccai_sp_add_file(c, n)
         \/ \E S \in SUBSET Name : ccai_sp_add_dir(c, S)
         \/ \E n \in Name : ccai_sp_remove_file(c, n)
         \/ ccai_sp_remove_all_file(c)
         \/ \E n, m \in Name : ccai_sp_move_file(c, n, m)
         \/ \E n \in Name, v \in Tag : ccai_sp_scan_file_buffer(c, n, v)
  PROVE  AheadInv' /\ IndexNext
  <1>0. work \in Tables
    BY DEF TypeInv, TypeOK, DbTypeOK
  <1>1. ASSUME NEW prog, RunLocked(c, prog)
        PROVE  stmts = <<>> /\ stmts' = prog /\ UNCHANGED <<work, durable>>
    BY <1>1 DEF RunLocked, Lock, dbVars, TypeInv, MutexInv
  <1>2. ASSUME NEW n \in Name, ccai_sp_add_file(c, n) PROVE AheadInv' /\ IndexNext
    <2> DEFINE S == {realpath[n]}
    <2>0. S \in SUBSET Name
      BY SmartPhotoAssumption
    <2>1. RunLocked(c, <<ChangedAdd(S)>>)
      BY <1>2 DEF ccai_sp_add_file
    <2> HIDE DEF S
    <2>2. After(<<ChangedAdd(S)>>, work) = [work EXCEPT !.changed = @ \union S]
      <3>1. After(<<ChangedAdd(S)>>, work) = Effect(ChangedAdd(S), work)
        BY AfterOne
      <3>2. Effect(ChangedAdd(S), work) = [work EXCEPT !.changed = @ \union S]
        BY Zenon, EffectOf
      <3> QED
        BY <3>1, <3>2
    <2>3. AheadInv'
      BY <2>0, <2>1, <1>1 DEF AheadInv, Statement
    <2> QED
      BY <2>0, <2>1, <2>2, <2>3, <1>1, CallMaps
  <1>3. ASSUME NEW T \in SUBSET Name, ccai_sp_add_dir(c, T) PROVE AheadInv' /\ IndexNext
    <2> DEFINE S == {realpath[n] : n \in T}
    <2>0. S \in SUBSET Name
      BY SmartPhotoAssumption
    <2>1. RunLocked(c, <<Begin, ChangedAdd(S), End>>)
      BY <1>3 DEF ccai_sp_add_dir
    <2> HIDE DEF S
    <2>2. After(<<Begin, ChangedAdd(S), End>>, work) = [work EXCEPT !.changed = @ \union S]
      <3>1. After(<<Begin, ChangedAdd(S), End>>, work)
               = Effect(End, Effect(ChangedAdd(S), Effect(Begin, work)))
        BY Zenon, AfterThree
      <3>2. \A db : Effect(End, db) = db /\ Effect(Begin, db) = db
        BY Zenon, EffectOf
      <3>3. Effect(ChangedAdd(S), work) = [work EXCEPT !.changed = @ \union S]
        BY Zenon, EffectOf
      <3> QED
        BY Zenon, <3>1, <3>2, <3>3
    <2>3. AheadInv'
      BY <2>0, <2>1, <1>1 DEF AheadInv
    <2> QED
      BY <2>0, <2>1, <2>2, <2>3, <1>1, CallMaps
  <1>4. ASSUME NEW n \in Name, ccai_sp_remove_file(c, n) PROVE AheadInv' /\ IndexNext
    <2>1. RunLocked(c, <<PhotoDelete(n)>>)
      BY <1>4 DEF ccai_sp_remove_file
    <2>2. After(<<PhotoDelete(n)>>, work) = SetPhoto(work, n, NoRow)
      <3>1. After(<<PhotoDelete(n)>>, work) = Effect(PhotoDelete(n), work)
        BY AfterOne
      <3>2. Effect(PhotoDelete(n), work) = SetPhoto(work, n, NoRow)
        BY RowEffect
      <3> QED
        BY <3>1, <3>2
    <2>3. AheadInv'
      BY <2>1, <1>1 DEF AheadInv, Statement
    <2> QED
      BY <2>1, <2>2, <2>3, <1>1, CallMaps
  <1>5. CASE ccai_sp_remove_all_file(c)
    <2>1. RunLocked(c, db_photo_table_remove_all)
      BY <1>5 DEF ccai_sp_remove_all_file
    <2>2. After(db_photo_table_remove_all, work) = EmptyTables
      BY <1>0, SavesRemoving
    <2>3. AheadInv'
      BY <2>1, <1>1 DEF AheadInv
    <2> QED
      BY <2>1, <2>2, <2>3, <1>1, CallMaps
  <1>6. ASSUME NEW n \in Name, NEW m \in Name, ccai_sp_move_file(c, n, m) PROVE AheadInv' /\ IndexNext
    <2>1. RunLocked(c, <<PhotoMove(n, m)>>)
      BY <1>6 DEF ccai_sp_move_file
    <2>2. After(<<PhotoMove(n, m)>>, work) = db_photo_table_move(work, n, m)
      <3>1. After(<<PhotoMove(n, m)>>, work) = Effect(PhotoMove(n, m), work)
        BY AfterOne
      <3>2. Effect(PhotoMove(n, m), work) = db_photo_table_move(work, n, m)
        BY DEF Effect, PhotoMove
      <3> QED
        BY <3>1, <3>2
    <2>3. AheadInv'
      BY <2>1, <1>1 DEF AheadInv, Statement
    <2> QED
      BY <2>1, <2>2, <2>3, <1>1, CallMaps
  <1>7. ASSUME NEW n \in Name, NEW v \in Tag, ccai_sp_scan_file_buffer(c, n, v)
        PROVE  AheadInv' /\ IndexNext
    <2>1. RunLocked(c, IndexPhoto(n, v))
      BY <1>7 DEF ccai_sp_scan_file_buffer
    <2>2. After(IndexPhoto(n, v), work) = SetPhoto([work EXCEPT !.changed = @ \ {n}], n, v)
      BY <1>0, StoreEffect
    <2>3. AheadInv'
      BY <2>1, <1>1 DEF AheadInv
    <2> QED
      BY <2>1, <2>2, <2>3, <1>1, CallMaps
  <1> QED
    BY <1>2, <1>3, <1>4, <1>5, <1>6, <1>7

\* An open transaction is rolled back while nobody holds the mutex, or everybody dies.
LEMMA LoseMaps ==
  ASSUME Rollback, stmts' = <<>>
  PROVE  AheadInv' /\ IndexNext
  <1>1. After(stmts', work') = durable /\ UNCHANGED durable
    BY AfterNone DEF Rollback
  <1>2. Index!Lose
    BY <1>1 DEF Index!Lose
  <1> QED
    BY <1>2 DEF IndexNext, Index!Next, AheadInv

\* The other steps of a client.
LEMMA ClientIndex ==
  ASSUME TypeInv, TxnInv, AheadInv, NEW c \in Client,
         \/ ccai_sp_scan(c) \/ ccai_sp_stop_scan(c) \/ ccai_sp_wait_scan(c)
         \/ ccai_sp_release(c) \/ ClientStep(c)
  PROVE  AheadInv' /\ IndexNext
  <1>1. CASE \/ ccai_sp_scan(c) \/ ccai_sp_stop_scan(c) \/ ccai_sp_wait_scan(c) \/ ccai_sp_release(c)
             \/ JoinBegin(c) \/ JoinEnd(c)
    <2>1. UNCHANGED <<stmts, work, durable>>
      BY <1>1 DEF ccai_sp_scan, ccai_sp_stop_scan, ccai_sp_wait_scan, ccai_sp_release, StopRequest,
                  JoinBegin, JoinEnd, dbVars
    <2> QED
      BY <2>1, QuietMaps
  <1>2. CASE ClientExec(c)
    <2>1. stmts # <<>> /\ sqlite3_exec(Head(stmts)) /\ stmts' = Tail(stmts)
      BY <1>2 DEF ClientExec, TypeInv, MutexInv
    <2> QED
      BY <2>1, ExecSaves, SaveMaps
  <1>3. CASE ReleaseFinit(c)
    <2>1. Rollback /\ stmts' = <<>>
      BY <1>3 DEF ReleaseFinit, TypeInv, MutexInv
    <2> QED
      BY <2>1, LoseMaps
  <1> QED
    BY <1>1, <1>2, <1>3 DEF ClientStep

\* The steps of a scan thread.
LEMMA ThreadIndex ==
  ASSUME TypeInv, TxnInv, AheadInv, NEW t \in Thread, ThreadStep(t)
  PROVE  AheadInv' /\ IndexNext
  <1>0. work \in Tables
    BY DEF TypeInv, TypeOK, DbTypeOK
  <1>1. CASE ScanLock(t) \/ ScanCollect(t) \/ ScanExit(t) \/ ScanNext(t) \/ ScanInfer(t)
    <2>1. UNCHANGED <<stmts, work, durable>>
      BY <1>1 DEF ScanLock, ScanCollect, ScanExit, ScanNext, ScanInfer, db_transaction_begin, dbVars
    <2> QED
      BY <2>1, QuietMaps
  <1>2. CASE ScanRelock(t)
    <2>1. stmts = <<>> /\ UNCHANGED <<work, durable>> /\ cur[t] \in Name
      BY <1>2 DEF ScanRelock, Lock, dbVars, TypeInv, MutexInv, CurInv
    <2>2. CASE img[t] \in Tag
      <3>1. stmts' = IndexPhoto(cur[t], img[t])
        BY <1>2, <2>2 DEF ScanRelock
      <3>2. After(IndexPhoto(cur[t], img[t]), work)
               = SetPhoto([work EXCEPT !.changed = @ \ {cur[t]}], cur[t], img[t])
        BY <1>0, <2>1, <2>2, StoreEffect
      <3>3. AheadInv'
        BY <2>1, <2>2, <3>1 DEF AheadInv
      <3> QED
        BY <2>1, <2>2, <3>1, <3>2, <3>3, CallMaps
    <2>3. CASE img[t] \notin Tag
      <3>1. stmts' = <<ChangedRemove(cur[t])>>
        BY <1>2, <2>3 DEF ScanRelock
      <3>2. After(<<ChangedRemove(cur[t])>>, work) = [work EXCEPT !.changed = @ \ {cur[t]}]
        <4>1. After(<<ChangedRemove(cur[t])>>, work) = Effect(ChangedRemove(cur[t]), work)
          BY AfterOne
        <4>2. Effect(ChangedRemove(cur[t]), work) = [work EXCEPT !.changed = @ \ {cur[t]}]
          BY Zenon, EffectOf
        <4> QED
          BY <4>1, <4>2
      <3>3. AheadInv'
        BY <2>1, <3>1 DEF AheadInv, Statement
      <3> QED
        BY <2>1, <3>1, <3>2, <3>3, CallMaps
    <2> QED
      BY <2>2, <2>3
  <1>3. CASE ScanExec(t)
    <2>1. stmts # <<>> /\ sqlite3_exec(Head(stmts)) /\ stmts' = Tail(stmts)
      BY <1>3 DEF ScanExec, TypeInv, MutexInv
    <2> QED
      BY <2>1, ExecSaves, SaveMaps
  <1>4. CASE ScanEnd(t)
    <2>1. stmts = <<>> /\ stmts' = <<>> /\ work' = work /\ durable' = work
      BY <1>4 DEF ScanEnd, db_transaction_end, TypeInv, MutexInv
    <2>2. After(stmts', work') = After(stmts, work) /\ After(stmts, work) = work
      BY Zenon, <2>1, AfterNone
    <2> QED
      BY <2>1, <2>2, SavesAll, SaveMaps DEF AheadInv
  <1> QED
    BY <1>1, <1>2, <1>3, <1>4 DEF ThreadStep

\* Every step of the library is a step of PhotoIndex, or leaves what it sees alone.
LEMMA NextIndex ==
  TypeInv /\ TxnInv /\ AheadInv /\ [Next]_vars => AheadInv' /\ IndexNext
  <1> SUFFICES ASSUME TypeInv, TxnInv, AheadInv, [Next]_vars PROVE AheadInv' /\ IndexNext
    OBVIOUS
  <1>1. ASSUME NEW c \in Client, ClientCall(c) \/ ClientStep(c) PROVE AheadInv' /\ IndexNext
    BY <1>1, DbCallIndex, ClientIndex DEF ClientCall
  <1>2. ASSUME NEW t \in Thread, ThreadStep(t) PROVE AheadInv' /\ IndexNext
    BY <1>2, ThreadIndex
  <1>3. CASE Environment
    <2>1. CASE Crash
      <3>1. Rollback /\ stmts' = <<>>
        BY <2>1 DEF Crash
      <3> QED
        BY <3>1, LoseMaps
    <2>2. CASE ccai_sp_init \/ \E n \in Name, content \in Content : DiskChange(n, content)
      <3>1. UNCHANGED <<stmts, work, durable>>
        BY <2>2 DEF ccai_sp_init, DiskChange, dbVars
      <3> QED
        BY <3>1, QuietMaps
    <2> QED
      BY <1>3, <2>1, <2>2 DEF Environment
  <1>4. CASE UNCHANGED vars
    <2>1. UNCHANGED <<stmts, work, durable>>
      BY <1>4 DEF vars, dbVars
    <2> QED
      BY <2>1, QuietMaps
  <1> QED
    BY <1>1, <1>2, <1>3, <1>4 DEF Next

\* For any clients, scan threads, photos, calls and kills, the library implements PhotoIndex:
\* each call and each storing of a scanned photo is one step for the others, though it runs
\* several statements and the scan's transaction is open across calls, and of what the file
\* has after a kill only the row of one photo may be neither the old nor the new one.
THEOREM CallsImplementIndex == Spec => CallsAtomic
  <1> DEFINE IInv == TypeInv /\ TxnInv /\ AheadInv
  <1>1. Init => IInv /\ Index!Init
    <2>1. Init => IInv
      BY InitType, InitTxn DEF Init, AheadInv
    <2>2. ASSUME Init PROVE Index!Init
      <3>1. After(stmts, work) = EmptyTables /\ durable = EmptyTables
        BY <2>2, AfterNone DEF Init, DbInit
      <3> QED
        BY <3>1 DEF Index!Init, Index!Nothing, EmptyTables
    <2> QED
      BY <2>1, <2>2
  <1>2. IInv /\ [Next]_vars => IInv' /\ [Index!Next]_<<After(stmts, work), durable>>
    BY NextType, NextTxn, NextIndex DEF IndexNext
  <1> QED
    BY <1>1, <1>2, PTL DEF Spec, CallsAtomic, Index!Spec
=============================================================================
