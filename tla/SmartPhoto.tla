------------------------------ MODULE SmartPhoto ------------------------------
(***************************************************************************)
(* The smart-photo library (smart-photo/smart_photo.cpp): API calls made   *)
(* by client threads, the background scan thread they start and stop, the  *)
(* files on disk that the scan reads, and the death of the whole process.  *)
(*                                                                         *)
(* Whatever runs under smart_photo.mutex is atomic for the other threads,  *)
(* but not for a kill: the holder of the mutex carries the SQL statements  *)
(* it still has to run in stmts and runs them one step at a time.  The     *)
(* scan thread gives up the mutex, inside an open transaction, while it    *)
(* decodes a photo and runs inference on it.                               *)
(***************************************************************************)
EXTENDS PhotoDb

CONSTANTS Client,     \* threads that call the library
          Thread,     \* the scan threads the process can have at one time
          Nobody,     \* the mutex is free
          NoThread,   \* scan_thread holds the id of no thread
          NoName,     \* no photo
          NoFile,     \* no file of this name
          NotImage,   \* a file that OpenCV cannot decode
          realpath,   \* the canonical name of a name
          Calls,      \* the API functions that clients use
          CanDie      \* whether the process may be killed

Content == Version \union {NoFile, NotImage}

CallName == {"add_dir", "add_file", "remove_file", "remove_all_file", "move_file",
             "scan_file_buffer", "scan", "stop_scan", "wait_scan", "release"}

ASSUME SmartPhotoAssumption ==
    /\ Client \intersect Thread = {}
    /\ Nobody \notin Client \union Thread
    /\ NoThread \notin Thread
    /\ NoFile # NotImage
    /\ {NoFile, NotImage} \intersect Tag = {}
    /\ NoName \notin Name
    /\ realpath \in [Name -> Name]
    /\ \A n \in Name : realpath[realpath[n]] = realpath[n]
    /\ Calls \subseteq CallName
    /\ CanDie \in BOOLEAN

VARIABLES mutex,            \* smart_photo.mutex: its holder
          stmts,            \* statements the holder has still to run
          scan_runing,      \* smart_photo.scan_runing
          scan_thread,      \* smart_photo.scan_thread
          changed_photos,   \* smart_photo.changed_photos (in no specified order)
          failed,           \* history: the last pthread_create failed
          tpc,              \* where each scan thread is
          todo,             \* the photos its loop over changed_photos has ahead
          cur,              \* the photo it is working on
          img,              \* what imread and inference made of it
          cpc,              \* where each client is
          target,           \* the thread a client joins
          disk,             \* the files
          up                \* "up", "freed" (ccai_sp_release) or "down"

libVars  == <<scan_runing, scan_thread, changed_photos, failed>>
thrVars  == <<tpc, todo, cur, img>>
cliVars  == <<cpc, target>>
vars == <<dbVars, mutex, stmts, libVars, thrVars, cliVars, disk, up>>

TPc == {"none", "start", "top", "iter", "infer", "relock", "exec", "done"}

CPc == {"idle", "exec", "stopped", "waiting", "stopJoin", "waitJoin",
        "relStopped", "relJoin", "finit"}

\* A thread that has been created and has not yet left the mutex for good.
Active(t) == tpc[t] \notin {"none", "done"}

\* It runs the for loop over changed_photos, inside its transaction.
InBatch(t) == tpc[t] \in {"iter", "infer", "relock", "exec"}

Init ==
    /\ DbInit
    /\ mutex = Nobody
    /\ stmts = <<>>
    /\ scan_runing = FALSE
    /\ scan_thread = NoThread
    /\ changed_photos = {}
    /\ failed = FALSE
    /\ tpc = [t \in Thread |-> "none"]
    /\ todo = [t \in Thread |-> {}]
    /\ cur = [t \in Thread |-> NoName]
    /\ img = [t \in Thread |-> NoFile]
    /\ cpc = [c \in Client |-> "idle"]
    /\ target = [c \in Client |-> NoThread]
    /\ disk = [n \in Name |-> NoFile]
    /\ up = "up"

-----------------------------------------------------------------------------
(* Calls that only run SQL statements, all of them under the mutex.        *)

Lock(a) == /\ up = "up"
           /\ mutex = Nobody
           /\ mutex' = a

Calling(c, f) == /\ cpc[c] = "idle"
                 /\ f \in Calls

\* smart_photo_auto_lock, then the statements of the call.
RunLocked(c, prog) ==
    /\ Lock(c)
    /\ stmts' = prog
    /\ cpc' = [cpc EXCEPT ![c] = "exec"]
    /\ UNCHANGED <<dbVars, libVars, thrVars, target, disk, up>>

\* add_photo stores the canonical name; realpath fails for a missing file and
\* the call returns -1 having done nothing.
ccai_sp_add_file(c, n) ==
    /\ Calling(c, "add_file")
    /\ disk[realpath[n]] # NoFile
    /\ RunLocked(c, <<ChangedAdd({realpath[n]})>>)

\* The directory holds the files S; the whole walk is meant to be one
\* transaction.
ccai_sp_add_dir(c, S) ==
    /\ Calling(c, "add_dir")
    /\ \A n \in S : disk[realpath[n]] # NoFile
    /\ RunLocked(c, <<Begin, ChangedAdd({realpath[n] : n \in S}), End>>)

ccai_sp_remove_file(c, n) ==
    /\ Calling(c, "remove_file")
    /\ RunLocked(c, <<PhotoDelete(n)>>)

ccai_sp_remove_all_file(c) ==
    /\ Calling(c, "remove_all_file")
    /\ RunLocked(c, db_photo_table_remove_all)

ccai_sp_move_file(c, n, m) ==
    /\ Calling(c, "move_file")
    /\ RunLocked(c, <<PhotoMove(n, m)>>)

\* What is written for a photo after inference gave it the tags v: first it is
\* taken off the waiting list, then its row is replaced (db_photo_table_add), then
\* come the rows of object_to_db and face_id_to_db.
IndexPhoto(n, v) ==
    <<ChangedRemove(n), PhotoDelete(n), PhotoInsert(n), PhotoTag(n, v)>>

\* A photo handed over in memory; decoding and inference come before the lock
\* and read nothing shared.  Failed inference leaves it untagged.
ccai_sp_scan_file_buffer(c, n, v) ==
    /\ Calling(c, "scan_file_buffer")
    /\ RunLocked(c, IndexPhoto(n, v))

\* Runs the next statement; after the last one the lock_guard gives up the mutex.
ClientExec(c) ==
    /\ up = "up"
    /\ mutex = c
    /\ sqlite3_exec(Head(stmts))
    /\ stmts' = Tail(stmts)
    /\ IF Len(stmts) = 1
       THEN mutex' = Nobody /\ cpc' = [cpc EXCEPT ![c] = "idle"]
       ELSE UNCHANGED <<mutex, cpc>>
    /\ UNCHANGED <<libVars, thrVars, target, disk, up>>

-----------------------------------------------------------------------------
(* Starting, stopping and awaiting the scan.                               *)

\* Mutant: the flag is not looked at.
ScanUnchecked(c) ==
    /\ Calling(c, "scan")
    /\ up = "up"
    /\ mutex = Nobody
    /\ scan_runing' = TRUE
    /\ \E t \in Thread :
          /\ tpc[t] = "none"
          /\ scan_thread' = t
          /\ tpc' = [tpc EXCEPT ![t] = "start"]
    /\ UNCHANGED <<dbVars, mutex, stmts, changed_photos, failed, todo, cur, img, cliVars, disk, up>>

\* pthread_create takes a thread id that is free; an ended thread keeps its id
\* until somebody joins it.
CreateThread ==
    \E t \in Thread :
       /\ tpc[t] = "none"
       /\ scan_thread' = t
       /\ tpc' = [tpc EXCEPT ![t] = "start"]
       /\ failed' = FALSE

\* It may fail at any time and nobody looks.  scan_thread is then undefined: what it
\* was, or an id that no thread has (glibc stores it before the thread is made).
CreateFails ==
    /\ scan_thread' \in {scan_thread, NoThread}
    /\ failed' = TRUE
    /\ UNCHANGED tpc

ccai_sp_scan(c) ==
    /\ Calling(c, "scan")
    /\ up = "up"
    /\ mutex = Nobody
    /\ scan_runing' = TRUE
    /\ \/ scan_runing /\ UNCHANGED <<scan_thread, tpc, failed>>
       \/ ~scan_runing /\ CreateThread
       \/ ~scan_runing /\ CreateFails
    /\ UNCHANGED <<dbVars, mutex, stmts, changed_photos, todo, cur, img, cliVars, disk, up>>

\* First half of ccai_sp_stop_scan, for itself and for ccai_sp_release: clears
\* the flag under the mutex; nothing to do (-1) when no scan runs.
StopRequest(c, running, notRunning) ==
    /\ up = "up"
    /\ mutex = Nobody
    /\ scan_runing' = FALSE
    /\ cpc' = [cpc EXCEPT ![c] = IF scan_runing THEN running ELSE notRunning]
    /\ UNCHANGED <<dbVars, mutex, stmts, scan_thread, changed_photos, failed, thrVars, target, disk, up>>

\* Mutant: joins also when no scan runs.
StopAlwaysJoins(c) ==
    /\ Calling(c, "stop_scan")
    /\ StopRequest(c, "stopped", "stopped")

\* Mutant: clears the flag and does not wait for the thread.
StopNoJoin(c) ==
    /\ Calling(c, "stop_scan")
    /\ StopRequest(c, "idle", "idle")

ccai_sp_stop_scan(c) ==
    /\ Calling(c, "stop_scan")
    /\ StopRequest(c, "stopped", "idle")

ccai_sp_wait_scan(c) ==
    /\ Calling(c, "wait_scan")
    /\ up = "up"
    /\ mutex = Nobody
    /\ cpc' = [cpc EXCEPT ![c] = IF scan_runing THEN "waiting" ELSE "idle"]
    /\ UNCHANGED <<dbVars, mutex, stmts, libVars, thrVars, target, disk, up>>

\* pthread_join(sp->scan_thread): the field is read after the mutex was given up.
JoinBegin(c) ==
    /\ up = "up"
    /\ cpc[c] \in {"stopped", "waiting", "relStopped"}
    /\ cpc' = [cpc EXCEPT ![c] = CASE @ = "stopped" -> "stopJoin"
                                   [] @ = "waiting" -> "waitJoin"
                                   [] OTHER         -> "relJoin"]
    /\ target' = [target EXCEPT ![c] = scan_thread]
    /\ UNCHANGED <<dbVars, mutex, stmts, libVars, thrVars, disk, up>>

Joining(c) == cpc[c] \in {"stopJoin", "waitJoin", "relJoin"}

\* The join returns once the thread has ended, and frees its id.  (For a thread
\* that was joined already or never ran pthread_join is undefined: it returns, or
\* the process dies, as it may at any time.)
JoinEnd(c) ==
    /\ up = "up"
    /\ Joining(c)
    /\ target[c] \in Thread => ~Active(target[c])
    /\ tpc' = [t \in Thread |-> IF t = target[c] THEN "none" ELSE tpc[t]]
    /\ cpc' = [cpc EXCEPT ![c] = IF @ = "relJoin" THEN "finit" ELSE "idle"]
    /\ target' = [target EXCEPT ![c] = NoThread]
    /\ UNCHANGED <<dbVars, mutex, stmts, libVars, todo, cur, img, disk, up>>

\* Mutant: frees the handle without waiting for the thread.
ReleaseNoJoin(c) ==
    /\ Calling(c, "release")
    /\ StopRequest(c, "finit", "finit")

\* ccai_sp_release stops the scan, closes the database and frees the handle.
ccai_sp_release(c) ==
    /\ Calling(c, "release")
    /\ StopRequest(c, "relStopped", "finit")

ReleaseFinit(c) ==
    /\ up = "up"
    /\ cpc[c] = "finit"
    /\ mutex = Nobody
    /\ Rollback
    /\ up' = "freed"
    /\ cpc' = [cpc EXCEPT ![c] = "idle"]
    /\ UNCHANGED <<mutex, stmts, libVars, thrVars, target, disk>>

-----------------------------------------------------------------------------
(* scan_thread.                                                            *)

ScanLock(t) ==
    /\ tpc[t] = "start"
    /\ Lock(t)
    /\ tpc' = [tpc EXCEPT ![t] = "top"]
    /\ UNCHANGED <<dbVars, stmts, libVars, todo, cur, img, cliVars, disk, up>>

\* Mutant: no transaction around the batch.
CollectNoBegin(t) ==
    /\ up = "up"
    /\ tpc[t] = "top"
    /\ scan_runing
    /\ changed_photos' = changed_photos \union work.changed
    /\ changed_photos' # {}
    /\ todo' = [todo EXCEPT ![t] = changed_photos']
    /\ tpc' = [tpc EXCEPT ![t] = "iter"]
    /\ UNCHANGED <<dbVars, mutex, stmts, scan_runing, scan_thread, failed, cur, img, cliVars, disk, up>>

\* Top of the while loop: collect what waits and open a transaction.
ScanCollect(t) ==
    /\ up = "up"
    /\ tpc[t] = "top"
    /\ scan_runing
    /\ changed_photos' = changed_photos \union work.changed
    /\ changed_photos' # {}
    /\ todo' = [todo EXCEPT ![t] = changed_photos']
    /\ db_transaction_begin
    /\ tpc' = [tpc EXCEPT ![t] = "iter"]
    /\ UNCHANGED <<mutex, stmts, scan_runing, scan_thread, failed, cur, img, cliVars, disk, up>>

\* Mutant: ends only when told to.
ExitOnlyStopped(t) ==
    /\ up = "up"
    /\ tpc[t] = "top"
    /\ ~scan_runing
    /\ mutex' = Nobody
    /\ tpc' = [tpc EXCEPT ![t] = "done"]
    /\ UNCHANGED <<dbVars, stmts, libVars, todo, cur, img, cliVars, disk, up>>

\* Mutant: the flag is not reset.
ExitKeepsFlag(t) ==
    /\ up = "up"
    /\ tpc[t] = "top"
    /\ scan_runing => changed_photos \union work.changed = {}
    /\ mutex' = Nobody
    /\ tpc' = [tpc EXCEPT ![t] = "done"]
    /\ UNCHANGED <<dbVars, stmts, libVars, todo, cur, img, cliVars, disk, up>>

\* Told to stop, or nothing waits: the flag is cleared before the mutex is given up.
ScanExit(t) ==
    /\ up = "up"
    /\ tpc[t] = "top"
    /\ scan_runing => changed_photos \union work.changed = {}
    /\ scan_runing' = FALSE
    /\ mutex' = Nobody
    /\ tpc' = [tpc EXCEPT ![t] = "done"]
    /\ UNCHANGED <<dbVars, stmts, scan_thread, changed_photos, failed, todo, cur, img, cliVars, disk, up>>

\* The next photo of the loop; the mutex is given up for the time it takes.
ScanNext(t) ==
    /\ up = "up"
    /\ tpc[t] = "iter"
    /\ scan_runing
    /\ \E n \in todo[t] :
          /\ cur' = [cur EXCEPT ![t] = n]
          /\ todo' = [todo EXCEPT ![t] = @ \ {n}]
    /\ mutex' = Nobody
    /\ tpc' = [tpc EXCEPT ![t] = "infer"]
    /\ UNCHANGED <<dbVars, stmts, libVars, img, cliVars, disk, up>>

\* imread, face_detection and segmentation.  A failed inference is not looked
\* at: the photo is indexed without tags.
ScanInfer(t) ==
    /\ up = "up"
    /\ tpc[t] = "infer"
    /\ LET content == disk[cur[t]]
       IN  \E r \in IF content \in Version THEN {content, Untagged} ELSE {content} :
              img' = [img EXCEPT ![t] = r]
    /\ tpc' = [tpc EXCEPT ![t] = "relock"]
    /\ UNCHANGED <<dbVars, mutex, stmts, libVars, todo, cur, cliVars, disk, up>>

\* Mutant: the result of imread is not looked at.
RelockUnchecked(t) ==
    /\ tpc[t] = "relock"
    /\ Lock(t)
    /\ stmts' = IndexPhoto(cur[t], img[t])
    /\ tpc' = [tpc EXCEPT ![t] = "exec"]
    /\ UNCHANGED <<dbVars, libVars, todo, cur, img, cliVars, disk, up>>

ScanRelock(t) ==
    /\ tpc[t] = "relock"
    /\ Lock(t)
    /\ stmts' = IF img[t] \in Tag THEN IndexPhoto(cur[t], img[t])
                                  ELSE <<ChangedRemove(cur[t])>>
    /\ tpc' = [tpc EXCEPT ![t] = "exec"]
    /\ UNCHANGED <<dbVars, libVars, todo, cur, img, cliVars, disk, up>>

ScanExec(t) ==
    /\ up = "up"
    /\ tpc[t] = "exec"
    /\ sqlite3_exec(Head(stmts))
    /\ stmts' = Tail(stmts)
    /\ IF Len(stmts) = 1
       THEN /\ tpc' = [tpc EXCEPT ![t] = "iter"]
            /\ cur' = [cur EXCEPT ![t] = NoName]
            /\ img' = [img EXCEPT ![t] = NoFile]
       ELSE UNCHANGED <<tpc, cur, img>>
    /\ UNCHANGED <<mutex, libVars, todo, cliVars, disk, up>>

\* Mutant: the transaction is not ended.
EndNoCommit(t) ==
    /\ up = "up"
    /\ tpc[t] = "iter"
    /\ scan_runing => todo[t] = {}
    /\ changed_photos' = {}
    /\ todo' = [todo EXCEPT ![t] = {}]
    /\ tpc' = [tpc EXCEPT ![t] = "top"]
    /\ UNCHANGED <<dbVars, mutex, stmts, scan_runing, scan_thread, failed, cur, img, cliVars, disk, up>>

\* Mutant: one batch and out, without another look at what waits.
EndOneBatch(t) ==
    /\ up = "up"
    /\ tpc[t] = "iter"
    /\ scan_runing => todo[t] = {}
    /\ db_transaction_end
    /\ changed_photos' = {}
    /\ scan_runing' = FALSE
    /\ mutex' = Nobody
    /\ todo' = [todo EXCEPT ![t] = {}]
    /\ tpc' = [tpc EXCEPT ![t] = "done"]
    /\ UNCHANGED <<stmts, scan_thread, failed, cur, img, cliVars, disk, up>>

\* End of the loop, or break: commit, and back to the top.
ScanEnd(t) ==
    /\ up = "up"
    /\ tpc[t] = "iter"
    /\ scan_runing => todo[t] = {}
    /\ db_transaction_end
    /\ changed_photos' = {}
    /\ todo' = [todo EXCEPT ![t] = {}]
    /\ tpc' = [tpc EXCEPT ![t] = "top"]
    /\ UNCHANGED <<mutex, stmts, scan_runing, scan_thread, failed, cur, img, cliVars, disk, up>>

-----------------------------------------------------------------------------
(* The environment.                                                        *)

\* Files appear, change and disappear at any time.
DiskChange(n, content) ==
    /\ realpath[n] = n
    /\ disk[n] # content
    /\ disk' = [disk EXCEPT ![n] = content]
    /\ UNCHANGED <<dbVars, mutex, stmts, libVars, thrVars, cliVars, up>>

\* The process ends: killed, or after ccai_sp_release.
Crash ==
    /\ up = "freed" \/ (up = "up" /\ CanDie)
    /\ up' = "down"
    /\ Rollback
    /\ mutex' = Nobody
    /\ stmts' = <<>>
    /\ scan_runing' = FALSE
    /\ scan_thread' = NoThread
    /\ changed_photos' = {}
    /\ failed' = FALSE
    /\ tpc' = [t \in Thread |-> "none"]
    /\ todo' = [t \in Thread |-> {}]
    /\ cur' = [t \in Thread |-> NoName]
    /\ img' = [t \in Thread |-> NoFile]
    /\ cpc' = [c \in Client |-> "idle"]
    /\ target' = [c \in Client |-> NoThread]
    /\ UNCHANGED disk

\* It is started again, and opens the database it left.
ccai_sp_init ==
    /\ up = "down"
    /\ up' = "up"
    /\ UNCHANGED <<dbVars, mutex, stmts, libVars, thrVars, cliVars, disk>>

-----------------------------------------------------------------------------
ClientCall(c) ==
    \/ \E n \in Name : ccai_sp_add_file(c, n)
    \/ \E S \in SUBSET Name : ccai_sp_add_dir(c, S)
    \/ \E n \in Name : ccai_sp_remove_file(c, n)
    \/ ccai_sp_remove_all_file(c)
    \/ \E n, m \in Name : ccai_sp_move_file(c, n, m)
    \/ \E n \in Name, v \in Tag : ccai_sp_scan_file_buffer(c, n, v)
    \/ ccai_sp_scan(c)
    \/ ccai_sp_stop_scan(c)
    \/ ccai_sp_wait_scan(c)
    \/ ccai_sp_release(c)

ClientStep(c) == ClientExec(c) \/ JoinBegin(c) \/ JoinEnd(c) \/ ReleaseFinit(c)

ThreadStep(t) ==
    \/ ScanLock(t)
    \/ ScanCollect(t)
    \/ ScanExit(t)
    \/ ScanNext(t)
    \/ ScanInfer(t)
    \/ ScanRelock(t)
    \/ ScanExec(t)
    \/ ScanEnd(t)

Environment ==
    \/ \E n \in Name, content \in Content : DiskChange(n, content)
    \/ Crash
    \/ ccai_sp_init

Next ==
    \/ \E c \in Client : ClientCall(c) \/ ClientStep(c)
    \/ \E t \in Thread : ThreadStep(t)
    \/ Environment

Spec == Init /\ [][Next]_vars

\* Threads of a running process are scheduled; nobody has to call or to kill.
Fairness ==
    /\ \A t \in Thread : WF_vars(ThreadStep(t))
    /\ \A c \in Client : WF_vars(ClientStep(c))

FairSpec == Spec /\ Fairness

\* The clients do not call for ever, so they cannot keep the mutex from the scan.
ClientsPause == <>[][\A c \in Client : ~ClientCall(c)]_vars

PauseSpec == FairSpec /\ ClientsPause

-----------------------------------------------------------------------------
(* Properties.                                                             *)

TypeOK ==
    /\ DbTypeOK
    /\ mutex \in Client \union Thread \union {Nobody}
    /\ stmts \in Seq(Statement)
    /\ scan_runing \in BOOLEAN
    /\ scan_thread \in Thread \union {NoThread}
    /\ changed_photos \in SUBSET Name
    /\ failed \in BOOLEAN
    /\ tpc \in [Thread -> TPc]
    /\ todo \in [Thread -> SUBSET Name]
    /\ cur \in [Thread -> Name \union {NoName}]
    /\ img \in [Thread -> Content \union Tag]
    /\ cpc \in [Client -> CPc]
    /\ target \in [Client -> Thread \union {NoThread}]
    /\ disk \in [Name -> Content]
    /\ up \in {"up", "freed", "down"}

\* The flag scan_runing and the start, stop and exit code around it never let
\* two scan threads run at once: they would share the vector changed_photos
\* and the transaction.
OneScanner == \A s, t \in Thread : Active(s) /\ Active(t) => s = t

\* When ccai_sp_release frees the handle, no scan thread is left to use it.
NoUseAfterFree == up = "freed" => \A t \in Thread : ~Active(t)

\* With no scan under way and no call in progress, everything the calls have
\* written is in the database file: no exit path of the scan and no failed
\* BEGIN leaves a transaction open.
QuiescentDurable ==
    mutex = Nobody /\ (\A t \in Thread : ~Active(t)) => ~inTxn /\ work = durable

\* pthread_join in ccai_sp_stop_scan, ccai_sp_wait_scan and ccai_sp_release is given a
\* thread that exists and that nobody has joined, in whatever order they are called;
\* unless the last pthread_create failed: ccai_sp_scan then leaves the flag set without a
\* thread, and the next of them joins what scan_thread happens to hold.
JoinFindsThread ==
    ~failed => \A c \in Client : Joining(c) => target[c] \in Thread /\ tpc[target[c]] # "none"

-----------------------------------------------------------------------------
(* The inductive invariants behind these properties.                       *)

\* The loop body of a scan thread has a photo in hand.
CurInv == \A t \in Thread : tpc[t] \in {"infer", "relock", "exec"} => cur[t] \in Name

\* Who holds the mutex, and which statements are ahead of the holder.
MutexInv ==
    /\ \A t \in Thread : tpc[t] \in {"top", "iter", "exec"} <=> mutex = t
    /\ \A c \in Client : cpc[c] = "exec" <=> mutex = c
    /\ mutex \in Client => stmts # <<>>
    /\ \A t \in Thread : tpc[t] = "exec" => stmts # <<>>
    /\ \A t \in Thread : tpc[t] \in {"top", "iter"} => stmts = <<>>
    /\ mutex = Nobody => stmts = <<>>

\* A transaction that is open will be ended: by the batch of a scan thread or by
\* the END of the call in progress.  Outside of one, nothing is uncommitted.
TxnInv ==
    /\ ~inTxn => work = durable
    /\ inTxn => \/ \E t \in Thread : InBatch(t)
                \/ mutex \in Client /\ stmts[Len(stmts)].op = "END"
    /\ \A i \in 1..Len(stmts) : stmts[i].op = "BEGIN" => stmts[Len(stmts)].op = "END"
    /\ mutex \in Thread => \A i \in 1..Len(stmts) : stmts[i].op \notin {"BEGIN", "END"}

Stopping(c) == cpc[c] \in {"stopped", "stopJoin", "relStopped", "relJoin"}

\* The scan thread, the flag, and the client that stops the scan.  A thread whose
\* flag was cleared has that client waiting for it, which therefore starts no
\* other scan.
ScanInv ==
    /\ OneScanner
    /\ \A t \in Thread : Active(t) => scan_thread = t /\ up = "up"
    /\ \A t \in Thread : Active(t) /\ ~scan_runing => \E c \in Client : Stopping(c)
    /\ \A c \in Client, t \in Thread :
          cpc[c] \in {"stopJoin", "relJoin"} /\ Active(t) => target[c] = t
    /\ \A c \in Client : Stopping(c) \/ cpc[c] = "finit" => ~scan_runing
    /\ \A c \in Client, t \in Thread : cpc[c] = "finit" => ~Active(t)

-----------------------------------------------------------------------------
(* The abstract index that the library implements.                         *)

\* The tables once the holder of the mutex has run its statements, four at most.
Ran(s, i, db) == IF i <= Len(s) THEN Effect(s[i], db) ELSE db
After(s, db) == Ran(s, 4, Ran(s, 3, Ran(s, 2, Ran(s, 1, db))))

\* What is left of the program of a call, or of the storing of a photo.
AheadInv ==
    \/ stmts = <<>>
    \/ \E s \in Statement : stmts = <<s>>
    \/ stmts = db_photo_table_remove_all
    \/ \E S \in SUBSET Name :
          stmts \in {<<Begin, ChangedAdd(S), End>>, <<ChangedAdd(S), End>>}
    \/ \E n \in Name, v \in Tag :
          stmts \in {IndexPhoto(n, v), Tail(IndexPhoto(n, v)), Tail(Tail(IndexPhoto(n, v)))}

Index == INSTANCE PhotoIndex WITH view <- After(stmts, work), saved <- durable

\* Calls, and the storing of a scanned photo in the midst of them, are atomic for each other
\* though they run several statements, and a scan's transaction is open in between; a kill
\* leaves what PhotoIndex allows.
CallsAtomic == Index!Spec

-----------------------------------------------------------------------------
\* Whenever the process dies, a photo that the scan is writing into the index is
\* still waiting in the database file, or indexed there.  (For calls without
\* ccai_sp_add_dir, whose END may commit the scan's half-done batch and leave the
\* rest of it without a transaction.)
ScanKeepsPhoto ==
    [][\A t \in Thread, n \in Name :
          /\ tpc[t] = "exec"
          /\ img[t] \in Tag
          /\ n \in durable.changed \union Indexed(durable)
          => n \in durable'.changed \union Indexed(durable')]_vars

\* ccai_sp_stop_scan and ccai_sp_wait_scan return: the thread they join sees the
\* cleared flag, or runs out of photos.
JoinReturns ==
    \A c \in Client : cpc[c] \in {"stopped", "waiting", "relStopped"} ~> cpc[c] = "idle"

\* A photo that waits while a scan thread runs is taken off the waiting list,
\* also one added just as the thread is about to end, unless somebody stops the scan.
PendingScanned ==
    \A n \in Name :
        (n \in work.changed /\ scan_runing /\ \E t \in Thread : Active(t))
        ~> (n \notin work.changed \/ up # "up" \/ \E c \in Client : Stopping(c))

=============================================================================
