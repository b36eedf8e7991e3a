------------------------------- MODULE CatFs -------------------------------
(***************************************************************************)
(* src/cat_fs.c: the operations whose effects outlive the wait of the      *)
(* coroutine.  A file or directory that is opened in the pool must end up  *)
(* with somebody, and a blocking flock() runs in a thread of its own that  *)
(* tells the coroutine through an async handle when it has the lock.       *)
(*                                                                         *)
(* The operations without such effects are the names of `FsOps' and        *)
(* `WorkOps' of CatWork.  One thing is modelled that is not in cat_fs.c,   *)
(* the shutdown of the runtime (src/cat_event.c), because its only user    *)
(* is flock().  Of the two implementations of directories this is the one  *)
(* for POSIX.                                                              *)
(***************************************************************************)
EXTENDS CatWork, CatAsync, Integers

CONSTANTS Handle,   \* files and directories, numbers from 1
          Flock     \* the data of flock(), other numbers

ASSUME FlockAssumption == Flock \cap Handle = {}

VARIABLES handle,   \* a file or directory: "closed", "file" or "dir"
          held,     \* the one that a coroutine holds, 0 for none
          lost,     \* open files that nobody can close any more
          flock,    \* cat_fs_flock_data_t
          async,    \* the async handle in it
          lock,     \* the coroutine through whose file the lock is held
          life,     \* "up", "down" once the runtime shuts down, or "killed"
          use       \* which operations the program uses, one of Uses

files == << handle, held, lost >>
locks == << flock, async, lock, life >>
vars == << waiting, work, files, locks, use >>

\* Operations of different kinds meet in the queue of the pool only.  A program
\* uses one kind, so that the instances are as large as the sum of the kinds.
Uses == {"requests", "files", "locks"}

\* What `loop' is while the shutdown tasks of the runtime are run.
InShutdown == -1

NoFlock == [alive |-> FALSE, owner |-> NULL, started |-> FALSE, done |-> FALSE,
            thread |-> "none", task |-> "none"]

FsInit ==
  /\ WorkInit
  /\ handle = [h \in Handle |-> "closed"]
  /\ held = [c \in Coroutine |-> 0]
  /\ lost = {}
  /\ flock = [d \in Flock |-> NoFlock]
  /\ async = [d \in Flock |-> NoAsync]
  /\ lock = NULL
  /\ life = "up"
  /\ use \in Uses

-----------------------------------------------------------------------------
\* The operations of the file system by how they are run.

\* Requests of libuv whose result is a number, or is read out of the context
\* before the coroutine switches again.
PositionedOps == {"pread", "pwrite"}
SyncOps == {"fsync", "fdatasync", "ftruncate"}
ScanOps == {"scandir"}
PathOps == {"mkdir", "rmdir", "rename", "unlink"}
InfoOps == {"access", "stat", "lstat", "fstat", "utime", "lutime", "futime"}
LinkOps == {"link", "symlink", "readlink", "realpath"}
OwnerOps == {"chmod", "fchmod", "chown", "lchown", "fchown"}
CopyOps == {"copyfile", "sendfile", "mkdtemp", "statfs"}
UvOps == PositionedOps \cup SyncOps \cup ScanOps \cup PathOps \cup InfoOps
           \cup LinkOps \cup OwnerOps \cup CopyOps

\* Functions that cat_work() runs, with data that cat_free_function() frees.
ReadWriteOps == {"read", "write"}
SeekOps == {"lseek"}
StreamReadOps == {"fclose", "fread"}
StreamWriteOps == {"fwrite", "fseek"}
StreamStateOps == {"ftell", "fflush"}
WorkedOps == ReadWriteOps \cup SeekOps \cup StreamReadOps \cup StreamWriteOps
               \cup StreamStateOps

\* Every operation of a class takes the same steps, so an instance needs one.
ASSUME OpsAssumption ==
  /\ FsOps \subseteq UvOps
  /\ WorkOps \subseteq WorkedOps

-----------------------------------------------------------------------------
\* Files and directories.

\* No context and no coroutine knows h.
Unknown(h) ==
  /\ \A r \in Req : req[r].handle # h
  /\ \A c \in Coroutine : held[c] # h
  /\ h \notin lost

DirOps == {"opendir", "readdir", "rewinddir", "closedir"}
FileOps == {"open", "close"}

\* open() and mkstemp(): the context names the file that the thread will open.
cat_fs_open(c) ==
  \E r \in Req, h \in Handle :
    /\ held[c] = 0 /\ handle[h] = "closed" /\ Unknown(h)
    /\ Submit(c, r, "open", h, "fs", FALSE)
    /\ UNCHANGED files

cat_fs_opendir(c) ==
  \E r \in Req, h \in Handle :
    /\ held[c] = 0 /\ handle[h] = "closed" /\ Unknown(h)
    /\ Submit(c, r, "opendir", h, "work", FALSE)
    /\ UNCHANGED files

cat_fs_close(c) ==
  \E r \in Req :
    /\ held[c] # 0 /\ handle[held[c]] = "file"
    /\ Submit(c, r, "close", held[c], "fs", FALSE)
    /\ held' = [held EXCEPT ![c] = 0]
    /\ UNCHANGED << handle, lost >>

cat_fs_readdir(c) ==
  \E r \in Req :
    /\ held[c] # 0 /\ handle[held[c]] = "dir"
    /\ Submit(c, r, "readdir", held[c], "work", FALSE)
    /\ UNCHANGED files

cat_fs_rewinddir(c) ==
  \E r \in Req :
    /\ held[c] # 0 /\ handle[held[c]] = "dir"
    /\ Submit(c, r, "rewinddir", held[c], "work", FALSE)
    /\ UNCHANGED files

\* closedir() frees the uv_dir_t before it waits.
cat_fs_closedir(c) ==
  \E r \in Req :
    /\ held[c] # 0 /\ handle[held[c]] = "dir"
    /\ Submit(c, r, "closedir", held[c], "work", FALSE)
    /\ held' = [held EXCEPT ![c] = 0]
    /\ UNCHANGED << handle, lost >>

\* What the thread does.  Opening and reading may fail.
cat_fs_opendir_cb(r) ==
  /\ req[r].kind = "opendir"
  /\ \/ /\ Finished(r, "ok")
        /\ handle' = [handle EXCEPT ![req[r].handle] = "dir"]
     \/ Finished(r, "error") /\ UNCHANGED handle

cat_fs_readdir_cb(r) ==
  /\ req[r].kind = "readdir"
  /\ \E result \in {"ok", "error"} : Finished(r, result)
  /\ UNCHANGED handle

cat_fs_rewinddir_cb(r) ==
  /\ req[r].kind = "rewinddir"
  /\ Finished(r, "ok")
  /\ UNCHANGED handle

cat_fs_closedir_cb(r) ==
  /\ req[r].kind = "closedir"
  /\ Finished(r, "ok")
  /\ handle' = [handle EXCEPT ![req[r].handle] = "closed"]

\* libuv's own: uv_fs_open(), uv_fs_close() and uv_fs_closedir().
UvPool(r) ==
  \/ /\ req[r].kind = "open"
     /\ \/ /\ Finished(r, "ok")
           /\ handle' = [handle EXCEPT ![req[r].handle] = "file"]
        \/ Finished(r, "error") /\ UNCHANGED handle
  \/ /\ req[r].kind \in {"close", "uv_closedir"}
     /\ Finished(r, "ok")
     /\ handle' = [handle EXCEPT ![req[r].handle] = "closed"]

HandlePool(r) ==
  /\ \/ cat_fs_opendir_cb(r) \/ cat_fs_readdir_cb(r) \/ cat_fs_rewinddir_cb(r)
     \/ cat_fs_closedir_cb(r) \/ UvPool(r)
  /\ UNCHANGED << waiting, op, held, lost >>

\* cat_fs_async_closedir(): a request that no coroutine waits for.
cat_fs_async_closedir(h) ==
  [NoReq EXCEPT !.kind = "uv_closedir", !.phase = "queued", !.handle = h]

\* The cleanup functions: the directory that a cancelled coroutine has left
\* behind is closed.  Each tells what is left in the slot.

\* Mutant: the data of an opendir() that failed is taken for a directory.
OpendirFreeAlways(r) ==
  IF req[r].canceled THEN cat_fs_async_closedir(req[r].handle) ELSE NoReq

cat_fs_opendir_free(r) ==
  IF req[r].canceled /\ req[r].result = "ok"
  THEN cat_fs_async_closedir(req[r].handle) ELSE NoReq

\* Mutant: a cancelled readdir() leaves the directory to its caller, who has
\* been told that it is gone.
ReaddirFreeForgets(r) == NoReq

cat_fs_readdir_free(r) ==
  IF req[r].canceled THEN cat_fs_async_closedir(req[r].handle) ELSE NoReq

cat_fs_rewinddir_free(r) ==
  IF req[r].canceled THEN cat_fs_async_closedir(req[r].handle) ELSE NoReq

DirLeft(r) ==
  IF req[r].kind = "opendir" THEN cat_fs_opendir_free(r)
  ELSE IF req[r].kind = "readdir" THEN cat_fs_readdir_free(r)
  ELSE IF req[r].kind = "rewinddir" THEN cat_fs_rewinddir_free(r)
  ELSE NoReq

DirCallback(r) ==
  /\ \/ req[r].kind \in DirOps /\ cat_work_after_done(r, DirLeft(r))
     \/ req[r].kind = "uv_closedir" /\ cat_fs_callback(r)
  /\ UNCHANGED files

\* A descriptor that open() has got for a coroutine that has gone is not closed,
\* and neither is one whose close() has been taken back.
FileCallback(r) ==
  /\ req[r].kind \in FileOps
  /\ cat_fs_callback(r)
  /\ lost' = IF req[r].coroutine = NULL /\ handle[req[r].handle] = "file"
             THEN lost \cup {req[r].handle} ELSE lost
  /\ UNCHANGED << handle, held >>

HandleCallbackReturn(r) ==
  /\ req[r].kind \in DirOps \cup FileOps
  /\ CallbackReturn(r, IF req[r].kind \in DirOps THEN DirLeft(r) ELSE NoReq)
  /\ UNCHANGED files

\* The end of opendir(): the directory is the caller's or that of the cleanup.
cat_fs_opendir_waited(c) ==
  /\ At(c, "work")
  /\ req[op[c]].kind = "opendir"
  /\ LET q == WorkLeaves(c) IN
       IF WorkTrue(c)
       THEN /\ req' = [req EXCEPT ![op[c]] = [q EXCEPT !.handle = 0]]
            /\ held' = [held EXCEPT ![c] = IF q.result = "ok" THEN q.handle ELSE 0]
       ELSE /\ req' = [req EXCEPT ![op[c]] = [q EXCEPT !.canceled = TRUE]]
            /\ UNCHANGED held
  /\ Ended(c)
  /\ UNCHANGED << handle, lost >>

\* The end of readdir() and rewinddir().  A directory whose request has been
\* cancelled is taken from the caller, because the thread may still use it.
cat_fs_readdir_waited(c) ==
  /\ At(c, "work")
  /\ req[op[c]].kind \in {"readdir", "rewinddir"}
  /\ LET q == WorkLeaves(c) IN
       IF WorkTrue(c)
       THEN /\ req' = [req EXCEPT ![op[c]] = q]
            /\ UNCHANGED held
       ELSE /\ req' = [req EXCEPT ![op[c]] = [q EXCEPT !.canceled = TRUE]]
            /\ held' = [held EXCEPT ![c] = 0]
  /\ Ended(c)
  /\ UNCHANGED << handle, lost >>

cat_fs_closedir_waited(c) ==
  /\ At(c, "work")
  /\ req[op[c]].kind = "closedir"
  /\ req' = [req EXCEPT ![op[c]] = WorkLeaves(c)]
  /\ Ended(c)
  /\ UNCHANGED files

cat_fs_file_waited(c) ==
  /\ At(c, "fs")
  /\ req[op[c]].kind \in FileOps
  /\ req' = [req EXCEPT ![op[c]] = [FsLeaves(c) EXCEPT !.handle = IF FsDone(c) THEN 0 ELSE @]]
  /\ held' = [held EXCEPT ![c] =
                IF FsTrue(c) /\ req[op[c]].kind = "open" THEN req[op[c]].handle ELSE @]
  /\ Ended(c)
  /\ UNCHANGED << handle, lost >>

HandleNext ==
  \/ \E c \in Coroutine :
       \/ cat_fs_open(c) \/ cat_fs_close(c) \/ cat_fs_file_waited(c)
       \/ cat_fs_opendir(c) \/ cat_fs_opendir_waited(c)
       \/ cat_fs_readdir(c) \/ cat_fs_rewinddir(c) \/ cat_fs_readdir_waited(c)
       \/ cat_fs_closedir(c) \/ cat_fs_closedir_waited(c)
  \/ \E r \in Req :
       HandlePool(r) \/ DirCallback(r) \/ FileCallback(r) \/ HandleCallbackReturn(r)

-----------------------------------------------------------------------------
\* flock().  The file of a coroutine is its own, so a coroutine stands for the
\* owner of a lock.

\* UNLOCK and NONBLOCK: the operation is run in the pool.
cat_fs_flock_nb(c) ==
  \E r \in Req, kind \in {"unlock", "trylock"} :
    Submit(c, r, kind, 0, "work", FALSE)

\* cat_fs_orig_flock() in the pool, for a file of c; a lock that is not free is
\* EAGAIN, which the data tells the caller.
FlockNbPool(r, c) ==
  /\ Finished(r, "ok")
  /\ \/ req[r].kind = "unlock" /\ lock' = IF lock = c THEN NULL ELSE lock
     \/ req[r].kind = "trylock" /\ lock' = IF lock = NULL THEN c ELSE lock
  /\ UNCHANGED << waiting, op, flock, async, life >>

\* Blocking operations: an async handle, and a request to start the thread.
cat_fs_flock(c) ==
  \E r \in Req, d \in Flock :
    /\ ~ flock[d].alive
    /\ \A q \in Req : req[q].handle # d
    /\ flock' = [flock EXCEPT ![d] = [NoFlock EXCEPT !.alive = TRUE, !.owner = c]]
    /\ async' = [async EXCEPT ![d] = cat_async_create]
    /\ Submit(c, r, "flock", d, "work", FALSE)
    /\ UNCHANGED << lock, life >>

\* Mutant: the thread of the pool waits for the lock itself.
FlockInPool(r, d) ==
  /\ req[r].kind = "flock" /\ req[r].phase = "running" /\ req[r].handle = d
  /\ flock[d].thread = "none"
  /\ lock \in {NULL, flock[d].owner}
  /\ lock' = flock[d].owner
  /\ flock' = [flock EXCEPT ![d].done = TRUE, ![d].thread = "finished"]
  /\ async' = [async EXCEPT ![d] = cat_async_notify(@)]
  /\ UNCHANGED << waiting, work, life >>

\* cat_fs_flock_cb() in the pool: it creates the thread, or says that it cannot ...
FlockCreate(r, d) ==
  /\ req[r].kind = "flock" /\ req[r].phase = "running" /\ req[r].handle = d
  /\ flock[d].thread = "none"
  /\ \/ /\ flock' = [flock EXCEPT ![d].thread = "running"]
        /\ UNCHANGED << req, async >>
     \/ /\ async' = [async EXCEPT ![d] = cat_async_notify(@)]
        /\ Finished(r, "error")
        /\ UNCHANGED flock
  /\ UNCHANGED << waiting, op, lock, life >>

\* ... and sets `started' when the thread may have run to its end already, and
\* the data may have been freed.
FlockStarted(r, d) ==
  /\ req[r].kind = "flock" /\ req[r].handle = d
  /\ flock[d].thread # "none"
  /\ flock' = [flock EXCEPT ![d] =
                 IF flock[d].alive THEN [@ EXCEPT !.started = TRUE] ELSE NoFlock]
  /\ Finished(r, "ok")
  /\ UNCHANGED << waiting, op, async, lock, life >>

\* cat_fs_orig_flock() in its own thread: it gets the lock and says so.
FlockThread(d) ==
  /\ flock[d].thread = "running"
  /\ lock \in {NULL, flock[d].owner}
  /\ lock' = flock[d].owner
  /\ flock' = [flock EXCEPT ![d].done = TRUE, ![d].thread = "finished"]
  /\ async' = [async EXCEPT ![d] = cat_async_notify(@)]
  /\ UNCHANGED << waiting, work, life >>

FlockCallback(r) ==
  /\ req[r].kind \in {"unlock", "trylock", "flock"}
  /\ cat_work_after_done(r, NoReq)
  /\ UNCHANGED locks

FlockCallbackReturn(r) ==
  /\ req[r].kind \in {"unlock", "trylock", "flock"}
  /\ CallbackReturn(r, NoReq)
  /\ UNCHANGED locks

\* cat_async_callback() for the data of a flock().
FlockNotified(d) ==
  /\ LoopIdle
  /\ Notified(async[d])
  /\ async' = [async EXCEPT ![d] = cat_async_callback(@)]
  /\ IF async[d].coroutine # NULL
     THEN Schedule(async[d].coroutine) ELSE UNCHANGED << chain, pc, timer >>
  /\ UNCHANGED << loop, work, flock, lock, life >>

\* cat_async_close_callback() and cat_fs_flock_data_cleanup(): the thread, when
\* it is known to have started, is joined and the data is freed.
cat_fs_flock_data_cleanup(d) ==
  /\ LoopIdle
  /\ async[d].handle = "closing"
  /\ flock[d].started => flock[d].thread = "finished"
  /\ flock' = [flock EXCEPT ![d] =
                 [NoFlock EXCEPT !.thread =
                    IF flock[d].started THEN "none" ELSE flock[d].thread]]
  /\ async' = [async EXCEPT ![d] = NoAsync]
  /\ UNCHANGED << waiting, work, lock, life >>

\* The coroutine side of an operation that is run in the pool.
cat_fs_flock_nb_waited(c) ==
  /\ At(c, "work")
  /\ req[op[c]].kind \in {"unlock", "trylock"}
  /\ req' = [req EXCEPT ![op[c]] = WorkLeaves(c)]
  /\ Ended(c)
  /\ UNCHANGED locks

\* A blocking flock() after cat_work(): on failure the data is left to the async
\* handle and to a shutdown task, else it waits for the thread.
cat_fs_flock_waited(c) ==
  /\ At(c, "work")
  /\ req[op[c]].kind = "flock"
  /\ req' = [req EXCEPT ![op[c]] = WorkLeaves(c)]
  /\ LET d == req[op[c]].handle IN
     \/ /\ ~ WorkTrue(c)
        /\ flock' = [flock EXCEPT ![d].task = "registered"]
        /\ async' = [async EXCEPT ![d] = cat_async_cleanup(@)]
        /\ Ended(c)
     \/ /\ WorkTrue(c)
        /\ async' = [async EXCEPT ![d] = cat_async_wait(@, c)]
        /\ IF async[d].done
           THEN Ended(c)
           ELSE /\ cat_time_wait(c, "async", FALSE)
                /\ op' = [op EXCEPT ![c] = d]
                /\ UNCHANGED loop
        /\ UNCHANGED flock
  /\ UNCHANGED << lock, life >>

\* A blocking flock() after cat_async_wait_and_close().
cat_fs_flock_async_waited(c) ==
  /\ At(c, "async")
  /\ LET d == op[c] IN
       /\ async' = [async EXCEPT ![d] = cat_async_waited(@)]
       /\ flock' = IF async[d].done THEN flock
                   ELSE [flock EXCEPT ![d].task = "registered"]
  /\ Ended(c)
  /\ UNCHANGED << req, lock, life >>

-----------------------------------------------------------------------------
\* cat_event_runtime_shutdown(), when no coroutine is left: it calls the
\* shutdown tasks and then runs the loop again.
cat_event_runtime_shutdown ==
  /\ LoopIdle /\ life = "up"
  /\ \A c \in Coroutine : pc[c] = "user"
  /\ life' = "down"
  /\ loop' = InShutdown
  /\ UNCHANGED << chain, pc, timer, work, flock, async, lock >>

\* cat_fs_flock_shutdown(): it waits until the thread has started.  One that has
\* not got its lock is killed, and the process with it.  The task is freed.
cat_fs_flock_shutdown(d) ==
  /\ LoopAt(InShutdown)
  /\ flock[d].task = "registered"
  /\ flock[d].started
  /\ life' = IF flock[d].done THEN life ELSE "killed"
  /\ flock' = [flock EXCEPT ![d].task = "freed"]
  /\ UNCHANGED << waiting, work, async, lock >>

ShutdownTasksDone ==
  /\ LoopAt(InShutdown)
  /\ \A d \in Flock : flock[d].task # "registered"
  /\ loop' = 0
  /\ UNCHANGED << chain, pc, timer, work, locks >>

FlockNext ==
  \/ \E c \in Coroutine :
       \/ cat_fs_flock_nb(c) /\ UNCHANGED locks
       \/ cat_fs_flock(c)
       \/ cat_fs_flock_nb_waited(c)
       \/ cat_fs_flock_waited(c) \/ cat_fs_flock_async_waited(c)
  \/ \E r \in Req :
       \/ FlockNbPool(r, req[r].owner)
       \/ \E d \in Flock : FlockCreate(r, d) \/ FlockStarted(r, d)
       \/ FlockCallback(r) \/ FlockCallbackReturn(r)
  \/ \E d \in Flock :
       \/ FlockThread(d)
       \/ FlockNotified(d)
       \/ cat_fs_flock_data_cleanup(d)
       \/ cat_fs_flock_shutdown(d)
  \/ cat_event_runtime_shutdown
  \/ ShutdownTasksDone

-----------------------------------------------------------------------------
Next ==
  /\ life # "killed"
  /\ \/ /\ life = "up"
        /\ \E c \in Coroutine : TimeNext(c)
        /\ UNCHANGED << work, files, locks >>
     \/ \E r \in Req : PoolStart(r) /\ UNCHANGED << files, locks >>
     \/ use = "requests" /\ WorkNext /\ UNCHANGED << files, locks >>
     \/ use = "files" /\ HandleNext /\ UNCHANGED locks
     \/ use = "locks" /\ FlockNext /\ UNCHANGED files
  /\ UNCHANGED use

Spec == FsInit /\ [][Next]_vars

\* The operating system schedules the threads whatever the event loop does, and
\* the queue of the pool is a FIFO.
PoolStep(r) ==
  /\ life # "killed"
  /\ \/ \E result \in {"ok", "error"} :
          PoolFinish(r, result) /\ UNCHANGED << files, locks >>
     \/ HandlePool(r) /\ UNCHANGED locks
     \/ /\ \/ FlockNbPool(r, req[r].owner)
           \/ \E d \in Flock : FlockCreate(r, d) \/ FlockStarted(r, d)
        /\ UNCHANGED files
  /\ UNCHANGED use

PoolTakes(r) == life # "killed" /\ PoolStart(r) /\ UNCHANGED << files, locks, use >>

FairSpec ==
  /\ Spec
  /\ \A r \in Req : WF_vars(PoolStep(r)) /\ SF_vars(PoolTakes(r))

-----------------------------------------------------------------------------
Waits == {"work", "dns", "fs"}

TypeOK ==
  /\ TimeTypeOK(Waits \cup {"user", "async"}, Req \cup {0, InShutdown})
  /\ \A r \in Req : req[r].phase \in Phases /\ req[r].handle \in Handle \cup Flock \cup {0}
  /\ op \in [Coroutine -> Req \cup Flock \cup {0}]
  /\ handle \in [Handle -> {"closed", "file", "dir"}]
  /\ held \in [Coroutine -> Handle \cup {0}]
  /\ lost \subseteq Handle
  /\ lock \in Coroutine \cup {NULL}
  /\ life \in {"up", "down", "killed"}

\* The state is well typed.  While an operation waits, and when its coroutine runs
\* again, the context is still that of the operation: it is freed only when the
\* coroutine has switched once more.  And a coroutine is never named by a context
\* whose operation it has left, so no callback wakes it from another wait.
ContextExact ==
  /\ TypeOK
  /\ \A c \in Coroutine :
       pc[c] \in Waits =>
         /\ req[op[c]].phase # "free"
         /\ req[op[c]].owner = c
         /\ req[op[c]].coroutine \in {c, NULL}
  /\ \A r \in Req :
       req[r].coroutine # NULL =>
         pc[req[r].coroutine] \in Waits /\ op[req[r].coroutine] = r

\* Who will close h: the coroutine that holds it, a request that opens or
\* closes it, or one that was cancelled and cleans up.
Keepers(h) ==
  { c \in Coroutine : held[c] = h } \cup
  { r \in Req : /\ req[r].handle = h
                /\ \/ req[r].kind \in {"open", "close", "opendir", "closedir", "uv_closedir"}
                   \/ req[r].canceled }

\* Every open directory will be closed by exactly one party, whatever has been
\* cancelled; so will a file, unless open() or close() was cancelled.  No thread and
\* no coroutine uses a directory or file that is closed.  And the list of addresses
\* that a lookup has got is freed by the caller or, when the caller has gone, by the
\* callback.
ResourcesKept ==
  /\ \A h \in Handle :
       IF h \in lost THEN handle[h] = "file" /\ Keepers(h) = {}
       ELSE handle[h] # "closed" => Cardinality(Keepers(h)) = 1
  /\ \A r \in Req : req[r].phase = "free" => ~ req[r].response
  /\ \A c \in Coroutine : held[c] # 0 => handle[held[c]] # "closed"
  /\ \A r \in Req :
       req[r].phase \in {"queued", "running"} /\ req[r].handle \in Handle =>
         (handle[req[r].handle] = "closed" <=> req[r].kind \in {"open", "opendir"})

\* The data of a flock() is there for its coroutine and for its thread, its
\* handle is closed once, the callback of a notification finds nobody waiting
\* on a handle that is closing, and the data is freed when the thread is done.
FlockSafe ==
  /\ \A c \in Coroutine :
       pc[c] = "async" => flock[op[c]].alive /\ async[op[c]].coroutine = c
  /\ \A d \in Flock :
       /\ flock[d].thread = "running" => flock[d].alive
       /\ async[d].closes <= 1
       /\ Notified(async[d]) => CallbackAssert(async[d])
       /\ async[d].handle = "closing" => flock[d].done \/ ~ flock[d].started
                                         \* the assertion of the cleanup

\* A request that is in the queue is run, even if every thread of the pool was
\* asked to take a lock that only a request behind it in the queue releases.
PoolServes ==
  \A r \in Req : req[r].phase = "queued" /\ life # "killed" ~>
                   req[r].phase # "queued" \/ life = "killed"
=============================================================================
