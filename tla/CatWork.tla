------------------------------ MODULE CatWork ------------------------------
(***************************************************************************)
(* Requests to the thread pool: src/cat_work.c, src/cat_dns.c and the      *)
(* requests of libuv's file system API in src/cat_fs.c.                    *)
(*                                                                         *)
(* The three share one protocol.  A coroutine allocates a context, submits *)
(* it and waits.  The callback of the finished request resumes the         *)
(* coroutine and frees the context when control comes back to it.  A       *)
(* coroutine whose wait ends in another way takes its name out of the      *)
(* context, so the callback frees the context alone.                       *)
(*                                                                         *)
(* A slot of `req' is one context.  A request that is cancelled goes on in *)
(* the pool unless uv_cancel() still finds it in the queue.                *)
(***************************************************************************)
EXTENDS CatTime, FiniteSets

CONSTANTS Req,        \* the slots for contexts, numbers from 1
          PoolSize,   \* the number of threads of the pool
          WorkOps,    \* what is run by cat_work() and needs no more than that
          FsOps       \* the same for the requests of libuv

ASSUME ReqAssumption == Req \subseteq Nat \ {0}

VARIABLES req,        \* the contexts
          op          \* the context that the operation of a coroutine is about

work == << req, op >>

Phases == {"free", "queued", "running", "done"}

NoReq == [kind |-> "none", phase |-> "free", coroutine |-> NULL,
          status |-> "ECANCELED", result |-> "none", handle |-> 0,
          canceled |-> FALSE, response |-> FALSE, owner |-> NULL]

WorkInit ==
  /\ TimeInit
  /\ req = [r \in Req |-> NoReq]
  /\ op = [c \in Coroutine |-> 0]

\* Which slot a new context takes does not matter; it is the first free one.
FreeSlot(r) ==
  /\ req[r].phase = "free"
  /\ \A q \in Req : q < r => req[q].phase # "free"
Busy == { r \in Req : req[r].phase = "running" }

\* A context as it is when its coroutine begins to wait.  `owner' is the
\* coroutine whose request it was, when it is no longer named in the context.
Context(c, kind, h) ==
  [NoReq EXCEPT !.kind = kind, !.phase = "queued", !.coroutine = c,
                !.handle = h, !.owner = c]

\* The submission of a request, and the wait of its coroutine.
Submit(c, r, kind, h, where, timed) ==
  /\ At(c, "user") /\ FreeSlot(r)
  /\ req' = [req EXCEPT ![r] = Context(c, kind, h)]
  /\ op' = [op EXCEPT ![c] = r]
  /\ cat_time_wait(c, where, timed)
  /\ UNCHANGED loop

\* uv_cancel(): only a request that is still queued can be taken back; its
\* callback is then called with UV_ECANCELED.
uv_cancel(q) ==
  IF q.phase = "queued" THEN [q EXCEPT !.phase = "done", !.result = "ECANCELED"] ELSE q

-----------------------------------------------------------------------------
\* The threads of the pool.

PoolStart(r) ==
  /\ req[r].phase = "queued"
  /\ Cardinality(Busy) < PoolSize
  /\ req' = [req EXCEPT ![r].phase = "running"]
  /\ UNCHANGED << waiting, op >>

\* The function of a request returns, with or without success.
Finished(r, result) ==
  /\ req[r].phase = "running"
  /\ req' = [req EXCEPT ![r].phase = "done", ![r].result = result,
                        ![r].response = (req[r].kind = "getaddrinfo" /\ result = "ok")]

PoolFinish(r, result) ==
  /\ req[r].kind \in WorkOps \cup FsOps \cup {"getaddrinfo"}
  /\ Finished(r, result)
  /\ UNCHANGED << waiting, op >>

-----------------------------------------------------------------------------
\* The callbacks, which run in the event loop.

\* The slot after cat_free(context).  A response nobody has freed stays visible.
Freed(r) == [NoReq EXCEPT !.response = req[r].response]

\* Mutant: the context is freed before its coroutine is resumed.
FreeFirst(r, left) ==
  /\ LoopIdle /\ req[r].phase = "done"
  /\ req' = [req EXCEPT ![r] = left]
  /\ IF req[r].coroutine # NULL
     THEN Schedule(req[r].coroutine) ELSE UNCHANGED << chain, pc, timer >>
  /\ UNCHANGED << loop, op >>

\* cat_work_after_done(): `left' is what the cleanup function and cat_free()
\* leave in the slot.
cat_work_after_done(r, left) ==
  /\ LoopIdle /\ req[r].phase = "done"
  /\ IF req[r].coroutine # NULL
     THEN /\ req' = [req EXCEPT ![r].status = IF req[r].result = "ECANCELED"
                                              THEN "ECANCELED" ELSE "ok"]
          /\ Schedule(req[r].coroutine)
          /\ loop' = r
     ELSE /\ req' = [req EXCEPT ![r] = left]
          /\ UNCHANGED waiting
  /\ UNCHANGED op

\* The slot of a lookup whose coroutine has gone: the response is freed too.
DnsOrphan(r) == [Freed(r) EXCEPT !.response = FALSE]

\* cat_dns_getaddrinfo_callback()
cat_dns_getaddrinfo_callback(r) ==
  /\ LoopIdle /\ req[r].phase = "done" /\ req[r].kind = "getaddrinfo"
  /\ IF req[r].coroutine # NULL
     THEN /\ req' = [req EXCEPT ![r].status = req[r].result]
          /\ Schedule(req[r].coroutine)
          /\ loop' = r
     ELSE /\ req' = [req EXCEPT ![r] = DnsOrphan(r)]
          /\ UNCHANGED waiting
  /\ UNCHANGED op

\* cat_fs_callback(): takes the coroutine out of the context first.
cat_fs_callback(r) ==
  /\ LoopIdle /\ req[r].phase = "done"
  /\ IF req[r].coroutine # NULL
     THEN /\ req' = [req EXCEPT ![r].coroutine = NULL]
          /\ Schedule(req[r].coroutine)
          /\ loop' = r
     ELSE /\ req' = [req EXCEPT ![r] = Freed(r)]
          /\ UNCHANGED waiting
  /\ UNCHANGED op

\* Control is back in a callback: it cleans up and frees the context.
CallbackReturn(r, left) ==
  /\ LoopAt(r)
  /\ req' = [req EXCEPT ![r] = left]
  /\ loop' = 0
  /\ UNCHANGED << chain, pc, timer, op >>

-----------------------------------------------------------------------------
\* The coroutine side: the wait is over.

Ended(c) == Return(c) /\ op' = [op EXCEPT ![c] = 0] /\ UNCHANGED loop

\* What cat_work() returns, and the context it leaves: a timeout takes the
\* request back, a cancellation does not.
WorkTrue(c) == ~ TimedOut(c) /\ req[op[c]].status = "ok"
WorkLeaves(c) ==
  LET q == [req[op[c]] EXCEPT !.coroutine = NULL]
  IN  IF TimedOut(c) THEN uv_cancel(q) ELSE q

cat_work(c) ==
  \E r \in Req, kind \in WorkOps, timed \in BOOLEAN :
    Submit(c, r, kind, 0, "work", timed)

cat_work_waited(c) ==
  /\ At(c, "work")
  /\ req[op[c]].kind \in WorkOps
  /\ req' = [req EXCEPT ![op[c]] = WorkLeaves(c)]
  /\ Ended(c)

\* cat_dns_get_ip(): cat_dns_getaddrinfo_ex() and, when it succeeds, the
\* conversion of the response and its release.
cat_dns_get_ip(c) ==
  \E r \in Req, timed \in BOOLEAN : Submit(c, r, "getaddrinfo", 0, "dns", timed)

cat_dns_get_ip_waited(c) ==
  /\ At(c, "dns")
  /\ LET q == [req[op[c]] EXCEPT !.coroutine = NULL]
     IN  req' = [req EXCEPT ![op[c]] =
           IF TimedOut(c) \/ q.status = "ECANCELED" THEN uv_cancel(q)
           ELSE [q EXCEPT !.response = FALSE]]
  /\ Ended(c)

\* cat_fs_do_result(): done tells whether the callback has been called.
FsDone(c) == req[op[c]].coroutine = NULL
FsTrue(c) == FsDone(c) /\ req[op[c]].result = "ok"

\* Mutant: the cancelled coroutine stays in the context.
FsLeavesName(c) == IF ~ FsDone(c) THEN uv_cancel(req[op[c]]) ELSE req[op[c]]

FsLeaves(c) ==
  LET q == [req[op[c]] EXCEPT !.coroutine = NULL]
  IN  IF ~ FsDone(c) THEN uv_cancel(q) ELSE q

cat_fs_do(c) ==
  \E r \in Req, kind \in FsOps : Submit(c, r, kind, 0, "fs", FALSE)

cat_fs_do_result(c) ==
  /\ At(c, "fs")
  /\ req[op[c]].kind \in FsOps
  /\ req' = [req EXCEPT ![op[c]] = FsLeaves(c)]
  /\ Ended(c)

-----------------------------------------------------------------------------
WorkNext ==
  \/ \E c \in Coroutine :
       \/ cat_work(c) \/ cat_work_waited(c)
       \/ cat_dns_get_ip(c) \/ cat_dns_get_ip_waited(c)
       \/ cat_fs_do(c) \/ cat_fs_do_result(c)
  \/ \E r \in Req :
       \/ \E result \in {"ok", "error"} : PoolFinish(r, result)
       \/ req[r].kind \in WorkOps /\ cat_work_after_done(r, Freed(r))
       \/ req[r].kind \in FsOps /\ cat_fs_callback(r)
       \/ cat_dns_getaddrinfo_callback(r)
       \/ req[r].kind \in WorkOps \cup FsOps \cup {"getaddrinfo"}
            /\ CallbackReturn(r, Freed(r))
=============================================================================
