------------------------------ MODULE CatAsync ------------------------------
(***************************************************************************)
(* src/cat_async.c: a notification from another thread to one coroutine.   *)
(*                                                                         *)
(* The operations are functions from a cat_async_t to a cat_async_t; the   *)
(* module of the component that embeds it keeps the variable.  `handle' is *)
(* libuv's part: "active" until uv_close(), "closing" until the close      *)
(* callback.  `closes' counts the calls of uv_close(), which libuv allows  *)
(* once.  Notifications that have not been delivered are merged (`sent').  *)
(***************************************************************************)
EXTENDS CatTime

NoAsync == [coroutine |-> NULL, done |-> FALSE, closing |-> FALSE,
            handle |-> "none", sent |-> FALSE, closes |-> 0]

cat_async_create == [NoAsync EXCEPT !.handle = "active"]

\* cat_async_notify(): uv_async_send(), from any thread.
cat_async_notify(a) == [a EXCEPT !.sent = TRUE]

uv_close(a) == [a EXCEPT !.handle = "closing", !.closes = @ + 1]

\* CAT_ASYNC_CHECK_AVAILABILITY()
Available(a) == a.coroutine = NULL /\ ~ a.closing

\* cat_async_callback(): what it does to the handle; a coroutine that waits is
\* scheduled as well.  A handle that is closing gets no callback.
Notified(a) == a.sent /\ a.handle = "active"
cat_async_callback(a) ==
  LET b == [a EXCEPT !.sent = FALSE, !.done = TRUE]
  IN  IF a.coroutine = NULL /\ a.closing THEN uv_close(b) ELSE b

\* cat_async_wait_and_close() begins: it waits unless the thread is done.
cat_async_wait(a, c) == IF a.done THEN uv_close(a) ELSE [a EXCEPT !.coroutine = c]

\* Mutant: the handle is closed after the wait in any case.
WaitedCloses(a) == uv_close([a EXCEPT !.coroutine = NULL, !.closing = TRUE])

\* cat_async_wait_and_close() after its wait: the handle is closed here only
\* when the notification has come, for the thread may still use it.
cat_async_waited(a) ==
  LET b == [a EXCEPT !.coroutine = NULL, !.closing = TRUE]
  IN  IF a.done THEN uv_close(b) ELSE b

cat_async_cleanup(a) ==
  IF ~ Available(a) THEN a
  ELSE IF a.done THEN uv_close(a) ELSE [a EXCEPT !.closing = TRUE]

\* The assertion of cat_async_callback().
CallbackAssert(a) == a.coroutine = NULL \/ ~ a.closing
=============================================================================
