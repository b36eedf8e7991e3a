----------------------------- MODULE CatSocket -----------------------------
(***************************************************************************)
(* src/cat_socket.c: sockets, the operations of several coroutines on one  *)
(* of them, and closing it while operations are under way.                 *)
(*                                                                         *)
(* A cat_socket_t names a cat_socket_internal_t, the part that libuv       *)
(* knows; several sockets may share one.  The IO flags of an internal tell *)
(* which operations are under way, its contexts which coroutines to wake.  *)
(* A close marks the internal, takes it from its sockets, resumes every    *)
(* coroutine that waits, one after the other, and hands the internal to    *)
(* uv_close().  Every resumed coroutine runs at once, whatever it does     *)
(* next, before the close goes on.                                         *)
(*                                                                         *)
(* A call that the code refuses (no internal, ELOCKED, not established)    *)
(* changes nothing and is no step here.  Every wait has a timeout; that    *)
(* the timer never fires stands for no timeout.                            *)
(***************************************************************************)
EXTENDS CatTime, FiniteSets, Integers

CONSTANTS Socket,     \* cat_socket_t, numbers from 1
          Internal,   \* cat_socket_internal_t, numbers from 1; none is used twice
          Request,    \* the slots for write requests, numbers from 1
          Uses,       \* sets of operations: a program uses those of one of them
          Size,       \* how many bytes a read asks for
          Noisy,      \* the internals whose peers send
          MaxBytes    \* how many bytes such a peer sends

ASSUME SocketAssumption == 0 \notin Socket \cup Internal \cup Request

VARIABLES sock,    \* the sockets
          int,     \* the internals
          wreq,    \* the write requests
          fr,      \* the frame of the operation of a coroutine
          use      \* what the program uses, a member of Uses

vars == << waiting, sock, int, wreq, fr, use >>

\* The IO flags, as the sets of their bits.
NONE    == {}
READ    == {"read"}
WRITE   == {"write"}
RDWR    == READ \cup WRITE
BIND    == RDWR \cup {"bind"}
ACCEPT  == RDWR \cup {"accept"}
CONNECT == RDWR \cup {"connect"}

\* flags ^= bit
Toggle(flags, bit) == (flags \ bit) \cup (bit \ flags)

NoSocket == [live |-> FALSE, alloc |-> FALSE, at |-> 0, closed |-> FALSE,
             unrecoverable |-> FALSE]

\* `co' and `status' are the context of bind, accept, connect and read, which
\* share their memory; `wq' is the queue of writers.  `reading', `connecting'
\* and `pending' belong to libuv, `inbox', `eof' and `sent' to the peer.  `given'
\* counts the bytes that callers got, `lost' those that no caller can get.
NoInternal ==
  [mem |-> "none", closed |-> FALSE, opened |-> FALSE, established |-> FALSE,
   server |-> FALSE, io |-> NONE, co |-> NULL, status |-> "ok", wq |-> << >>,
   cache |-> 0, info |-> FALSE, ref |-> 0, ssl |-> FALSE,
   reading |-> FALSE, connecting |-> "no", pending |-> FALSE,
   inbox |-> 0, eof |-> FALSE, sent |-> 0, given |-> 0, lost |-> 0]

NoRequest == [live |-> FALSE, co |-> NULL, error |-> "ok", at |-> 0,
              flight |-> FALSE, leaked |-> FALSE]

\* The locals of an operation: its socket, internal, request and the other
\* internal of an accept; `once', `try', the bytes read inline (`inl') and in all (`got')
\* and the error of a read; the answer to a lookup and the addresses left; the
\* socket to free and the internals left of a close; what follows and its result.
NoFrame == [s |-> 0, i |-> 0, r |-> 0, conn |-> 0, once |-> FALSE, try |-> FALSE,
            inl |-> 0, got |-> 0, error |-> "ok", answer |-> "no", addrs |-> 0,
            closing |-> 0, todo |-> {}, next |-> "user", ok |-> TRUE]

SocketInit ==
  /\ TimeInit
  /\ sock = [s \in Socket |-> NoSocket]
  /\ int = [i \in Internal |-> NoInternal]
  /\ wreq = [r \in Request |-> NoRequest]
  /\ fr = [c \in Coroutine |-> NoFrame]
  /\ use \in Uses

IsDgram == "udp" \in use

Wait(c, where, f) ==
  /\ cat_time_wait(c, where, TRUE)
  /\ fr' = [fr EXCEPT ![c] = f]

\* Mutant: the timer of the wait goes on.
GoOnTimed(c, where, f) ==
  /\ pc' = [pc EXCEPT ![c] = where]
  /\ fr' = [fr EXCEPT ![c] = f]
  /\ UNCHANGED << chain, timer >>

\* c goes on at another place of the same call.
GoOn(c, where, f) ==
  /\ pc' = [pc EXCEPT ![c] = where]
  /\ timer' = [timer EXCEPT ![c] = "none"]
  /\ fr' = [fr EXCEPT ![c] = f]
  /\ UNCHANGED chain

\* A question to the thread pool or to poll().
Ask(c, where, f) == Wait(c, where, [f EXCEPT !.answer = "pending"])

\* A name that is no address is looked up.
cat_socket_internal_getaddrbyname(c, where, f) == Ask(c, where, f)

\* The call returns, to the program or to the operation that has made it.
Back(c, f, ok) ==
  GoOn(c, f.next, IF f.next = "user" THEN NoFrame
                  ELSE [f EXCEPT !.ok = ok, !.r = 0, !.answer = "no"])

-----------------------------------------------------------------------------
\* Creation.

\* The memory of the next internal; a program uses one, or "many" of them.
Fresh(i) ==
  /\ int[i].mem = "none" /\ \A j \in Internal : j < i => int[j].mem # "none"
  /\ i = 1 \/ "many" \in use

NewInternal == [NoInternal EXCEPT !.mem = "open", !.ref = 1]

\* cat_socket_create() of a socket on the heap, lazily: without a descriptor.
cat_socket_create(c, s) ==
  /\ At(c, "user") /\ ~ sock[s].live
  /\ \E i \in Internal :
       /\ Fresh(i)
       /\ sock' = [sock EXCEPT ![s] = [NoSocket EXCEPT !.live = TRUE, !.alloc = TRUE, !.at = i]]
       /\ int' = [int EXCEPT ![i] = NewInternal]
  /\ UNCHANGED << waiting, wreq, fr >>

\* cat_socket_open_os_socket() of a connection, or of a socket for datagrams.
cat_socket_internal_on_manual_open(c, s) ==
  /\ At(c, "user") /\ "open" \in use
  /\ sock[s].at # 0 /\ ~ int[sock[s].at].opened
  /\ int' = [int EXCEPT ![sock[s].at].opened = TRUE,
                        ![sock[s].at].established = ~ IsDgram]
  /\ UNCHANGED << waiting, sock, wreq, fr >>

\* Mutant: the copy is not counted.
CopyUncounted(c, s, origin) ==
  /\ At(c, "user") /\ "copy" \in use /\ ~ sock[s].live /\ sock[origin].at # 0
  /\ sock' = [sock EXCEPT ![s] = [sock[origin] EXCEPT !.alloc = TRUE]]
  /\ UNCHANGED << waiting, int, wreq, fr >>

\* A second socket for the same internal.
cat_socket_create_from_socket(c, s, origin) ==
  /\ At(c, "user") /\ "copy" \in use /\ ~ sock[s].live /\ sock[origin].at # 0
  /\ sock' = [sock EXCEPT ![s] = [sock[origin] EXCEPT !.alloc = TRUE]]
  /\ int' = [int EXCEPT ![sock[origin].at].ref = @ + 1]
  /\ UNCHANGED << waiting, wreq, fr >>

-----------------------------------------------------------------------------
\* Closing.

\* Mutant: a socket that is closed with its internal still names it.
SoftKeepsInternal(so, unrecoverable) ==
  [so EXCEPT !.closed = TRUE, !.unrecoverable = @ \/ unrecoverable]

cat_socket_soft_close(so, unrecoverable) ==
  [so EXCEPT !.closed = TRUE, !.unrecoverable = @ \/ unrecoverable, !.at = 0]

\* The end of cat_socket_close(): a socket on the heap is freed.
Released(S, s) ==
  IF s # 0 /\ S[s].alloc THEN [S EXCEPT ![s] = NoSocket] ELSE S

\* uv_close(): the close callback will free the internal.
UvClose(c, i, I, S, f) ==
  /\ int' = [int EXCEPT ![i] = [I EXCEPT !.mem = "closing"]]
  /\ sock' = Released(S, f.closing)
  /\ Back(c, f, FALSE)

\* The close resumes a coroutine, and goes on at `where' when it gets the
\* control back.
Cancel(c, i, I, S, f, target, where) ==
  /\ int' = [int EXCEPT ![i] = I]
  /\ sock' = S
  /\ pc' = [pc EXCEPT ![c] = where]
  /\ timer' = [timer EXCEPT ![c] = "none"]
  /\ fr' = [fr EXCEPT ![c] = f]
  /\ chain' = ResumeOn(chain, target)

CancelRead(c, i, I, S, f) ==
  IF READ \subseteq I.io /\ I.co # NULL
  THEN Cancel(c, i, I, S, f, I.co, "close_last")
  ELSE UvClose(c, i, I, S, f)

CancelWrites(c, i, I, S, f) ==
  IF I.wq # << >> THEN Cancel(c, i, I, S, f, Head(I.wq), "close_write")
  ELSE CancelRead(c, i, I, S, f)

\* "cancel all IO operations"
CancelAll(c, i, I, S, f) ==
  IF I.io \in {BIND, ACCEPT, CONNECT}
  THEN IF I.co # NULL THEN Cancel(c, i, I, S, f, I.co, "close_last")
                      ELSE UvClose(c, i, I, S, f)
  ELSE IF WRITE \subseteq I.io THEN CancelWrites(c, i, I, S, f)
  ELSE CancelRead(c, i, I, S, f)

\* cat_socket_internal_close_impl() by c, for one socket s or for all (0).  I is
\* the internal with what the caller has changed, f the frame of the caller.
cat_socket_internal_close_impl(c, i, I, s, unrecoverable, f) ==
  LET J == IF s # 0 THEN [I EXCEPT !.ref = @ - 1] ELSE I
      S == IF s # 0 THEN [sock EXCEPT ![s] = cat_socket_soft_close(@, FALSE)] ELSE sock
      Bound == { t \in Socket : S[t].at = i }
  IN  IF I.closed
      THEN /\ int' = [int EXCEPT ![i] = I]
           /\ UNCHANGED sock
           /\ Back(c, f, FALSE)
      ELSE IF s # 0 /\ J.ref # 0
      THEN /\ int' = [int EXCEPT ![i] = J]
           /\ sock' = Released(S, s)
           /\ Back(c, f, FALSE)
      ELSE CancelAll(c, i, [J EXCEPT !.closed = TRUE, !.ref = @ - Cardinality(Bound)],
             [t \in Socket |-> IF t \in Bound THEN cat_socket_soft_close(S[t], unrecoverable)
                                              ELSE S[t]],
             [f EXCEPT !.i = i])

\* cat_socket_close_impl(), on a socket that still has an internal or not.  No
\* program closes the connection that it is accepting, or a socket twice.
cat_socket_close(c, s) ==
  /\ At(c, "user") /\ sock[s].live
  /\ \A d \in Coroutine : /\ fr[d].conn # 0 => fr[d].conn # sock[s].at
                          /\ fr[d].closing # s
  /\ IF sock[s].at = 0
     THEN /\ sock' = Released([sock EXCEPT ![s].unrecoverable = FALSE], s)
          /\ UNCHANGED << chain, pc, timer, int, fr >>
     ELSE cat_socket_internal_close_impl(c, sock[s].at, int[sock[s].at], s, FALSE,
            [NoFrame EXCEPT !.closing = s])
  /\ UNCHANGED << loop, wreq >>


\* A cancelled coroutine has given the control back to the close.
CloseWrites(c) ==
  /\ At(c, "close_write")
  /\ CancelWrites(c, fr[c].i, int[fr[c].i], sock, fr[c])
  /\ UNCHANGED << loop, wreq >>

CloseLast(c) ==
  /\ At(c, "close_last")
  /\ UvClose(c, fr[c].i, int[fr[c].i], sock, fr[c])
  /\ UNCHANGED << loop, wreq >>

\* cat_socket_close_all(): uv_walk() over the handles there are.
cat_socket_close_all(c) ==
  /\ At(c, "user") /\ "close_all" \in use
  /\ \A d \in Coroutine : fr[d].conn = 0
  /\ GoOn(c, "walk", [NoFrame EXCEPT !.next = "walk",
                        !.todo = { i \in Internal : int[i].mem = "open" }])
  /\ UNCHANGED << loop, sock, int, wreq >>

cat_socket_close_by_handle_callback(c) ==
  /\ At(c, "walk")
  /\ IF fr[c].todo = {}
     THEN GoOn(c, "user", NoFrame) /\ UNCHANGED << sock, int >>
     ELSE LET i == CHOOSE i \in fr[c].todo : TRUE IN
          cat_socket_internal_close_impl(c, i, int[i], 0, FALSE,
            [fr[c] EXCEPT !.todo = @ \ {i}])
  /\ UNCHANGED << loop, wreq >>

\* cat_socket_close_callback(): after the callbacks of what was in flight.
cat_socket_close_callback(i) ==
  /\ LoopIdle /\ int[i].mem = "closing"
  /\ \A r \in Request : ~ (wreq[r].flight /\ wreq[r].at = i)
  /\ int[i].connecting = "no"
  /\ int' = [int EXCEPT ![i].mem = "freed"]
  /\ wreq' = [r \in Request |-> IF r = int[i].cache THEN NoRequest ELSE wreq[r]]
  /\ UNCHANGED << waiting, sock, fr >>

\* cat_socket_internal_unrecoverable_io_error()
UnrecoverableError(c, i, I, f) == cat_socket_internal_close_impl(c, i, I, 0, TRUE, f)

-----------------------------------------------------------------------------
\* Reading.

Least(m, n) == IF m < n THEN m ELSE n

\* The end of a read that has n bytes for its caller, I being the internal.
Deliver(c, i, I, f, n) ==
  /\ int' = [int EXCEPT ![i] = [I EXCEPT !.given = @ + n]]
  /\ Back(c, [f EXCEPT !.got = n], n > 0)

\* cat_socket_internal_read_raw(): what is there is taken at once.  A read of
\* all the bytes that has some waits for the others.
cat_socket_internal_read_raw(c, i, f) ==
  LET n == Least(int[i].inbox, Size)
      I == [int[i] EXCEPT !.inbox = @ - n]
  IN  IF (n > 0 /\ f.once) \/ n = Size \/ (int[i].inbox = 0 /\ int[i].eof)
      THEN Deliver(c, i, I, f, n)
      ELSE /\ int' = [int EXCEPT ![i] = [I EXCEPT !.io = @ \cup READ, !.co = c,
                                                  !.reading = TRUE]]
           /\ Wait(c, "read", [f EXCEPT !.i = i, !.inl = n, !.got = n,
                                        !.error = "ECANCELED"])

\* CAT_SOCKET_IO_CHECK(): the socket can be used, and nobody does what it is for.
Usable(s, bits) ==
  /\ sock[s].at # 0
  /\ int[sock[s].at].io \cap bits = {}
  /\ IsDgram \/ int[sock[s].at].established

\* cat_socket_internal_read(): with a cipher the decryption is the next step.
cat_socket_internal_read(c, s, once) ==
  LET i == sock[s].at
      f == [NoFrame EXCEPT !.s = s, !.i = i, !.once = once \/ IsDgram]
  IN  IF int[i].ssl
      THEN GoOn(c, "decrypt", [f EXCEPT !.next = "decrypt", !.once = TRUE]) /\ UNCHANGED int
      ELSE cat_socket_internal_read_raw(c, i, f)

\* read(): all the bytes.
cat_socket_read(c, s) ==
  /\ At(c, "user") /\ "read" \in use /\ Usable(s, READ)
  /\ cat_socket_internal_read(c, s, FALSE)
  /\ UNCHANGED << loop, sock, wreq >>

\* recv(), recvfrom() and recv_from(): what there is.
cat_socket_recv(c, s) ==
  /\ At(c, "user") /\ "read" \in use /\ Usable(s, READ)
  /\ cat_socket_internal_read(c, s, TRUE)
  /\ UNCHANGED << loop, sock, wreq >>

\* try_recv(): takes what is there.
cat_socket_try_recv(c, s) ==
  /\ At(c, "user") /\ "try_recv" \in use /\ Usable(s, READ)
  /\ LET i == sock[s].at
         n == Least(int[i].inbox, Size)
     IN  int' = [int EXCEPT ![i].inbox = @ - n, ![i].given = @ + n]
  /\ UNCHANGED << waiting, sock, wreq, fr >>

\* cat_socket_internal_read_decrypted(): it reads on, has what it needs or has
\* failed; an error of the cipher closes the socket.
cat_socket_internal_read_decrypted(c) ==
  /\ At(c, "decrypt")
  /\ LET f == fr[c] IN
     \/ GoOn(c, "user", NoFrame) /\ UNCHANGED << sock, int >>
     \/ f.ok /\ cat_socket_internal_read_raw(c, f.i, f) /\ UNCHANGED sock
     \/ f.ok /\ UnrecoverableError(c, f.i, int[f.i], [f EXCEPT !.next = "user"])
  /\ UNCHANGED << loop, wreq >>

\* cat_socket_read_callback() and cat_socket_udp_recv_callback(): `error' is
\* "ok", "ECONNRESET" for an early end, or what libuv reports.
Received(i, n, error) ==
  LET c == int[i].co
      f == [fr[c] EXCEPT !.got = @ + n, !.error = error]
  IN  /\ int' = [int EXCEPT ![i].inbox = @ - n]
      /\ fr' = [fr EXCEPT ![c] = f]
      /\ IF f.once \/ f.got = Size \/ error # "ok"
         THEN Schedule(c) ELSE UNCHANGED << chain, pc, timer >>

cat_socket_read_callback(i) ==
  /\ LoopIdle /\ int[i].reading
  /\ LET f == fr[int[i].co] IN
     \/ int[i].inbox > 0 /\ Received(i, Least(int[i].inbox, Size - f.got), "ok")
     \/ /\ int[i].inbox = 0 /\ int[i].eof
        /\ Received(i, 0, IF f.once THEN "ok" ELSE "ECONNRESET")
     \/ int[i].inbox = 0 /\ Received(i, 0, "EIO")
  /\ UNCHANGED << loop, sock, wreq >>

\* Mutant: a cancelled read gives what it has read inline.
ReadWaitedInline(c) ==
  /\ At(c, "read")
  /\ LET i == fr[c].i
         I == [int[i] EXCEPT !.io = Toggle(@, READ), !.co = NULL, !.reading = FALSE]
         n == IF fr[c].error = "ok" THEN fr[c].got ELSE fr[c].inl
     IN  Deliver(c, i, I, fr[c], n)
  /\ UNCHANGED << loop, sock, wreq >>

\* Mutant: the coroutine stays in the context.
ReadWaitedNamed(c) ==
  /\ At(c, "read")
  /\ LET i == fr[c].i
         I == [int[i] EXCEPT !.io = Toggle(@, READ), !.reading = FALSE]
     IN  Deliver(c, i, I, fr[c], fr[c].got)
  /\ UNCHANGED << loop, sock, wreq >>

\* The wait of a read is over.  After a timeout the caller gets what was read
\* inline; what the callback has put in the buffer since then is lost.
ReadWaited(c) ==
  /\ At(c, "read")
  /\ LET i == fr[c].i
         n == IF TimedOut(c) THEN fr[c].inl ELSE fr[c].got
         I == [int[i] EXCEPT !.io = Toggle(@, READ), !.co = NULL, !.reading = FALSE,
                             !.lost = @ + (fr[c].got - n)]
     IN  Deliver(c, i, I, fr[c], n)
  /\ UNCHANGED << loop, sock, wreq >>

-----------------------------------------------------------------------------
\* Writing.

FreeRequest(r) ==
  /\ ~ wreq[r].live /\ ~ wreq[r].flight
  /\ \A q \in Request : q < r => wreq[q].live \/ wreq[q].flight

\* Mutant: the cached request is taken whether it is in flight or not.
RequestCached(i, r) == IF int[i].cache # 0 THEN r = int[i].cache ELSE FreeRequest(r)

\* The request of a write: the cached one, if nobody else writes.
RequestFor(i, r) ==
  IF ~ (WRITE \subseteq int[i].io) /\ int[i].cache # 0 THEN r = int[i].cache
  ELSE FreeRequest(r)

\* cat_socket_internal_write_raw(): libuv takes the request, or refuses it.  A
\* request that has been refused and is not the cached one is not freed.
cat_socket_internal_write_raw(c, i, f) ==
  \E r \in Request :
    /\ RequestFor(i, r)
    /\ LET cache == IF WRITE \subseteq int[i].io THEN int[i].cache ELSE r IN
       \/ /\ wreq' = [wreq EXCEPT ![r] = [NoRequest EXCEPT !.live = TRUE, !.co = c, !.at = i,
                                            !.error = "ECANCELED", !.flight = TRUE]]
          /\ int' = [int EXCEPT ![i].cache = cache, ![i].io = @ \cup WRITE,
                                ![i].wq = Append(@, c)]
          /\ Wait(c, "write", [f EXCEPT !.i = i, !.r = r])
       \/ /\ "refuse" \in use
          /\ wreq' = [wreq EXCEPT ![r] = [NoRequest EXCEPT !.live = TRUE, !.at = i,
                                            !.leaked = (r # cache)]]
          /\ int' = [int EXCEPT ![i].cache = cache]
          /\ Back(c, f, FALSE)

\* cat_socket_internal_write(): encryption is done at once, or fails and closes.
cat_socket_internal_write(c, i, f) ==
  \/ cat_socket_internal_write_raw(c, i, f) /\ UNCHANGED sock
  \/ int[i].ssl /\ UnrecoverableError(c, i, int[i], f) /\ UNCHANGED wreq

\* write() and writeto().  (try_write() changes nothing of this.)
cat_socket_write(c, s) ==
  /\ At(c, "user") /\ "write" \in use /\ Usable(s, NONE)
  /\ cat_socket_internal_write(c, sock[s].at, [NoFrame EXCEPT !.s = s])
  /\ UNCHANGED loop

\* send() and sendto(): a write of one buffer.  (try_send() changes nothing.)
cat_socket_send(c, s) == cat_socket_write(c, s)

\* cat_socket_internal_write_callback().  What is in flight when the handle is
\* closed is reported as cancelled.
cat_socket_internal_write_callback(r, status) ==
  /\ LoopIdle /\ wreq[r].flight
  /\ status = "ECANCELED" <=> int[wreq[r].at].mem = "closing"
  /\ LET q == [wreq[r] EXCEPT !.flight = FALSE] IN
     IF q.co # NULL
     THEN /\ wreq' = [wreq EXCEPT ![r] = [q EXCEPT !.error = status]]
          /\ Schedule(q.co)
          /\ loop' = r
     ELSE /\ wreq' = [wreq EXCEPT ![r] = IF r = int[q.at].cache THEN q ELSE NoRequest]
          /\ UNCHANGED waiting
  /\ UNCHANGED << sock, int, fr >>

WriteCallbackReturn(r) ==
  /\ LoopAt(r)
  /\ wreq' = IF r = int[wreq[r].at].cache THEN wreq ELSE [wreq EXCEPT ![r] = NoRequest]
  /\ loop' = 0
  /\ UNCHANGED << chain, pc, timer, sock, int, fr >>

\* Mutant: the flag is taken away by every writer that leaves.
LeaveQueueClears(I, c) == [I EXCEPT !.wq = Without(@, c), !.io = @ \ WRITE]

\* The writer c leaves the queue; the last one takes the flag away.
LeaveQueue(I, c) ==
  LET q == Without(I.wq, c)
  IN  [I EXCEPT !.wq = q, !.io = IF q = << >> THEN Toggle(@, WRITE) ELSE @]

\* The wait of a write is over.  A write that is in progress can only be
\* cancelled with the whole socket.
WriteWaited(c) ==
  /\ At(c, "write")
  /\ LET i == fr[c].i
         r == fr[c].r
         I == LeaveQueue(int[i], c)
     IN  /\ wreq' = [wreq EXCEPT ![r].co = NULL]
         /\ IF TimedOut(c) \/ wreq[r].error = "ECANCELED"
            THEN UnrecoverableError(c, i, I, fr[c])
            ELSE /\ int' = [int EXCEPT ![i] = I]
                 /\ UNCHANGED sock
                 /\ Back(c, fr[c], wreq[r].error = "ok")
  /\ UNCHANGED loop

\* write_to() and its variants: the name is looked up first, and meanwhile the
\* coroutine is one of the writers.
cat_socket_write_to(c, s) ==
  /\ At(c, "user") /\ "write_to" \in use /\ Usable(s, NONE)
  /\ LET i == sock[s].at IN
     /\ int' = [int EXCEPT ![i].io = @ \cup WRITE, ![i].wq = Append(@, c)]
     /\ cat_socket_internal_getaddrbyname(c, "write_to", [NoFrame EXCEPT !.s = s, !.i = i])
  /\ UNCHANGED << loop, sock, wreq >>

cat_socket_internal_solve_write_to_address(c) ==
  /\ At(c, "write_to")
  /\ int' = [int EXCEPT ![fr[c].i] = LeaveQueue(@, c)]
  /\ IF fr[c].answer = "ok" THEN GoOn(c, "send", fr[c]) ELSE Back(c, fr[c], FALSE)
  /\ UNCHANGED << loop, sock, wreq >>

\* ... and then the datagram is sent.
WriteResolved(c) ==
  /\ At(c, "send")
  /\ cat_socket_internal_write_raw(c, fr[c].i, fr[c])
  /\ UNCHANGED << loop, sock >>

\* The answer to a lookup, to a request of the file system or to a poll.
Answered(c, answer) ==
  /\ LoopIdle /\ fr[c].answer = "pending"
  /\ fr' = [fr EXCEPT ![c].answer = answer]
  /\ Schedule(c)
  /\ UNCHANGED << loop, sock, int, wreq >>

-----------------------------------------------------------------------------
\* Binding, listening and accepting.

\* cat_socket_bind() and bind_to(): a name that is no address is looked up.
cat_socket_bind_to(c, s) ==
  /\ At(c, "user") /\ "bind_to" \in use
  /\ sock[s].at # 0 /\ int[sock[s].at].io \cap BIND = {}
  /\ LET i == sock[s].at IN
     \/ int' = [int EXCEPT ![i].opened = TRUE] /\ UNCHANGED << chain, pc, timer, fr >>
     \/ /\ int' = [int EXCEPT ![i].co = c, ![i].io = BIND]
        /\ cat_socket_internal_getaddrbyname(c, "bind", [NoFrame EXCEPT !.s = s, !.i = i])
  /\ UNCHANGED << loop, sock, wreq >>

BindResolved(c) ==
  /\ At(c, "bind")
  /\ int' = [int EXCEPT ![fr[c].i].io = NONE, ![fr[c].i].co = NULL,
                        ![fr[c].i].opened = @ \/ fr[c].answer = "ok"]
  /\ Back(c, fr[c], fr[c].answer = "ok")
  /\ UNCHANGED << loop, sock, wreq >>

cat_socket_listen(c, s) ==
  /\ At(c, "user") /\ "server" \in use
  /\ sock[s].at # 0 /\ ~ int[sock[s].at].established
  /\ int' = [int EXCEPT ![sock[s].at].opened = TRUE, ![sock[s].at].server = TRUE]
  /\ UNCHANGED << waiting, sock, wreq, fr >>

\* A turn of the loop of cat_socket_internal_accept(), I being the server.
\* uv_accept() into a socket that has been opened meanwhile drops the connection.
uv_accept(c, i, I, f) ==
  IF I.pending
  THEN /\ int' = [int EXCEPT ![i] = [I EXCEPT !.pending = FALSE],
                             ![f.conn] = [@ EXCEPT !.established = TRUE, !.opened = TRUE]]
       /\ Back(c, f, ~ int[f.conn].opened)
  ELSE /\ int' = [int EXCEPT ![i] = [I EXCEPT !.status = "ECANCELED", !.co = c, !.io = ACCEPT]]
       /\ Wait(c, "accept", f)

\* Mutant: the wait comes before the first uv_accept().
AcceptWaitsFirst(c, s, t) ==
  /\ At(c, "user") /\ "server" \in use
  /\ sock[s].at # 0 /\ int[sock[s].at].io \cap ACCEPT = {} /\ int[sock[s].at].server
  /\ sock[t].at # 0 /\ ~ int[sock[t].at].opened
  /\ int' = [int EXCEPT ![sock[s].at].status = "ECANCELED", ![sock[s].at].co = c,
                        ![sock[s].at].io = ACCEPT]
  /\ Wait(c, "accept", [NoFrame EXCEPT !.s = s, !.i = sock[s].at, !.conn = sock[t].at])
  /\ UNCHANGED << loop, sock, wreq >>

\* accept() of a connection into the lazy socket t.
cat_socket_accept(c, s, t) ==
  /\ At(c, "user") /\ "server" \in use
  /\ sock[s].at # 0 /\ int[sock[s].at].io \cap ACCEPT = {} /\ int[sock[s].at].server
  /\ sock[t].at # 0 /\ ~ int[sock[t].at].opened
  /\ uv_accept(c, sock[s].at, int[sock[s].at],
       [NoFrame EXCEPT !.s = s, !.i = sock[s].at, !.conn = sock[t].at])
  /\ UNCHANGED << loop, sock, wreq >>

AcceptWaited(c) ==
  /\ At(c, "accept")
  /\ LET i == fr[c].i
         I == [int[i] EXCEPT !.io = NONE, !.co = NULL]
     IN  IF TimedOut(c) \/ I.status = "ECANCELED"
         THEN int' = [int EXCEPT ![i] = I] /\ Back(c, fr[c], FALSE)
         ELSE uv_accept(c, i, I, fr[c])
  /\ UNCHANGED << loop, sock, wreq >>

\* A connection arrives, or an error of the listening socket is reported.
cat_socket_accept_connection_callback(i, status) ==
  /\ LoopIdle /\ int[i].server /\ int[i].mem = "open" /\ ~ int[i].pending
  /\ LET I == [int[i] EXCEPT !.pending = (status = "ok")] IN
     IF I.io = ACCEPT
     THEN /\ int' = [int EXCEPT ![i] = [I EXCEPT !.status = status]]
          /\ Schedule(I.co)
     ELSE int' = [int EXCEPT ![i] = I] /\ UNCHANGED << chain, pc, timer >>
  /\ UNCHANGED << loop, sock, wreq, fr >>

-----------------------------------------------------------------------------
\* Connecting.

\* A connect has failed; connect_to() goes on with the next address, if the
\* socket had no descriptor in the beginning and has not been closed.
ConnectFailed(c, f) ==
  IF f.addrs = 2 /\ ~ f.once /\ sock[f.s].at # 0
  THEN GoOn(c, "address", [f EXCEPT !.addrs = 1])
  ELSE Back(c, f, FALSE)

\* cat_socket_internal_connect().  libuv may refuse, and does so when a connect
\* is under way; a datagram socket is connected at once.
cat_socket_internal_connect(c, i, f) ==
  \/ UNCHANGED int /\ ConnectFailed(c, f)
  \/ /\ IsDgram
     /\ int' = [int EXCEPT ![i].established = TRUE, ![i].opened = TRUE]
     /\ Back(c, f, TRUE)
  \/ /\ ~ IsDgram /\ int[i].connecting = "no"
     /\ IF f.try
        THEN int' = [int EXCEPT ![i].connecting = "try"] /\ Back(c, f, TRUE)
        ELSE /\ int' = [int EXCEPT ![i].connecting = "connect", ![i].co = c, ![i].io = CONNECT,
                                   ![i].status = "ECANCELED"]
             /\ Wait(c, "connect", [f EXCEPT !.i = i])

\* connect() and try_connect() to an address, connect_to() and try_connect_to()
\* a name: `addrs' counts the addresses that the name may have.
cat_socket_connect(c, s) ==
  /\ At(c, "user") /\ "connect" \in use
  /\ sock[s].at # 0 /\ int[sock[s].at].io \cap CONNECT = {}
  /\ ~ int[sock[s].at].established
  /\ \E try \in BOOLEAN :
       LET i == sock[s].at
           f == [NoFrame EXCEPT !.s = s, !.i = i, !.try = try]
       IN  \/ cat_socket_internal_connect(c, i, f)
           \/ /\ "connect_to" \in use
              /\ int' = [int EXCEPT ![i].co = c, ![i].io = CONNECT]
              /\ Ask(c, "resolve", f)
  /\ UNCHANGED << loop, sock, wreq >>

ConnectResolved(c) ==
  /\ At(c, "resolve")
  /\ int' = [int EXCEPT ![fr[c].i].io = NONE, ![fr[c].i].co = NULL]
  /\ IF fr[c].answer = "ok"
     THEN GoOn(c, "address", [fr[c] EXCEPT !.answer = "no", !.addrs = 2, !.once = int[fr[c].i].opened])
     ELSE Back(c, fr[c], FALSE)
  /\ UNCHANGED << loop, sock, wreq >>

\* The next address.  One of another family needs another internal.
ConnectAddress(c) ==
  /\ At(c, "address")
  /\ \/ cat_socket_internal_connect(c, fr[c].i, fr[c]) /\ UNCHANGED sock
     \/ /\ fr[c].addrs = 1
        /\ UnrecoverableError(c, fr[c].i, int[fr[c].i], [fr[c] EXCEPT !.next = "recreate"])
  /\ UNCHANGED << loop, wreq >>

\* cat_socket_create() in the memory of the socket.
ConnectRecreate(c) ==
  /\ At(c, "recreate")
  /\ \E i \in Internal :
       /\ Fresh(i)
       /\ sock' = [sock EXCEPT ![fr[c].s] = [NoSocket EXCEPT !.live = TRUE, !.at = i]]
       /\ int' = [int EXCEPT ![i] = NewInternal]
       /\ GoOn(c, "address", [fr[c] EXCEPT !.i = i, !.next = "user", !.addrs = 0])
  /\ UNCHANGED << loop, wreq >>

\* The callbacks of connect and of try_connect.
cat_socket_internal_connect_callback(i, status) ==
  /\ LoopIdle /\ int[i].connecting # "no"
  /\ status = "ECANCELED" <=> int[i].mem = "closing"
  /\ LET I == [int[i] EXCEPT !.connecting = "no"] IN
     IF I.io = CONNECT /\ int[i].connecting = "connect"
     THEN /\ int' = [int EXCEPT ![i] = [I EXCEPT !.status = status]]
          /\ Schedule(I.co)
     ELSE /\ int' = [int EXCEPT ![i] = IF int[i].connecting = "try" /\ status = "ok"
                                       THEN [I EXCEPT !.established = TRUE, !.opened = TRUE] ELSE I]
          /\ UNCHANGED << chain, pc, timer >>
  /\ UNCHANGED << loop, sock, wreq, fr >>

\* Mutant: an interrupted connect leaves the socket as it is.
ConnectRecovers(c) ==
  /\ At(c, "connect")
  /\ LET i == fr[c].i
         I == [int[i] EXCEPT !.io = NONE, !.co = NULL]
     IN  /\ int' = [int EXCEPT ![i] = I]
         /\ UNCHANGED sock
         /\ Back(c, fr[c], FALSE)
  /\ UNCHANGED << loop, wreq >>

\* The wait of a connect is over: an interrupted one "can not recover".
ConnectWaited(c) ==
  /\ At(c, "connect")
  /\ LET i == fr[c].i
         I == [int[i] EXCEPT !.io = NONE, !.co = NULL]
     IN  IF TimedOut(c) \/ I.status = "ECANCELED"
         THEN UnrecoverableError(c, i, I, [fr[c] EXCEPT !.addrs = 0])
         ELSE /\ UNCHANGED sock
              /\ IF I.status = "ok"
                 THEN /\ int' = [int EXCEPT ![i] = [I EXCEPT !.established = TRUE, !.opened = TRUE]]
                      /\ Back(c, fr[c], TRUE)
                 ELSE int' = [int EXCEPT ![i] = I] /\ ConnectFailed(c, fr[c])
  /\ UNCHANGED << loop, wreq >>

-----------------------------------------------------------------------------
\* The handshake of a cipher, and passing sockets to another process.

cat_socket_enable_crypto(c, s) ==
  /\ At(c, "user") /\ "crypto" \in use /\ Usable(s, RDWR) /\ ~ int[sock[s].at].ssl
  /\ GoOn(c, "handshake", [NoFrame EXCEPT !.s = s, !.i = sock[s].at, !.once = TRUE,
                                          !.next = "handshake"])
  /\ UNCHANGED << loop, sock, int, wreq >>

\* A turn of the handshake: it sends or receives through the socket as any other
\* call, is done, or fails, also because the socket is closed or in use.
Handshake(c) ==
  /\ At(c, "handshake")
  /\ LET f == fr[c] IN
     \/ /\ f.ok /\ sock[f.s].at # 0
        /\ cat_socket_internal_write_raw(c, sock[f.s].at, f)
        /\ UNCHANGED sock
     \/ /\ f.ok /\ Usable(f.s, READ)
        /\ cat_socket_internal_read_raw(c, sock[f.s].at, f)
        /\ UNCHANGED << sock, wreq >>
     \/ /\ f.ok
        /\ int' = [int EXCEPT ![f.i].ssl = TRUE]
        /\ GoOn(c, "user", NoFrame)
        /\ UNCHANGED << sock, wreq >>
     \/ /\ UnrecoverableError(c, f.i, int[f.i], [f EXCEPT !.next = "user"])
        /\ UNCHANGED wreq
  /\ UNCHANGED loop

cat_socket_send_handle(c, s) ==
  /\ At(c, "user") /\ "send_handle" \in use /\ Usable(s, NONE)
  /\ cat_socket_internal_write_raw(c, sock[s].at,
       [NoFrame EXCEPT !.s = s, !.i = sock[s].at, !.next = "handle_sent"])
  /\ UNCHANGED << loop, sock >>

HandleSent(c) ==
  /\ At(c, "handle_sent")
  /\ IF fr[c].ok THEN GoOn(c, "user", NoFrame) /\ UNCHANGED << sock, int >>
     ELSE UnrecoverableError(c, fr[c].i, int[fr[c].i], [fr[c] EXCEPT !.next = "user"])
  /\ UNCHANGED << loop, wreq >>

\* accept() through a pipe: the description of the handle is read first, unless
\* the last call has kept one.
cat_socket_internal_recv_handle(c, s, t) ==
  /\ At(c, "user") /\ "ipc" \in use /\ Usable(s, ACCEPT)
  /\ sock[t].at # 0 /\ ~ int[sock[t].at].opened
  /\ LET i == sock[s].at
         f == [NoFrame EXCEPT !.s = s, !.i = i, !.conn = sock[t].at, !.next = "handle"]
     IN  IF int[i].info THEN GoOn(c, "handle", [f EXCEPT !.got = Size]) /\ UNCHANGED int
         ELSE cat_socket_internal_read_raw(c, i, f)
  /\ UNCHANGED << loop, sock, wreq >>

\* ... then the handle is accepted, or its description is kept because the types
\* do not match; after half a description the pipe cannot be used any more.
HandleRead(c) ==
  /\ At(c, "handle")
  /\ LET f == [fr[c] EXCEPT !.next = "user"] IN
     IF f.got = Size /\ ~ int[f.conn].opened
     THEN \/ /\ int' = [int EXCEPT ![f.i].info = FALSE, ![f.conn].opened = TRUE,
                                   ![f.conn].established = TRUE]
             /\ Back(c, f, TRUE) /\ UNCHANGED sock
          \/ /\ int' = [int EXCEPT ![f.i].info = TRUE]
             /\ Back(c, f, FALSE) /\ UNCHANGED sock
     ELSE IF f.got > 0 THEN UnrecoverableError(c, f.i, int[f.i], [f EXCEPT !.conn = 0])
     ELSE Back(c, f, FALSE) /\ UNCHANGED << sock, int >>
  /\ UNCHANGED << loop, wreq >>

-----------------------------------------------------------------------------
\* Looking at what can be read, and sending a file.  Both wait for the descriptor
\* without a flag, so nothing keeps others from the socket and no close
\* interrupts them.

cat_socket_peek(c, s) ==
  /\ At(c, "user") /\ "peek" \in use
  /\ sock[s].at # 0 /\ int[sock[s].at].opened
  /\ int[sock[s].at].inbox = 0 /\ ~ int[sock[s].at].eof
  /\ Ask(c, "peek", [NoFrame EXCEPT !.s = s, !.i = sock[s].at])
  /\ UNCHANGED << loop, sock, int, wreq >>

\* Readable: look again.
cat_socket_internal_peekfrom(c) ==
  /\ At(c, "peek")
  /\ LET I == int[fr[c].i] IN
     IF fr[c].answer = "ok" /\ I.mem = "open" /\ I.inbox = 0 /\ ~ I.eof
     THEN Ask(c, "peek", fr[c]) ELSE Back(c, fr[c], FALSE)
  /\ UNCHANGED << loop, sock, int, wreq >>

cat_socket_send_file(c, s) ==
  /\ At(c, "user") /\ "send_file" \in use /\ Usable(s, WRITE)
  /\ Ask(c, "file_open", [NoFrame EXCEPT !.s = s, !.i = sock[s].at, !.next = "file_sent"])
  /\ UNCHANGED << loop, sock, int, wreq >>

\* "_io_error": when a part has been sent the socket is lost.
FileFails(c, f) ==
  IF f.got > 0 THEN UnrecoverableError(c, f.i, int[f.i], [f EXCEPT !.next = "file_close"])
  ELSE GoOn(c, "file_close", f) /\ UNCHANGED << sock, int >>

\* The next part: sendfile() in the thread pool or, with a cipher, a read of the
\* file and a send.
FileOpened(c) ==
  /\ At(c, "file_open")
  /\ IF fr[c].answer = "ok" THEN Ask(c, "file_part", fr[c]) ELSE GoOn(c, "user", NoFrame)
  /\ UNCHANGED << loop, sock, int, wreq >>

cat_socket_internal_native_sendfile(c) ==
  /\ At(c, "file_part") /\ ~ int[fr[c].i].ssl
  /\ LET f == [fr[c] EXCEPT !.got = 1] IN
     IF fr[c].answer = "ok"
     THEN \/ Ask(c, "file_part", f) /\ UNCHANGED << sock, int >>
          \/ GoOn(c, "file_close", f) /\ UNCHANGED << sock, int >>
     ELSE \/ FileFails(c, fr[c])
          \/ fr[c].answer = "error" /\ Ask(c, "file_poll", fr[c]) /\ UNCHANGED << sock, int >>
  /\ UNCHANGED << loop, wreq >>

\* Writable again after EAGAIN.
FileWritable(c) ==
  /\ At(c, "file_poll")
  /\ IF fr[c].answer = "ok" THEN Ask(c, "file_part", fr[c]) /\ UNCHANGED << sock, int >>
     ELSE FileFails(c, fr[c])
  /\ UNCHANGED << loop, wreq >>

cat_socket_mock_sendfile(c) ==
  /\ At(c, "file_part") /\ int[fr[c].i].ssl
  /\ LET f == fr[c] IN
     \/ f.answer = "ok" /\ sock[f.s].at # 0 /\ cat_socket_internal_write(c, sock[f.s].at, f)
     \/ f.answer = "ok" /\ GoOn(c, "file_close", f) /\ UNCHANGED << sock, int, wreq >>
     \/ (f.answer # "ok" \/ sock[f.s].at = 0) /\ FileFails(c, f) /\ UNCHANGED wreq
  /\ UNCHANGED loop

FilePartSent(c) ==
  /\ At(c, "file_sent")
  /\ IF fr[c].ok THEN Ask(c, "file_part", [fr[c] EXCEPT !.got = 1]) /\ UNCHANGED << sock, int >>
     ELSE FileFails(c, fr[c])
  /\ UNCHANGED << loop, wreq >>

\* cat_fs_close() of the file: one more wait.
FileClose(c) ==
  /\ At(c, "file_close")
  /\ Ask(c, "file_closed", [fr[c] EXCEPT !.next = "user"])
  /\ UNCHANGED << loop, sock, int, wreq >>

FileClosed(c) ==
  /\ At(c, "file_closed")
  /\ GoOn(c, "user", NoFrame)
  /\ UNCHANGED << loop, sock, int, wreq >>

-----------------------------------------------------------------------------
\* The peer of a connection.

HasPeer(i) == i \in Noisy /\ use \cap {"read", "try_recv", "ipc", "peek"} # {}

PeerSends(i) ==
  /\ HasPeer(i) /\ int[i].opened /\ int[i].mem = "open" /\ ~ int[i].eof
  /\ int[i].sent < MaxBytes
  /\ int' = [int EXCEPT ![i].sent = @ + 1, ![i].inbox = @ + 1]
  /\ UNCHANGED << waiting, sock, wreq, fr >>

PeerCloses(i) ==
  /\ HasPeer(i) /\ int[i].opened /\ int[i].mem = "open" /\ ~ int[i].eof /\ ~ IsDgram
  /\ int' = [int EXCEPT ![i].eof = TRUE]
  /\ UNCHANGED << waiting, sock, wreq, fr >>

-----------------------------------------------------------------------------

SocketStep(c, s) ==
  \/ cat_socket_create(c, s)
  \/ cat_socket_internal_on_manual_open(c, s)
  \/ cat_socket_close(c, s)
  \/ cat_socket_read(c, s) \/ cat_socket_recv(c, s)
  \/ cat_socket_try_recv(c, s)
  \/ cat_socket_write(c, s) \/ cat_socket_send(c, s)
  \/ cat_socket_write_to(c, s)
  \/ cat_socket_bind_to(c, s)
  \/ cat_socket_listen(c, s)
  \/ cat_socket_connect(c, s)
  \/ cat_socket_enable_crypto(c, s)
  \/ cat_socket_send_handle(c, s)
  \/ cat_socket_peek(c, s)
  \/ cat_socket_send_file(c, s)
  \/ \E t \in Socket : \/ cat_socket_create_from_socket(c, s, t)
                       \/ cat_socket_accept(c, s, t)
                       \/ cat_socket_internal_recv_handle(c, s, t)

GoesOn(c) ==
  \/ CloseWrites(c) \/ CloseLast(c)
  \/ cat_socket_close_all(c) \/ cat_socket_close_by_handle_callback(c)
  \/ ReadWaited(c) \/ cat_socket_internal_read_decrypted(c)
  \/ WriteWaited(c) \/ cat_socket_internal_solve_write_to_address(c) \/ WriteResolved(c)
  \/ BindResolved(c) \/ AcceptWaited(c)
  \/ ConnectResolved(c) \/ ConnectAddress(c) \/ ConnectRecreate(c) \/ ConnectWaited(c)
  \/ Handshake(c) \/ HandleSent(c) \/ HandleRead(c)
  \/ cat_socket_internal_peekfrom(c)
  \/ FileOpened(c) \/ cat_socket_internal_native_sendfile(c) \/ FileWritable(c)
  \/ cat_socket_mock_sendfile(c) \/ FilePartSent(c) \/ FileClose(c) \/ FileClosed(c)
  \/ \E answer \in {"ok", "error"} : Answered(c, answer)

InternalStep(i) ==
  \/ cat_socket_close_callback(i)
  \/ cat_socket_read_callback(i)
  \/ \E status \in {"ok", "error"} : cat_socket_accept_connection_callback(i, status)
  \/ \E status \in {"ok", "error", "ECANCELED"} : cat_socket_internal_connect_callback(i, status)
  \/ PeerSends(i) \/ PeerCloses(i)

RequestStep(r) ==
  \/ \E status \in {"ok", "error", "ECANCELED"} : cat_socket_internal_write_callback(r, status)
  \/ WriteCallbackReturn(r)

Next ==
  /\ \/ \E c \in Coroutine :
          \/ TimeNext(c) /\ UNCHANGED << sock, int, wreq, fr >>
          \/ \E s \in Socket : SocketStep(c, s)
          \/ GoesOn(c)
     \/ \E i \in Internal : InternalStep(i)
     \/ \E r \in Request : RequestStep(r)
  /\ UNCHANGED use

Spec == SocketInit /\ [][Next]_vars

-----------------------------------------------------------------------------
\* What is under way on an internal, as the coroutines see it.

In(i, places) == { c \in Coroutine : pc[c] \in places /\ fr[c].i = i }
Exclusive(i) == In(i, {"bind", "accept", "resolve", "connect"})
Readers(i) == In(i, {"read"})
Writers(i) == In(i, {"write", "write_to"})

\* The waits without a flag, and what follows them.
Unflagged == {"peek", "file_open", "file_part", "file_poll", "file_sent", "file_close",
              "file_closed"}

Places == {"user", "read", "decrypt", "write", "write_to", "send", "bind", "accept",
           "resolve", "address", "recreate", "connect", "handshake", "handle",
           "handle_sent", "close_write", "close_last", "walk"} \cup Unflagged

\* The types of the state; a coroutine outside of a wait has no timer (the timer
\* of cat_time_wait() is closed when the wait is over).
TypeOK ==
  /\ TimeTypeOK(Places, {0} \cup Request)
  /\ sock \in [Socket -> [live : BOOLEAN, alloc : BOOLEAN, at : {0} \cup Internal,
                          closed : BOOLEAN, unrecoverable : BOOLEAN]]
  /\ \A i \in Internal : /\ int[i].mem \in {"none", "open", "closing", "freed"}
                         /\ int[i].co \in Coroutine \cup {NULL}
                         /\ int[i].ref \in Nat
  /\ \A r \in Request : wreq[r].co \in Coroutine \cup {NULL} /\ wreq[r].at \in {0} \cup Internal
  /\ \A c \in Coroutine : pc[c] # "user" \/ fr[c] = NoFrame

\* The IO flags, which decide who is refused, say exactly which operations are
\* under way: bind, accept and connect exclude everything else, a read and any
\* number of writes may go on together, and the queue of writers holds each of
\* them once.  The flags are set, toggled and overwritten in a dozen places.
\* The coroutine in the context of an internal, which callbacks and a close
\* resume, is in the operation that has put it there: nobody is resumed out of
\* a later wait by an event of an earlier one.
IoExact ==
  TypeOK /\ \A i \in Internal :
    /\ Cardinality(Exclusive(i)) + Cardinality(Readers(i)) <= 1
    /\ IF Exclusive(i) # {}
       THEN /\ Writers(i) = {}
            /\ int[i].io = IF In(i, {"bind"}) # {} THEN BIND
                           ELSE IF In(i, {"accept"}) # {} THEN ACCEPT ELSE CONNECT
       ELSE int[i].io = (IF Readers(i) # {} THEN READ ELSE NONE)
                          \cup (IF Writers(i) # {} THEN WRITE ELSE NONE)
    /\ { int[i].wq[k] : k \in DOMAIN int[i].wq } = Writers(i)
    /\ Len(int[i].wq) = Cardinality(Writers(i))
    /\ int[i].co # NULL => int[i].co \in Exclusive(i) \cup Readers(i)
    /\ int[i].reading => int[i].co \in Readers(i)


\* The memory of write requests.  What libuv has is not free, a writer's request
\* is its own until it has the control again, and the assertion of the write
\* callback (a coroutine to resume implies the WRITE flag) holds.  The memory of an
\* internal: the reference count is the number of sockets that name it, and one
\* without sockets has been closed.
MemorySafe ==
  /\ \A r \in Request :
       /\ wreq[r].flight => wreq[r].live /\ int[wreq[r].at].mem \in {"open", "closing"}
       /\ wreq[r].co # NULL => WRITE \subseteq int[wreq[r].at].io
       /\ loop = r => wreq[r].live
  /\ \A c \in Coroutine : pc[c] = "write" => wreq[fr[c].r].live /\ wreq[fr[c].r].co = c
  /\ \A i \in Internal : int[i].mem # "none" =>
       /\ int[i].ref = Cardinality({ s \in Socket : sock[s].at = i })
       /\ int[i].closed <=> int[i].ref = 0

\* Every byte of the peer is still to be read, in the buffer of a read under way,
\* with a caller, or lost by a read that has timed out; an interrupted read gives its
\* caller what it has ("for possible data").
BytesKept ==
  \A i \in Internal :
    LET buffered == { << c, k >> \in Readers(i) \X (1 .. Size) : k <= fr[c].got } IN
    int[i].sent = int[i].inbox + int[i].given + int[i].lost + Cardinality(buffered)

\* No connection waits in libuv while a coroutine waits for one.  A connect that is
\* under way in libuv is waited for, or was a try_connect(), or the internal is
\* closed: an interrupted connect never completes unnoticed on a socket that is
\* still usable.
ConnectionNotMissed ==
  /\ \A c \in Coroutine :
       pc[c] = "accept" /\ c \notin OnChain(chain) => ~ int[fr[c].i].pending
  /\ \A i \in Internal :
       int[i].connecting = "connect" => In(i, {"connect"}) # {} \/ int[i].closed

\* Once an internal is closed its operations only become fewer.
NothingStartsAfterClose ==
  [][\A i \in Internal : int[i].closed =>
       /\ Writers(i)' \subseteq Writers(i)
       /\ Readers(i)' \subseteq Readers(i)
       /\ Exclusive(i)' \subseteq Exclusive(i)]_vars

=============================================================================
