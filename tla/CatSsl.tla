------------------------------- MODULE CatSsl -------------------------------
(***************************************************************************)
(* src/cat_ssl.c under the encrypted operations of src/cat_socket.c: the   *)
(* path of every unit of data through the buffers of a connection.         *)
(*                                                                         *)
(* What the peer sends are units 1, 2, 3, ...: the first ones are its      *)
(* handshake, then come records of two units, at last unit 0, the alert    *)
(* that it closes.  What is sent are units 1, 2, 3, ... in the order in    *)
(* which they are encrypted, which is the only one the peer can decrypt.   *)
(* OpenSSL is external: a BIO that takes BioSize units, and SSL_read(),    *)
(* SSL_write() on whole records.                                           *)
(*                                                                         *)
(* A cancelled or failed write closes the socket (CatSocket), and memory   *)
(* for a write is always enough here: neither is modelled again.           *)
(***************************************************************************)
EXTENDS CatTime, Integers, SequencesExt

CONSTANTS Handshake,   \* units of the handshake
          BioSize,     \* units that the BIO between socket and SSL takes
          ReadSize,    \* size of the read buffer
          WriteSize,   \* size of the write buffer
          MaxUnits     \* a bound on the units of either direction

VARIABLES ssl,   \* the connection and what is on its way in
          rd,    \* the read that a coroutine is in
          out    \* what is on its way out

ssls == << ssl, rd, out >>

Units(from, to) == [i \in 1..(IF to < from THEN 0 ELSE to - from + 1) |-> from + i - 1]

NoRead == [mode |-> "none", want |-> 0, data |-> << >>, chunk |-> << >>]

\* rbuf is the read buffer, bio what the BIO holds, rec the rest of a record that
\* SSL_read() has begun, got what has been returned to the program, hs the units of
\* the handshake that SSL has seen, res the objects that exist.
\* mem is the memory of the write buffer, wlen its length, queue the writes that
\* libuv has, with what has been encrypted and the wire.
SslInit(up) ==
  /\ ssl = [state |-> IF up THEN "up" ELSE "raw", hs |-> IF up THEN Handshake ELSE 0,
            sent |-> IF up THEN Handshake ELSE 0, shut |-> FALSE, net |-> << >>,
            rbuf |-> << >>, bio |-> << >>, rec |-> << >>, got |-> << >>, res |-> {}]
  /\ rd = [c \in Coroutine |-> NoRead]
  /\ out = [mem |-> [i \in 1..WriteSize |-> 0], wlen |-> 0, queue |-> << >>,
            encrypted |-> 0, wire |-> << >>]

\* The peer sends.
PeerSends ==
  /\ ssl.state # "down" /\ ~ ssl.shut
  /\ \/ /\ ssl.sent < MaxUnits
        /\ ssl' = [ssl EXCEPT !.sent = @ + 1, !.net = Append(@, ssl.sent + 1)]
     \/ /\ ssl.sent >= Handshake /\ (ssl.sent - Handshake) % 2 = 0
        /\ ssl' = [ssl EXCEPT !.shut = TRUE, !.net = Append(@, 0)]
  /\ UNCHANGED << waiting, rd, out >>

-----------------------------------------------------------------------------
\* Creation and the handshake.

\* What a step of cat_socket_enable_crypto() and of cat_ssl_create() acquires.
Objects == << "context", "connection", "ssl", "bio", "buffers" >>

\* Mutant: an error of the setup leaves the context.
CreateLeaks(failed) ==
  LET done == { Objects[i] : i \in 1..failed }
  IN  IF failed <= 1 THEN done ELSE done \ ToSet(Objects)

\* What is left when the step after the first `failed' ones fails: the context is
\* closed by enable_crypto(), the rest by the labels of cat_ssl_create().
CreateFailed(failed) ==
  LET done == { Objects[i] : i \in 1..failed }
      freed == (IF "bio" \in done THEN {"bio"} ELSE {})
               \cup (IF "connection" \in done THEN {"connection", "ssl"} ELSE {})
  IN  done \ (freed \cup {"context"})

cat_ssl_create == ToSet(Objects) \ {"context"}

cat_ssl_close(res) == res \ {"buffers", "bio", "connection", "ssl"}

Reading == {"ssl_shake", "ssl_more", "ssl_read"}
Idle == \A c \in Coroutine : pc[c] \notin Reading

\* cat_ssl_handshake(): SSL takes what belongs to the handshake from the BIO.
cat_ssl_handshake(s) ==
  LET n == Len(SelectSeq(s.bio, LAMBDA u : u \in 1..Handshake))
  IN  [s EXCEPT !.hs = @ + n, !.bio = SubSeq(@, n + 1, Len(@))]

\* A round of the handshake; it is over or needs more from the peer.
ShakeRound(c, s) ==
  LET t == cat_ssl_handshake(s)
  IN  IF t.hs = Handshake
      THEN ssl' = [t EXCEPT !.state = "up"] /\ Return(c)
      ELSE ssl' = t /\ cat_time_wait(c, "ssl_shake", TRUE)

\* (The malloc() of cat_ssl_create(), after two objects, does not fail.)
cat_socket_enable_crypto_impl(c) ==
  /\ At(c, "user") /\ ssl.state = "raw" /\ Idle
  /\ \/ /\ \E failed \in {0, 1, 3, 4} : ssl' = [ssl EXCEPT !.res = CreateFailed(failed)]
        /\ UNCHANGED waiting
     \/ /\ ShakeRound(c, [ssl EXCEPT !.state = "shake", !.res = cat_ssl_create])
        /\ UNCHANGED loop
  /\ UNCHANGED << rd, out >>

\* Data arrives for the handshake.  The read buffer takes no more than the BIO does.
ShakeArrived(c) ==
  /\ LoopIdle /\ pc[c] = "ssl_shake" /\ timer[c] = "armed" /\ ssl.net # << >>
  /\ \E n \in 1..Min({Len(ssl.net), ReadSize}) :
       /\ rd' = [rd EXCEPT ![c].chunk = SubSeq(ssl.net, 1, n)]
       /\ ssl' = [ssl EXCEPT !.net = SubSeq(@, n + 1, Len(@))]
  /\ Schedule(c)
  /\ UNCHANGED << out, loop >>

\* Mutant: what follows the handshake in the same packet is dropped.
ShakeKeepsOwn(c) ==
  /\ At(c, "ssl_shake")
  /\ IF rd[c].chunk = << >>
     THEN ssl' = [ssl EXCEPT !.state = "down", !.res = cat_ssl_close(@)] /\ Return(c)
     ELSE ShakeRound(c, [ssl EXCEPT !.bio = @ \o SelectSeq(rd[c].chunk, LAMBDA u : u \in 1..Handshake)])
  /\ rd' = [rd EXCEPT ![c] = NoRead]
  /\ UNCHANGED << out, loop >>

\* What has arrived goes to the BIO.  A handshake that has timed out or is cancelled
\* cannot be taken up again: socket and ssl are closed.
ShakeGoesOn(c) ==
  /\ At(c, "ssl_shake")
  /\ IF rd[c].chunk = << >>
     THEN ssl' = [ssl EXCEPT !.state = "down", !.res = cat_ssl_close(@)] /\ Return(c)
     ELSE ShakeRound(c, [ssl EXCEPT !.bio = @ \o rd[c].chunk])
  /\ rd' = [rd EXCEPT ![c] = NoRead]
  /\ UNCHANGED << out, loop >>

-----------------------------------------------------------------------------
\* Reading.

\* cat_ssl_write_encrypted_bytes(): the BIO takes what it has room for.
cat_ssl_write_encrypted_bytes(s) ==
  LET n == Min({Len(s.rbuf), BioSize - Len(s.bio)})
  IN  [s EXCEPT !.bio = @ \o SubSeq(s.rbuf, 1, n), !.rbuf = SubSeq(@, n + 1, Len(@))]

\* SSL_read() of at most `room' units, from a record that is complete.
SSL_read(s, room) ==
  LET fresh == s.rec = << >> /\ Len(s.bio) >= 2
      rec == IF fresh THEN SubSeq(s.bio, 1, 2) ELSE s.rec
      n == Min({room, Len(rec)})
  IN  IF s.rec = << >> /\ s.bio # << >> /\ s.bio[1] = 0
      THEN [s |-> s, data |-> << >>, eof |-> TRUE]
      ELSE [s |-> [s EXCEPT !.bio = IF fresh THEN SubSeq(@, 3, Len(@)) ELSE @,
                            !.rec = SubSeq(rec, n + 1, Len(rec))],
            data |-> SubSeq(rec, 1, n), eof |-> FALSE]

\* cat_ssl_decrypt(): the BIO is fed and SSL_read() is called in turn until the
\* output is full, there is nothing to feed any more or the peer has closed; what
\* has not been fed stays at the front of the read buffer.
RECURSIVE cat_ssl_decrypt(_, _)
cat_ssl_decrypt(s, room) ==
  LET fed == cat_ssl_write_encrypted_bytes(s)
      r == SSL_read(fed, room)
      left == room - Len(r.data)
  IN  IF r.eof \/ left = 0 \/ (r.data = << >> /\ fed.rbuf = << >>) THEN r
      ELSE LET rest == cat_ssl_decrypt(r.s, left) IN [rest EXCEPT !.data = r.data \o @]

\* The read of c returns the data it has to the program.
Delivered(c, s, data) ==
  /\ ssl' = [s EXCEPT !.got = @ \o data]
  /\ rd' = [rd EXCEPT ![c] = NoRead]
  /\ Return(c)

\* Mutant: a read goes to the socket before it decrypts what is there.
ReadRoundEager(c, k, s) ==
  IF k.chunk = << >> /\ k.data = << >> /\ s.net # << >>
  THEN /\ ssl' = s /\ rd' = [rd EXCEPT ![c] = k]
       /\ pc' = [pc EXCEPT ![c] = "ssl_more"] /\ UNCHANGED << chain, timer >>
  ELSE LET r == cat_ssl_decrypt(s, k.want - Len(k.data))
       IN  Delivered(c, r.s, k.data \o r.data)

\* A round: the read has what it needs, or goes on to read from the socket.
ReadRound(c, k, s) ==
  LET r == cat_ssl_decrypt(s, k.want - Len(k.data))
      data == k.data \o r.data
  IN  IF r.eof \/ Len(data) = k.want \/ (data # << >> /\ k.mode # "all")
      THEN Delivered(c, r.s, data)
      ELSE /\ ssl' = r.s
           /\ rd' = [rd EXCEPT ![c] = [k EXCEPT !.data = data, !.chunk = << >>]]
           /\ pc' = [pc EXCEPT ![c] = "ssl_more"]
           /\ timer' = [timer EXCEPT ![c] = "none"]
           /\ UNCHANGED chain

\* read(), recv() and try_recv() on an encrypted socket, with a buffer of `want'.
SslRead(c) ==
  /\ At(c, "user") /\ ssl.state = "up" /\ Idle
  /\ \E mode \in {"all", "once", "try"}, want \in 1..3 :
       ReadRound(c, [NoRead EXCEPT !.mode = mode, !.want = want], ssl)
  /\ UNCHANGED << out, loop >>

\* The rest of the read buffer is offered to the socket: what has arrived already
\* is taken at once, else the read waits; try_recv() returns.
SslMore(c) ==
  LET k == rd[c]
      room == ReadSize - Len(ssl.rbuf)
  IN  /\ At(c, "ssl_more")
      /\ \/ \E n \in 1..Min({Len(ssl.net), room}) :
              ReadRound(c, k, [ssl EXCEPT !.rbuf = @ \o SubSeq(ssl.net, 1, n),
                                          !.net = SubSeq(@, n + 1, Len(@))])
         \/ ssl.net = << >> /\ k.mode = "try" /\ Delivered(c, ssl, k.data)
         \/ /\ ssl.net = << >> /\ k.mode # "try"
            /\ \E timed \in BOOLEAN : cat_time_wait(c, "ssl_read", timed)
            /\ UNCHANGED << ssl, rd >>
      /\ UNCHANGED << out, loop >>

\* The callback of the read stores behind the length of the read buffer.
SslArrived(c) ==
  /\ LoopIdle /\ pc[c] = "ssl_read" /\ timer[c] # "fired"
  /\ \E n \in 1..Min({Len(ssl.net), ReadSize - Len(ssl.rbuf)}) :
       /\ rd' = [rd EXCEPT ![c].chunk = SubSeq(ssl.net, 1, n)]
       /\ ssl' = [ssl EXCEPT !.net = SubSeq(@, n + 1, Len(@))]
  /\ Schedule(c)
  /\ UNCHANGED << out, loop >>

\* Data has arrived, or the wait is over without any: the read returns what it has.
SslReadWaited(c) ==
  /\ At(c, "ssl_read")
  /\ IF rd[c].chunk = << >> THEN Delivered(c, ssl, rd[c].data)
     ELSE ReadRound(c, rd[c], [ssl EXCEPT !.rbuf = @ \o rd[c].chunk])
  /\ UNCHANGED << out, loop >>

SslReadNext(c) ==
  \/ cat_socket_enable_crypto_impl(c) \/ ShakeArrived(c) \/ ShakeGoesOn(c)
  \/ SslRead(c) \/ SslMore(c) \/ SslArrived(c) \/ SslReadWaited(c)

-----------------------------------------------------------------------------
\* Writing.  A write of libuv is [who, shared, data, at, len]: its bytes are those
\* of the write buffer, as they are when the kernel takes them, or its own.

Cells(w, mem) == IF w.shared THEN SubSeq(mem, w.at + 1, w.len) ELSE SubSeq(w.data, w.at + 1, w.len)
Pending(o) == FlattenSeq([i \in 1..Len(o.queue) |-> Cells(o.queue[i], o.mem)])

\* cat_ssl_encrypt_buffered(): SSL_write() of records into the BIO, which is read in
\* turn, until all is in the output.
RECURSIVE cat_ssl_encrypt_buffered(_, _, _)
cat_ssl_encrypt_buffered(in, bio, output) ==
  LET n == Min({Len(in), 2, BioSize})
  IN  IF in = << >> THEN output \o bio
      ELSE cat_ssl_encrypt_buffered(SubSeq(in, n + 1, Len(in)), SubSeq(in, 1, n), output \o bio)

\* cat_ssl_encrypt() of n units: into the memory of the write buffer when it is
\* large enough, else into memory of its own.
cat_ssl_encrypt(o, n) ==
  LET data == cat_ssl_encrypt_buffered(Units(o.encrypted + 1, o.encrypted + n), << >>, << >>)
      shared == n <= Len(o.mem)
  IN  [o |-> [o EXCEPT !.encrypted = @ + n,
                       !.mem = IF shared THEN data \o SubSeq(@, n + 1, Len(@)) ELSE @],
       data |-> data, shared |-> shared]

\* The kernel takes `taken' units of a new write at once when nothing is before it.
Queued(o, who, shared, data, taken) ==
  LET w == [who |-> who, shared |-> shared, data |-> IF shared THEN << >> ELSE data,
            at |-> taken, len |-> Len(data)]
  IN  [o EXCEPT !.queue = Append(@, w), !.wire = @ \o SubSeq(data, 1, taken)]

Takes(o, n) == IF Pending(o) = << >> THEN 0..n ELSE {0}

cat_socket_internal_write_encrypted(c) ==
  /\ At(c, "user") /\ ssl.state = "up"
  /\ \E n \in 1..(MaxUnits - out.encrypted) :
       LET e == cat_ssl_encrypt(out, n)
       IN  \E taken \in Takes(out, n) : out' = Queued(e.o, c, e.shared, e.data, taken)
  /\ cat_time_wait(c, "ssl_write", FALSE)
  /\ UNCHANGED << ssl, rd, loop >>

\* Mutant: a try does not look whether the buffer is in use.
TryWriteAlways(c) ==
  /\ At(c, "user") /\ ssl.state = "up"
  /\ \E n \in 1..(MaxUnits - out.encrypted) :
       LET e == cat_ssl_encrypt(out, n)
       IN  \E sent \in Takes(out, n) :
             LET o == [e.o EXCEPT !.wire = @ \o SubSeq(e.data, 1, sent)]
                 rest == SubSeq(e.data, sent + 1, n)
                 kept == [o EXCEPT !.wlen = Len(rest),
                                   !.mem = rest \o SubSeq(@, Len(rest) + 1, Len(@))]
             IN  IF rest = << >> THEN out' = o
                 ELSE \E taken \in Takes(out, Len(rest)) :
                        out' = Queued(kept, NULL, TRUE, rest, taken)
  /\ UNCHANGED << waiting, ssl, rd >>

\* What the socket does not take at once moves to the front of the write buffer,
\* which grows when it has to, and is queued.
cat_socket_internal_try_write_encrypted(c) ==
  /\ At(c, "user") /\ ssl.state = "up" /\ out.wlen = 0
  /\ \E n \in 1..(MaxUnits - out.encrypted) :
       LET e == cat_ssl_encrypt(out, n)
       IN  \E sent \in Takes(out, n) :
             LET o == [e.o EXCEPT !.wire = @ \o SubSeq(e.data, 1, sent)]
                 rest == SubSeq(e.data, sent + 1, n)
                 kept == [o EXCEPT !.wlen = Len(rest),
                                   !.mem = rest \o SubSeq(@, Len(rest) + 1, Len(@))]
             IN  IF rest = << >> THEN out' = o
                 ELSE \E taken \in Takes(out, Len(rest)) :
                        out' = Queued(kept, NULL, TRUE, rest, taken)
  /\ UNCHANGED << waiting, ssl, rd >>

\* The socket is writable: the kernel takes units of the first write that has any.
SocketWritable ==
  /\ LoopIdle
  /\ \E i \in 1..Len(out.queue) :
       LET w == out.queue[i]
       IN  /\ w.at < w.len /\ \A j \in 1..(i - 1) : out.queue[j].at = out.queue[j].len
           /\ \E n \in 1..(w.len - w.at) :
                out' = [out EXCEPT !.queue[i].at = @ + n,
                                   !.wire = @ \o SubSeq(Cells(w, out.mem), 1, n)]
  /\ UNCHANGED << waiting, ssl, rd >>


cat_socket_internal_try_write_encrypted_callback(o) == [o EXCEPT !.wlen = 0]

\* The callback of the first write, that of a try or that of a coroutine.
SslWritten ==
  /\ LoopIdle /\ out.queue # << >> /\ Head(out.queue).at = Head(out.queue).len
  /\ LET o == [out EXCEPT !.queue = Tail(@)]
         who == Head(out.queue).who
     IN  IF who = NULL
         THEN out' = cat_socket_internal_try_write_encrypted_callback(o) /\ UNCHANGED << chain, pc, timer >>
         ELSE out' = o /\ Schedule(who)
  /\ UNCHANGED << ssl, rd, loop >>

SslWriteWaited(c) ==
  /\ At(c, "ssl_write")
  /\ Return(c)
  /\ UNCHANGED << ssls, loop >>

SslWriteNext(c) == SslWriteWaited(c)
SslLoopNext == SocketWritable \/ SslWritten

SslPlaces == Reading \cup {"ssl_write"}

-----------------------------------------------------------------------------
\* Every unit the peer has sent after its handshake is returned to the program once
\* and in order: however the packets were cut, with data that came in the packet of
\* the handshake, with reads that returned early, timed out or were cancelled.  A
\* read that goes to the socket for more has room for it in the read buffer, and
\* holds nothing back that it could have returned.  A failure at any step of
\* enable_crypto() or of the handshake leaves nothing behind.
ReadExact ==
  /\ ssl.state \in {"raw", "down"} => ssl.res = {}
  /\ \A c \in Coroutine :
       pc[c] \in {"ssl_more", "ssl_read"} =>
         /\ Len(ssl.rbuf) + Len(rd[c].chunk) < ReadSize + (IF rd[c].chunk = << >> THEN 0 ELSE 1)
         /\ ssl.rec = << >> /\ Len(ssl.bio) < 2
  /\ ssl.state # "down" =>
    LET of(f) == FlattenSeq([i \in 1..Cardinality({ c \in Coroutine : rd[c] # NoRead }) |->
                   rd[CHOOSE c \in Coroutine : rd[c] # NoRead][f]])
        way == ssl.got \o of("data") \o ssl.rec \o ssl.bio \o ssl.rbuf \o of("chunk") \o ssl.net
    IN  SelectSeq(way, LAMBDA u : u # 0) = Units(ssl.hs + 1, ssl.sent)

\* "we must encrypt all buffers at once, otherwise we will not be able to support
\* queued writes" (src/cat_socket.c:3375-3376): what has been encrypted is on the
\* wire or in a write that libuv has queued, unit after unit.
QueuedWritesIntact == out.wire \o Pending(out) = Units(1, out.encrypted)

=============================================================================
