------------------------------- MODULE CatCurl ------------------------------
(***************************************************************************)
(* src/cat_curl.c: coroutines drive one multi handle of libcurl.  The one  *)
(* that owns the wait polls the sockets of libcurl or sleeps; others queue *)
(* for their turn.  cat_curl_easy_perform() has a multi handle of its own. *)
(*                                                                         *)
(* libcurl is external: a call into it may end transfers, set the timeout  *)
(* of the multi handle and call cat_curl_multi_socket_function(), once at  *)
(* most.  Polling is a wait that an event of a polled socket ends (CatPoll *)
(* has its requests).                                                      *)
(***************************************************************************)
EXTENDS CatTime, Integers, FiniteSets, SequencesExt

CONSTANTS Sock,         \* the sockets of libcurl
          MaxRunning,   \* a bound on the transfers of a shared multi handle
          Sharers       \* the coroutines that wait for a shared multi handle

VARIABLES multi,   \* the multi handle and its context
          call     \* what the call of a coroutine knows

curl == << multi, call >>

\* A socket that is not polled; otherwise `want' is what libcurl asked for last,
\* and `action' the bits that have accumulated.
NoFd == [want |-> {}, action |-> {}]

NoMulti == [open |-> FALSE, waiting |-> FALSE, waiters |-> << >>, running |-> 0,
            timeout |-> "none", fds |-> [s \in Sock |-> NoFd]]

NoCurlCall == [easy |-> FALSE, timeout |-> "none", running |-> 0, polled |-> {},
               ready |-> FALSE, result |-> "none"]

cat_curl_multi_create_context(running) == [NoMulti EXCEPT !.open = TRUE, !.running = running]

CurlInit(shared) ==
  /\ multi = IF shared THEN cat_curl_multi_create_context(0) ELSE NoMulti
  /\ call = [c \in Coroutine |-> NoCurlCall]

Fds(m) == { s \in Sock : m.fds[s].want # {} }

\* Mutant: only what libcurl has asked for first is polled.
PollFlagsFirst(action) == IF "in" \in action THEN {"POLLIN"} ELSE {"POLLOUT"}

cat_curl_translate_poll_flags_to_sys(action) ==
     (IF action = {"in"} THEN {} ELSE {"POLLOUT"})
  \cup (IF action = {"out"} THEN {} ELSE {"POLLIN"})

\* What else poll() reports (POLLHUP, POLLPRI) is told as one of the events that
\* were asked for.
cat_curl_translate_sys_events_to_action(events, revents) ==
  LET told == [POLLIN |-> "in", POLLOUT |-> "out", POLLERR |-> "err"]
      known == revents \cap DOMAIN told
  IN  { told[e] : e \in known }
      \cup (IF revents = known THEN {}
            ELSE IF "POLLIN" \in events THEN {"in"}
            ELSE IF "POLLOUT" \in events THEN {"out"} ELSE {})

\* libcurl polls a socket for the events `want', or does not poll it any more.
\* The bits of a new entry are those of the memory that malloc() returns.
cat_curl_multi_socket_function(fds, s, want) ==
  IF want = {} THEN { [fds EXCEPT ![s] = NoFd] }
  ELSE LET bits == IF fds[s] = NoFd THEN { {}, {"other"} } ELSE { fds[s].action }
       IN  { [fds EXCEPT ![s] = [want |-> want, action |-> b \cup want]] : b \in bits }

\* What a call into libcurl may make of a multi handle.
Libcurl(m) ==
  LET callbacks == UNION { cat_curl_multi_socket_function(m.fds, s, want) :
                             s \in Sock, want \in { {}, {"in"}, {"out"} } }
  IN  { [m EXCEPT !.running = r, !.timeout = t,
                  !.fds = IF r = 0 THEN NoMulti.fds ELSE f] :
          r \in 0..m.running, t \in {"none", "tiny", "long"}, f \in callbacks \cup {m.fds} }

-----------------------------------------------------------------------------
\* The call is over for the wait: `result' is "failed" for an error of libcurl or
\* of poll(), "events" for a number of descriptors, "none" otherwise.
Leave(c, k, m, result) ==
  /\ multi' = m
  /\ call' = [call EXCEPT ![c] =
       IF k.easy THEN [NoCurlCall EXCEPT !.easy = TRUE, !.result = result, !.running = m.running]
       ELSE NoCurlCall]
  /\ pc' = [pc EXCEPT ![c] = IF k.easy THEN "easy" ELSE "user"]
  /\ timer' = [timer EXCEPT ![c] = "none"]

FastOut(c, k, m, result) == Leave(c, k, m, result) /\ UNCHANGED chain


\* Mutant: the owner keeps its claim when there is nobody to hand it to.
OutOwning(c, k, m, result) ==
  /\ Leave(c, k, [m EXCEPT !.waiting = (m.waiters = << >>)], result)
  /\ chain' = IF m.waiters = << >> THEN chain ELSE ResumeOn(chain, Head(m.waiters))

\* The owner gives up the multi handle and resumes the first coroutine in the queue.
Out(c, k, m, result) ==
  /\ Leave(c, k, [m EXCEPT !.waiting = FALSE], result)
  /\ chain' = IF m.waiters = << >> THEN chain ELSE ResumeOn(chain, Head(m.waiters))

\* The timeout of libcurl counts when it is less than that of the call, which for a
\* call without one, -1, is never.
cat_curl_multi_timeout_solve(option, operation) ==
  IF operation = "long" /\ option = "tiny" THEN option ELSE operation

\* The next round of the owner: a delay without sockets or with a tiny timeout,
\* else a poll.
Round(c, k, m) ==
  LET timeout == cat_curl_multi_timeout_solve(m.timeout, k.timeout)
      delay == Fds(m) = {} \/ timeout = "tiny"
  IN  /\ multi' = m
      /\ call' = [call EXCEPT ![c] = [k EXCEPT !.running = m.running, !.ready = FALSE,
                                               !.polled = IF delay THEN {} ELSE Fds(m)]]
      /\ IF delay THEN cat_time_wait(c, "curl_delay", TRUE)
         ELSE cat_time_wait(c, "curl_poll", timeout # "none")

\* cat_curl_multi_wait_impl() from its beginning, on the multi handle m.
cat_curl_multi_wait_impl(c, k, m) ==
  \/ FastOut(c, k, m, "failed")
  \/ \E after \in Libcurl(m) :
       \/ after.running = 0 /\ FastOut(c, k, after, "none")
       \/ /\ after.running > 0 /\ after.waiting
          /\ multi' = [after EXCEPT !.waiters = Append(@, c)]
          /\ call' = [call EXCEPT ![c] = [k EXCEPT !.running = after.running]]
          /\ cat_time_wait(c, "curl_turn", k.timeout # "none")
       \/ /\ after.running > 0 /\ ~ after.waiting
          /\ Round(c, k, [after EXCEPT !.waiting = TRUE])

\* The wait for the turn is over.  The coroutine has left the queue when it looks
\* whether it is the first there.
CurlTurn(c) ==
  LET m == [multi EXCEPT !.waiters = SelectSeq(@, LAMBDA w : w # c)]
      first == m.waiters # << >> /\ Head(m.waiters) = c
  IN  /\ At(c, "curl_turn")
      /\ IF TimedOut(c) \/ ~ first THEN FastOut(c, call[c], m, "none")
         ELSE Round(c, call[c], [m EXCEPT !.waiting = TRUE])
      /\ UNCHANGED loop

\* After a round without an event: libcurl runs, and the owner leaves when it
\* fails, when a transfer has ended or when the time is up.
RoundOver(c, k) ==
  \/ Out(c, k, multi, "failed")
  \/ \E after \in Libcurl(multi) :
       \/ after.running < k.running /\ Out(c, k, after, "none")
       \/ /\ after.running >= k.running /\ (pc[c] = "curl_delay" => Fds(after) # {})
          /\ k.timeout # "none"
          /\ Out(c, k, after, "none")
       \/ /\ after.running >= k.running
          /\ \E left \in {k.timeout, IF k.timeout = "long" THEN "tiny" ELSE k.timeout} :
               Round(c, [k EXCEPT !.timeout = left], after)

\* A delay that is cancelled ends the wait.
CurlDelayed(c) ==
  /\ At(c, "curl_delay")
  /\ IF TimedOut(c) THEN RoundOver(c, call[c]) ELSE Out(c, call[c], multi, "none")
  /\ UNCHANGED loop

\* A poll reports events, which libcurl is told of, times out or is cancelled.
CurlPolled(c) ==
  /\ At(c, "curl_poll")
  /\ \/ call[c].ready /\ \E after \in Libcurl(multi) : Out(c, call[c], after, "events")
     \/ ~ call[c].ready /\ TimedOut(c) /\ RoundOver(c, call[c])
     \/ ~ call[c].ready /\ ~ TimedOut(c) /\ Out(c, call[c], multi, "failed")
  /\ UNCHANGED loop

CurlEvent(c) ==
  /\ LoopIdle /\ pc[c] = "curl_poll" /\ timer[c] # "fired" /\ ~ call[c].ready
  /\ call' = [call EXCEPT ![c].ready = TRUE]
  /\ Schedule(c)
  /\ UNCHANGED << multi, loop >>

-----------------------------------------------------------------------------
\* cat_curl_multi_wait() and cat_curl_multi_perform(), whose timeout is zero.
cat_curl_multi_wait(c) ==
  /\ At(c, "user") /\ c \in Sharers /\ multi.open
  /\ \E timeout \in {"none", "tiny", "long"} :
       cat_curl_multi_wait_impl(c, [NoCurlCall EXCEPT !.timeout = timeout], multi)
  /\ UNCHANGED loop

\* The program adds a transfer to the shared multi handle.
curl_multi_add_handle(c) ==
  /\ At(c, "user") /\ multi.open /\ multi.running < MaxRunning
  /\ multi' = [multi EXCEPT !.running = @ + 1]
  /\ UNCHANGED << waiting, call >>

\* Mutant: a second transfer goes to the multi handle of the first.
EasyTogether(c) ==
  /\ At(c, "user")
  /\ cat_curl_multi_wait_impl(c, [NoCurlCall EXCEPT !.easy = TRUE],
       IF multi.open THEN [multi EXCEPT !.running = 1] ELSE cat_curl_multi_create_context(1))
  /\ UNCHANGED loop

\* (The model has one multi handle, so one transfer at a time.)
cat_curl_easy_perform(c) ==
  /\ At(c, "user") /\ ~ multi.open
  /\ cat_curl_multi_wait_impl(c, [NoCurlCall EXCEPT !.easy = TRUE], cat_curl_multi_create_context(1))
  /\ UNCHANGED loop

\* Mutant: an error leaves the multi handle behind.
EasyLeaks(c) ==
  LET k == call[c]
  IN  /\ At(c, "easy")
      /\ \/ /\ k.result = "events" /\ k.running > 0
            /\ cat_curl_multi_wait_impl(c, k, multi)
         \/ /\ k.result # "events" \/ k.running = 0
            /\ multi' = IF k.result = "failed" THEN multi ELSE NoMulti
            /\ call' = [call EXCEPT ![c] = NoCurlCall]
            /\ Return(c)
      /\ UNCHANGED loop

\* After each wait: another one when there were events, else the transfer has
\* ended or is given up, and its multi handle is closed with what is left in it.
EasyGoesOn(c) ==
  LET k == call[c]
  IN  /\ At(c, "easy")
      /\ \/ /\ k.result = "events" /\ k.running > 0
            /\ cat_curl_multi_wait_impl(c, k, multi)
         \/ /\ k.result # "events" \/ k.running = 0
            /\ multi' = NoMulti
            /\ call' = [call EXCEPT ![c] = NoCurlCall]
            /\ Return(c)
      /\ UNCHANGED loop

CurlWaits(c) == CurlTurn(c) \/ CurlDelayed(c) \/ CurlPolled(c) \/ CurlEvent(c)
EasyNext(c) == cat_curl_easy_perform(c) \/ EasyGoesOn(c)
MultiNext(c) == cat_curl_multi_wait(c) \/ curl_multi_add_handle(c)

CurlPlaces == {"curl_turn", "curl_delay", "curl_poll", "easy"}

-----------------------------------------------------------------------------

\* A multi handle of cat_curl_easy_perform() is open exactly while its coroutine is
\* in the call, however the call ends (src/cat_curl.c:207-212).
EasyCleansUp(easy) ==
  easy => /\ multi.open <=> \E c \in Coroutine : pc[c] \in CurlPlaces
          /\ \A c \in Coroutine : call[c].easy <=> pc[c] \in CurlPlaces

\* The entries that cat_curl_easy_perform() has handed to poll(), and reads again
\* after it (src/cat_curl.c:505-521), are still there when the poll is over.
PolledAlive(easy) ==
  easy => \A c \in Coroutine : pc[c] = "curl_poll" => call[c].polled = Fds(multi)

\* Whatever the memory of an entry held, each event that libcurl waits for is
\* polled, and whatever poll() then reports is told to libcurl as something.
PollsWanted ==
  \A s \in Fds(multi) :
    LET events == cat_curl_translate_poll_flags_to_sys(multi.fds[s].action)
    IN  /\ "in" \in multi.fds[s].want => "POLLIN" \in events
        /\ "out" \in multi.fds[s].want => "POLLOUT" \in events
        /\ \A revents \in SUBSET {"POLLIN", "POLLOUT", "POLLERR", "POLLHUP"} :
             revents # {} => cat_curl_translate_sys_events_to_action(events, revents) # {}
=============================================================================
