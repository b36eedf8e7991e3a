----------------------------- MODULE CatServices ----------------------------
(***************************************************************************)
(* The services on top of the waits: transfers of libcurl, encrypted       *)
(* connections and the watchdog, and what is data only: buffers, websocket *)
(* frames and the HTTP parser.  A program uses some of them, a member of   *)
(* Uses, and cancels waits when "cancel" is one.                           *)
(***************************************************************************)
EXTENDS CatCurl, CatSsl, CatWatchdog, CatBuffer, CatWebsocket, CatHttp

CONSTANT Uses

VARIABLE use

data == << buffer, text, websocket, http, wire >>

vars == << waiting, curl, ssls, wd, data, use >>

Init ==
  /\ use \in Uses
  /\ TimeInit /\ WatchdogInit /\ BufferInit /\ WebsocketInit
  /\ CurlInit("multi" \in use)
  /\ SslInit("read" \notin use)
  /\ HttpInit("http" \in use)

\* The coroutines run while no call to the watchdog blocks their thread; a switch
\* is what the watchdog looks for.
Switches == wd.main = "idle" /\ wd' = IF chain' = chain THEN wd ELSE [wd EXCEPT !.same = FALSE]

Elsewhere ==
  /\ use \cap {"buffer", "header", "payload", "http"} = {}
  /\ \E c \in Coroutine :
       \/ Sleep(c) \/ Wakeup(c) \/ cat_timer_callback(c)
       \/ "cancel" \in use /\ \E target \in Coroutine : Resume(c, target)
  /\ Switches
  /\ UNCHANGED << curl, ssls, data >>

CurlStep ==
  /\ \E c \in Coroutine :
       \/ CurlWaits(c)
       \/ "easy" \in use /\ EasyNext(c)
       \/ "multi" \in use /\ MultiNext(c)
  /\ UNCHANGED << ssls, wd, data >>

SslStep ==
  /\ \/ "read" \in use /\ (PeerSends \/ \E c \in Coroutine : SslReadNext(c))
     \/ \E c \in Coroutine :
          /\ "write" \in use /\ (c = Main \/ "all" \in use)
          /\ cat_socket_internal_write_encrypted(c)
     \/ "try" \in use /\ \E c \in Coroutine : cat_socket_internal_try_write_encrypted(c)
     \/ SslLoopNext \/ \E c \in Coroutine : SslWriteNext(c)
  /\ UNCHANGED << curl, wd, data >>

WatchdogThread == cat_watchdog_loop /\ UNCHANGED << curl, ssls, data, use >>
WatchdogReturn == WatchdogCalls /\ UNCHANGED << curl, ssls, data, use >>

WatchdogStep ==
  /\ "watchdog" \in use /\ wd.main = "idle"
  /\ \E c \in Coroutine : WatchdogNext(c)
  /\ UNCHANGED << curl, ssls, data >>

DataStep ==
  /\ \/ "buffer" \in use /\ BufferNext /\ UNCHANGED << websocket, http, wire >>
     \/ "header" \in use /\ SetHeader /\ UNCHANGED << buffer, text, http, wire >>
     \/ "payload" \in use /\ MaskPiece /\ UNCHANGED << buffer, text, http, wire >>
     \/ "http" \in use /\ HttpNext /\ UNCHANGED << buffer, text, websocket >>
  /\ UNCHANGED << waiting, curl, ssls, wd >>

Next ==
  \/ (Elsewhere \/ CurlStep \/ SslStep \/ WatchdogStep \/ DataStep) /\ UNCHANGED use
  \/ WatchdogThread \/ WatchdogReturn

\* The system schedules the thread of the watchdog and the one that waits for it.
Spec == Init /\ [][Next]_vars /\ WF_vars(WatchdogThread) /\ WF_vars(WatchdogReturn)

-----------------------------------------------------------------------------
\* The places of the coroutines, and what a transfer, a connection and the watchdog
\* may look like.
TypeOK ==
  /\ TimeTypeOK({"user"} \cup CurlPlaces \cup SslPlaces, {0})
  /\ multi.running \in 0..MaxRunning /\ Fds(multi) \subseteq Sock
  /\ Len(ssl.rbuf) <= ReadSize /\ Len(ssl.bio) <= BioSize
  /\ wd.sem \in 0..1 /\ wd.alerts \in 0..MaxAlerts

\* The state is well typed.  A multi handle of one's own is closed with the call
\* (EasyCleansUp), what an easy transfer polls is still there after the poll
\* (PolledAlive), and every transfer polls for what libcurl wants (PollsWanted).
TransfersSafe ==
  TypeOK /\ EasyCleansUp("easy" \in use) /\ PolledAlive("easy" \in use) /\ PollsWanted
=============================================================================
