---------------------------- MODULE MCCatSocket ----------------------------
(***************************************************************************)
(* An instance of CatSocket for TLC.  Each set of operations is a program  *)
(* of its own, and the runs of the programs are checked together.          *)
(***************************************************************************)
EXTENDS CatSocket, TLC

MCSocket == 1 .. 2
MCInternal == 1 .. 2
MCRequest == 1 .. 2
MCNoisy == {1}

Stream  == {"open", "read", "write"}
Dgram   == {"open", "udp", "try_recv", "write", "write_to", "refuse", "connect"}
Server  == {"many", "server", "bind_to", "close_all"}
Client  == {"many", "connect", "connect_to"}
Shared  == {"open", "copy", "write", "send_handle", "close_all"}
Crypto  == {"open", "crypto", "read"}
Pipe    == {"many", "open", "ipc"}

File    == {"open", "write", "send_file"}
Cipher  == {"open", "crypto", "send_file"}
Look    == {"open", "peek", "read"}

MCUses == {File, Cipher, Look, Stream, Dgram, Server, Client, Shared, Crypto, Pipe}

Symmetric == Permutations(Coroutine)
=============================================================================
