---------------------------- MODULE CatWebsocket ----------------------------
(***************************************************************************)
(* src/cat_websocket.c: the header of a frame, whose masking key moves     *)
(* with the width of the payload length in front of it, and the masking of *)
(* a payload that is handled in pieces, eight octets at a time.            *)
(***************************************************************************)
EXTENDS Integers, Sequences

CONSTANTS Lengths,      \* payload lengths
          Keys,         \* masking keys, sequences of four octets
          MaxPayload    \* a bound on the payload that is masked

VARIABLES header,   \* the octets of a header
          asked,    \* the length and the key that it has been given
          octets    \* for each octet of the payload, the octet of the key it is masked with

websocket == << header, asked, octets >>

NoKey == << >>

EXT8_MAX == 125
EXT16_MAX == 65535
EXT16 == 126
EXT64 == 127

\* The first two octets are fields of their own; the bits of the opcode are left out.
cat_websocket_header_init(mem) == [plen |-> 0, mask |-> FALSE, mem |-> mem]

WebsocketInit ==
  /\ header = cat_websocket_header_init([i \in 2..13 |-> 0])
  /\ asked = [length |-> 0, key |-> NoKey]
  /\ octets = << >>

cat_websocket_calculate_masking_key_offset(length) ==
  2 + (IF length <= EXT8_MAX THEN 0 ELSE IF length <= EXT16_MAX THEN 2 ELSE 8)

cat_websocket_calculate_header_size(length, mask) ==
  cat_websocket_calculate_masking_key_offset(length) + (IF mask THEN 4 ELSE 0)

cat_websocket_header_get_masking_key_offset(h) ==
  2 + (IF h.plen < EXT16 THEN 0 ELSE IF h.plen = EXT16 THEN 2 ELSE 8)

cat_websocket_header_get_size(h) ==
  cat_websocket_header_get_masking_key_offset(h) + (IF h.mask THEN 4 ELSE 0)

\* Numbers of w octets in network order.  (A number of this model has four at most.)
HostToNet(w, n) ==
  [i \in 1..w |-> IF w - i > 3 THEN 0 ELSE (n \div 256^(w - i)) % 256]
NetToHost(mem, w) ==
  LET octet(i) == IF w - i > 3 THEN 0 ELSE mem[1 + i] * 256^(w - i)
      sum[i \in 0..w] == IF i = 0 THEN 0 ELSE sum[i - 1] + octet(i)
  IN  sum[w]

cat_websocket_header_get_payload_length(h) ==
  IF h.plen < EXT16 THEN h.plen
  ELSE NetToHost(h.mem, IF h.plen = EXT16 THEN 2 ELSE 8)

cat_websocket_header_get_masking_key(h) ==
  IF h.mask
  THEN [i \in 1..4 |-> h.mem[cat_websocket_header_get_masking_key_offset(h) + i - 1]]
  ELSE NoKey

\* memmove() and memcpy() into the header.
Store(mem, offset, data) ==
  [i \in 2..13 |-> IF i \in offset..(offset + Len(data) - 1) THEN data[i - offset + 1] ELSE mem[i]]

\* Mutant: the key is moved after the length has been stored.
SetLengthFirst(h, length) ==
  LET old == cat_websocket_header_get_masking_key_offset(h)
      set == [h EXCEPT
        !.plen = IF length <= EXT8_MAX THEN length ELSE IF length <= EXT16_MAX THEN EXT16 ELSE EXT64,
        !.mem = IF length <= EXT8_MAX THEN @
                ELSE Store(@, 2, HostToNet(IF length <= EXT16_MAX THEN 2 ELSE 8, length))]
      key == [i \in 1..4 |-> set.mem[old + i - 1]]
  IN  IF h.mask
      THEN [set EXCEPT !.mem = Store(@, cat_websocket_calculate_masking_key_offset(length), key)]
      ELSE set

\* A key that is there moves to its new place before the length is stored.
cat_websocket_header_set_payload_length(h, length) ==
  LET moved == IF h.mask
               THEN Store(h.mem, cat_websocket_calculate_masking_key_offset(length),
                          cat_websocket_header_get_masking_key(h))
               ELSE h.mem
  IN  [h EXCEPT
        !.plen = IF length <= EXT8_MAX THEN length ELSE IF length <= EXT16_MAX THEN EXT16 ELSE EXT64,
        !.mem = IF length <= EXT8_MAX THEN moved
                ELSE Store(moved, 2, HostToNet(IF length <= EXT16_MAX THEN 2 ELSE 8, length))]

cat_websocket_header_set_masking_key(h, key) ==
  IF key = NoKey THEN [h EXCEPT !.mask = FALSE]
  ELSE [h EXCEPT !.mask = TRUE,
                 !.mem = Store(@, cat_websocket_header_get_masking_key_offset(h), key)]

cat_websocket_header_set_payload_info(h, length, key) ==
  cat_websocket_header_set_masking_key(
    cat_websocket_header_set_payload_length([h EXCEPT !.mask = FALSE], length), key)

-----------------------------------------------------------------------------
\* Mutant: whole words are masked from where the piece begins.
Mask1Unaligned(length, index) ==
  LET words == 8 * (length \div 8)
  IN  [p \in 1..length |-> IF p <= words THEN (p - 1) % 4 ELSE (index + p - 1) % 4]

\* Which octet of the key each octet of a piece is masked with: octets one by one
\* up to a multiple of eight of the index, then words of eight, then the rest.
cat_websocket_mask1(length, index) ==
  LET long == length >= 8
      upto == (8 - (index % 8)) % 8
      head == IF ~ long THEN 0 ELSE IF upto < length THEN upto ELSE length
      words == IF long THEN 8 * ((length - head) \div 8) ELSE 0
  IN  [p \in 1..length |->
         IF p > head /\ p <= head + words THEN (p - head - 1) % 4 ELSE (index + p - 1) % 4]

\* The same from one place to another.
cat_websocket_mask2(length, index) == cat_websocket_mask1(length, index)

\* An empty key changes nothing: -1.
cat_websocket_mask_ex(inplace, length, empty, index) ==
  IF empty THEN [p \in 1..length |-> -1]
  ELSE IF inplace THEN cat_websocket_mask1(length, index) ELSE cat_websocket_mask2(length, index)

-----------------------------------------------------------------------------
SetHeader ==
  /\ \/ \E length \in Lengths :
          /\ header' = cat_websocket_header_set_payload_length(header, length)
          /\ asked' = [asked EXCEPT !.length = length]
     \/ \E key \in Keys \cup {NoKey} :
          /\ header' = cat_websocket_header_set_masking_key(header, key)
          /\ asked' = [asked EXCEPT !.key = key]
     \/ \E length \in Lengths, key \in Keys \cup {NoKey} :
          /\ header' = cat_websocket_header_set_payload_info(header, length, key)
          /\ asked' = [length |-> length, key |-> key]
     \/ /\ header' = cat_websocket_header_init(header.mem)
        /\ asked' = [length |-> 0, key |-> NoKey]
  /\ UNCHANGED octets

\* The next piece of the payload arrives, or is sent.
MaskPiece ==
  /\ \E length \in 1..(MaxPayload - Len(octets)), inplace, empty \in BOOLEAN :
       /\ \A i \in DOMAIN octets : (octets[i] = -1) = empty
       /\ octets' = octets \o cat_websocket_mask_ex(inplace, length, empty, Len(octets))
  /\ UNCHANGED << header, asked >>

-----------------------------------------------------------------------------
\* A header keeps the length and the key it has been given, in whatever order they
\* came and whatever widths the length had, and its size is the calculated one.
\* However a payload is cut into pieces, octet i is masked with octet i MOD 4 of
\* the key (include/cat_websocket.h:140-152), or with nothing when the key is empty.
FrameExact ==
  /\ cat_websocket_header_get_payload_length(header) = asked.length
  /\ cat_websocket_header_get_masking_key(header) = asked.key
  /\ cat_websocket_header_get_size(header)
       = cat_websocket_calculate_header_size(asked.length, asked.key # NoKey)
  /\ \A i \in 1..Len(octets) : octets[i] = IF octets[1] = -1 THEN -1 ELSE (i - 1) % 4
=============================================================================
