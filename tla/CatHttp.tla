------------------------------ MODULE CatHttp -------------------------------
(***************************************************************************)
(* src/cat_http.c: the parser that stops at the events its user has asked  *)
(* for, and takes the body of a multipart message away from llhttp.        *)
(*                                                                         *)
(* The message is written as llhttp sees it: one step per callback, with a *)
(* piece of a span that the end of the buffer may have cut anywhere.  The  *)
(* name of a header matters by its length and by being content-type; its   *)
(* value is the result of the automaton of cat_http_content_type.c, so the *)
(* value of a content-type arrives uncut.  A body is counted in units, the *)
(* last of which closes a multipart, and a buffer ends with its message.   *)
(* Messages are well-formed and not chunked.                               *)
(***************************************************************************)
EXTENDS Integers, FiniteSets

CONSTANTS MaxHeaders,   \* a bound on the headers of a message
          MaxBody,      \* a bound on the length of a body
          NameCuts,     \* where in a name a buffer may end
          EventSets     \* the sets of events that a user may ask for

VARIABLES http,   \* the parser
          wire    \* llhttp, the message, and the position of the user

NameLength == [ct |-> 12, twelve |-> 12, short |-> 4, long |-> 13]
ValueLength == [multi |-> 1, plain |-> 1, text |-> 2, empty |-> 0]
Values(name) == IF name = "ct" THEN {"multi", "plain"} ELSE {"text", "empty"}

\* The states of a multipart header field; smaller ones count the letters so far.
START == 0
MAYBE_CONTENT_TYPE == 12
NOT_CONTENT_TYPE == 252
PARSING_VALUE == 253
IN_BODY == 255

\* multipart_header is the set of the places that hold the letter which content-type has
\* there: a name of twelve letters is content-type or differs from it somewhere.
ContentType == 0..11

\* `pos' is the offset in the body from which the user goes on, negative in the head;
\* `left' is what llhttp still expects, `fed' what the multipart parser has taken;
\* `kind' and `odd' say what content type the message has, and whether an earlier header
\* has a name of twelve letters or no value.
NoMessage == [at |-> "start", name |-> "none", val |-> "text", got |-> 0, headers |-> 0,
              kind |-> "none", odd |-> FALSE, total |-> 0, left |-> 0, pos |-> 0, fed |-> 0]

\* cat_http_parser_init() and set_events(), if there is a parser; what init leaves alone
\* is as it was allocated.
HttpInit(used) ==
  /\ \E events \in (IF used THEN EventSets ELSE {{}}), acceptable \in (IF used THEN BOOLEAN ELSE {FALSE}) :
       http = [events |-> events, event |-> "NONE", previous |-> "NONE", running |-> FALSE,
               state |-> START, header |-> {}, acceptable |-> acceptable, boundary |-> 0]
  /\ wire = NoMessage

Multipart == "PART" \in http.events

cat_http_parser_reset ==
  /\ ~http.running
  /\ http' = [http EXCEPT !.event = "NONE", !.state = START, !.boundary = 0]
  /\ wire' = NoMessage

\* The call returns at an event that the user wants, and at the end of the buffer.
Continues(event, more) == more /\ event \notin http.events

-----------------------------------------------------------------------------
\* cat_http_parser_execute() outside of a multipart body, up to the first callback.  A
\* call that begins in the head consumes at least one octet of it.
cat_http_parser_execute ==
  /\ ~http.running /\ http.state # IN_BODY
  /\ http' = [http EXCEPT !.previous = http.event, !.event = "NONE", !.running = TRUE]
  /\ wire' = [wire EXCEPT !.pos = IF wire.at \in {"body", "complete"} THEN @ ELSE -1]

\* The buffer ends between two spans.
BufferEnds ==
  /\ http.running /\ wire.got = 0
  /\ http' = [http EXCEPT !.running = FALSE]
  /\ wire' = [wire EXCEPT !.pos = IF @ < 0 THEN 0 ELSE @]

\* The first line of a message, with the events of its parts.
cat_http_parser_on_message_begin ==
  /\ http.running /\ wire.at = "start"
  /\ wire' = [NoMessage EXCEPT !.at = "field", !.pos = wire.pos]
  /\ http' = [http EXCEPT !.event = "LINE", !.running = Continues("LINE", TRUE)]

\* A piece of n octets of a span, the last one if `ends'.  A span begins with its first
\* octet; the end of the buffer, or no octet at all, may come after it.
Piece(n, ends, length) ==
  /\ n \in 0..(length - wire.got)
  /\ ends => wire.got + n = length
  /\ wire.got = 0 => (n > 0 \/ (length = 0 /\ ends))

\* An event that has been reported is not reported again without data.
Repeated(event, n) == http.previous = event /\ n = 0

\* Mutant: every piece of a name is copied to the beginning.
FieldFromStart(name, n) ==
  LET index == http.state + n
  IN  IF index < 13
      THEN [http EXCEPT !.state = index,
              !.header = (@ \ (0..(n - 1)))
                           \cup {i \in 0..(n - 1) : name = "ct" /\ wire.got + i = i}]
      ELSE [http EXCEPT !.state = NOT_CONTENT_TYPE]

\* The letters of a name that may still be content-type are kept.
KeepField(name, n) ==
  LET index == http.state + n
  IN  IF index < 13
      THEN [http EXCEPT !.state = index,
              !.header = (@ \ (http.state..(index - 1)))
                           \cup {i \in http.state..(index - 1) :
                                  name = "ct" /\ wire.got + i - http.state = i}]
      ELSE [http EXCEPT !.state = NOT_CONTENT_TYPE]

cat_http_parser_on_header_field ==
  \E name \in DOMAIN NameLength, n \in 0..13, ends \in BOOLEAN :
    /\ http.running /\ wire.at = "field" /\ Piece(n, ends, NameLength[name])
    /\ wire.got + n \in NameCuts \cup {NameLength[name]}
    /\ IF wire.got = 0 THEN wire.headers < MaxHeaders ELSE name = wire.name
    /\ http' = IF Repeated("FIELD", n) THEN [http EXCEPT !.running = ends]
               ELSE IF Multipart /\ n = 0 THEN [http EXCEPT !.event = "FIELD", !.running = ends]
               ELSE [(IF Multipart THEN KeepField(name, n) ELSE http) EXCEPT
                       !.event = "FIELD", !.running = Continues("FIELD", ends)]
    /\ \E val \in Values(name) :
         /\ wire.got # 0 => val = wire.val
         /\ wire' = IF ~ends THEN [wire EXCEPT !.name = name, !.val = val, !.got = @ + n]
                    ELSE [wire EXCEPT !.at = "value", !.name = name, !.val = val, !.got = 0]

\* The value of a header whose name has been kept: the automaton of a content type
\* accepts a multipart with a boundary, whose length includes the two hyphens.
KeepValue ==
  IF http.state \in 0..11 \cup {NOT_CONTENT_TYPE} THEN [http EXCEPT !.state = START]
  ELSE IF http.state # MAYBE_CONTENT_TYPE THEN http
  ELSE IF http.header # ContentType THEN [http EXCEPT !.state = NOT_CONTENT_TYPE]
  ELSE [http EXCEPT !.state = PARSING_VALUE, !.acceptable = (wire.val = "multi"),
                    !.boundary = IF wire.val = "multi" THEN 3 ELSE 0]

\* What the message says, for the properties.
Heard(name, val) ==
  IF name = "ct" THEN [wire EXCEPT !.kind = val, !.odd = @ \/ wire.kind # "none"]
  ELSE [wire EXCEPT !.odd = @ \/ (wire.kind = "none" /\ (name = "twelve" \/ val = "empty"))]

cat_http_parser_on_header_value ==
  \E n \in 0..2, ends \in BOOLEAN :
    /\ http.running /\ wire.at = "value" /\ Piece(n, ends, ValueLength[wire.val])
    /\ http' = IF Repeated("VALUE", n) THEN [http EXCEPT !.running = ends]
               ELSE [(IF Multipart THEN KeepValue ELSE http) EXCEPT
                       !.event = "VALUE", !.running = Continues("VALUE", ends)]
    /\ wire' = IF ~ends THEN [wire EXCEPT !.got = @ + n]
               ELSE [Heard(wire.name, wire.val) EXCEPT
                       !.at = "field", !.name = "none", !.got = 0, !.headers = @ + 1]

cat_http_parser_on_headers_complete ==
  /\ http.running /\ wire.at = "field" /\ wire.got = 0
  /\ http' = [http EXCEPT !.event = "HEADERS", !.running = Continues("HEADERS", TRUE),
                          !.boundary = IF Multipart /\ ~http.acceptable THEN 0 ELSE @]
  /\ \E total \in 0..MaxBody :
       wire' = [wire EXCEPT !.at = IF total = 0 THEN "complete" ELSE "body",
                            !.total = total, !.left = total,
                            !.pos = IF http'.running THEN @ ELSE 0]

-----------------------------------------------------------------------------
\* multipart_parser_execute() takes k of n units: all of them, or fewer when it stops at
\* an event or keeps back what may be a boundary.  The last one of the body ends it.
Feeds(k, n, event) ==
  /\ k \in 0..n
  /\ event = "BODY_END" <=> wire.fed + k = wire.total


\* What cat_http_parser_execute() does with the event at its end: the end of a multipart
\* is the end of the message, after which the parser is ready for the next one.
Ended(h) ==
  IF h.event \notin {"BODY_END", "COMPLETE"} THEN [h EXCEPT !.running = FALSE]
  ELSE [h EXCEPT !.event = "COMPLETE", !.running = FALSE, !.state = START, !.boundary = 0]

\* The message is over with its last unit.
Fed(k, parsed_length) ==
  IF wire.fed + k = wire.total
  THEN [NoMessage EXCEPT !.total = wire.total, !.pos = wire.pos + parsed_length]
  ELSE [wire EXCEPT !.fed = @ + k, !.pos = @ + parsed_length]

\* Mutant: what was parsed of the head is forgotten.
SolveBodyOnly(d, k) == [Fed(k, k) EXCEPT !.left = wire.left - d - (wire.total - d)]

\* cat_http_parser_solve_multipart_body(): d units of the body have come with the head or
\* after it; llhttp is told that it has seen the rest, and the multipart parser takes k.
cat_http_parser_solve_multipart_body(d, k) ==
  LET head == IF wire.pos < 0 THEN -wire.pos ELSE 0
      parsed_length == head + d
      http_parsed_length == parsed_length - d
  IN  [Fed(k, k + http_parsed_length) EXCEPT !.left = wire.left - d - (wire.total - d)]

\* A piece of the body; with a boundary the call stops here in any case.
cat_http_parser_on_body ==
  \E d \in 1..wire.left :
    /\ http.running /\ wire.at = "body"
    /\ IF http.boundary > 2
       THEN \E k \in 0..d, event \in {"NONE", "PART", "BODY_END"} :
              /\ Feeds(k, d, event)
              /\ wire' = cat_http_parser_solve_multipart_body(d, k)
              /\ http' = Ended([http EXCEPT !.event = event, !.state = IN_BODY])
       ELSE /\ wire' = [wire EXCEPT !.left = @ - d, !.pos = (IF @ < 0 THEN 0 ELSE @) + d,
                                    !.at = IF d = wire.left THEN "complete" ELSE "body"]
            /\ http' = [http EXCEPT !.event = "BODY", !.running = Continues("BODY", d = wire.left)]

\* cat_http_parser_execute() in a multipart body, with n units of it.
cat_http_parser_multipart_parser_execute ==
  \E n \in 0..(wire.total - wire.pos), k \in 0..MaxBody, event \in {"NONE", "PART", "BODY_END"} :
    /\ ~http.running /\ http.state = IN_BODY
    /\ Feeds(k, n, event)
    /\ http' = Ended([http EXCEPT !.previous = http.event, !.event = event])
    /\ wire' = Fed(k, k)

\* Every user asks for the end of a message.
cat_http_parser_on_message_complete ==
  /\ http.running /\ wire.at = "complete"
  /\ http' = Ended([http EXCEPT !.event = "COMPLETE"])
  /\ wire' = [NoMessage EXCEPT !.total = wire.total, !.pos = IF wire.pos < 0 THEN 0 ELSE wire.pos]

HttpNext ==
  \/ cat_http_parser_reset \/ cat_http_parser_execute \/ BufferEnds
  \/ cat_http_parser_on_message_begin
  \/ cat_http_parser_on_header_field \/ cat_http_parser_on_header_value
  \/ cat_http_parser_on_headers_complete
  \/ cat_http_parser_on_body \/ cat_http_parser_multipart_parser_execute
  \/ cat_http_parser_on_message_complete

-----------------------------------------------------------------------------
\* However the buffers cut the names of the headers, and wherever the calls stop, the
\* boundary of a multipart content type is known when the body begins, and no other
\* message has one.  Headers in front of it that leave the state of the field as it is,
\* a name of twelve letters or an empty value, are left out (cat_http.c:223-246).
ContentTypeFound ==
  (Multipart /\ wire.at \in {"body", "complete"} /\ ~wire.odd)
    => (http.boundary > 2 <=> wire.kind = "multi")

=============================================================================
