---------------------------- MODULE MCCatServices ---------------------------
(***************************************************************************)
(* Instances of CatServices for TLC.                                       *)
(***************************************************************************)
EXTENDS CatServices

OneSock == 1..1
TwoSharers == {Main, CHOOSE c \in Coroutine : c # Main}

\* The lengths at which the width of the field changes.
FrameLengths == {0, 1, 125, 126, 127, 65535, 65536, 70000}
FrameKeys == { << 1, 2, 3, 4 >>, << 127, 0, 0, 126 >> }

\* In front of, at and behind the places where the parser looks at the count of letters.
CutsInNames == {1, 7, 12}

\* A user who wants everything, or the parts of a multipart only, or no multipart.
UserEvents ==
  { {"LINE", "FIELD", "VALUE", "HEADERS", "BODY", "PART"}, {"PART"}, {"PART", "VALUE"}, {"VALUE", "BODY"} }

MCUses ==
  { {"easy", "cancel"}, {"multi", "cancel"},
    {"read", "cancel"}, {"write"}, {"try"},
    {"watchdog"}, {"buffer"}, {"header"}, {"payload"}, {"http"} }

WriterUses == { {"write", "all"} }
=============================================================================
