----------------------------- MODULE HttpRange -----------------------------
(***************************************************************************)
(* The Range header of a request for the virtual file                      *)
(* (virtual_mp4_http.rs, resolve_range and the head of serve).  The text   *)
(* of the header is abstracted to its shape: "none" stands for a missing   *)
(* header and for everything the parser does not take for one byte range;  *)
(* NoNumber for an empty side of the dash.                                 *)
(***************************************************************************)
EXTENDS Integers

NoNumber == -1

Header == [kind : {"none", "multiple", "bytes"}, first : Nat \cup {NoNumber}, last : Nat \cup {NoNumber}]

Full == [kind |-> "full", start |-> 0, end |-> 0]
Unsatisfiable == [kind |-> "unsatisfiable", start |-> 0, end |-> 0]
\* The half-open range from..upto.
Partial(from, upto) == [kind |-> "partial", start |-> from, end |-> upto]

\* saturating_sub of the unsigned lengths.
Minus(a, b) == IF a < b THEN 0 ELSE a - b
AtMost(a, b) == IF a < b THEN a ELSE b

\* A suffix of no bytes is answered too: for checks of the properties.
EmptySuffix(n, length) == IF n = NoNumber THEN Full ELSE Partial(Minus(length, n), length)

\* "bytes=-n": the last n bytes.
Suffix(n, length) ==
    IF n = NoNumber THEN Full
    ELSE IF n = 0 \/ length = 0 THEN Unsatisfiable
    ELSE Partial(Minus(length, n), length)

\* "bytes=a-" and "bytes=a-b", the b clipped to the file.
FromFirst(first, last, length) ==
    LET end == IF last = NoNumber THEN Minus(length, 1) ELSE last
    IN IF last # NoNumber /\ end < first THEN Full
       ELSE IF first >= length THEN Unsatisfiable
       ELSE Partial(first, AtMost(end, length - 1) + 1)

resolve_range(header, length) ==
    IF header.kind # "bytes" THEN Full
    ELSE IF header.first = NoNumber THEN Suffix(header.last, length)
    ELSE FromFirst(header.first, header.last, length)

Status(requested) ==
    CASE requested.kind = "full"          -> 200
      [] requested.kind = "partial"       -> 206
      [] requested.kind = "unsatisfiable" -> 416

\* The bytes of the answer, half-open.
Bytes(requested, length) ==
    IF requested.kind = "full" THEN [start |-> 0, end |-> length]
    ELSE [start |-> requested.start, end |-> requested.end]
=============================================================================
