---------------------------- MODULE CodecMatrix ----------------------------
(***************************************************************************)
(* The checker of the binary payload matrix                                *)
(* (proofs/ores-stack-57/tools/binary_payload_codec_check.rs): it parses a *)
(* table line by line, then checks it row by row, then as a whole, and     *)
(* stops at the first thing wrong.                                         *)
(*                                                                         *)
(* A line is the sequence of its fields.  Of an expectation only the words *)
(* matter that the checker looks for; "correlation" and "control" stand    *)
(* for texts with one of them.  Of an error the line it is about is kept.  *)
(***************************************************************************)
EXTENDS Integers, Sequences

CONSTANTS
  MATRIX,         \* the table of the repository, as lines
  Sources,        \* the tables the checker may be given
  OtherNegatives  \* names that begin with negative_, beside those required

ASSUME CodecMatrixAssumption == Sources \subseteq Seq(Seq(STRING))

VARIABLES
  source,      \* the lines of the table
  at,          \* how many lines were parsed
  rows,        \* the lines that became rows: a Row borrows from its line
  checked,     \* how many rows were validated
  seen_cases,
  stage,       \* what is done next, or the verdict
  blamed       \* the line the error is about; 0 if there is none

vars == <<source, at, rows, checked, seen_cases, stage, blamed>>

HEADER == <<"case", "transport", "framing", "codec", "wire_id", "media_type",
            "valid", "expectation">>

NegativeCases ==
  {"negative_unknown_codec_id", "negative_empty_ws_binary",
   "negative_http_request_media", "negative_http_response_accept",
   "negative_http_response_mismatch", "negative_over_limit",
   "negative_codec_not_allowed", "negative_codec_name_alias",
   "negative_codec_name_case", "negative_codec_name_whitespace",
   "negative_trailing_junk_messagepack", "negative_trailing_junk_cbor",
   "negative_trailing_junk_protobuf", "negative_truncated_structured",
   "negative_duplicate_control_field", "negative_binary_semantic_extension",
   "negative_raw_tcp_missing_control", "negative_raw_ws_missing_control",
   "negative_decompression_bomb"}

REQUIRED_CASES == NegativeCases \cup
  {"http_json", "http_messagepack", "http_cbor", "http_protobuf", "http_raw",
   "http_accept_weighted", "http_accept_wildcard",
   "tcp_legacy_ndjson_json", "tcp_legacy_ndjson_messagepack",
   "tcp_binary_json", "tcp_binary_messagepack", "tcp_binary_cbor",
   "tcp_binary_protobuf", "tcp_binary_raw",
   "ws_text_json", "ws_text_binary",
   "ws_binary_json", "ws_binary_messagepack", "ws_binary_cbor",
   "ws_binary_protobuf", "ws_binary_raw",
   "semantic_equivalence", "raw_non_utf8", "compression_separate",
   "stream_codec_stability"}

\* The shape of a row: all of it but the expectation.
CaseShape(names, transport, framing, codec, wire_id, media_type, valid) ==
  {[case_name |-> n, transport |-> transport, framing |-> framing, codec |-> codec,
    wire_id |-> wire_id, media_type |-> media_type, valid |-> valid] : n \in names}

Structured(names, transport, framing, valid) ==
  CaseShape(names, transport, framing, "structured", "-", "-", valid)

NameRefused(name, codec) ==
  CaseShape({name}, "metadata", "contract", codec, "-", "-", FALSE)

TrailingJunk(name, codec, wire_id, media_type) ==
  CaseShape({name}, "all", "transport-specific", codec, wire_id, media_type, FALSE)

MissingControl(name, transport, framing) ==
  CaseShape({name}, transport, framing, "raw", "5", "application/octet-stream", FALSE)

REQUIRED_CASE_SHAPES ==
  Structured({"http_accept_weighted", "http_accept_wildcard"},
             "http", "native-message", TRUE)
  \cup NameRefused("negative_codec_name_alias", "msgpack")
  \cup NameRefused("negative_codec_name_case", "JSON")
  \cup NameRefused("negative_codec_name_whitespace", " raw ")
  \cup TrailingJunk("negative_trailing_junk_messagepack",
                    "messagepack", "2", "application/msgpack")
  \cup TrailingJunk("negative_trailing_junk_cbor", "cbor", "3", "application/cbor")
  \cup TrailingJunk("negative_trailing_junk_protobuf",
                    "protobuf", "4", "application/x-protobuf")
  \cup Structured({"negative_truncated_structured", "negative_duplicate_control_field",
                   "negative_binary_semantic_extension", "negative_decompression_bomb"},
                  "all", "transport-specific", FALSE)
  \cup MissingControl("negative_raw_tcp_missing_control",
                      "tcp", "length-prefixed-32be+codec")
  \cup MissingControl("negative_raw_ws_missing_control",
                      "websocket", "binary-message+codec")
  \cup Structured({"semantic_equivalence", "compression_separate"},
                  "all", "transport-specific", TRUE)
  \cup Structured({"stream_codec_stability"}, "all", "streaming", TRUE)

CodecSpec(wire_id, media_type) == [wire_id |-> wire_id, media_type |-> media_type]

canonical_codecs ==
  [json |-> CodecSpec("1", "application/json"),
   messagepack |-> CodecSpec("2", "application/msgpack"),
   cbor |-> CodecSpec("3", "application/cbor"),
   protobuf |-> CodecSpec("4", "application/x-protobuf"),
   raw |-> CodecSpec("5", "application/octet-stream")]

Canonical(codec) == codec \in DOMAIN canonical_codecs

Init ==
  /\ source \in Sources
  /\ at = 0
  /\ rows = <<>>
  /\ checked = 0
  /\ seen_cases = {}
  /\ stage = "parse"
  /\ blamed = 0

Refuse(line) ==
  /\ stage' = "refused"
  /\ blamed' = line
  /\ UNCHANGED <<source, at, rows, checked, seen_cases>>

-----------------------------------------------------------------------------
(* parse_matrix *)

Line == source[at + 1]

ZeroBased == at  \* mutant
LineNumber == at + 1

Parsing(index) == stage = "parse" /\ at < Len(source) /\ index

ReadLine ==
  /\ at' = at + 1
  /\ UNCHANGED <<source, checked, seen_cases, stage, blamed>>

WellFormed(line) ==
  /\ Len(line) = 8
  /\ \A j \in 1..8 : line[j] # ""
  /\ line[7] \in {"true", "false"}

IsEmpty(line) == line = <<"">>

ParseHeader ==
  /\ Parsing(at = 0)
  /\ \/ Line = HEADER /\ ReadLine /\ UNCHANGED rows
     \/ Line # HEADER /\ Refuse(1)

ParseEmptyLine ==
  /\ Parsing(at > 0)
  /\ IsEmpty(Line)
  /\ ReadLine
  /\ UNCHANGED rows

ParseRow ==
  /\ Parsing(at > 0)
  /\ ~IsEmpty(Line)
  /\ \/ WellFormed(Line) /\ ReadLine /\ rows' = Append(rows, at + 1)
     \/ ~WellFormed(Line) /\ Refuse(LineNumber)

EndOfTable ==
  /\ stage = "parse"
  /\ at = Len(source)
  /\ \/ rows = <<>> /\ Refuse(0)
     \/ /\ rows # <<>>
        /\ stage' = "rows"
        /\ UNCHANGED <<source, at, rows, checked, seen_cases, blamed>>

-----------------------------------------------------------------------------
(* validate *)

RowOf(line) ==
  [case_name |-> line[1], transport |-> line[2], framing |-> line[3],
   codec |-> line[4], wire_id |-> line[5], media_type |-> line[6],
   valid |-> line[7] = "true", expectation |-> line[8]]

Row(k) == RowOf(source[rows[k]])

IsNegative(name) == name \in NegativeCases \cup OtherNegatives

Says(expectation, word) == expectation \in {word, "control and correlation"}

WireCanonicalIfValid(r) ==  \* mutant
  IF Canonical(r.codec)
    THEN r.valid => canonical_codecs[r.codec] = CodecSpec(r.wire_id, r.media_type)
    ELSE r.valid => r.codec = "structured"
WireCanonical(r) ==
  IF Canonical(r.codec)
    THEN canonical_codecs[r.codec] = CodecSpec(r.wire_id, r.media_type)
    ELSE r.valid => r.codec = "structured"

InventsNothing(r) == r.codec = "structured" => r.wire_id = "-" /\ r.media_type = "-"

StatefulRawControlled(r) ==
  r.valid /\ r.transport \in {"tcp", "websocket"} /\ r.codec = "raw" =>
    Says(r.expectation, "control") /\ Says(r.expectation, "correlation")

Passes(r) ==
  /\ ~(IsNegative(r.case_name) /\ r.valid)
  /\ WireCanonical(r)
  /\ InventsNothing(r)
  /\ r.valid /\ r.framing = "ndjson" => r.codec = "json"
  /\ StatefulRawControlled(r)

AnyCase(name) == TRUE  \* mutant
NewCase(name) == name \notin seen_cases

ValidateRow ==
  /\ stage = "rows"
  /\ checked < Len(rows)
  /\ LET r == Row(checked + 1)
     IN \/ /\ NewCase(r.case_name)
           /\ Passes(r)
           /\ seen_cases' = seen_cases \cup {r.case_name}
           /\ checked' = checked + 1
           /\ UNCHANGED <<source, at, rows, stage, blamed>>
        \/ ~(NewCase(r.case_name) /\ Passes(r)) /\ Refuse(rows[checked + 1])

\* A check of the table as a whole.
Require(now, next, condition) ==
  /\ stage = now
  /\ \/ /\ condition
        /\ stage' = next
        /\ UNCHANGED <<source, at, rows, checked, seen_cases, blamed>>
     \/ ~condition /\ Refuse(0)

RequireCases ==
  /\ checked = Len(rows)
  /\ Require("rows", "shapes", REQUIRED_CASES \subseteq seen_cases)

HasShape(r, s) ==
  /\ r.transport = s.transport /\ r.framing = s.framing /\ r.codec = s.codec
  /\ r.wire_id = s.wire_id /\ r.media_type = s.media_type /\ r.valid = s.valid

\* The first row of that name has the shape.
require_case_shape(s) ==
  \E k \in 1..Len(rows) :
    /\ Row(k).case_name = s.case_name
    /\ \A j \in 1..k-1 : Row(j).case_name # s.case_name
    /\ HasShape(Row(k), s)

RequireShapes ==
  Require("shapes", "coverage", \A s \in REQUIRED_CASE_SHAPES : require_case_shape(s))

Exercised(r) == r.valid /\ Canonical(r.codec)

RequireCoverage ==
  Require("coverage", "accepted",
          {Row(k).codec : k \in {j \in 1..Len(rows) : Exercised(Row(j))}}
            = DOMAIN canonical_codecs)

Next ==
  \/ ParseHeader \/ ParseEmptyLine \/ ParseRow \/ EndOfTable
  \/ ValidateRow \/ RequireCases \/ RequireShapes \/ RequireCoverage

Spec == Init /\ [][Next]_vars

-----------------------------------------------------------------------------
(* What a hardened table is, said of its lines in whatever order *)

Lines == {i \in 2..Len(source) : ~IsEmpty(source[i])}

RowAt(i) == RowOf(source[i])

PayloadOf(r) == <<r.codec, r.wire_id, r.media_type>>

CanonicalPayloads ==
  {<<c, canonical_codecs[c].wire_id, canonical_codecs[c].media_type>> :
     c \in DOMAIN canonical_codecs}

\* A positive row has a payload that exists; a negative one may name a codec that
\* does not, but must not pair one that does with the wrong identifiers.
Sound(r) ==
  /\ \/ PayloadOf(r) \in CanonicalPayloads \cup {<<"structured", "-", "-">>}
     \/ ~r.valid /\ r.codec \notin DOMAIN canonical_codecs \cup {"structured"}
  /\ r.valid =>
       /\ ~IsNegative(r.case_name)
       /\ r.framing = "ndjson" => r.codec = "json"
       /\ r.codec = "raw" /\ r.transport \in {"tcp", "websocket"} =>
            Says(r.expectation, "control") /\ Says(r.expectation, "correlation")

\* The first n lines are rows, and sound rows of different cases.
FormedUpTo(n) == \A i \in Lines : i =< n => WellFormed(source[i])
SoundUpTo(n) ==
  /\ \A i \in Lines : i =< n => Sound(RowAt(i))
  /\ \A i, j \in Lines :
       i =< n /\ j =< n /\ RowAt(i).case_name = RowAt(j).case_name => i = j

Headed == source # <<>> /\ source[1] = HEADER

\* No line of the table is at fault.
Faultless == FormedUpTo(Len(source)) /\ SoundUpTo(Len(source))

Complete ==
  /\ \A c \in REQUIRED_CASES : \E i \in Lines : RowAt(i).case_name = c
  /\ \A s \in REQUIRED_CASE_SHAPES : \A i \in Lines :
       RowAt(i).case_name = s.case_name => HasShape(RowAt(i), s)
  /\ \A c \in DOMAIN canonical_codecs : \E i \in Lines :
       RowAt(i).valid /\ RowAt(i).codec = c

Hardened == Headed /\ Faultless /\ Complete

-----------------------------------------------------------------------------
(* One cell of the repository's table changed *)

\* The repository's table passes the checker (the test checked_in_matrix_is_hardened),
\* and has no empty line.
ASSUME MatrixAssumption ==
  /\ MATRIX \in Seq(Seq(STRING)) /\ MATRIX # <<>> /\ MATRIX[1] = HEADER
  /\ \A i \in 2..Len(MATRIX) :
       /\ WellFormed(MATRIX[i]) /\ Passes(RowOf(MATRIX[i]))
       /\ \A j \in 2..Len(MATRIX) : MATRIX[i][1] = MATRIX[j][1] => i = j
       /\ \A s \in REQUIRED_CASE_SHAPES :
            MATRIX[i][1] = s.case_name => HasShape(RowOf(MATRIX[i]), s)

ChangedCells ==
  {c \in (1..Len(MATRIX)) \X (1..8) : source[c[1]][c[2]] # MATRIX[c[1]][c[2]]}

\* The columns of row m in which one change can pass.
Loose(m) ==
  LET shaped == \E s \in REQUIRED_CASE_SHAPES : s.case_name = m.case_name
      statefulRaw == m.valid /\ m.codec = "raw" /\ m.transport \in {"tcp", "websocket"}
  IN (IF m.case_name \in REQUIRED_CASES THEN {} ELSE {1})
       \cup (IF shaped THEN {} ELSE {2, 3})
       \cup (IF shaped \/ m.valid THEN {} ELSE {4})
       \cup (IF shaped \/ Canonical(m.codec) THEN {} ELSE {5, 6})
       \cup (IF shaped \/ IsNegative(m.case_name) THEN {} ELSE {7})
       \cup (IF statefulRaw THEN {} ELSE {8})

-----------------------------------------------------------------------------
(* Properties *)

\* The checker accepts the hardened tables and no others, whatever the order of
\* their rows, though it stops at the first error, looks only at the first row of a
\* name (341) and leaves what is missing to the end (436-458).
VerdictIsRight ==
  /\ stage = "accepted" => Hardened
  /\ stage = "refused" => ~Hardened

\* An error about a line is about the first line at fault, first among all as a line
\* and then among all as a row; an error about the whole table means that no line
\* is (283-335, 375-434).
BlameIsJust ==
  stage = "refused" =>
    \/ blamed = 1 /\ source[1] # HEADER
    \/ /\ blamed > 1 /\ Headed
       /\ \/ FormedUpTo(blamed - 1) /\ ~FormedUpTo(blamed)
          \/ /\ FormedUpTo(Len(source))
             /\ SoundUpTo(blamed - 1) /\ ~SoundUpTo(blamed)
    \/ blamed = 0 /\ (source = <<>> \/ (Headed /\ Faultless /\ ~Complete))

\* One changed cell of the repository's matrix is noticed: the identifiers of every
\* row with a canonical codec, negative rows too; codec and identifiers of positive
\* rows; all but the expectation of a row with a required shape; the expectations of
\* raw rows on a stateful transport; the mark of negative_ rows (the tests at 504-557
\* try one cell each).
DriftNoticed ==
  stage = "accepted" /\ Len(source) = Len(MATRIX) =>
    \A c \in ChangedCells :
      ChangedCells = {c} => c[1] # 1 /\ c[2] \in Loose(RowOf(MATRIX[c[1]]))
=============================================================================
