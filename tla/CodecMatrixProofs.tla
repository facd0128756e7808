------------------------- MODULE CodecMatrixProofs -------------------------
(* What the codec checker's verdicts mean, for every table. *)
EXTENDS CodecMatrix, TLAPS

-----------------------------------------------------------------------------
(* The rules about one row *)

\* The five codecs of the table, and that "structured" is none of them.
LEMMA CodecTable ==
  /\ DOMAIN canonical_codecs = {"json", "messagepack", "cbor", "protobuf", "raw"}
  /\ \A c \in DOMAIN canonical_codecs :
       \E w, m : canonical_codecs[c] = CodecSpec(w, m)
  /\ ~Canonical("structured")
<1>1. DOMAIN canonical_codecs = {"json", "messagepack", "cbor", "protobuf", "raw"}
  BY DEF canonical_codecs
<1>2. /\ canonical_codecs["json"] = CodecSpec("1", "application/json")
      /\ canonical_codecs["messagepack"] = CodecSpec("2", "application/msgpack")
      /\ canonical_codecs["cbor"] = CodecSpec("3", "application/cbor")
      /\ canonical_codecs["protobuf"] = CodecSpec("4", "application/x-protobuf")
      /\ canonical_codecs["raw"] = CodecSpec("5", "application/octet-stream")
  BY DEF canonical_codecs
<1>3. ASSUME NEW c \in DOMAIN canonical_codecs
      PROVE  \E w, m : canonical_codecs[c] = CodecSpec(w, m)
  <2>1. c \in {"json", "messagepack", "cbor", "protobuf", "raw"}
    BY <1>1
  <2> QED BY <2>1, <1>2
<1>4. ~Canonical("structured")
  BY <1>1 DEF Canonical
<1> QED BY <1>1, <1>3, <1>4

\* A payload is canonical when its codec is and has just these identifiers.
LEMMA PayloadCanonical ==
  ASSUME NEW c, NEW w, NEW m
  PROVE  <<c, w, m>> \in CanonicalPayloads <=>
           Canonical(c) /\ canonical_codecs[c] = CodecSpec(w, m)
<1>1. ASSUME Canonical(c)
      PROVE  canonical_codecs[c] = CodecSpec(w, m) <=>
               canonical_codecs[c].wire_id = w /\ canonical_codecs[c].media_type = m
  BY <1>1, CodecTable DEF CodecSpec, Canonical
<1>2. <<c, w, m>> \in CanonicalPayloads <=>
        /\ Canonical(c)
        /\ canonical_codecs[c].wire_id = w
        /\ canonical_codecs[c].media_type = m
  BY DEF CanonicalPayloads, Canonical
<1> QED BY <1>1, <1>2

\* What the loop of validate lets pass is what a hardened table may contain.
LEMMA PassesIsSound ==
  ASSUME NEW r
  PROVE  Passes(r) <=> Sound(r)
<1> DEFINE Known == Canonical(r.codec)
           Exact == canonical_codecs[r.codec] = CodecSpec(r.wire_id, r.media_type)
           Dashes == r.wire_id = "-" /\ r.media_type = "-"
<1>1. PayloadOf(r) \in CanonicalPayloads <=> Known /\ Exact
  BY PayloadCanonical DEF PayloadOf
<1>2. PayloadOf(r) = <<"structured", "-", "-">> <=> r.codec = "structured" /\ Dashes
  BY DEF PayloadOf
<1>3. r.codec = "structured" => ~Known
  BY CodecTable
<1>4. WireCanonical(r) /\ InventsNothing(r) <=>
        \/ Known /\ Exact
        \/ r.codec = "structured" /\ Dashes
        \/ ~r.valid /\ ~Known /\ r.codec # "structured"
  BY <1>3 DEF WireCanonical, InventsNothing
<1> HIDE DEF Known, Exact, Dashes
<1>5. WireCanonical(r) /\ InventsNothing(r) <=>
        \/ PayloadOf(r) \in CanonicalPayloads \cup {<<"structured", "-", "-">>}
        \/ ~r.valid /\ r.codec \notin DOMAIN canonical_codecs \cup {"structured"}
  BY <1>1, <1>2, <1>4 DEF Canonical, Known
<1> QED BY <1>5 DEF Passes, Sound, StatefulRawControlled

-----------------------------------------------------------------------------
(* The inductive invariant *)

Stages == {"parse", "rows", "shapes", "coverage", "accepted", "refused"}

TypeOK ==
  /\ source \in Seq(Seq(STRING))
  /\ at \in 0..Len(source)
  /\ rows \in Seq(Nat)
  /\ checked \in 0..Len(rows)
  /\ stage \in Stages
  /\ blamed \in Nat

\* The rows are the lines parsed so far that are not empty, in their order.
RowsAreLines ==
  /\ at > 0 => Headed
  /\ FormedUpTo(at)
  /\ \A k \in 1..Len(rows) : rows[k] \in Lines /\ rows[k] =< at
  /\ \A k, l \in 1..Len(rows) : k < l => rows[k] < rows[l]
  /\ \A i \in Lines : i =< at => \E k \in 1..Len(rows) : rows[k] = i

\* The rows checked so far are sound, and each has a name of its own.
CheckedAreSound ==
  /\ \A k \in 1..checked : Sound(Row(k))
  /\ seen_cases = {Row(k).case_name : k \in 1..checked}
  /\ \A k, l \in 1..checked : Row(k).case_name = Row(l).case_name => k = l

\* What is established when a stage is reached.
StageReached ==
  /\ stage = "parse" => checked = 0
  /\ stage \notin {"parse", "refused"} => at = Len(source) /\ rows # <<>>
  /\ stage \in {"shapes", "coverage", "accepted"} =>
       checked = Len(rows) /\ REQUIRED_CASES \subseteq seen_cases
  /\ stage \in {"coverage", "accepted"} =>
       \A s \in REQUIRED_CASE_SHAPES : require_case_shape(s)
  /\ stage = "accepted" =>
       {Row(k).codec : k \in {j \in 1..Len(rows) : Exercised(Row(j))}}
         = DOMAIN canonical_codecs

Scan == TypeOK /\ RowsAreLines /\ CheckedAreSound /\ StageReached

\* What is said of the table does not change while the table does not.
LEMMA SameTable ==
  ASSUME source' = source
  PROVE  /\ Lines' = Lines
         /\ Headed' = Headed
         /\ \A i : RowAt(i)' = RowAt(i)
         /\ \A n : FormedUpTo(n)' <=> FormedUpTo(n)
         /\ \A n : SoundUpTo(n)' <=> SoundUpTo(n)
         /\ Complete' <=> Complete
         /\ Faultless' <=> Faultless
<1>1. Lines' = Lines
  BY DEF Lines
<1>2. Headed' = Headed
  BY DEF Headed
<1>3. \A i : RowAt(i)' = RowAt(i)
  BY DEF RowAt
<1>4. \A n : FormedUpTo(n)' <=> FormedUpTo(n)
  BY <1>1 DEF FormedUpTo
<1>5. \A n : SoundUpTo(n)' <=> SoundUpTo(n)
  BY <1>1, <1>3 DEF SoundUpTo
<1>6. Complete' <=> Complete
  BY <1>1, <1>3 DEF Complete
<1>7. Faultless' <=> Faultless
  BY <1>4, <1>5 DEF Faultless
<1> QED BY <1>1, <1>2, <1>3, <1>4, <1>5, <1>6, <1>7

\* Refusing leaves the tables of the scan alone.
LEMMA RefusingKeepsScan ==
  ASSUME Scan, NEW line \in Nat, Refuse(line)
  PROVE  Scan'
<1> USE DEF Scan, Refuse
<1>1. TypeOK'
  BY DEF TypeOK, Stages
<1>2. RowsAreLines'
  BY SameTable DEF RowsAreLines
<1>3. CheckedAreSound'
  BY DEF CheckedAreSound, Row
<1>4. StageReached'
  BY DEF StageReached
<1> QED BY <1>1, <1>2, <1>3, <1>4

-----------------------------------------------------------------------------
(* What the tables of the scan say of the lines *)

\* A row is the line it was parsed from.
LEMMA RowIsLine ==
  ASSUME TypeOK, RowsAreLines, NEW k \in 1..Len(rows)
  PROVE  rows[k] \in Lines /\ rows[k] \in Nat /\ Row(k) = RowAt(rows[k])
  BY DEF TypeOK, RowsAreLines, Row, RowAt, Lines

\* When the lines up to n are rows that were checked, they are sound.
LEMMA CheckedPrefix ==
  ASSUME Scan, at = Len(source), NEW n \in Nat,
         \A k \in 1..Len(rows) : rows[k] =< n => k =< checked
  PROVE  SoundUpTo(n)
<1>1. ASSUME NEW i \in Lines, i =< n
      PROVE  \E k \in 1..checked : rows[k] = i /\ Row(k) = RowAt(i)
  <2>1. i =< at
    BY DEF Scan, TypeOK, Lines
  <2>2. PICK k \in 1..Len(rows) : rows[k] = i
    BY <2>1 DEF Scan, RowsAreLines
  <2>3. k \in 1..checked
    BY <1>1, <2>2 DEF Scan, TypeOK
  <2> QED BY <2>2, <2>3, RowIsLine DEF Scan
<1>2. ASSUME NEW i \in Lines, i =< n
      PROVE  Sound(RowAt(i))
  <2>1. PICK k \in 1..checked : rows[k] = i /\ Row(k) = RowAt(i)
    BY <1>1, <1>2
  <2> QED BY <2>1 DEF Scan, CheckedAreSound
<1>3. ASSUME NEW i \in Lines, NEW j \in Lines, i =< n, j =< n,
             RowAt(i).case_name = RowAt(j).case_name
      PROVE  i = j
  <2>1. PICK k \in 1..checked : rows[k] = i /\ Row(k) = RowAt(i)
    BY <1>1, <1>3
  <2>2. PICK l \in 1..checked : rows[l] = j /\ Row(l) = RowAt(j)
    BY <1>1, <1>3
  <2>3. k = l
    BY <1>3, <2>1, <2>2 DEF Scan, CheckedAreSound
  <2> QED BY <2>1, <2>2, <2>3
<1> QED BY <1>2, <1>3 DEF SoundUpTo

\* When every row was checked no line is at fault.
LEMMA AllChecked ==
  ASSUME Scan, at = Len(source), checked = Len(rows)
  PROVE  Faultless
<1>1. Len(source) \in Nat
  BY DEF Scan, TypeOK
<1>2. SoundUpTo(Len(source))
  BY <1>1, CheckedPrefix DEF Scan, TypeOK
<1>3. FormedUpTo(Len(source))
  BY DEF Scan, RowsAreLines
<1> QED BY <1>2, <1>3 DEF Faultless

\* The first row that does not pass is the first line at fault.
LEMMA FirstUnsound ==
  ASSUME Scan, at = Len(source), checked < Len(rows),
         LET r == Row(checked + 1) IN ~(NewCase(r.case_name) /\ Passes(r))
  PROVE  /\ rows[checked + 1] \in Nat
         /\ rows[checked + 1] > 1
         /\ SoundUpTo(rows[checked + 1] - 1)
         /\ ~SoundUpTo(rows[checked + 1])
<1> DEFINE k == checked + 1
           b == rows[checked + 1]
<1>0. /\ k \in 1..Len(rows)
      /\ b \in Nat /\ b > 1 /\ b \in Lines /\ b - 1 \in Nat
      /\ Row(k) = RowAt(b)
  BY RowIsLine DEF Scan, TypeOK, Lines
<1>1. SoundUpTo(b - 1)
  <2>1. ASSUME NEW l \in 1..Len(rows), rows[l] =< b - 1
        PROVE  l =< checked
    <3>1. ~(k < l)
      BY <1>0, <2>1 DEF Scan, TypeOK, RowsAreLines
    <3> QED BY <1>0, <2>1, <3>1 DEF Scan, TypeOK
  <2> QED BY <1>0, <2>1, CheckedPrefix
<1>2. CASE ~Passes(Row(k))
  <2>1. ~Sound(RowAt(b))
    BY <1>0, <1>2, PassesIsSound
  <2> QED BY <1>0, <1>1, <2>1 DEF SoundUpTo
<1>3. CASE ~NewCase(Row(k).case_name)
  <2>1. PICK l \in 1..checked : Row(l).case_name = Row(k).case_name
    BY <1>3 DEF NewCase, Scan, CheckedAreSound
  <2>2. l \in 1..Len(rows) /\ l < k
    BY DEF Scan, TypeOK
  <2>3. rows[l] \in Lines /\ rows[l] \in Nat /\ Row(l) = RowAt(rows[l])
    BY <2>2, RowIsLine DEF Scan
  <2>4. rows[l] < b
    BY <1>0, <2>2 DEF Scan, RowsAreLines
  <2>5. RowAt(rows[l]).case_name = RowAt(b).case_name
    BY <1>0, <2>1, <2>3
  <2> QED BY <1>0, <1>1, <2>3, <2>4, <2>5 DEF SoundUpTo
<1> QED BY <1>1, <1>0, <1>2, <1>3

\* Every row a shape is required of is a required row.
LEMMA ShapesAreRequired ==
  \A s \in REQUIRED_CASE_SHAPES : s.case_name \in REQUIRED_CASES
<1> SUFFICES ASSUME NEW s \in REQUIRED_CASE_SHAPES
             PROVE  s.case_name \in REQUIRED_CASES
  OBVIOUS
<1> DEFINE Agg(N) == \E t, f, v : s \in Structured(N, t, f, v)
           Ref(n) == \E c : s \in NameRefused(n, c)
           Junk(n) == \E c, w, m : s \in TrailingJunk(n, c, w, m)
           Miss(n) == \E t, f : s \in MissingControl(n, t, f)
<1>1. \/ Agg({"http_accept_weighted", "http_accept_wildcard"})
      \/ Ref("negative_codec_name_alias")
      \/ Ref("negative_codec_name_case")
      \/ Ref("negative_codec_name_whitespace")
      \/ Junk("negative_trailing_junk_messagepack")
      \/ Junk("negative_trailing_junk_cbor")
      \/ Junk("negative_trailing_junk_protobuf")
      \/ Agg({"negative_truncated_structured", "negative_duplicate_control_field",
              "negative_binary_semantic_extension", "negative_decompression_bomb"})
      \/ Miss("negative_raw_tcp_missing_control")
      \/ Miss("negative_raw_ws_missing_control")
      \/ Agg({"semantic_equivalence", "compression_separate"})
      \/ Agg({"stream_codec_stability"})
  BY Zenon DEF REQUIRED_CASE_SHAPES
<1>2. /\ \A N : Agg(N) => s.case_name \in N
      /\ \A n : Ref(n) \/ Junk(n) \/ Miss(n) => s.case_name = n
  BY DEF Structured, NameRefused, TrailingJunk, MissingControl, CaseShape
<1> HIDE DEF Agg, Ref, Junk, Miss
<1> QED BY <1>1, <1>2 DEF REQUIRED_CASES, NegativeCases

\* When the table has been parsed, its lines and its rows are the same.
LEMMA LinesAreRows ==
  ASSUME Scan, at = Len(source)
  PROVE  /\ \A i \in Lines : \E k \in 1..Len(rows) : rows[k] = i /\ Row(k) = RowAt(i)
         /\ \A k \in 1..Len(rows) : rows[k] \in Lines /\ Row(k) = RowAt(rows[k])
<1>1. \A k \in 1..Len(rows) : rows[k] \in Lines /\ Row(k) = RowAt(rows[k])
  BY RowIsLine DEF Scan
<1>2. \A i \in Lines : \E k \in 1..Len(rows) : rows[k] = i
  BY DEF Scan, TypeOK, RowsAreLines, Lines
<1> QED BY <1>1, <1>2

\* The three checks of the whole table say of the rows what Complete says of the lines.
LEMMA CasesPresent ==
  ASSUME Scan, at = Len(source), checked = Len(rows)
  PROVE  REQUIRED_CASES \subseteq seen_cases <=>
           \A c \in REQUIRED_CASES : \E i \in Lines : RowAt(i).case_name = c
<1>1. seen_cases = {RowAt(i).case_name : i \in Lines}
  BY LinesAreRows DEF Scan, CheckedAreSound
<1> QED BY <1>1

LEMMA ShapesKept ==
  ASSUME Scan, at = Len(source), checked = Len(rows), REQUIRED_CASES \subseteq seen_cases,
         NEW s \in REQUIRED_CASE_SHAPES
  PROVE  require_case_shape(s) <=>
           \A i \in Lines : RowAt(i).case_name = s.case_name => HasShape(RowAt(i), s)
<1>1. PICK k \in 1..Len(rows) : Row(k).case_name = s.case_name
  BY ShapesAreRequired DEF Scan, CheckedAreSound
<1>2. \A l \in 1..Len(rows) : Row(l).case_name = s.case_name => l = k
  BY <1>1 DEF Scan, CheckedAreSound
<1>3. k \in Nat /\ \A j \in 1..k-1 : j \in 1..Len(rows) /\ j # k
  BY DEF Scan, TypeOK
<1>4. require_case_shape(s) <=> HasShape(Row(k), s)
  BY <1>1, <1>2, <1>3 DEF require_case_shape
<1>5. (\A i \in Lines : RowAt(i).case_name = s.case_name => HasShape(RowAt(i), s))
        <=> HasShape(Row(k), s)
  BY <1>1, <1>2, LinesAreRows
<1> QED BY <1>4, <1>5

LEMMA CodecsExercised ==
  ASSUME Scan, at = Len(source)
  PROVE  {Row(k).codec : k \in {j \in 1..Len(rows) : Exercised(Row(j))}}
           = DOMAIN canonical_codecs
         <=> \A c \in DOMAIN canonical_codecs : \E i \in Lines :
               RowAt(i).valid /\ RowAt(i).codec = c
<1>1. {Row(k).codec : k \in {j \in 1..Len(rows) : Exercised(Row(j))}}
        = {RowAt(i).codec : i \in {j \in Lines : Exercised(RowAt(j))}}
  BY LinesAreRows
<1>2. {RowAt(i).codec : i \in {j \in Lines : Exercised(RowAt(j))}}
        \subseteq DOMAIN canonical_codecs
  BY DEF Exercised, Canonical
<1>3. DOMAIN canonical_codecs \subseteq
        {RowAt(i).codec : i \in {j \in Lines : Exercised(RowAt(j))}}
      <=> \A c \in DOMAIN canonical_codecs : \E i \in Lines :
            RowAt(i).valid /\ RowAt(i).codec = c
  BY DEF Exercised, Canonical
<1> QED BY <1>1, <1>2, <1>3

\* What the last three checks decide.
LEMMA WholeTable ==
  ASSUME Scan, at = Len(source), checked = Len(rows)
  PROVE  Complete <=>
           /\ REQUIRED_CASES \subseteq seen_cases
           /\ \A s \in REQUIRED_CASE_SHAPES : require_case_shape(s)
           /\ {Row(k).codec : k \in {j \in 1..Len(rows) : Exercised(Row(j))}}
                = DOMAIN canonical_codecs
  BY CasesPresent, ShapesKept, CodecsExercised DEF Complete

-----------------------------------------------------------------------------
(* The steps *)

Inv == Scan /\ BlameIsJust

LEMMA Initial == Init => Inv
<1> SUFFICES ASSUME Init PROVE Inv
  OBVIOUS
<1> USE DEF Init
<1>1. TypeOK
  BY CodecMatrixAssumption DEF TypeOK, Stages
<1>2. RowsAreLines
  BY DEF RowsAreLines, FormedUpTo, Lines
<1>3. CheckedAreSound
  BY DEF CheckedAreSound
<1>4. StageReached /\ BlameIsJust
  BY DEF StageReached, BlameIsJust
<1> QED BY <1>1, <1>2, <1>3, <1>4 DEF Inv, Scan

\* A step that goes on refuses nothing.
LEMMA GoingOnIsJust ==
  ASSUME stage' # "refused"
  PROVE  BlameIsJust'
  BY DEF BlameIsJust

\* Reading a line that adds no row.
LEMMA ReadingNoRow ==
  ASSUME Scan, stage = "parse", at < Len(source), ReadLine, UNCHANGED rows,
         at = 0 => source[1] = HEADER,
         at > 0 => IsEmpty(Line)
  PROVE  Inv'
<1> USE DEF Scan, ReadLine
<1>1. TypeOK'
  BY DEF TypeOK, Stages
<1>2. RowsAreLines'
  <2>1. /\ Lines' = Lines /\ at + 1 \notin Lines
        /\ \A i \in Lines : i =< at + 1 => i =< at
    BY SameTable DEF Lines, Line, TypeOK
  <2>2. Headed'
    BY DEF Headed, RowsAreLines, TypeOK
  <2>3. FormedUpTo(at + 1)
    BY <2>1 DEF FormedUpTo, RowsAreLines
  <2> QED BY <2>1, <2>2, <2>3, SameTable DEF RowsAreLines, TypeOK
<1>3. CheckedAreSound'
  BY DEF CheckedAreSound, Row
<1>4. StageReached' /\ BlameIsJust'
  BY GoingOnIsJust DEF StageReached
<1> QED BY <1>1, <1>2, <1>3, <1>4 DEF Inv

\* Reading a line that is a row.
LEMMA ReadingRow ==
  ASSUME Scan, stage = "parse", at < Len(source), at > 0, ReadLine,
         ~IsEmpty(Line), WellFormed(Line), rows' = Append(rows, at + 1)
  PROVE  Inv'
<1> USE DEF Scan, ReadLine
<1>1. TypeOK'
  BY DEF TypeOK, Stages
<1>2. RowsAreLines'
  <2>1. /\ Lines' = Lines /\ at + 1 \in Lines
        /\ \A i \in Lines : i =< at + 1 => i =< at \/ i = at + 1
    BY SameTable DEF Lines, Line, TypeOK
  <2>2. Headed'
    BY SameTable DEF RowsAreLines
  <2>3. FormedUpTo(at + 1)
    BY <2>1 DEF FormedUpTo, RowsAreLines, Line
  <2>4. /\ Len(rows') = Len(rows) + 1
        /\ rows'[Len(rows) + 1] = at + 1
        /\ \A k \in 1..Len(rows) : rows'[k] = rows[k]
    BY DEF TypeOK
  <2>5. \A k \in 1..Len(rows') : rows'[k] \in Lines /\ rows'[k] =< at + 1
    BY <2>1, <2>4 DEF RowsAreLines, TypeOK
  <2>6. ASSUME NEW k \in 1..Len(rows'), NEW l \in 1..Len(rows'), k < l
        PROVE  rows'[k] < rows'[l]
    <3>1. k \in 1..Len(rows) /\ rows'[k] = rows[k] /\ rows[k] \in Nat /\ rows[k] =< at
      BY <2>4, <2>6 DEF RowsAreLines, TypeOK
    <3>2. CASE l = Len(rows) + 1
      BY <2>4, <3>1, <3>2 DEF TypeOK
    <3>3. CASE l # Len(rows) + 1
      <4>1. l \in 1..Len(rows)
        BY <2>4, <3>3 DEF TypeOK
      <4>2. rows[k] < rows[l]
        BY <2>6, <3>1, <4>1 DEF RowsAreLines
      <4> QED BY <2>4, <3>1, <4>1, <4>2
    <3> QED BY <3>2, <3>3
  <2>7. ASSUME NEW i \in Lines, i =< at + 1
        PROVE  \E k \in 1..Len(rows') : rows'[k] = i
    <3>1. CASE i = at + 1
      <4>1. Len(rows) + 1 \in 1..Len(rows')
        BY <2>4 DEF TypeOK
      <4> QED BY <2>4, <3>1, <4>1
    <3>2. CASE i =< at
      <4>1. PICK k \in 1..Len(rows) : rows[k] = i
        BY <3>2 DEF RowsAreLines
      <4>2. k \in 1..Len(rows')
        BY <2>4 DEF TypeOK
      <4> QED BY <2>4, <4>1, <4>2
    <3> QED BY <2>1, <2>7, <3>1, <3>2
  <2> QED BY <2>1, <2>2, <2>3, <2>5, <2>6, <2>7, SameTable DEF RowsAreLines
<1>3. CheckedAreSound'
  BY DEF CheckedAreSound, StageReached
<1>4. StageReached' /\ BlameIsJust'
  BY GoingOnIsJust DEF StageReached
<1> QED BY <1>1, <1>2, <1>3, <1>4 DEF Inv

\* A refusal is just when the line it is about is.
LEMMA RefusalKeepsInv ==
  ASSUME Scan, NEW line \in Nat, Refuse(line),
         \/ line = 1 /\ source[1] # HEADER
         \/ /\ line > 1 /\ Headed
            /\ \/ FormedUpTo(line - 1) /\ ~FormedUpTo(line)
               \/ /\ FormedUpTo(Len(source))
                  /\ SoundUpTo(line - 1) /\ ~SoundUpTo(line)
         \/ line = 0 /\ (source = <<>> \/ (Headed /\ Faultless /\ ~Complete))
  PROVE  Inv'
<1>1. source' = source /\ blamed' = line
  BY DEF Refuse
<1>2. BlameIsJust'
  BY <1>1, SameTable DEF BlameIsJust
<1> QED BY <1>2, RefusingKeepsScan DEF Inv, Scan

LEMMA ParseHeaderKeepsInv ==
  ASSUME Inv, ParseHeader
  PROVE  Inv'
<1> USE DEF Inv
<1>0. stage = "parse" /\ at = 0 /\ at < Len(source) /\ Line = source[1]
  BY DEF ParseHeader, Parsing, Line
<1>1. CASE Line = HEADER /\ ReadLine /\ UNCHANGED rows
  BY <1>0, <1>1, ReadingNoRow
<1>2. CASE Line # HEADER /\ Refuse(1)
  BY <1>0, <1>2, RefusalKeepsInv
<1> QED BY <1>1, <1>2 DEF ParseHeader

LEMMA ParseEmptyLineKeepsInv ==
  ASSUME Inv, ParseEmptyLine
  PROVE  Inv'
<1>1. at \in Nat
  BY DEF Inv, Scan, TypeOK
<1> QED BY <1>1, ReadingNoRow DEF Inv, ParseEmptyLine, Parsing

LEMMA ParseRowKeepsInv ==
  ASSUME Inv, ParseRow
  PROVE  Inv'
<1> USE DEF Inv, Scan
<1>0. stage = "parse" /\ at < Len(source) /\ at > 0 /\ ~IsEmpty(Line)
  BY DEF ParseRow, Parsing
<1>1. CASE WellFormed(Line) /\ ReadLine /\ rows' = Append(rows, at + 1)
  BY <1>0, <1>1, ReadingRow
<1>2. CASE ~WellFormed(Line) /\ Refuse(LineNumber)
  <2>1. /\ at + 1 \in Nat /\ at + 1 > 1 /\ (at + 1) - 1 = at
        /\ at + 1 \in Lines /\ at + 1 =< at + 1
    BY <1>0 DEF TypeOK, Lines, Line
  <2>2. Headed /\ FormedUpTo(at)
    BY <1>0 DEF RowsAreLines
  <2>3. ~FormedUpTo(at + 1)
    BY <1>2, <2>1 DEF FormedUpTo, Line
  <2> QED BY <1>2, <2>1, <2>2, <2>3, RefusalKeepsInv DEF LineNumber
<1> QED BY <1>1, <1>2 DEF ParseRow

LEMMA EndOfTableKeepsInv ==
  ASSUME Inv, EndOfTable
  PROVE  Inv'
<1> USE DEF Inv, Scan
<1>0. stage = "parse" /\ at = Len(source) /\ checked = 0
  BY DEF EndOfTable, StageReached
<1>1. CASE rows = <<>> /\ Refuse(0)
  <2>1. checked = Len(rows)
    BY <1>0, <1>1
  <2>2. Faultless
    BY <1>0, <2>1, AllChecked
  <2>3. "http_json" \in REQUIRED_CASES /\ seen_cases = {}
    BY <1>0 DEF REQUIRED_CASES, CheckedAreSound
  <2>4. ~Complete
    BY <1>0, <2>1, <2>3, WholeTable
  <2>5. source = <<>> \/ Headed
    BY <1>0 DEF RowsAreLines, TypeOK
  <2> QED BY <1>1, <2>2, <2>4, <2>5, RefusalKeepsInv
<1>2. CASE rows # <<>> /\ stage' = "rows"
           /\ UNCHANGED <<source, at, rows, checked, seen_cases, blamed>>
  <2>1. TypeOK'
    BY <1>2 DEF TypeOK, Stages
  <2>2. RowsAreLines'
    BY <1>2, SameTable DEF RowsAreLines
  <2>3. CheckedAreSound'
    BY <1>2 DEF CheckedAreSound, Row
  <2>4. StageReached' /\ BlameIsJust'
    BY <1>0, <1>2, GoingOnIsJust DEF StageReached
  <2> QED BY <2>1, <2>2, <2>3, <2>4
<1> QED BY <1>1, <1>2 DEF EndOfTable

LEMMA ValidateRowKeepsInv ==
  ASSUME Inv, ValidateRow
  PROVE  Inv'
<1> USE DEF Inv, Scan
<1> DEFINE r == Row(checked + 1)
<1>0. /\ stage = "rows" /\ checked < Len(rows) /\ at = Len(source) /\ rows # <<>>
      /\ checked \in Nat
  BY DEF ValidateRow, StageReached, TypeOK
<1>1. CASE /\ NewCase(r.case_name) /\ Passes(r)
           /\ seen_cases' = seen_cases \cup {r.case_name}
           /\ checked' = checked + 1
           /\ UNCHANGED <<source, at, rows, stage, blamed>>
  <2>1. TypeOK'
    BY <1>0, <1>1 DEF TypeOK, Stages
  <2>2. RowsAreLines'
    BY <1>1, SameTable DEF RowsAreLines
  <2>3. CheckedAreSound'
    <3>1. \A k : Row(k)' = Row(k)
      BY <1>1 DEF Row
    <3>2. \A k \in 1..checked+1 : k \in 1..checked \/ k = checked + 1
      BY <1>0
    <3>3. checked + 1 \in 1..checked+1 /\ \A k \in 1..checked : k \in 1..checked+1
      BY <1>0
    <3>4. Sound(r) /\ \A k \in 1..checked : Row(k).case_name # r.case_name
      BY <1>1, PassesIsSound DEF NewCase, CheckedAreSound
    <3> HIDE DEF r
    <3>5. Row(checked + 1) = r
      BY DEF r
    <3>6. \A k \in 1..checked+1 : Sound(Row(k))
      BY <3>2, <3>4, <3>5 DEF CheckedAreSound
    <3>7. seen_cases \cup {r.case_name} = {Row(k).case_name : k \in 1..checked+1}
      BY <3>2, <3>3, <3>5 DEF CheckedAreSound
    <3>8. \A k, l \in 1..checked+1 : Row(k).case_name = Row(l).case_name => k = l
      BY <3>2, <3>4, <3>5 DEF CheckedAreSound
    <3>9. checked' = checked + 1 /\ seen_cases' = seen_cases \cup {r.case_name}
      BY <1>1
    <3>10. \A k \in 1..checked' : Sound(Row(k)')
      BY <3>1, <3>6, <3>9
    <3>11. seen_cases' = {Row(k)'.case_name : k \in 1..checked'}
      BY <3>1, <3>7, <3>9
    <3>12. \A k, l \in 1..checked' : Row(k)'.case_name = Row(l)'.case_name => k = l
      BY <3>1, <3>8, <3>9
    <3> QED BY <3>10, <3>11, <3>12 DEF CheckedAreSound
  <2>4. StageReached' /\ BlameIsJust'
    BY <1>0, <1>1, GoingOnIsJust DEF StageReached
  <2> QED BY <2>1, <2>2, <2>3, <2>4
<1>2. CASE ~(NewCase(r.case_name) /\ Passes(r)) /\ Refuse(rows[checked + 1])
  <2>1. Headed /\ FormedUpTo(Len(source))
    <3>1. at > 0
      BY <1>0 DEF TypeOK, RowsAreLines, Lines
    <3> QED BY <1>0, <3>1 DEF RowsAreLines
  <2>2. /\ rows[checked + 1] \in Nat
        /\ rows[checked + 1] > 1
        /\ SoundUpTo(rows[checked + 1] - 1)
        /\ ~SoundUpTo(rows[checked + 1])
    BY <1>0, <1>2, FirstUnsound
  <2> QED BY <1>2, <2>1, <2>2, RefusalKeepsInv
<1> QED BY <1>1, <1>2 DEF ValidateRow

\* A check of the whole table that fails finds it incomplete.
LEMMA RequireKeepsInv ==
  ASSUME Inv, NEW now \in {"rows", "shapes", "coverage"},
         NEW next \in {"shapes", "coverage", "accepted"},
         NEW condition \in BOOLEAN, Require(now, next, condition),
         checked = Len(rows), Complete => condition,
         condition => StageReached'
  PROVE  Inv'
<1> USE DEF Inv, Scan
<1>0. at = Len(source) /\ rows # <<>>
  BY DEF Require, StageReached
<1>1. CASE condition /\ stage' = next
           /\ UNCHANGED <<source, at, rows, checked, seen_cases, blamed>>
  <2>1. TypeOK'
    BY <1>1 DEF TypeOK, Stages
  <2>2. RowsAreLines'
    BY <1>1, SameTable DEF RowsAreLines
  <2>3. CheckedAreSound'
    BY <1>1 DEF CheckedAreSound, Row
  <2>4. BlameIsJust'
    BY <1>1, GoingOnIsJust
  <2> QED BY <1>1, <2>1, <2>2, <2>3, <2>4
<1>2. CASE ~condition /\ Refuse(0)
  <2>1. Headed
    <3>1. at > 0
      BY <1>0 DEF TypeOK, RowsAreLines, Lines
    <3> QED BY <3>1 DEF RowsAreLines
  <2>2. Faultless
    BY <1>0, AllChecked
  <2> QED BY <1>2, <2>1, <2>2, RefusalKeepsInv
<1> QED BY <1>1, <1>2 DEF Require

LEMMA RequireCasesKeepsInv ==
  ASSUME Inv, RequireCases
  PROVE  Inv'
<1> DEFINE Found == REQUIRED_CASES \subseteq seen_cases
<1>1. checked = Len(rows) /\ Require("rows", "shapes", Found) /\ stage = "rows"
  BY DEF RequireCases, Require
<1>2. at = Len(source) /\ rows # <<>>
  BY <1>1 DEF Inv, Scan, StageReached
<1>3. Complete => Found
  BY <1>1, <1>2, WholeTable DEF Inv
<1>4. Found => StageReached'
  BY <1>1, <1>2 DEF Require, StageReached
<1>5. Found \in BOOLEAN
  OBVIOUS
<1> HIDE DEF Found
<1> QED BY <1>1, <1>3, <1>4, <1>5, RequireKeepsInv

LEMMA RequireShapesKeepsInv ==
  ASSUME Inv, RequireShapes
  PROVE  Inv'
<1> DEFINE Kept == \A s \in REQUIRED_CASE_SHAPES : require_case_shape(s)
<1>1. Require("shapes", "coverage", Kept) /\ stage = "shapes"
  BY DEF RequireShapes, Require
<1>2. /\ at = Len(source) /\ rows # <<>>
      /\ checked = Len(rows) /\ REQUIRED_CASES \subseteq seen_cases
  BY <1>1 DEF Inv, Scan, StageReached
<1>3. Complete => Kept
  BY <1>2, WholeTable DEF Inv
<1>4. Kept => StageReached'
  <2>1. ASSUME Kept PROVE stage' = "coverage"
                          /\ UNCHANGED <<source, at, rows, checked, seen_cases, blamed>>
    BY <1>1, <2>1 DEF Require
  <2>2. ASSUME Kept PROVE Kept'
    BY <2>1, <2>2 DEF require_case_shape, Row
  <2> QED BY <1>2, <2>1, <2>2 DEF StageReached
<1>5. Kept \in BOOLEAN
  OBVIOUS
<1> HIDE DEF Kept
<1> QED BY <1>1, <1>2, <1>3, <1>4, <1>5, RequireKeepsInv

LEMMA RequireCoverageKeepsInv ==
  ASSUME Inv, RequireCoverage
  PROVE  Inv'
<1> DEFINE Seen == {Row(k).codec : k \in {j \in 1..Len(rows) : Exercised(Row(j))}}
           All == Seen = DOMAIN canonical_codecs
           Kept == \A s \in REQUIRED_CASE_SHAPES : require_case_shape(s)
<1>1. Require("coverage", "accepted", All) /\ stage = "coverage"
  BY DEF RequireCoverage, Require
<1>2. /\ at = Len(source) /\ rows # <<>>
      /\ checked = Len(rows) /\ REQUIRED_CASES \subseteq seen_cases
      /\ Kept
  BY <1>1 DEF Inv, Scan, StageReached
<1>3. Complete => All
  BY <1>2, WholeTable DEF Inv
<1>4. All => StageReached'
  <2>1. ASSUME All PROVE stage' = "accepted"
                          /\ UNCHANGED <<source, at, rows, checked, seen_cases, blamed>>
    BY <1>1, <2>1 DEF Require
  <2>2. ASSUME All PROVE Kept' /\ All'
    BY <1>2, <2>1, <2>2 DEF require_case_shape, Row
  <2> QED BY <1>2, <2>1, <2>2 DEF StageReached
<1>5. All \in BOOLEAN
  OBVIOUS
<1> HIDE DEF All
<1> QED BY <1>1, <1>2, <1>3, <1>4, <1>5, RequireKeepsInv

LEMMA StepKeepsInv == Inv /\ [Next]_vars => Inv'
<1> SUFFICES ASSUME Inv, [Next]_vars PROVE Inv'
  OBVIOUS
<1>1. CASE UNCHANGED vars
  <2>1. Scan'
    BY <1>1, SameTable
       DEF Inv, Scan, TypeOK, RowsAreLines, CheckedAreSound, StageReached, Row,
           require_case_shape, vars
  <2>2. BlameIsJust'
    BY <1>1, SameTable DEF Inv, BlameIsJust, vars
  <2> QED BY <2>1, <2>2 DEF Inv
<1> QED BY <1>1, ParseHeaderKeepsInv, ParseEmptyLineKeepsInv, ParseRowKeepsInv,
           EndOfTableKeepsInv, ValidateRowKeepsInv, RequireCasesKeepsInv,
           RequireShapesKeepsInv, RequireCoverageKeepsInv DEF Next

-----------------------------------------------------------------------------
(* The theorems *)

\* The invariant decides the verdict: what is accepted was found without fault and
\* complete, and what is refused has the fault it is refused for.
LEMMA InvIsRight == Inv => VerdictIsRight
<1> SUFFICES ASSUME Inv PROVE VerdictIsRight
  OBVIOUS
<1>1. ASSUME stage = "accepted" PROVE Hardened
  <2>1. /\ at = Len(source) /\ rows # <<>> /\ checked = Len(rows)
        /\ REQUIRED_CASES \subseteq seen_cases
        /\ \A s \in REQUIRED_CASE_SHAPES : require_case_shape(s)
        /\ {Row(k).codec : k \in {j \in 1..Len(rows) : Exercised(Row(j))}}
             = DOMAIN canonical_codecs
    BY <1>1 DEF Inv, Scan, StageReached
  <2>2. Headed
    <3>1. at > 0
      BY <2>1 DEF Inv, Scan, TypeOK, RowsAreLines, Lines
    <3> QED BY <3>1 DEF Inv, Scan, RowsAreLines
  <2>3. Faultless
    BY <2>1, AllChecked DEF Inv
  <2>4. Complete
    BY <2>1, WholeTable DEF Inv
  <2> QED BY <2>2, <2>3, <2>4 DEF Hardened
<1>2. ASSUME stage = "refused" PROVE ~Hardened
  <2> SUFFICES ASSUME Hardened PROVE FALSE
    OBVIOUS
  <2>1. Headed /\ Faultless /\ Complete
    BY DEF Hardened
  <2>2. PICK n : blamed = n /\ n \in Nat
    BY DEF Inv, Scan, TypeOK
  <2>3. \A i \in Lines : i =< Len(source)
    BY DEF Lines
  <2>4. FormedUpTo(n) /\ SoundUpTo(n)
    BY <2>1, <2>3 DEF Faultless, FormedUpTo, SoundUpTo
  <2> QED BY <1>2, <2>1, <2>2, <2>4 DEF Inv, BlameIsJust, Headed
<1> QED BY <1>1, <1>2 DEF VerdictIsRight

\* Whatever the tables and their order, the checker accepts the hardened ones and
\* refuses the others.
THEOREM VerdictRight == Spec => []VerdictIsRight
<1>1. Inv => VerdictIsRight
  BY InvIsRight
<1> QED BY <1>1, Initial, StepKeepsInv, PTL DEF Spec

\* Whatever the tables, an error names the first line at fault, or none when none is.
THEOREM BlameJust == Spec => []BlameIsJust
<1>1. Inv => BlameIsJust
  BY DEF Inv
<1> QED BY <1>1, Initial, StepKeepsInv, PTL DEF Spec

\* The tables of the scan keep their types and stay what the lines read so far say.
THEOREM ScanKept == Spec => []Scan
<1>1. Inv => Scan
  BY DEF Inv
<1> QED BY <1>1, Initial, StepKeepsInv, PTL DEF Spec

-----------------------------------------------------------------------------
(* One cell of the repository's table changed *)

\* The identifiers of the canonical codecs tell them apart.
LEMMA IdentifiersDiffer ==
  /\ \A c, d \in DOMAIN canonical_codecs :
       canonical_codecs[c].wire_id = canonical_codecs[d].wire_id => c = d
  /\ \A c \in DOMAIN canonical_codecs : canonical_codecs[c].wire_id # "-"
<1>1. DOMAIN canonical_codecs = {"json", "messagepack", "cbor", "protobuf", "raw"}
  BY CodecTable
<1>2. /\ canonical_codecs["json"].wire_id = "1" /\ canonical_codecs["messagepack"].wire_id = "2"
      /\ canonical_codecs["cbor"].wire_id = "3" /\ canonical_codecs["protobuf"].wire_id = "4"
      /\ canonical_codecs["raw"].wire_id = "5"
  BY DEF canonical_codecs, CodecSpec
<1> QED BY <1>1, <1>2

\* Two sound rows that differ in one column differ in a loose one.
LEMMA SoundRowsDiffer ==
  ASSUME NEW p, NEW q, NEW j \in 2..8,
         WellFormed(p), WellFormed(q), Sound(RowOf(p)), Sound(RowOf(q)),
         p[j] # q[j], \A k \in 1..8 : k # j => p[k] = q[k],
         \A s \in REQUIRED_CASE_SHAPES :
           p[1] = s.case_name => HasShape(RowOf(p), s) /\ HasShape(RowOf(q), s)
  PROVE  j \in Loose(RowOf(p))
<1> DEFINE m == RowOf(p)
           r == RowOf(q)
           shaped == \E s \in REQUIRED_CASE_SHAPES : s.case_name = m.case_name
<1>0. /\ m.case_name = p[1] /\ m.transport = p[2] /\ m.framing = p[3] /\ m.codec = p[4]
      /\ m.wire_id = p[5] /\ m.media_type = p[6] /\ m.expectation = p[8]
      /\ m.valid = (p[7] = "true")
      /\ r.case_name = q[1] /\ r.transport = q[2] /\ r.framing = q[3] /\ r.codec = q[4]
      /\ r.wire_id = q[5] /\ r.media_type = q[6] /\ r.expectation = q[8]
      /\ r.valid = (q[7] = "true")
      /\ m.valid \in BOOLEAN /\ r.valid \in BOOLEAN
  BY DEF RowOf
<1>1. /\ p[7] \in {"true", "false"} /\ q[7] \in {"true", "false"}
  BY DEF WellFormed
<1>2. shaped => /\ m.transport = r.transport /\ m.framing = r.framing /\ m.codec = r.codec
                /\ m.wire_id = r.wire_id /\ m.media_type = r.media_type /\ m.valid = r.valid
  BY <1>0 DEF HasShape
<1>3. Sound(m) /\ Sound(r)
  OBVIOUS
<1> HIDE DEF m, r
<1>4. shaped => j \in {1, 8}
  BY <1>0, <1>1, <1>2
<1>5. CASE j = 4
  <2>1. /\ m.valid = r.valid /\ m.codec # r.codec /\ m.wire_id = r.wire_id
    BY <1>0, <1>5
  <2>2. ASSUME NEW x, Sound(x), x.valid
        PROVE  \/ /\ x.codec \in DOMAIN canonical_codecs
                  /\ canonical_codecs[x.codec].wire_id = x.wire_id
               \/ x.codec = "structured" /\ x.wire_id = "-"
    <3>1. \/ Canonical(x.codec)
             /\ canonical_codecs[x.codec] = CodecSpec(x.wire_id, x.media_type)
          \/ x.codec = "structured" /\ x.wire_id = "-"
      BY <2>2, PayloadCanonical DEF Sound, PayloadOf
    <3> QED BY <3>1 DEF Canonical, CodecSpec
  <2>3. ~m.valid
    BY <1>3, <2>1, <2>2, IdentifiersDiffer
  <2> QED BY <1>4, <1>5, <2>3 DEF Loose, m
<1>6. CASE j \in {5, 6}
  <2>1. /\ m.codec = r.codec /\ (m.wire_id # r.wire_id \/ m.media_type # r.media_type)
    BY <1>0, <1>6
  <2>2. ~Canonical(m.codec)
    <3>1. ASSUME NEW x, Sound(x), Canonical(x.codec)
          PROVE  /\ canonical_codecs[x.codec].wire_id = x.wire_id
                 /\ canonical_codecs[x.codec].media_type = x.media_type
      <4>1. canonical_codecs[x.codec] = CodecSpec(x.wire_id, x.media_type)
        BY <3>1, CodecTable, PayloadCanonical DEF Sound, PayloadOf, Canonical
      <4> QED BY <4>1 DEF CodecSpec
    <3> QED BY <1>3, <2>1, <3>1
  <2> QED BY <1>4, <1>6, <2>2 DEF Loose, m
<1>7. CASE j = 7
  <2>1. m.case_name = r.case_name /\ (m.valid \/ r.valid)
    <3>1. p[1] = q[1] /\ p[7] # q[7]
      BY <1>7
    <3>2. m.case_name = r.case_name
      BY <1>0, <3>1
    <3>3. p[7] = "true" \/ q[7] = "true"
      BY <1>1, <3>1
    <3>4. CASE p[7] = "true"
      BY <1>0, <3>2, <3>4
    <3>5. CASE q[7] = "true"
      BY <1>0, <3>2, <3>5
    <3> QED BY <3>3, <3>4, <3>5
  <2>2. ~IsNegative(m.case_name)
    BY <1>3, <2>1 DEF Sound
  <2> QED BY <1>4, <1>7, <2>2 DEF Loose, m
<1>8. CASE j = 8
  <2>1. /\ m.valid = r.valid /\ m.transport = r.transport /\ m.codec = r.codec
        /\ m.expectation # r.expectation
    BY <1>0, <1>8
  <2>2. ~(m.valid /\ m.codec = "raw" /\ m.transport \in {"tcp", "websocket"})
    BY <1>3, <2>1 DEF Sound, Says
  <2> QED BY <1>8, <2>2 DEF Loose, m
<1>9. CASE j \in {2, 3}
  BY <1>4, <1>9 DEF Loose, m
<1> QED BY <1>5, <1>6, <1>7, <1>8, <1>9

\* A hardened table that differs from the repository's in one cell differs in a loose one.
LEMMA HardenedDrift ==
  ASSUME Hardened, Len(source) = Len(MATRIX), NEW c \in ChangedCells, ChangedCells = {c}
  PROVE  c[1] # 1 /\ c[2] \in Loose(RowOf(MATRIX[c[1]]))
<1> DEFINE i == c[1]
           j == c[2]
           p == MATRIX[i]
           q == source[i]
<1>1. i \in 1..Len(MATRIX) /\ j \in 1..8 /\ q[j] # p[j] /\ c = <<i, j>>
  BY DEF ChangedCells
<1>2. ASSUME NEW k \in 1..Len(MATRIX), NEW l \in 1..8, k # i \/ l # j
      PROVE  source[k][l] = MATRIX[k][l]
  <2>1. <<k, l>> # c
    BY <1>1, <1>2
  <2> QED BY <2>1 DEF ChangedCells
<1> HIDE DEF i, j
<1>3. i # 1
  BY <1>1, MatrixAssumption DEF Hardened, Headed
<1>4. i \in 2..Len(MATRIX) /\ Len(MATRIX) \in Nat /\ Len(source) = Len(MATRIX)
  BY <1>1, <1>3, MatrixAssumption
<1>5. WellFormed(p) /\ Sound(RowOf(p))
  BY <1>4, PassesIsSound, MatrixAssumption
<1>6. CASE j = 1
  <2>1. ASSUME p[1] \in REQUIRED_CASES PROVE FALSE
    <3>1. PICK k \in Lines : source[k][1] = p[1]
      BY <2>1 DEF Hardened, Complete, RowAt, RowOf
    <3>2. k \in 2..Len(MATRIX) /\ k # i
      BY <1>1, <1>4, <1>6, <3>1 DEF Lines
    <3>3. MATRIX[k][1] = p[1]
      BY <1>2, <3>1, <3>2
    <3> QED BY <1>4, <3>2, <3>3, MatrixAssumption
  <2> QED BY <1>3, <1>6, <2>1 DEF Loose, RowOf, i, j
<1>7. CASE j # 1
  <2>1. q[1] = p[1] /\ p[1] # ""
    <3>1. 1 \in 1..8
      OBVIOUS
    <3>2. \A k \in 1..8 : p[k] # ""
      BY <1>5 DEF WellFormed
    <3>3. p[1] # ""
      BY <3>1, <3>2
    <3>4. q[1] = p[1]
      BY <1>1, <1>2, <1>7, <3>1
    <3> QED BY <3>3, <3>4
  <2>2. i \in Lines
    <3>1. <<"">>[1] = ""
      OBVIOUS
    <3>2. q # <<"">>
      BY <2>1, <3>1
    <3> QED BY <1>4, <3>2 DEF Lines, IsEmpty
  <2>3. WellFormed(q) /\ Sound(RowOf(q))
    BY <1>4, <2>2 DEF Hardened, Faultless, FormedUpTo, SoundUpTo, RowAt
  <2>4. \A s \in REQUIRED_CASE_SHAPES :
          p[1] = s.case_name => HasShape(RowOf(p), s) /\ HasShape(RowOf(q), s)
    <3>1. RowOf(q).case_name = q[1]
      BY DEF RowOf
    <3> QED BY <1>4, <2>1, <2>2, <3>1, MatrixAssumption DEF Hardened, Complete, RowAt
  <2>5. \A k \in 1..8 : k # j => p[k] = q[k]
    BY <1>1, <1>2
  <2>6. j \in 2..8
    BY <1>1, <1>7
  <2>7. j \in Loose(RowOf(p))
    BY <1>1, <1>5, <2>3, <2>4, <2>5, <2>6, SoundRowsDiffer
  <2> QED BY <1>3, <2>7 DEF i, j
<1> QED BY <1>6, <1>7

\* Of one changed cell in the repository's table, whatever is written into it, the checker
\* takes notice unless the cell is loose (validate; the tests at 504-557 try five).
THEOREM DriftIsNoticed == Spec => []DriftNoticed
<1>1. VerdictIsRight => DriftNoticed
  BY HardenedDrift DEF VerdictIsRight, DriftNoticed
<1> QED BY <1>1, VerdictRight, PTL
=============================================================================
