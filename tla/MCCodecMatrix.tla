--------------------------- MODULE MCCodecMatrix ---------------------------
(* CodecMatrix on the matrix of the repository and on small changes of it. *)
EXTENDS CodecMatrix, SequencesExt

Json == <<"json", "1", "application/json">>
MessagePack == <<"messagepack", "2", "application/msgpack">>
Cbor == <<"cbor", "3", "application/cbor">>
Protobuf == <<"protobuf", "4", "application/x-protobuf">>
RawBytes == <<"raw", "5", "application/octet-stream">>
Aggregate == <<"structured", "-", "-">>

Http == <<"http", "native-message">>
Ndjson == <<"tcp", "ndjson">>
Tcp == <<"tcp", "length-prefixed-32be+codec">>
Text == <<"websocket", "text-message">>
Ws == <<"websocket", "binary-message+codec">>
Everywhere == <<"all", "transport-specific">>
Metadata == <<"metadata", "contract">>

Both == "control and correlation"
Case(name, carrier, payload, valid, words) ==
  <<name>> \o carrier \o payload \o <<valid, words>>
Positive(name, carrier, payload) == Case(name, carrier, payload, "true", "other")
Negative(name, carrier, payload) == Case(name, carrier, payload, "false", "other")

\* conformance/binary-payload-codecs.v1.tsv
CheckedIn == <<
  HEADER,
  Positive("http_json", Http, Json),
  Positive("http_messagepack", Http, MessagePack),
  Positive("http_cbor", Http, Cbor),
  Positive("http_protobuf", Http, Protobuf),
  Case("http_raw", Http, RawBytes, "true", Both),
  Positive("http_accept_weighted", Http, Aggregate),
  Positive("http_accept_wildcard", Http, Aggregate),
  Positive("tcp_legacy_ndjson_json", Ndjson, Json),
  Negative("tcp_legacy_ndjson_messagepack", Ndjson, MessagePack),
  Positive("tcp_legacy_length_json", <<"tcp", "length-prefixed-json">>, Json),
  Positive("tcp_binary_json", Tcp, Json),
  Positive("tcp_binary_messagepack", Tcp, MessagePack),
  Positive("tcp_binary_cbor", Tcp, Cbor),
  Case("tcp_binary_protobuf", Tcp, Protobuf, "true", "control"),
  Case("tcp_binary_raw", Tcp, RawBytes, "true", Both),
  Positive("ws_text_json", Text, Json),
  Negative("ws_text_binary", Text, MessagePack),
  Positive("ws_binary_json", Ws, Json),
  Positive("ws_binary_messagepack", Ws, MessagePack),
  Positive("ws_binary_cbor", Ws, Cbor),
  Case("ws_binary_protobuf", Ws, Protobuf, "true", "control"),
  Case("ws_binary_raw", Ws, RawBytes, "true", Both),
  Negative("negative_unknown_codec_id", Tcp, <<"unknown", "255", "-">>),
  Negative("negative_empty_ws_binary", Ws, <<"unknown", "-", "-">>),
  Negative("negative_http_request_media", Http, <<"unknown", "-", "application/x-unknown">>),
  Negative("negative_http_response_accept", Http, <<"unknown", "-", "application/x-unknown">>),
  Negative("negative_http_response_mismatch", Http, Json),
  Negative("negative_over_limit", Tcp, RawBytes),
  Negative("negative_codec_not_allowed", Ws, Cbor),
  Negative("negative_codec_name_alias", Metadata, <<"msgpack", "-", "-">>),
  Negative("negative_codec_name_case", Metadata, <<"JSON", "-", "-">>),
  Negative("negative_codec_name_whitespace", Metadata, <<" raw ", "-", "-">>),
  Negative("negative_trailing_junk_messagepack", Everywhere, MessagePack),
  Negative("negative_trailing_junk_cbor", Everywhere, Cbor),
  Negative("negative_trailing_junk_protobuf", Everywhere, Protobuf),
  Negative("negative_truncated_structured", Everywhere, Aggregate),
  Negative("negative_duplicate_control_field", Everywhere, Aggregate),
  Negative("negative_binary_semantic_extension", Everywhere, Aggregate),
  Case("negative_raw_tcp_missing_control", Tcp, RawBytes, "false", Both),
  Case("negative_raw_ws_missing_control", Ws, RawBytes, "false", Both),
  Negative("negative_decompression_bomb", Everywhere, Aggregate),
  Positive("semantic_equivalence", Everywhere, Aggregate),
  Case("raw_non_utf8", <<"all", "binary-capable">>, RawBytes, "true", "control"),
  Positive("compression_separate", Everywhere, Aggregate),
  Positive("stream_codec_stability", <<"all", "streaming">>, Aggregate) >>

Size == Len(CheckedIn)

\* What may be written into a cell of each column.
Alternatives ==
  <<{"", "new_case", "negative_new", "http_json"},
    {"http", "tcp", "websocket", "all"},
    {"native-message", "ndjson", "transport-specific"},
    {"json", "raw", "structured", "unknown"},
    {"", "1", "5", "-"},
    {"application/json", "application/octet-stream", "-"},
    {"true", "false", "yes"},
    {"other", "control", "correlation", Both}>>

OneCellChanged ==
  UNION {{[CheckedIn EXCEPT ![i][j] = x] : x \in Alternatives[j]} : i \in 1..Size, j \in 1..8}

Rearranged ==
  {RemoveAt(CheckedIn, i) : i \in 1..Size}
    \cup {Append(CheckedIn, CheckedIn[i]) : i \in 1..Size}
    \cup {InsertAt(CheckedIn, i, <<"">>) : i \in 1..Size}
    \cup {[CheckedIn EXCEPT ![i] = Front(@)] : i \in 1..Size}
    \cup {[CheckedIn EXCEPT ![i] = CheckedIn[i + 1], ![i + 1] = CheckedIn[i]] : i \in 1..Size-1}

\* All positive rows of one codec marked negative.
Silenced(codec) ==
  [i \in 1..Size |->
     IF CheckedIn[i][4] = codec THEN [CheckedIn[i] EXCEPT ![7] = "false"] ELSE CheckedIn[i]]

DriftedTables ==
  {<<>>, <<HEADER>>, <<HEADER, <<"">>>>} \cup OneCellChanged \cup Rearranged
    \cup {Silenced(c) : c \in DOMAIN canonical_codecs}

NewNegatives == {"negative_new"}
=============================================================================
