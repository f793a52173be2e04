-------------------------------- MODULE Intake --------------------------------
(***************************************************************************)
(* What a received event passes before the dispatcher works on it: the     *)
(* allocation-bounded structural admission (src/src/nip46_admission.rs),   *)
(* the verification of the signed event and its ciphertext                 *)
(* (nip46_verification.rs) and the replay identities (nip46_replay.rs).    *)
(*                                                                         *)
(* The original bytes are described by what each step measures in them:    *)
(* lengths, how often the marker of NIP-04 occurs, whether a re-encoding   *)
(* gives the same text back.                                               *)
(***************************************************************************)
EXTENDS Integers, Sequences, SequencesExt

Refused == -1

(***************************************************************************)
(* The decoded length of a JSON string, measured without decoding it.  A   *)
(* character is named for what it is to the scanner; two and four are raw  *)
(* characters of that many bytes, 0, 8, c and d hexadecimal digits.        *)
(***************************************************************************)
HexValue == [h \in {"0", "8", "c", "d"} |-> CASE h = "0" -> 0 [] h = "8" -> 8 [] h = "c" -> 12 [] h = "d" -> 13]
SimpleEscapes == {"quote", "backslash", "n"}
RawWidth(character) ==
    CASE character = "two" -> 2 [] character = "four" -> 4 [] OTHER -> 1

Utf8Width(scalar) ==
    IF scalar < 128 THEN 1 ELSE IF scalar < 2048 THEN 2 ELSE IF scalar < 65536 THEN 3 ELSE 4

IsHigh(unit) == unit \in 55296..56319
IsLow(unit) == unit \in 56320..57343

\* The four digits from i on, or Refused where one is missing or no digit.
parse_hex_u16(raw, i) ==
    IF i + 3 > Len(raw) \/ \E k \in i..(i + 3) : raw[k] \notin DOMAIN HexValue THEN Refused
    ELSE 4096 * HexValue[raw[i]] + 256 * HexValue[raw[i + 1]]
            + 16 * HexValue[raw[i + 2]] + HexValue[raw[i + 3]]

Plus(length, rest) == IF rest = Refused THEN Refused ELSE length + rest

decoded_json_string_utf8_bytes(raw) ==
    LET \* from a high surrogate's digits at i on
        Paired(i) == /\ i + 5 <= Len(raw) /\ raw[i + 4] = "backslash" /\ raw[i + 5] = "u"
                     /\ IsLow(parse_hex_u16(raw, i + 6))
        measured[i \in 1..(Len(raw) + 12)] ==
            IF i >= Len(raw) THEN IF i = Len(raw) THEN 0 ELSE Refused
            ELSE IF raw[i] = "backslash"
            THEN CASE raw[i + 1] \in SimpleEscapes -> Plus(1, measured[i + 2])
                   [] raw[i + 1] = "u" ->
                        LET unit == parse_hex_u16(raw, i + 2)
                        IN  IF unit = Refused \/ IsLow(unit) THEN Refused
                            ELSE IF IsHigh(unit)
                            THEN IF Paired(i + 2) THEN Plus(4, measured[i + 12]) ELSE Refused
                            ELSE Plus(Utf8Width(unit), measured[i + 6])
                   [] OTHER -> Refused
            ELSE IF raw[i] \in {"quote", "control"} THEN Refused
            ELSE Plus(RawWidth(raw[i]), measured[i + 1])
    IN  IF Len(raw) < 2 \/ raw[1] # "quote" \/ raw[Len(raw)] # "quote" THEN Refused ELSE measured[2]

(***************************************************************************)
(* Tags and parameters, visited element by element.  A tag is the sequence *)
(* of its elements' decoded lengths.                                       *)
(***************************************************************************)
Measurement(count, elements, bytes, error) ==
    [count |-> count, elements |-> elements, bytes |-> bytes, error |-> error]

Total(lengths) == FoldLeft(LAMBDA a, b : a + b, 0, lengths)

\* TagVisitor: at most `remaining' elements are looked at, and then one more.
visit_tag(tag, remaining, limits) ==
    IF \E k \in DOMAIN tag : k <= remaining /\ tag[k] > limits.tag_element_bytes
    THEN Measurement(1, 0, 0, "TagElementTooLarge")
    ELSE IF Len(tag) > remaining THEN Measurement(1, 0, 0, "TooManyTagElements")
    ELSE Measurement(1, Len(tag), Total(tag), "none")

\* Faulty variant: every tag may have as many elements as all of them together.
measure_each_tag(tags, limits) ==
    FoldLeft(LAMBDA r, tag :
        LET one == visit_tag(tag, limits.tag_total_elements, limits)
        IN  IF r.error # "none" THEN r
            ELSE IF r.count = limits.tag_count THEN [r EXCEPT !.error = "TooManyTags"]
            ELSE IF one.error # "none" THEN [r EXCEPT !.error = one.error]
            ELSE Measurement(r.count + 1, r.elements + one.elements, r.bytes + one.bytes,
                    IF r.bytes + one.bytes > limits.tag_total_bytes THEN "TagsTooLarge" ELSE "none"),
        Measurement(0, 0, 0, "none"), tags)

\* TagsVisitor, with classify_tag_error naming the limit.
measure_tags(tags, limits) ==
    FoldLeft(LAMBDA r, tag :
        LET one == visit_tag(tag, limits.tag_total_elements - r.elements, limits)
        IN  IF r.error # "none" THEN r
            ELSE IF r.count = limits.tag_count THEN [r EXCEPT !.error = "TooManyTags"]
            ELSE IF one.error # "none" THEN [r EXCEPT !.error = one.error]
            ELSE Measurement(r.count + 1, r.elements + one.elements, r.bytes + one.bytes,
                    IF r.bytes + one.bytes > limits.tag_total_bytes THEN "TagsTooLarge" ELSE "none"),
        Measurement(0, 0, 0, "none"), tags)

\* StringSequenceVisitor, with classify_param_error naming the limit.
measure_parameters(parameters, limits) ==
    FoldLeft(LAMBDA r, length :
        IF r.error # "none" THEN r
        ELSE IF r.count = limits.param_count THEN [r EXCEPT !.error = "TooManyRequestParameters"]
        ELSE IF length > limits.param_bytes THEN [r EXCEPT !.error = "RequestParameterTooLarge"]
        ELSE Measurement(r.count + 1, r.count + 1, r.bytes + length,
                IF r.bytes + length > limits.params_bytes THEN "RequestParametersTooLarge" ELSE "none"),
        Measurement(0, 0, 0, "none"), parameters)

(***************************************************************************)
(* Admission and verification of one event.                                *)
(***************************************************************************)
\* admit_myc_nip46_event
admit_event(event, limits) ==
    /\ event.wire \in 1..limits.wire_bytes /\ event.wellformed
    /\ event.id \in 0..64 /\ event.pubkey \in 0..64 /\ event.sig \in 0..128
    /\ event.content \in 0..limits.content_bytes
    /\ measure_tags(event.tags, limits).error = "none"

\* admit_myc_nip46_request: the decrypted bytes are bounded before they are parsed.
admit_plaintext(length, limits) == length \in 1..limits.decrypted_plaintext_bytes

NextPower(n) == CHOOSE p \in {2 ^ e : e \in 0..17} : p >= n /\ \A e \in 0..17 : 2 ^ e >= n => 2 ^ e >= p

\* is_valid_nip44_padding_length
padding_length_valid(length) ==
    length \in 32..65536 /\ length % (IF length <= 256 THEN 32 ELSE NextPower(length) \div 8) = 0

\* verify_nip04_envelope and decode_canonical_base64
verify_nip04_envelope(c) ==
    c.markers = 1 /\ c.canonical /\ c.bytes > 0 /\ c.bytes % 16 = 0 /\ c.iv = 16

\* verify_nip44_envelope
verify_nip44_envelope(c) ==
    c.canonical /\ c.bytes >= 67 /\ c.version = 2 /\ padding_length_valid(c.bytes - 67)

\* verify_encryption_context: the marker decides the scheme.
verify_encryption_context(c) ==
    CASE c.markers > 0 -> IF verify_nip04_envelope(c) THEN "nip04" ELSE "none"
      [] c.markers = 0 -> IF verify_nip44_envelope(c) THEN "nip44" ELSE "none"

verify_authored_time(authored, observed, policy) ==
    /\ authored >= IF observed > policy.past THEN observed - policy.past ELSE 0
    /\ authored <= observed + policy.future

\* verify_myc_nip46_event, for an event that was admitted.
verify_event(event, observed, policy) ==
    /\ event.canonical /\ event.kind = 24133
    /\ event.sender # "transport" /\ event.recipients = <<"transport">>
    /\ event.authentic
    /\ verify_authored_time(event.authored, observed, policy)
    /\ verify_encryption_context(event.ciphertext) # "none"

(***************************************************************************)
(* Replay identities.  The digests are what they are taken of.             *)
(***************************************************************************)
ReplayKey(event, message) ==
    [event |-> event, connection |-> message.client,
     request |-> <<message.client, message.id>>, digest |-> message]

\* MycReplayBoundNip46Request::classify_against
classify_against(candidate, retained) ==
    LET same_request == /\ candidate.connection = retained.connection
                        /\ candidate.request = retained.request
        same_bytes == candidate.digest = retained.digest
    IN  CASE candidate.event = retained.event ->
                IF same_request /\ same_bytes THEN "DuplicateEvent" ELSE "ConflictingEventReuse"
          [] candidate.event # retained.event /\ same_request ->
                IF same_bytes THEN "ExactRequestReplay" ELSE "ConflictingRequestReuse"
          [] OTHER -> "DistinctRequest"

(***************************************************************************)
(* The references.                                                         *)
(***************************************************************************)
\* An escape begins at every backslash with an even run of backslashes before it.
EscapeAt(body, i) ==
    /\ body[i] = "backslash"
    /\ LET run == {k \in 0..(i - 1) : \A j \in (i - k)..(i - 1) : body[j] = "backslash"}
       IN  (CHOOSE k \in run : \A other \in run : other <= k) % 2 = 0

UnicodeAt(body, i) == i \in DOMAIN body /\ EscapeAt(body, i) /\ i < Len(body) /\ body[i + 1] = "u"
UnitAt(body, i) == IF UnicodeAt(body, i) THEN parse_hex_u16(body, i + 2) ELSE Refused

WellFormed(body) ==
    \A i \in DOMAIN body :
        /\ body[i] # "control"
        /\ body[i] = "quote" => i > 1 /\ EscapeAt(body, i - 1)
        /\ EscapeAt(body, i) => i < Len(body) /\ body[i + 1] \in SimpleEscapes \cup {"u"}
        /\ UnicodeAt(body, i) =>
            /\ UnitAt(body, i) # Refused
            /\ IsHigh(UnitAt(body, i)) => IsLow(UnitAt(body, i + 6))
            /\ IsLow(UnitAt(body, i)) => i > 6 /\ IsHigh(UnitAt(body, i - 6))

\* What position i of the text adds to the decoded string: a pair of surrogates
\* adds its four bytes where it begins, and the rest of an escape nothing.
WidthAt(body, i) ==
    CASE UnicodeAt(body, i) -> IF IsHigh(UnitAt(body, i)) THEN 4
                               ELSE IF IsLow(UnitAt(body, i)) THEN 0 ELSE Utf8Width(UnitAt(body, i))
      [] EscapeAt(body, i) /\ ~UnicodeAt(body, i) -> 1
      [] \/ i > 1 /\ EscapeAt(body, i - 1)
         \/ \E k \in 2..5 : i > k /\ UnicodeAt(body, i - k) -> 0
      [] OTHER -> RawWidth(body[i])

\* The measured length of the text of a JSON string is the length it decodes to,
\* and a text is refused exactly when it is no JSON string.
MeasuredAsDecoded(body) ==
    decoded_json_string_utf8_bytes(<<"quote">> \o body \o <<"quote">>)
        = IF WellFormed(body) THEN Total([i \in DOMAIN body |-> WidthAt(body, i)]) ELSE Refused

Lengths(tags) == Total([i \in DOMAIN tags |-> Len(tags[i])])
Bytes(tags) == Total([i \in DOMAIN tags |-> Total(tags[i])])

Exceeds(tags, limits) ==
    [TooManyTags |-> Len(tags) > limits.tag_count,
     TooManyTagElements |-> Lengths(tags) > limits.tag_total_elements,
     TagElementTooLarge |-> \E i \in DOMAIN tags : \E k \in DOMAIN tags[i] :
                                tags[i][k] > limits.tag_element_bytes,
     TagsTooLarge |-> Bytes(tags) > limits.tag_total_bytes]

\* Tags are admitted with their true measure when they are within all four
\* limits, and a refusal names a limit they exceed.
TagsMeasured(tags, limits) ==
    LET r == measure_tags(tags, limits)
        exceeds == Exceeds(tags, limits)
    IN  IF r.error = "none"
        THEN /\ \A e \in DOMAIN exceeds : ~exceeds[e]
             /\ r.count = Len(tags) /\ r.elements = Lengths(tags) /\ r.bytes = Bytes(tags)
        ELSE exceeds[r.error]

ParametersMeasured(parameters, limits) ==
    LET r == measure_parameters(parameters, limits)
        within == /\ Len(parameters) <= limits.param_count /\ Total(parameters) <= limits.params_bytes
                  /\ \A i \in DOMAIN parameters : parameters[i] <= limits.param_bytes
    IN  /\ (r.error = "none") <=> within
        /\ within => r.count = Len(parameters) /\ r.bytes = Total(parameters)

\* NIP-44's padded length of a plaintext: up to 32 bytes 32, up to 256 the next
\* multiple of 32, above that of an eighth of the next power of two.
PaddedLength(length) ==
    LET chunk == IF length <= 256 THEN 32 ELSE NextPower(length) \div 8
    IN  chunk * ((length + chunk - 1) \div chunk)

Base64Length(bytes) == 4 * ((bytes + 2) \div 3)
FixedWire == 512      \* the rest of an event's JSON, at most

\* The event a conforming client makes of a plaintext of that length.
HonestEvent(scheme, length, authored) ==
    LET bytes == IF scheme = "nip04" THEN 16 * (length \div 16 + 1) ELSE 67 + PaddedLength(length)
        content == Base64Length(bytes) + (IF scheme = "nip04" THEN 28 ELSE 0)
    IN  [wire |-> content + FixedWire, wellformed |-> TRUE, id |-> 64, pubkey |-> 64, sig |-> 128,
         content |-> content, tags |-> << <<1, 64>> >>, canonical |-> TRUE, kind |-> 24133,
         sender |-> "client", recipients |-> <<"transport">>, authentic |-> TRUE,
         authored |-> authored,
         ciphertext |-> [markers |-> IF scheme = "nip04" THEN 1 ELSE 0, canonical |-> TRUE,
                         bytes |-> bytes, iv |-> 16, version |-> 2]]

\* The event of a conforming client is admitted and verified with its own scheme,
\* and its plaintext admitted, whatever the length NIP-44 has room for.
HonestPasses(scheme, length, authored, observed, policy, limits) ==
    LET event == HonestEvent(scheme, length, authored)
    IN  authored \in (observed - policy.past)..(observed + policy.future) =>
            /\ admit_event(event, limits) /\ verify_event(event, observed, policy)
            /\ verify_encryption_context(event.ciphertext) = scheme
            /\ admit_plaintext(length, limits)
=============================================================================
