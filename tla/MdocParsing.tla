---------------------------- MODULE MdocParsing ----------------------------
(***************************************************************************)
(* What is read of a credential, in mdoc_zk/mdoc/mod.rs, and what of it    *)
(* CircuitInputs::new gives to the hash circuit: where in the signed bytes *)
(* the circuit finds each entry.  A behaviour is one issuer-signed item or *)
(* one MobileSecurityObject, as it was issued or with one fault in it.     *)
(*                                                                         *)
(* A CBOR encoding is a sequence of headers with their bodies, each a      *)
(* record of its kind, of what it names or counts and of how many bytes it *)
(* has.  The kinds are positive, negative, simple, tag, text, bytes,       *)
(* array, map, break, and text_open and bytes_open for a string whose      *)
(* segments follow.  Strings and numbers are names; an array or a map      *)
(* counts its items or entries, or is Open; a tag has its number.          *)
(***************************************************************************)
EXTENDS Integers, FiniteSetsExt, SequencesExt

CONSTANTS
    IssuedItems,     \* well-formed items: their headers, and the entries they were made of
    IssuedObjects,   \* MobileSecurityObjects, as headers
    MaxPreimage,     \* the longest preimage that fits the circuit's SHA-256 blocks
    DebugBuild       \* whether debug assertions are compiled in

VARIABLES
    reading,         \* where the reading is
    issued,          \* what was issued
    stream,          \* the headers that are read
    parsed,          \* the ParsedAttribute, or the MobileSecurityObject with its offsets
    witness          \* what the circuit is given

parsing_vars == <<reading, issued, stream, parsed, witness>>

-----------------------------------------------------------------------------
(* CBOR, and the functions that read it.                                   *)

Open == -1

Named(kind, value, width) == [kind |-> kind, value |-> value, count |-> 0, width |-> width]
Counted(kind, count, width) == [kind |-> kind, value |-> "", count |-> count, width |-> width]

Text == {"text", "text_open"}
Bytes == {"bytes", "bytes_open"}

\* What is left to skip of an item: so many items, or those up to a break: of an array, of a
\* map where a key or where a value comes next, or of a string.
OpenArray == -1
OpenKey == -2
OpenValue == -3
TextSegments == -4
BytesSegments == -5

Contents(h) ==
    CASE h.kind = "tag" -> 1
      [] h.kind = "array" -> IF h.count = Open THEN OpenArray ELSE h.count
      [] h.kind = "map" -> IF h.count = Open THEN OpenKey ELSE 2 * h.count
      [] h.kind = "text_open" -> TextSegments
      [] h.kind = "bytes_open" -> BytesSegments
      [] OTHER -> 0

Remaining(n) ==
    CASE n > 0 -> n - 1
      [] n = OpenKey -> OpenValue
      [] n = OpenValue -> OpenKey
      [] OTHER -> n

\* The position after n items that begin at k, or 0 where the data end too early or a break
\* comes where none may.  No position is 0, and an error stays one.
skip_body(s) ==
    LET after[k \in 0..(Len(s) + 1), n \in Int] ==
          IF n = 0 \/ k = 0 THEN k
          ELSE IF k > Len(s) THEN 0
          ELSE IF s[k].kind = "break" THEN IF n < 0 /\ n # OpenValue THEN k + 1 ELSE 0
          ELSE IF n = TextSegments /\ s[k].kind \notin Text THEN 0
          ELSE IF n = BytesSegments /\ s[k].kind \notin Bytes THEN 0
          ELSE after[after[k + 1, Contents(s[k])], Remaining(n)]
    IN  after

\* Decoder::offset where position k is next.
offset(s, k) ==
    LET sum[n \in 0..Len(s)] == IF n = 0 THEN 0 ELSE sum[n - 1] + s[n].width
    IN  sum[k - 1]

\* What the string or the number at k says: slurp_string, slurp_bytes.
slurp(s, k) ==
    IF s[k].kind \in {"text", "bytes", "positive", "negative"} THEN s[k].value
    ELSE IF s[k].kind \notin {"text_open", "bytes_open"} THEN "no string"
    ELSE LET segments == SelectSeq(SubSeq(s, k + 1, skip_body(s)[k, 1] - 1),
                                   LAMBDA h : h.kind \in {"text", "bytes"})
         IN  FoldLeft(LAMBDA said, segment : said \o segment.value, "", segments)

Failed == [end |-> 0, entries |-> <<>>]

\* The entries of a map whose keys are of these kinds, from position k, and the position
\* after them: parse_map, when its callback reads the value it is given.
parse_map(s, keys) ==
    LET after == skip_body(s)
        from[k \in 1..(Len(s) + 1), len \in Int] ==
          IF len = 0 THEN [end |-> k, entries |-> <<>>]
          ELSE IF k > Len(s) THEN Failed
          ELSE IF s[k].kind = "break"
               THEN IF len = Open THEN [end |-> k + 1, entries |-> <<>>] ELSE Failed
          ELSE LET value == after[k, 1]
                   end == after[value, 1]
                   rest == from[end, IF len = Open THEN Open ELSE len - 1]
               IN  IF s[k].kind \notin keys \/ end = 0 \/ rest.end = 0 THEN Failed
                   ELSE [end |-> rest.end,
                         entries |-> << [key |-> slurp(s, k), at |-> k, value |-> value,
                                         end |-> end] >> \o rest.entries]
    IN  from

-----------------------------------------------------------------------------
(* What an issuer encodes.                                                 *)

Unread == [kind |-> "none"]

ParsingInit ==
    /\ reading = "unread" /\ issued = Unread
    /\ stream = <<>> /\ parsed = Unread /\ witness = Unread

\* An issuer's encoder may have one fault: a header too many, too few or misplaced, a key
\* that comes again, or a wrong length.
Recounted(h, d) ==
    IF h.kind \in {"map", "array"} /\ h.count >= 1 THEN [h EXCEPT !.count = @ + d] ELSE h

Encodings(s) ==
    {s} \cup {RemoveAt(s, k) : k \in DOMAIN s}
        \cup {InsertAt(s, k, s[k]) : k \in DOMAIN s}
        \cup {[s EXCEPT ![k] = s[k + 1], ![k + 1] = s[k]] : k \in 1..(Len(s) - 1)}
        \cup {[s EXCEPT ![k].value = s[k + 2].value] : k \in {k \in 1..(Len(s) - 2) : s[k].kind = s[k + 2].kind}}
        \cup {[s EXCEPT ![k] = Recounted(@, d)] : k \in DOMAIN s, d \in {-1, 1}}

issue ==
    /\ reading = "unread"
    /\ \/ reading' = "item" /\ issued' \in IssuedItems
       \/ reading' = "object" /\ issued' \in IssuedObjects
    /\ stream' \in Encodings(issued'.headers)
    /\ UNCHANGED <<parsed, witness>>

-----------------------------------------------------------------------------
(* find_attributes, for one item.                                          *)

AnyItem == {"positive", "negative", "simple", "tag", "array", "map"} \cup Text \cup Bytes

Keys == {"digestID", "random", "elementIdentifier", "elementValue"}

KindsOf(key) ==
    CASE key = "digestID" -> {"positive"}
      [] key = "random" -> Bytes
      [] key = "elementIdentifier" -> Text
      [] OTHER -> AnyItem

\* Where an entry is, how many bytes it has, and its value.
KeyValueData(s, e) ==
    [offset |-> offset(s, e.at), length |-> offset(s, e.end) - offset(s, e.at),
     value |-> SubSeq(s, e.value, e.end - 1)]

IsMap(s) == s # <<>> /\ s[1].kind = "map"

\* A map whose entries are the four, each once and of its kind, and nothing after it.  An
\* item without an identifier is read but never found.
ParsedItem(s) ==
    IF ~IsMap(s) THEN {}
    ELSE LET map == parse_map(s, Text)[2, s[1].count]
             es == map.entries
         IN  IF /\ map.end = Len(s) + 1
                /\ \A n \in DOMAIN es : es[n].key \in Keys /\ s[es[n].value].kind \in KindsOf(es[n].key)
                /\ \A n, k \in DOMAIN es : es[n].key = es[k].key => n = k
                /\ {es[n].key : n \in DOMAIN es} = Keys
             THEN {[key \in Keys |->
                       KeyValueData(s, CHOOSE e \in ToSet(es) : e.key = key)]}
             ELSE {}

find_attribute ==
    /\ reading = "item"
    /\ IF ParsedItem(stream) = {} THEN reading' = "refused" /\ UNCHANGED parsed
       ELSE reading' = "found" /\ parsed' \in ParsedItem(stream)
    /\ UNCHANGED <<issued, stream, witness>>

-----------------------------------------------------------------------------
(* CircuitInputs::new, for one attribute.                                  *)

\* The tag and byte string headers before an item in what is hashed, and what they are taken
\* to be.
PrefixLength(width) == IF width < 24 THEN 3 ELSE IF width < 256 THEN 4 ELSE 5
ENCODED_CBOR_PREFIX_LENGTH == 4

ELEMENT_IDENTIFIER_KEY_SERIALIZED_LENGTH == 18

Width(s) == offset(s, Len(s) + 1)

\* write_attribute_witness_common, as far as it may end the call.
Hashed(s) ==
    IF DebugBuild /\ PrefixLength(Width(s)) # ENCODED_CBOR_PREFIX_LENGTH THEN "panicked"
    ELSE IF PrefixLength(Width(s)) + Width(s) > MaxPreimage THEN "refused" ELSE "witnessed"

\* The identifier must be followed by the value; its value is taken to begin after a key of
\* 18 bytes.
attribute_witness_v6 ==
    /\ reading = "found"
    /\ LET id == parsed["elementIdentifier"]
       IN  IF id.offset + id.length # parsed["elementValue"].offset
           THEN reading' = "refused" /\ UNCHANGED witness
           ELSE /\ reading' = Hashed(stream)
                /\ witness' = [kind |-> "v6", cbor_data_offset |->
                     id.offset + ELEMENT_IDENTIFIER_KEY_SERIALIZED_LENGTH + ENCODED_CBOR_PREFIX_LENGTH]
    /\ UNCHANGED <<issued, stream, parsed>>

\* Faulty variant of KeysInOrder: the entries are left in the order of the array.
KeysInOrder_unsorted(p) == <<"digestID", "random", "elementIdentifier", "elementValue">>

\* The four entries by their offsets.
KeysInOrder(p) == SetToSortSeq(Keys, LAMBDA a, b : p[a].offset < p[b].offset)

\* The entries are sorted; the first must be where the circuit takes it to be.
attribute_witness_v7 ==
    /\ reading = "found"
    /\ LET keys == KeysInOrder(parsed)
       IN  IF Hashed(stream) = "witnessed" /\ parsed[keys[1]].offset + ENCODED_CBOR_PREFIX_LENGTH # 5
           THEN reading' = "refused" /\ UNCHANGED witness
           ELSE /\ reading' = Hashed(stream)
                /\ witness' = [kind |-> "v7",
                     kv_offsets |-> [n \in 1..4 |-> parsed[keys[n]].offset + ENCODED_CBOR_PREFIX_LENGTH],
                     kv_lengths |-> [n \in 1..4 |-> parsed[keys[n]].length],
                     kv_order |-> [key \in Keys |-> CHOOSE n \in 1..4 : keys[n] = key]]
    /\ UNCHANGED <<issued, stream, parsed>>

-----------------------------------------------------------------------------
(* parse_mso.                                                              *)

Entries(s, at) == IF s[at].kind = "map" THEN parse_map(s, Text)[at + 1, s[at].count] ELSE Failed
DigestEntries(s, at) ==
    IF s[at].kind = "map" THEN parse_map(s, {"positive"})[at + 1, s[at].count] ELSE Failed

\* The entries with this key, in the order they are read; and those of the maps they hold.
Of(es, key) == SelectSeq(es, LAMBDA e : e.key = key)
Within(s, es) == FlattenSeq([n \in DOMAIN es |-> Entries(s, es[n].value).entries])

AreMaps(s, es) == \A e \in ToSet(es) : Entries(s, e.value).end # 0

\* parse_tdate
IsTdate(s, at) == s[at].kind = "tag" /\ s[at].count = 0 /\ s[at + 1].kind \in Text

\* CoseKey: of another type, or with one of the four twice, it is no key.
CoseKeyLabels == {"kty", "crv", "x", "y"}

IsCoseKey(s, at) ==
    LET es == IF s[at].kind = "map" THEN parse_map(s, {"positive", "negative"} \cup Text)[at + 1, s[at].count].entries
              ELSE <<>>
    IN  /\ \A label \in CoseKeyLabels : Len(Of(es, label)) = 1
        /\ \A e \in ToSet(es) :
             /\ e.key \in {"x", "y"} => s[e.value].kind \in Bytes
             /\ e.key = "kty" => slurp(s, e.value) = "EC2"
             /\ e.key = "crv" => slurp(s, e.value) = "P256"

\* DeviceKeyInfo, parsed once more: each of its keys must be one, or a byte string around one.
HoldsDeviceKey(s, e) ==
    LET es == IF s[e.value].kind = "map" THEN parse_map(s, AnyItem)[e.value + 1, s[e.value].count].entries
              ELSE <<>>
        device_keys == SelectSeq(Of(es, "deviceKey"), LAMBDA k : s[k.at].kind \in Text)
    IN  /\ device_keys # <<>>
        /\ \A k \in ToSet(device_keys) : s[k.value].kind \in Bytes \/ IsCoseKey(s, k.value)

\* Faulty variant of OncePerKey: an entry that comes again takes the place of the first.
OncePerKey_last(es) == TRUE

OncePerKey(es) == \A n, k \in DOMAIN es : es[n].key = es[k].key => n = k

\* parse_value_digests: a namespace may come once only, and in it a digest.
AreDigests(s, spaces) ==
    /\ OncePerKey(spaces)
    /\ \A space \in ToSet(spaces) :
         LET digests == DigestEntries(s, space.value)
         IN  /\ digests.end # 0 /\ OncePerKey(digests.entries)
             /\ \A d \in ToSet(digests.entries) : s[d.value].kind \in Bytes

DigestItems(s, spaces) ==
    UNION {{[namespace |-> space.key, id |-> d.key, offset |-> offset(s, d.value),
             value |-> slurp(s, d.value)] : d \in ToSet(DigestEntries(s, space.value).entries)} :
               space \in ToSet(spaces)}

\* Faulty variant of Dated: the offset of the value is recorded.
Dated_value(s, e) == [offset |-> offset(s, e.value), value |-> slurp(s, e.value + 1)]

Dated(s, e) == [offset |-> offset(s, e.at), value |-> slurp(s, e.value + 1)]

\* Of entries that come twice the last counts; digests are put together.
ParsedObject(s) ==
    LET es == IF IsMap(s) THEN Entries(s, 1).entries ELSE <<>>
        key_infos == Of(es, "deviceKeyInfo")
        digests == Of(es, "valueDigests")
        validities == Of(es, "validityInfo")
        from == Of(Within(s, validities), "validFrom")
        until == Of(Within(s, validities), "validUntil")
    IN  IF /\ IsMap(s) /\ Entries(s, 1).end = Len(s) + 1
           /\ <<>> \notin {key_infos, digests, from, until}
           /\ AreMaps(s, validities \o digests)
           /\ \A e \in ToSet(key_infos) : HoldsDeviceKey(s, e)
           /\ \A e \in ToSet(from \o until) : IsTdate(s, e.value)
           /\ AreDigests(s, Within(s, digests))
        THEN {[valid_from |-> Dated(s, Last(from)), valid_until |-> Dated(s, Last(until)),
               device_key_info |-> offset(s, Last(key_infos).at),
               value_digests |-> offset(s, Last(digests).at),
               value_digests_items |-> DigestItems(s, Within(s, digests))]}
        ELSE {}

parse_mso ==
    /\ reading = "object"
    /\ IF ParsedObject(stream) = {} THEN reading' = "refused" /\ UNCHANGED parsed
       ELSE reading' = "parsed" /\ parsed' \in ParsedObject(stream)
    /\ UNCHANGED <<issued, stream, witness>>

ParsingNext == issue \/ find_attribute \/ attribute_witness_v6 \/ attribute_witness_v7 \/ parse_mso

-----------------------------------------------------------------------------
(* Properties.                                                             *)

\* Where an offset is, in headers.
PositionOf(s, at) == {k \in DOMAIN s : offset(s, k) = at}

BeginsWithKey(s, at, key) == \E k \in PositionOf(s, at) : s[k].kind \in Text /\ slurp(s, k) = key

BeginsWith(s, at, value) == \E k \in PositionOf(s, at) : SubSeq(s, k, k + Len(value) - 1) = value

\* The four entries are one next to another, from the map's header to its end.
EntriesTile(s, p) ==
    LET keys == SetToSortSeq(Keys, LAMBDA a, b : p[a].offset < p[b].offset)
        end(n) == p[keys[n]].offset + p[keys[n]].length
    IN  /\ p[keys[1]].offset = s[1].width
        /\ \A n \in 1..3 : p[keys[n + 1]].offset = end(n)
        /\ end(4) = Width(s) - IF s[1].count = Open THEN 1 ELSE 0
        /\ \A key \in Keys : BeginsWithKey(s, p[key].offset, key)

\* What version 7 gives the circuit says where each of the entries is and which it is, in
\* what is hashed.
WitnessTiles(w, s, p) ==
    /\ w.kv_offsets[1] = PrefixLength(Width(s)) + 1
    /\ \A n \in 1..3 : w.kv_offsets[n + 1] = w.kv_offsets[n] + w.kv_lengths[n]
    /\ \A key \in Keys :
         /\ w.kv_offsets[w.kv_order[key]] = p[key].offset + PrefixLength(Width(s))
         /\ w.kv_lengths[w.kv_order[key]] = p[key].length

\* And version 6 where the identifier itself is, if its key is encoded as is usual.
IdentifierIsThere(w, s, p) ==
    LET at == p["elementIdentifier"].offset
    IN  \/ BeginsWith(s, w.cbor_data_offset - PrefixLength(Width(s)), p["elementIdentifier"].value)
        \/ \E k \in PositionOf(s, at) : s[k].width # ELEMENT_IDENTIFIER_KEY_SERIALIZED_LENGTH

DatesAndDigestsAreThere(s, p) ==
    /\ \A date \in {"valid_from", "valid_until"} :
         \E k \in PositionOf(s, p[date].offset) :
            /\ slurp(s, k) = IF date = "valid_from" THEN "validFrom" ELSE "validUntil"
            /\ LET value == skip_body(s)[k, 1]
               IN  s[value].kind = "tag" /\ slurp(s, value + 1) = p[date].value
    /\ BeginsWithKey(s, p.device_key_info, "deviceKeyInfo")
    /\ BeginsWithKey(s, p.value_digests, "valueDigests")
    /\ \A d \in p.value_digests_items :
         /\ \E k \in PositionOf(s, d.offset) : s[k].kind \in Bytes /\ slurp(s, k) = d.value
         /\ \A c \in p.value_digests_items : c.namespace = d.namespace /\ c.id = d.id => c = d

\* find_attributes and parse_mso read what was issued, in every order of the entries and
\* every form of their encoding; and whatever they accept, well made or not, each offset
\* CircuitInputs::new hands on is that of what the circuit looks for there.  A debug build
\* panics at no item that a release build would not refuse.
ItemsAreRead ==
    /\ reading \in {"found", "witnessed", "panicked"} => EntriesTile(stream, parsed)
    /\ reading \notin {"unread", "item", "object"} /\ stream = issued.headers => parsed # Unread
    /\ reading \notin {"unread", "item", "object"} /\ stream = issued.headers /\ issued.kind = "item" =>
         \A key \in Keys : parsed[key].value = issued.entries[key]
    /\ reading = "witnessed" =>
         IF witness.kind = "v7" THEN WitnessTiles(witness, stream, parsed)
         ELSE IdentifierIsThere(witness, stream, parsed)
    /\ reading = "parsed" => DatesAndDigestsAreThere(stream, parsed)
    /\ reading = "panicked" => PrefixLength(Width(stream)) + Width(stream) > MaxPreimage
=============================================================================
